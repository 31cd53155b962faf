--------------------------- MODULE Settled_proofs ---------------------------
(***************************************************************************)
(* Proofs that a call of the user ends in a legal configuration: dispatch  *)
(* returns false only when every composite state below the one it was      *)
(* called on is in a real substate, and Statechart::dispatch goes on until *)
(* that is so for the whole chart.  The second half is about what a call   *)
(* reports, what one event may fire, and what a call leaves to be fired.   *)
(***************************************************************************)
EXTENDS Configuration_proofs

\* No composite state without a start state is restored.
RestorableEnterable ==
    \A s \in Restorable : Kind[s] = "Hierarchical" => StartState[s] # Null

\* Every active or-state from s downwards is in a substate that is no
\* pseudo-state.
Settled(m, s) ==
    \A h \in m.active : (OrState(h) /\ Above(s, h)) =>
        m.current[h] # Null /\ ~IsPseudo(m.current[h])

(***************************************************************************)
(* Calls that wait for the result of a dispatch.                           *)
(***************************************************************************)
CallerOps == {"dispatch", "substate", "bubble", "regions"}
ReturnOps == {"bubble", "regions", "loop"}

\* g waits for the result of f.
CallOf(f, g) ==
    /\ f.op \in CallerOps
    /\ g.op = "bubble" => Parent[f.x] = g.x
    /\ g.op = "loop" => Parent[f.x] = Root
    /\ g.op = "regions" => /\ g.k - 1 \in DOMAIN Regions[g.x]
                           /\ f.x = Regions[g.x][g.k - 1]

\* Besides, only the loop of Transition::execute returns to such a call, and
\* its result is true.
Returns(f, g) == g.op \in ReturnOps => f.op = "enter" \/ CallOf(f, g)

Adjacent(stack) == \A i \in 1 .. Len(stack) - 1 : Returns(stack[i], stack[i + 1])

Region(r) == r \in States \ {Root} /\ Kind[Parent[r]] = "Concurrent"

\* The call f stays within the region r.
StaysIn(f, r) ==
    \/ f.op = "call"
    \/ f.op = "enter" /\ Above(r, Source[f.x])
    \/ f.op \notin {"call", "enter"} /\ Above(r, f.x)

\* f may be pending above g: while a region runs, no other one is disturbed,
\* and a composite state dispatches once its start state has been entered.
FlowsAbove(f, g) ==
    /\ g.op = "regions" => /\ g.k - 1 \in DOMAIN Regions[g.x]
                           /\ StaysIn(f, Regions[g.x][g.k - 1])
    /\ g.op = "substate" => /\ f.op \in {"activate", "call", "entered"}
                            /\ f.x = StartState[g.x]

Focused(stack) == \A i, j \in DOMAIN stack : i < j => FlowsAbove(stack[i], stack[j])

\* What a pending call may rely on.
WaitingOK(m, f) ==
    /\ f.op \in {"substate", "bubble"} => Kind[f.x] = "Hierarchical"
    /\ f.op = "substate" => f.x \in m.active /\ m.current[f.x] # Null
    /\ f.op \in {"chart", "loop"} => f.x = Root /\ Root \in m.active
    /\ f.op = "regions" => Kind[f.x] = "Concurrent" /\ f.k > 0
    /\ f.op = "regions" /\ ~f.b =>
          \A j \in DOMAIN Regions[f.x] :
              (j < f.k - 1 /\ Regions[f.x][j] # Regions[f.x][f.k - 1])
                  => Settled(m, Regions[f.x][j])

\* What the call f on top may rely on when the last call has returned rc: if
\* a dispatch returned false, the states below have settled.
ResultOK(m, f, rc) ==
    /\ (f.op = "bubble" /\ ~rc) => f.x \in m.active /\ Settled(m, f.x)
    /\ (f.op = "regions" /\ ~rc /\ ~f.b) =>
          /\ f.x \in m.active
          /\ \A j \in DOMAIN Regions[f.x] : j < f.k => Settled(m, Regions[f.x][j])
    /\ (f.op = "loop" /\ ~rc) => Settled(m, Root)

\* An event goes to active states.
TopOK(m, stack, rc) ==
    stack # <<>> =>
        /\ ResultOK(m, stack[1], rc)
        /\ (stack[1].op = "dispatch" /\ Len(stack) > 1 /\ stack[2].op \in ReturnOps)
              => stack[1].x \in m.active

\* An or-state that does not enter a start state by itself.
NeedsSubstate(h) == OrState(h) /\ (h = Root \/ StartState[h] = Null)

\* f will enter a substate of h.
WillEnter(f, h) ==
    \/ f.op = "activate" /\ f.x # Root /\ Parent[f.x] = h
    \/ f.op = "enter" /\ \E i \in DOMAIN Activates[f.x] :
                            f.k \in 1 .. i /\ Parent[Activates[f.x][i]] = h

\* Such a state has a substate, or it is on the way.
SubstatesKnown(m, F) ==
    \A h \in States : NeedsSubstate(h) =>
        /\ (h \in m.active /\ m.current[h] = Null) => \E g \in F : WillEnter(g, h)
        /\ (\E f \in F : f.op = "activate" /\ f.x = h) => \E g \in F : WillEnter(g, h)

WaitsOK(m, F) == \A f \in F : WaitingOK(m, f)

FlowOK(m, stack, rc) ==
    /\ Adjacent(stack) /\ Focused(stack)
    /\ WaitsOK(m, ElementsOf(stack))
    /\ TopOK(m, stack, rc)
    /\ SubstatesKnown(m, ElementsOf(stack))

Flow ==
    /\ FlowOK(md, agenda, ret)
    /\ outcome = "done" => Settled(md, Root)

FlowInv == Trusted => Flow

(***************************************************************************)
(* Settled states.                                                         *)
(***************************************************************************)
\* The child of a state on the way to another state inside it.
LEMMA ChildOnPath ==
    ASSUME StructuredChart, NEW a \in States, NEW s \in States, Inside(s, a)
    PROVE  \E c \in States \ {Root} :
              /\ Parent[c] = a /\ Above(c, s)
              /\ Kind[a] \in {"Statechart", "Hierarchical", "Concurrent"}
<1>1. /\ Depth(a) \in 1 .. Depth(s) /\ Path[s][Depth(a)] = a /\ Depth(a) # Depth(s)
      /\ Depth(s) \in Nat
  BY AboveDepth, PathEnd DEF Inside
<1> DEFINE i == Depth(a) + 1
           c == Path[s][i]
<1>2. i \in 1 .. Depth(s) /\ Depth(a) \in 1 .. Depth(s) /\ Depth(a) < i /\ i - 1 = Depth(a)
  BY <1>1
<1> HIDE DEF i
<1>3. c \in States \ {Root} /\ Parent[c] = Path[s][i - 1] /\ Above(c, s)
  BY <1>2, PathStep
<1>4. Parent[c] = a
  BY <1>1, <1>2, <1>3
<1>5. Kind[a] \in {"Statechart", "Hierarchical", "Concurrent"}
  BY <1>3, <1>4, ChartPaths
<1> QED BY <1>3, <1>4, <1>5

\* In a complete configuration the child on the way to an active state of an
\* or-state is its current state.
LEMMA CurrentOnPath ==
    ASSUME StructuredChart, NEW m, ContextsOK(m), CurrentOK(m), NEW h \in States, OrState(h),
           NEW s \in m.active, s \in States, Solid(s), Inside(s, h)
    PROVE  Above(m.current[h], s) /\ m.current[h] \in States
<1>1. PICK c \in States \ {Root} :
        /\ Parent[c] = h /\ Above(c, s)
  BY ChildOnPath
<1>2. c \in m.active
  BY <1>1 DEF ContextsOK
<1>3. CASE c = s
  BY <1>1, <1>2, <1>3 DEF CurrentOK
<1>4. CASE c # s
  <2>1. PICK d \in States \ {Root} : Parent[d] = c
    BY <1>1, <1>4, ChildOnPath DEF Inside
  <2>2. Solid(c)
    BY <2>1, Family DEF Solid
  <2> QED BY <1>1, <1>2, <2>2 DEF CurrentOK
<1> QED BY <1>3, <1>4

LEMMA OrStateSolid ==
    ASSUME NEW h, OrState(h)
    PROVE  Solid(h)
BY DEF OrState, Solid, IsHistory, HistoryKinds

\* An or-state settles with its current state.
LEMMA SettledParent ==
    ASSUME StructuredChart, NEW m, m.active \subseteq States, ContextsOK(m), CurrentOK(m),
           NEW h \in States, OrState(h), m.current[h] # Null, ~IsPseudo(m.current[h]),
           Settled(m, m.current[h])
    PROVE  Settled(m, h)
<1> SUFFICES ASSUME NEW s \in m.active, OrState(s), Above(h, s)
             PROVE  m.current[s] # Null /\ ~IsPseudo(m.current[s])
  BY DEF Settled
<1>1. CASE s = h
  BY <1>1
<1>2. CASE s # h
  <2>1. Above(m.current[h], s)
    BY <1>2, OrStateSolid, CurrentOnPath DEF Inside
  <2> QED BY <2>1 DEF Settled
<1> QED BY <1>1, <1>2

\* A state without substates has nothing to settle.
LEMMA SettledLeaf ==
    ASSUME StructuredChart, NEW m, m.active \subseteq States, NEW s \in States,
           Kind[s] \notin {"Statechart", "Hierarchical", "Concurrent"}
    PROVE  Settled(m, s)
<1> SUFFICES ASSUME NEW h \in m.active, OrState(h), Above(s, h) PROVE FALSE
  BY DEF Settled
<1>1. h # s
  BY DEF OrState
<1>2. Inside(h, s)
  BY <1>1 DEF Inside
<1> QED BY <1>2, ChildOnPath

\* An and-state settles with its regions.
LEMMA SettledRegions ==
    ASSUME StructuredChart, NEW m, m.active \subseteq States, NEW c \in States,
           Kind[c] = "Concurrent",
           \A j \in DOMAIN Regions[c] : Settled(m, Regions[c][j])
    PROVE  Settled(m, c)
<1> SUFFICES ASSUME NEW h \in m.active, OrState(h), Above(c, h)
             PROVE  m.current[h] # Null /\ ~IsPseudo(m.current[h])
  BY DEF Settled
<1>1. Inside(h, c)
  BY DEF OrState, Inside
<1>2. PICK r \in States \ {Root} : Parent[r] = c /\ Above(r, h)
  BY <1>1, ChildOnPath
<1>3. r \in ElementsOf(Regions[c])
  BY <1>2, Family
<1>4. PICK j \in DOMAIN Regions[c] : r = Regions[c][j]
  BY <1>3 DEF ElementsOf
<1> QED BY <1>2, <1>4 DEF Settled

\* The map outside the region the call f stays in does not change.
SameOutside(m, n, r) ==
    \A h \in States : (OrState(h) /\ ~Above(r, h)) =>
        (h \in n.active <=> h \in m.active) /\ n.current[h] = m.current[h]

Local(m, n, f) == \A r \in States : (Region(r) /\ StaysIn(f, r)) => SameOutside(m, n, r)

\* Sibling regions do not share states.
LEMMA SettledSibling ==
    ASSUME NEW m, NEW n, n.active \subseteq States,
           NEW r \in States, NEW q \in States, Region(r), Region(q), r # q,
           Parent[r] = Parent[q], SameOutside(m, n, r), Settled(m, q)
    PROVE  Settled(n, q)
<1> SUFFICES ASSUME NEW h \in n.active, OrState(h), Above(q, h)
             PROVE  n.current[h] # Null /\ ~IsPseudo(n.current[h])
  BY DEF Settled
<1>1. Depth(r) = Depth(q)
  <2>1. /\ Depth(Parent[r]) = Depth(r) - 1 /\ Depth(r) \in Nat
        /\ Depth(Parent[q]) = Depth(q) - 1 /\ Depth(q) \in Nat
    BY ParentPath DEF Region
  <2> QED BY <2>1
<1>2. ~Above(r, h)
  BY <1>1, AboveUnique
<1>3. h \in m.active /\ n.current[h] = m.current[h]
  BY <1>2 DEF SameOutside
<1> QED BY <1>3 DEF Settled

LEMMA LocalSame ==
    ASSUME NEW m, NEW n, n.active = m.active, n.current = m.current, NEW f
    PROVE  Local(m, n, f)
BY DEF Local, SameOutside

\* One state has changed.
Touches(m, n, x) ==
    /\ \A h \in States : h # x => (h \in n.active <=> h \in m.active)
    /\ \A h \in States : (h # x /\ h # Parent[x]) => n.current[h] = m.current[h]

LEMMA LocalTouch ==
    ASSUME StructuredChart, NEW m, NEW n, NEW x \in States, Touches(m, n, x), NEW f,
           \A r \in States : (Region(r) /\ StaysIn(f, r)) => Above(r, x)
    PROVE  Local(m, n, f)
<1> SUFFICES ASSUME NEW r \in States, Region(r), StaysIn(f, r),
                    NEW h \in States, OrState(h), ~Above(r, h)
             PROVE  (h \in n.active <=> h \in m.active) /\ n.current[h] = m.current[h]
  BY DEF Local, SameOutside
<1>1. Above(r, x)
  OBVIOUS
<1>2. h # x
  BY <1>1
<1>3. h # Parent[x]
  <2>1. SUFFICES ASSUME h = Parent[x] PROVE FALSE
    OBVIOUS
  <2>2. x # r
    BY <2>1 DEF Region, OrState
  <2>3. x # Root
    BY <1>1, <2>2, RootPath
  <2>4. Inside(x, r)
    BY <1>1, <2>2 DEF Inside
  <2>5. \A a : Inside(x, a) <=> Above(a, Parent[x])
    BY <2>3, ParentPath
  <2>6. Inside(x, r) <=> Above(r, Parent[x])
    BY <2>5
  <2>7. ~Above(r, Parent[x])
    BY <2>1
  <2> QED BY <2>4, <2>6, <2>7
<1> QED BY <1>2, <1>3 DEF Touches

(***************************************************************************)
(* Replacing the call on top of the stack q by the calls in s.             *)
(***************************************************************************)
\* The calls of the new stack, from the top.
LEMMA NewStack ==
    ASSUME NEW q \in Seq(Task), q # <<>>, NEW s \in Seq(Task)
    PROVE  LET r == s \o Tail(q) IN
           /\ r \in Seq(Task) /\ DOMAIN r = 1 .. Len(r) /\ Len(r) \in Nat
           /\ \A i \in DOMAIN r :
                 \/ i \in DOMAIN s /\ r[i] = s[i]
                 \/ /\ i \notin DOMAIN s /\ i - Len(s) + 1 \in DOMAIN q
                    /\ i - Len(s) + 1 > 1
                    /\ r[i] = q[i - Len(s) + 1] /\ r[i] \in ElementsOf(Tail(q))
           /\ ElementsOf(r) = ElementsOf(s) \cup ElementsOf(Tail(q))
           /\ s # <<>> => r # <<>> /\ r[1] = s[1] /\ Head(r) = s[1]
           /\ s = <<>> => r = Tail(q)
<1> DEFINE r == s \o Tail(q)
<1>1. /\ r \in Seq(Task) /\ Len(r) = Len(s) + Len(q) - 1
      /\ \A i \in 1 .. Len(r) : r[i] = IF i <= Len(s) THEN s[i] ELSE q[i - Len(s) + 1]
  BY PushElements
<1>2. /\ Len(q) \in Nat /\ Len(q) >= 1 /\ Len(s) \in Nat /\ DOMAIN s = 1 .. Len(s)
      /\ DOMAIN q = 1 .. Len(q) /\ DOMAIN r = 1 .. Len(r) /\ Len(r) \in Nat
      /\ DOMAIN Tail(q) = 1 .. Len(q) - 1
      /\ \A i \in 1 .. Len(q) - 1 : Tail(q)[i] = q[i + 1]
  BY <1>1
<1>3. ElementsOf(r) = ElementsOf(s) \cup ElementsOf(Tail(q))
  BY PushFrames
<1>4. s = <<>> => r = Tail(q)
  OBVIOUS
<1> HIDE DEF r
<1>5. ASSUME NEW i \in DOMAIN r
      PROVE  \/ i \in DOMAIN s /\ r[i] = s[i]
             \/ /\ i \notin DOMAIN s /\ i - Len(s) + 1 \in DOMAIN q
                /\ i - Len(s) + 1 > 1
                /\ r[i] = q[i - Len(s) + 1] /\ r[i] \in ElementsOf(Tail(q))
  <2>1. CASE i <= Len(s)
    BY <1>1, <1>2, <2>1
  <2>2. CASE i > Len(s)
    <3>1. /\ i - Len(s) \in DOMAIN Tail(q) /\ i - Len(s) + 1 \in DOMAIN q
          /\ i - Len(s) + 1 > 1 /\ i \notin DOMAIN s
      BY <1>1, <1>2, <2>2
    <3>2. r[i] = q[i - Len(s) + 1]
      <4>1. i \in 1 .. Len(r) /\ ~(i <= Len(s))
        BY <1>2, <2>2
      <4> QED BY <1>1, <4>1
    <3>3. Tail(q)[i - Len(s)] = q[(i - Len(s)) + 1]
      <4>1. i - Len(s) \in 1 .. Len(q) - 1
        BY <1>2, <3>1
      <4> QED BY <1>2, <4>1
    <3>4. r[i] \in ElementsOf(Tail(q))
      BY <3>1, <3>2, <3>3 DEF ElementsOf
    <3> QED BY <3>1, <3>2, <3>4
  <2> QED BY <1>2, <2>1, <2>2
<1>6. s # <<>> => r # <<>> /\ r[1] = s[1] /\ Head(r) = s[1]
  <2>1. SUFFICES ASSUME s # <<>> PROVE r # <<>> /\ r[1] = s[1] /\ Head(r) = s[1]
    OBVIOUS
  <2>2. Len(s) >= 1 /\ Len(r) >= 1 /\ 1 \in 1 .. Len(r) /\ 1 <= Len(s)
    BY <1>1, <1>2, <2>1
  <2> QED BY <1>1, <2>2
<1> QED BY <1>1, <1>2, <1>3, <1>4, <1>5, <1>6, Zenon DEF r

\* The last of the new calls returns to the caller of the old one.
ReturnsAs(s, top) ==
    /\ Adjacent(s)
    /\ s # <<>> => \/ s[Len(s)].op = "enter"
                   \/ top.op \notin CallerOps \cup {"enter"}
                   \/ /\ top.op \in CallerOps
                      /\ s[Len(s)].op \in CallerOps /\ s[Len(s)].x = top.x

LEMMA AdjacentPush ==
    ASSUME NEW q \in Seq(Task), q # <<>>, Adjacent(q), NEW s \in Seq(Task),
           ReturnsAs(s, Head(q))
    PROVE  Adjacent(s \o Tail(q))
<1> DEFINE r == s \o Tail(q)
<1>1. /\ r \in Seq(Task) /\ Len(r) = Len(s) + Len(q) - 1
      /\ \A i \in 1 .. Len(r) : r[i] = IF i <= Len(s) THEN s[i] ELSE q[i - Len(s) + 1]
  BY PushElements
<1>2. /\ Len(q) \in Nat /\ Len(q) >= 1 /\ Len(s) \in Nat /\ Len(r) \in Nat /\ Head(q) = q[1]
  BY <1>1
<1> HIDE DEF r
<1>3. SUFFICES ASSUME NEW i \in 1 .. Len(r) - 1 PROVE Returns(r[i], r[i + 1])
  BY DEF Adjacent, r
<1>4. i \in 1 .. Len(r) /\ i + 1 \in 1 .. Len(r)
  BY <1>1, <1>2
<1>5. CASE i < Len(s)
  <2>1. i + 1 <= Len(s) /\ i <= Len(s) /\ i \in 1 .. Len(s) - 1
    BY <1>2, <1>5
  <2>2. r[i] = s[i] /\ r[i + 1] = s[i + 1]
    BY <1>1, <1>4, <2>1
  <2> QED BY <2>1, <2>2 DEF ReturnsAs, Adjacent
<1>6. CASE i > Len(s)
  <2>1. PICK j \in 1 .. Len(q) - 1 : j = i - Len(s) + 1
    BY <1>1, <1>2, <1>4, <1>6
  <2>2. r[i] = q[j] /\ r[i + 1] = q[j + 1]
    <3>1. i + 1 - Len(s) + 1 = j + 1 /\ ~(i <= Len(s)) /\ ~(i + 1 <= Len(s))
      BY <1>2, <1>6, <2>1
    <3>2. r[i] = q[i - Len(s) + 1] /\ r[i + 1] = q[i + 1 - Len(s) + 1]
      BY <1>1, <1>4, <3>1
    <3> QED BY <2>1, <3>1, <3>2
  <2> QED BY <2>2 DEF Adjacent
<1>7. CASE i = Len(s)
  <2>1. r[i] = s[Len(s)] /\ r[i + 1] = q[2] /\ 1 \in 1 .. Len(q) - 1 /\ s # <<>>
    BY <1>1, <1>2, <1>4, <1>7
  <2>2. Returns(q[1], q[2])
    BY <2>1 DEF Adjacent
  <2>3. CASE s[Len(s)].op = "enter"
    BY <2>1, <2>3 DEF Returns
  <2>4. CASE Head(q).op \notin CallerOps \cup {"enter"}
    BY <1>2, <2>1, <2>2, <2>4 DEF Returns, CallOf
  <2>5. CASE s[Len(s)].op \in CallerOps /\ s[Len(s)].x = Head(q).x /\ Head(q).op \in CallerOps
    <3>1. q[1].op # "enter"
      BY <1>2, <2>5 DEF CallerOps
    <3> QED BY <1>2, <2>1, <2>2, <2>5, <3>1 DEF Returns, CallOf
  <2> QED BY <2>1, <2>3, <2>4, <2>5 DEF ReturnsAs
<1> QED BY <1>2, <1>5, <1>6, <1>7

\* The new calls stay where the old one was to stay.
StaysAs(f, top) ==
    /\ \A r \in States : (Region(r) /\ StaysIn(top, r)) => StaysIn(f, r)
    /\ (top.op \in {"activate", "call", "entered"} /\ IsKind(top.x, "Start")) =>
          f.op \in {"call", "entered"} /\ f.x = top.x

\* The state a composite starts with, and the regions of an and-state.
LEMMA StartFacts ==
    ASSUME NEW h \in States, StartState[h] # Null
    PROVE  /\ StartState[h] \in States \ {Root} /\ Parent[StartState[h]] = h
           /\ IsKind(StartState[h], "Start") /\ IsPseudo(StartState[h])
           /\ ~IsHistory(StartState[h]) /\ ~OrState(StartState[h])
<1>1. StartState[h] \in States /\ Parent[StartState[h]] = h /\ Kind[StartState[h]] = "Start"
  BY ChartStructure, ChartPaths DEF ChildrenOf
<1> QED BY <1>1, ChartAssumption
        DEF IsKind, IsPseudo, PseudoKinds, IsHistory, HistoryKinds, OrState

LEMMA RegionFacts ==
    ASSUME NEW c \in States, Kind[c] = "Concurrent", NEW j \in DOMAIN Regions[c]
    PROVE  /\ Regions[c][j] \in States \ {Root} /\ Parent[Regions[c][j]] = c
           /\ Region(Regions[c][j]) /\ Kind[Regions[c][j]] = "Hierarchical"
<1>1. Regions[c][j] \in ChildrenOf(c) /\ Kind[Regions[c][j]] = "Hierarchical"
  BY ChartStructure DEF ElementsOf
<1>2. Kind[Root] = "Statechart"
  BY ChartAssumption
<1> QED BY <1>1, <1>2 DEF ChildrenOf, Region

LEMMA FlowsAs ==
    ASSUME NEW top \in Task, NEW f, StaysAs(f, top), NEW m, NEW g \in Task, FrameOK(g),
           WaitingOK(m, g), FlowsAbove(top, g)
    PROVE  FlowsAbove(f, g)
<1>1. CASE g.op = "regions"
  <2>1. g.x \in States /\ Kind[g.x] = "Concurrent"
    BY <1>1 DEF FrameOK, WaitingOK
  <2>2. g.k - 1 \in DOMAIN Regions[g.x] /\ StaysIn(top, Regions[g.x][g.k - 1])
    BY <1>1 DEF FlowsAbove
  <2>3. Region(Regions[g.x][g.k - 1]) /\ Regions[g.x][g.k - 1] \in States
    BY <2>1, <2>2, RegionFacts
  <2> QED BY <1>1, <2>2, <2>3 DEF FlowsAbove, StaysAs
<1>2. CASE g.op = "substate"
  <2>1. top.op \in {"activate", "call", "entered"} /\ top.x = StartState[g.x]
    BY <1>2 DEF FlowsAbove
  <2>2. g.x \in States /\ top.x # Null
    BY <1>2, ChartAssumption DEF FrameOK, Task
  <2>3. IsKind(top.x, "Start")
    BY <2>1, <2>2, StartFacts
  <2> QED BY <1>2, <2>1, <2>3 DEF FlowsAbove, StaysAs
<1> QED BY <1>1, <1>2 DEF FlowsAbove

LEMMA FocusedPush ==
    ASSUME NEW q \in Seq(Task), q # <<>>, StackOK(q), Focused(q),
           NEW m, WaitsOK(m, ElementsOf(q)), NEW s \in Seq(Task), Focused(s),
           \A f \in ElementsOf(s) : StaysAs(f, Head(q))
    PROVE  Focused(s \o Tail(q))
<1> DEFINE r == s \o Tail(q)
<1>1. /\ DOMAIN r = 1 .. Len(r) /\ Len(r) \in Nat
      /\ \A i \in DOMAIN r :
            \/ i \in DOMAIN s /\ r[i] = s[i]
            \/ /\ i \notin DOMAIN s /\ i - Len(s) + 1 \in DOMAIN q
               /\ i - Len(s) + 1 > 1
               /\ r[i] = q[i - Len(s) + 1] /\ r[i] \in ElementsOf(Tail(q))
  BY NewStack
<1>2. /\ Len(s) \in Nat /\ DOMAIN s = 1 .. Len(s) /\ 1 \in DOMAIN q /\ Head(q) = q[1]
      /\ q[1] \in Task /\ \A j \in DOMAIN q : q[j] \in Task
  OBVIOUS
<1> HIDE DEF r
<1>3. SUFFICES ASSUME NEW i \in DOMAIN r, NEW j \in DOMAIN r, i < j
               PROVE  FlowsAbove(r[i], r[j])
  BY DEF Focused, r
<1>4. CASE j \in DOMAIN s
  <2>1. i \in DOMAIN s /\ r[i] = s[i] /\ r[j] = s[j]
    BY <1>1, <1>2, <1>3, <1>4
  <2> QED BY <1>3, <1>4, <2>1 DEF Focused
<1>5. CASE j \notin DOMAIN s
  <2>1. /\ j - Len(s) + 1 \in DOMAIN q /\ j - Len(s) + 1 > 1
        /\ r[j] = q[j - Len(s) + 1]
    BY <1>1, <1>5
  <2> DEFINE b == j - Len(s) + 1
  <2>2. CASE i \notin DOMAIN s
    <3>1. i - Len(s) + 1 \in DOMAIN q /\ r[i] = q[i - Len(s) + 1]
      BY <1>1, <2>2
    <3>2. i - Len(s) + 1 < b
      BY <1>1, <1>2, <1>3
    <3> QED BY <2>1, <3>1, <3>2 DEF Focused
  <2>3. CASE i \in DOMAIN s
    <3>1. r[i] = s[i] /\ s[i] \in ElementsOf(s)
      BY <1>1, <2>3 DEF ElementsOf
    <3>2. StaysAs(r[i], q[1])
      BY <1>2, <3>1
    <3>3. b \in DOMAIN q /\ 1 < b /\ r[j] = q[b]
      BY <2>1
    <3> HIDE DEF b
    <3>4. FlowsAbove(q[1], q[b]) /\ FrameOK(q[b]) /\ q[b] \in Task /\ WaitingOK(m, q[b])
      BY <1>2, <3>3 DEF Focused, StackOK, WaitsOK, ElementsOf
    <3> QED BY <1>2, <3>2, <3>3, <3>4, FlowsAs
  <2> QED BY <2>2, <2>3
<1> QED BY <1>4, <1>5

(***************************************************************************)
(* One step, in parts.                                                     *)
(***************************************************************************)
\* A step of the call f takes the map from m to n.
MapStep(m, n, f) ==
    /\ Local(m, n, f)
    /\ n.active \subseteq States
    /\ Root \in m.active => Root \in n.active
    /\ \A h \in States :
          (f.op \in {"activate", "call", "entered"} /\ f.x = StartState[h]
             /\ h \in m.active /\ m.current[h] # Null)
                => h \in n.active /\ n.current[h] # Null

LEMMA MapStepSame ==
    ASSUME NEW m, NEW n, n.active = m.active, n.current = m.current, m.active \subseteq States,
           NEW f
    PROVE  MapStep(m, n, f)
BY LocalSame DEF MapStep

LEMMA WaitsStep ==
    ASSUME NEW top, NEW m, NEW n, MapStep(m, n, top), NEW g \in Task, FrameOK(g),
           WaitingOK(m, g), FlowsAbove(top, g)
    PROVE  WaitingOK(n, g)
<1>1. g.op = "substate" => g.x \in n.active /\ n.current[g.x] # Null
  BY DEF WaitingOK, FlowsAbove, MapStep, FrameOK
<1>2. ASSUME g.op = "regions", ~g.b, NEW j \in DOMAIN Regions[g.x], j < g.k - 1,
             Regions[g.x][j] # Regions[g.x][g.k - 1]
      PROVE  Settled(n, Regions[g.x][j])
  <2>1. g.x \in States /\ Kind[g.x] = "Concurrent" /\ Settled(m, Regions[g.x][j])
    BY <1>2 DEF FrameOK, WaitingOK
  <2>2. g.k - 1 \in DOMAIN Regions[g.x] /\ StaysIn(top, Regions[g.x][g.k - 1])
    BY <1>2 DEF FlowsAbove
  <2> DEFINE r == Regions[g.x][g.k - 1]
             q == Regions[g.x][j]
  <2>3. /\ r \in States /\ Region(r) /\ Parent[r] = g.x
        /\ q \in States /\ Region(q) /\ Parent[q] = g.x /\ r # q
    BY <1>2, <2>1, <2>2, RegionFacts
  <2>4. StaysIn(top, r) /\ Settled(m, q)
    BY <2>1, <2>2
  <2> HIDE DEF r, q
  <2>5. SameOutside(m, n, r)
    BY <2>3, <2>4 DEF MapStep, Local
  <2>6. Settled(n, q)
    BY <2>3, <2>4, <2>5, SettledSibling DEF MapStep
  <2> QED BY <2>6 DEF q
<1>3. g.op \in {"chart", "loop"} => g.x = Root /\ Root \in n.active
  BY DEF WaitingOK, MapStep
<1>4. /\ g.op \in {"substate", "bubble"} => Kind[g.x] = "Hierarchical"
      /\ g.op = "regions" => Kind[g.x] = "Concurrent" /\ g.k > 0
  BY DEF WaitingOK
<1> QED BY <1>1, <1>2, <1>3, <1>4 DEF WaitingOK

\* What is below the call on top.
LEMMA BelowTop ==
    ASSUME Inv, agenda # <<>>, FlowOK(md, agenda, ret)
    PROVE  /\ Top \in Task /\ FrameOK(Top) /\ WaitingOK(md, Top)
           /\ Top = Head(agenda) /\ Top = agenda[1]
           /\ \A g \in ElementsOf(Tail(agenda)) :
                 g \in Task /\ FrameOK(g) /\ WaitingOK(md, g) /\ FlowsAbove(Top, g)
<1>1. agenda \in Seq(Task) /\ StackOK(agenda) /\ WaitsOK(md, ElementsOf(agenda)) /\ Focused(agenda)
  BY Base DEF FlowOK
<1>2. 1 \in DOMAIN agenda /\ Top = agenda[1] /\ Top = Head(agenda)
  BY <1>1 DEF Top
<1>3. ASSUME NEW j \in DOMAIN agenda
      PROVE  agenda[j] \in Task /\ FrameOK(agenda[j]) /\ WaitingOK(md, agenda[j])
  BY <1>1 DEF StackOK, WaitsOK, ElementsOf
<1>4. ASSUME NEW g \in ElementsOf(Tail(agenda))
      PROVE  g \in Task /\ FrameOK(g) /\ WaitingOK(md, g) /\ FlowsAbove(Top, g)
  <2>1. PICK i \in DOMAIN Tail(agenda) : g = Tail(agenda)[i]
    BY DEF ElementsOf
  <2>2. i + 1 \in DOMAIN agenda /\ 1 < i + 1 /\ g = agenda[i + 1]
    BY <1>1, <2>1
  <2>3. FlowsAbove(agenda[1], agenda[i + 1])
    BY <1>1, <1>2, <2>2 DEF Focused
  <2> QED BY <1>2, <1>3, <2>2, <2>3
<1> QED BY <1>2, <1>3, <1>4

LEMMA WaitsPush ==
    ASSUME Inv, agenda # <<>>, FlowOK(md, agenda, ret),
           NEW s \in Seq(Task), agenda' = s \o Tail(agenda), MapStep(md, md', Top),
           ReturnsAs(s, Top), Focused(s),
           \A f \in ElementsOf(s) : StaysAs(f, Top) /\ WaitingOK(md', f)
    PROVE  /\ Adjacent(agenda') /\ Focused(agenda')
           /\ WaitsOK(md', ElementsOf(agenda'))
<1>1. agenda \in Seq(Task) /\ StackOK(agenda)
  BY Base
<1>2. ElementsOf(agenda') = ElementsOf(s) \cup ElementsOf(Tail(agenda))
  BY <1>1, NewStack
<1>3. Adjacent(agenda')
  BY <1>1, AdjacentPush DEF FlowOK, Top
<1>4. Focused(agenda')
  BY <1>1, FocusedPush DEF FlowOK, Top
<1>5. \A g \in ElementsOf(Tail(agenda)) : WaitingOK(md', g)
  BY BelowTop, WaitsStep
<1> QED BY <1>2, <1>3, <1>4, <1>5 DEF WaitsOK

\* A new call on top.
LEMMA TopPush ==
    ASSUME Inv, agenda # <<>>, FlowOK(md, agenda, ret),
           NEW s \in Seq(Task), s # <<>>, agenda' = s \o Tail(agenda), ReturnsAs(s, Top),
           NEW m, NEW rc, ResultOK(m, s[1], rc),
           s[1].op = "dispatch" =>
               s[1].x \in m.active \/ (Len(s) = 1 /\ Top.op \notin CallerOps \cup {"enter"})
    PROVE  TopOK(m, agenda', rc)
<1>1. agenda \in Seq(Task) /\ Adjacent(agenda) /\ Top = agenda[1]
  BY Base, BelowTop DEF FlowOK
<1>2. agenda'[1] = s[1]
  BY <1>1, NewStack
<1>3. ASSUME s[1].op = "dispatch", Len(agenda') > 1, agenda'[2].op \in ReturnOps,
             Len(s) = 1, Top.op \notin CallerOps \cup {"enter"}
      PROVE  FALSE
  <2>1. /\ Len(agenda') = Len(s) + Len(agenda) - 1
        /\ \A i \in 1 .. Len(agenda') :
              agenda'[i] = IF i <= Len(s) THEN s[i] ELSE agenda[i - Len(s) + 1]
    BY <1>1, PushElements
  <2>2. 1 \in 1 .. Len(agenda) - 1 /\ 2 \in 1 .. Len(agenda') /\ agenda'[2] = agenda[2]
    BY <1>1, <1>3, <2>1
  <2>3. Returns(agenda[1], agenda[2])
    BY <1>1, <2>2 DEF Adjacent
  <2> QED BY <1>1, <1>3, <2>2, <2>3 DEF Returns, CallOf
<1> QED BY <1>2, <1>3 DEF TopOK

\* The call below comes to the top.
LEMMA TopPop ==
    ASSUME Inv, agenda # <<>>, FlowOK(md, agenda, ret), agenda' = Tail(agenda),
           NEW m, NEW rc, rc \/ Top.op \notin CallerOps \cup {"enter"}
    PROVE  TopOK(m, agenda', rc)
<1>1. agenda \in Seq(Task) /\ Adjacent(agenda) /\ Top = agenda[1] /\ StackOK(agenda)
  BY Base, BelowTop DEF FlowOK
<1>2. SUFFICES ASSUME agenda' # <<>> PROVE TopOK(m, agenda', rc)
  BY DEF TopOK
<1>3. 1 \in 1 .. Len(agenda) - 1 /\ 2 \in DOMAIN agenda /\ agenda'[1] = agenda[2]
  BY <1>1, <1>2
<1>4. agenda[2].op # "dispatch"
  BY <1>3, <1>1 DEF StackOK
<1>5. Returns(agenda[1], agenda[2])
  BY <1>1, <1>3 DEF Adjacent
<1>6. rc \/ agenda[2].op \notin ReturnOps
  BY <1>1, <1>5 DEF Returns, CallOf
<1> QED BY <1>3, <1>4, <1>6 DEF TopOK, ResultOK, ReturnOps

LEMMA SubstatesPush ==
    ASSUME Inv, agenda # <<>>, FlowOK(md, agenda, ret),
           NEW s \in Seq(Task), agenda' = s \o Tail(agenda), NEW n,
           \A h \in States : (NeedsSubstate(h) /\ h \in n.active /\ n.current[h] = Null)
               => h \in md.active /\ md.current[h] = Null,
           \A f \in ElementsOf(s) : f.op = "activate" => ~NeedsSubstate(f.x),
           \A h \in States : ~WillEnter(Top, h)
    PROVE  SubstatesKnown(n, ElementsOf(agenda'))
<1> DEFINE F == ElementsOf(agenda)
           G == ElementsOf(agenda')
           R == ElementsOf(Tail(agenda))
<1>1. agenda \in Seq(Task) /\ SubstatesKnown(md, F) /\ G = ElementsOf(s) \cup R
  BY Base, NewStack DEF FlowOK
<1>2. <<>> \in Seq(Task)
  OBVIOUS
<1>3. F = {Top} \cup R
  BY <1>1, <1>2, PushFrames DEF Top
<1> HIDE DEF F, G, R
<1>4. SUFFICES ASSUME NEW h \in States, NeedsSubstate(h),
                      \/ h \in n.active /\ n.current[h] = Null
                      \/ \E f \in G : f.op = "activate" /\ f.x = h
               PROVE  \E g \in G : WillEnter(g, h)
  BY DEF SubstatesKnown, G
<1>5. \/ h \in md.active /\ md.current[h] = Null
      \/ \E f \in F : f.op = "activate" /\ f.x = h
  BY <1>1, <1>3, <1>4
<1>6. \E g \in F : WillEnter(g, h)
  BY <1>1, <1>4, <1>5 DEF SubstatesKnown
<1> QED BY <1>1, <1>3, <1>6

\* The calls in s can take the place of the call top.
Fits(s, top) ==
    /\ s \in Seq(Task) /\ ReturnsAs(s, top) /\ Focused(s)
    /\ \A f \in ElementsOf(s) :
          StaysAs(f, top) /\ (f.op = "activate" => ~NeedsSubstate(f.x))

NoNewNeed(m, n) ==
    \A h \in States : (NeedsSubstate(h) /\ h \in n.active /\ n.current[h] = Null)
        => h \in m.active /\ m.current[h] = Null

LEMMA PushFlow ==
    ASSUME Inv, agenda # <<>>, FlowOK(md, agenda, ret),
           Top.op \notin {"activate", "enter"},
           NEW s, Fits(s, Top), s # <<>>, agenda' = s \o Tail(agenda),
           MapStep(md, md', Top), NoNewNeed(md, md'), WaitsOK(md', ElementsOf(s)),
           ResultOK(md', s[1], ret'),
           s[1].op = "dispatch" =>
               s[1].x \in (md').active \/ (Len(s) = 1 /\ Top.op \notin CallerOps \cup {"enter"})
    PROVE  FlowOK(md', agenda', ret')
<1>1. /\ s \in Seq(Task) /\ ReturnsAs(s, Top) /\ Focused(s)
      /\ \A f \in ElementsOf(s) : StaysAs(f, Top) /\ WaitingOK(md', f)
      /\ \A f \in ElementsOf(s) : f.op = "activate" => ~NeedsSubstate(f.x)
  BY DEF Fits, WaitsOK
<1>2. Adjacent(agenda') /\ Focused(agenda') /\ WaitsOK(md', ElementsOf(agenda'))
  BY <1>1, WaitsPush
<1>3. TopOK(md', agenda', ret')
  BY <1>1, TopPush
<1>4. \A h \in States : ~WillEnter(Top, h)
  BY DEF WillEnter
<1>5. SubstatesKnown(md', ElementsOf(agenda'))
  BY <1>1, <1>4, SubstatesPush DEF NoNewNeed
<1> QED BY <1>2, <1>3, <1>5 DEF FlowOK

LEMMA NothingFits ==
    ASSUME NEW top
    PROVE  Fits(<<>>, top) /\ ElementsOf(<<>>) = {}
<1>1. <<>> \in Seq(Task) /\ ElementsOf(<<>>) = {} /\ Len(<<>>) = 0
  BY DEF ElementsOf
<1>2. Adjacent(<<>>) /\ Focused(<<>>)
  BY DEF Adjacent, Focused
<1> QED BY <1>1, <1>2 DEF Fits, ReturnsAs

LEMMA PopFlow ==
    ASSUME Inv, agenda # <<>>, FlowOK(md, agenda, ret),
           agenda' = Tail(agenda), \A h \in States : ~WillEnter(Top, h),
           MapStep(md, md', Top), NoNewNeed(md, md'), TopOK(md', agenda', ret')
    PROVE  FlowOK(md', agenda', ret')
<1>1. /\ <<>> \in Seq(Task) /\ ReturnsAs(<<>>, Top) /\ Focused(<<>>)
      /\ ElementsOf(<<>>) = {}
  BY NothingFits DEF Fits
<1>2. agenda' = <<>> \o Tail(agenda)
  BY Base
<1>3. Adjacent(agenda') /\ Focused(agenda') /\ WaitsOK(md', ElementsOf(agenda'))
  BY <1>1, <1>2, WaitsPush
<1>4. SubstatesKnown(md', ElementsOf(agenda'))
  BY <1>1, <1>2, SubstatesPush DEF NoNewNeed
<1> QED BY <1>3, <1>4 DEF FlowOK

\* The last of the new calls.
LastAs(g, top) ==
    \/ g.op = "enter"
    \/ top.op \notin CallerOps \cup {"enter"}
    \/ top.op \in CallerOps /\ g.op \in CallerOps /\ g.x = top.x

Takes(f, top) == f \in Task /\ StaysAs(f, top) /\ (f.op = "activate" => ~NeedsSubstate(f.x))

LEMMA FitsOne ==
    ASSUME NEW top, NEW f, Takes(f, top), LastAs(f, top)
    PROVE  /\ Fits(<<f>>, top) /\ ElementsOf(<<f>>) = {f} /\ <<f>> # <<>> /\ <<f>>[1] = f
           /\ Len(<<f>>) = 1
<1>1. <<f>> \in Seq(Task) /\ Len(<<f>>) = 1 /\ DOMAIN <<f>> = {1} /\ <<f>>[1] = f
      /\ <<f>> # <<>>
  BY DEF Takes
<1>2. ElementsOf(<<f>>) = {f}
  BY <1>1 DEF ElementsOf
<1>3. Adjacent(<<f>>) /\ Focused(<<f>>)
  BY <1>1 DEF Adjacent, Focused
<1> QED BY <1>1, <1>2, <1>3 DEF Fits, ReturnsAs, LastAs, Takes

LEMMA FitsTwo ==
    ASSUME NEW top, NEW f, NEW g, Takes(f, top), Takes(g, top), LastAs(g, top),
           Returns(f, g), FlowsAbove(f, g)
    PROVE  /\ Fits(<<f, g>>, top) /\ ElementsOf(<<f, g>>) = {f, g} /\ <<f, g>> # <<>>
           /\ <<f, g>>[1] = f
<1> DEFINE s == <<f, g>>
<1>1. s \in Seq(Task) /\ Len(s) = 2 /\ DOMAIN s = 1 .. 2 /\ s[1] = f /\ s[2] = g
      /\ s # <<>>
  BY DEF Takes
<1> HIDE DEF s
<1>2. ElementsOf(s) = {f, g}
  BY <1>1 DEF ElementsOf
<1>3. Adjacent(s)
  BY <1>1 DEF Adjacent
<1>4. Focused(s)
  BY <1>1 DEF Focused
<1>5. Fits(s, top)
  BY <1>1, <1>2, <1>3, <1>4 DEF Fits, ReturnsAs, LastAs, Takes
<1> QED BY <1>1, <1>2, <1>5 DEF s

LEMMA FitsThree ==
    ASSUME NEW top, NEW f, NEW g, NEW h, Takes(f, top), Takes(g, top), Takes(h, top),
           LastAs(h, top), Returns(f, g), Returns(g, h),
           FlowsAbove(f, g), FlowsAbove(f, h), FlowsAbove(g, h)
    PROVE  /\ Fits(<<f, g, h>>, top) /\ ElementsOf(<<f, g, h>>) = {f, g, h}
           /\ <<f, g, h>> # <<>> /\ <<f, g, h>>[1] = f
<1> DEFINE s == <<f, g, h>>
<1>1. s \in Seq(Task) /\ Len(s) = 3 /\ DOMAIN s = 1 .. 3 /\ s[1] = f /\ s[2] = g /\ s[3] = h
      /\ s # <<>>
  BY DEF Takes
<1> HIDE DEF s
<1>2. ElementsOf(s) = {f, g, h}
  BY <1>1 DEF ElementsOf
<1>3. Adjacent(s)
  <2> SUFFICES ASSUME NEW i \in 1 .. Len(s) - 1 PROVE Returns(s[i], s[i + 1])
    BY DEF Adjacent
  <2>1. i = 1 \/ i = 2
    BY <1>1
  <2> QED BY <1>1, <2>1
<1>4. Focused(s)
  <2> SUFFICES ASSUME NEW i \in 1 .. 3, NEW j \in 1 .. 3, i < j PROVE FlowsAbove(s[i], s[j])
    BY <1>1 DEF Focused
  <2>1. (i = 1 /\ j = 2) \/ (i = 1 /\ j = 3) \/ (i = 2 /\ j = 3)
    OBVIOUS
  <2> QED BY <1>1, <2>1
<1>5. Fits(s, top)
  BY <1>1, <1>2, <1>3, <1>4 DEF Fits, ReturnsAs, LastAs, Takes
<1> QED BY <1>1, <1>2, <1>5 DEF s

\* Calls on states at or below the state of the old one.
LEMMA StaysBelow ==
    ASSUME NEW top, top.op \notin {"call", "enter"}, NEW f,
           \/ f.op = "call"
           \/ f.op # "enter" /\ f.x \in States /\ Above(top.x, f.x),
           (top.op \in {"activate", "call", "entered"} /\ IsKind(top.x, "Start")) =>
               f.op \in {"call", "entered"} /\ f.x = top.x
    PROVE  StaysAs(f, top)
<1>1. ASSUME NEW r \in States, StaysIn(top, r), f.op # "call"
      PROVE  StaysIn(f, r)
  <2>1. Above(r, top.x)
    BY <1>1 DEF StaysIn
  <2> QED BY <1>1, <2>1, AboveTransitive DEF StaysIn
<1> QED BY <1>1 DEF StaysAs, StaysIn

\* Calls nothing is asked of, and calls no result goes to.
LEMMA PlainWaits ==
    ASSUME NEW f, f.op \notin {"substate", "bubble", "regions", "chart", "loop"}
    PROVE  /\ \A m : WaitingOK(m, f)
           /\ \A m, rc : ResultOK(m, f, rc)
           /\ \A g : FlowsAbove(g, f)
           /\ \A g : Returns(g, f)
BY DEF WaitingOK, ResultOK, FlowsAbove, Returns, ReturnOps

LEMMA DoFields ==
    ASSUME NEW op, NEW x, NEW e, NEW k, NEW b
    PROVE  LET f == Do(op, x, e, k, b) IN
           f.op = op /\ f.x = x /\ f.e = e /\ f.k = k /\ f.b = b
BY DEF Do

(***************************************************************************)
(* Transition::execute.                                                    *)
(***************************************************************************)
\* A transition stays in the region of its source.
LEMMA RegionOfTransition ==
    ASSUME StructuredChart, NEW t \in Trans, NEW ctx \in States, Connects(t, ctx),
           NEW r \in States, Region(r), Above(r, Source[t])
    PROVE  Above(r, ctx)
<1> DEFINE c == Parent[r]
<1>1. Source[t] \in States /\ Inside(Source[t], ctx) /\ OrState(ctx)
  BY ChartAssumption DEF Connects
<1>2. c \in States /\ Kind[c] = "Concurrent" /\ Above(c, r) /\ c # r
      /\ Depth(c) = Depth(r) - 1 /\ Depth(r) \in Nat
  BY ParentPath DEF Region
<1>3. Inside(Source[t], c)
  BY <1>1, <1>2, InsideOrder DEF Inside
<1>4. Above(c, ctx) /\ c # ctx
  BY <1>1, <1>2, <1>3 DEF Connects, OrState
<1>5. PICK d \in States \ {Root} : Parent[d] = c /\ Above(d, ctx)
  BY <1>2, <1>4, ChildOnPath DEF Inside
<1>6. Above(d, Source[t])
  BY <1>1, <1>5, AboveTransitive DEF Inside
<1>7. Depth(d) = Depth(r)
  BY <1>2, <1>5, ParentPath
<1>8. d = r
  BY <1>1, <1>6, <1>7, AboveUnique
<1> QED BY <1>5, <1>8

LEMMA ExecuteFlow ==
    ASSUME StructuredChart, Inv, FlowOK(md, agenda, ret), agenda # <<>>,
           Top.op \in CallerOps, NEW t \in Trans, Source[t] = Top.x, Execute(t, <<>>)
    PROVE  FlowOK(md', agenda', ret')
<1> DEFINE n == Len(Deactivates[t])
           s == ExecuteCalls(t)
<1>1. /\ s \in Seq(Task) /\ n \in Nat /\ DOMAIN s = 1 .. n + 2
      /\ \A i \in 1 .. n : s[i].op = "deactivate" /\ s[i].x = Deactivates[t][i]
      /\ s[n + 1].op = "call" /\ s[n + 2].op = "enter" /\ s[n + 2].x = t
  BY ExecutePushes
<1>2. agenda' = s \o Tail(agenda) /\ md' = md /\ ret' = ret
  BY DEF Execute, Push, ExecuteCalls
<1>3. ASSUME NEW i \in 1 .. n, NEW r \in States, Region(r), Above(r, Top.x)
      PROVE  Above(r, Deactivates[t][i])
  <2>1. ~Internal(t)
    <3>1. n # 0
      BY <1>1
    <3> QED BY <3>1 DEF Internal
  <2>2. PICK ctx \in States : Connects(t, ctx)
    BY <2>1, Connected DEF StructuredChart
  <2>3. Above(r, ctx)
    BY <1>3, <2>2, RegionOfTransition
  <2>4. Inside(Deactivates[t][i], ctx) /\ Deactivates[t][i] \in States
    BY <2>2 DEF Connects
  <2> QED BY <2>3, <2>4, AboveTransitive DEF Inside
<1> HIDE DEF s, n
<1>4. Len(s) = n + 2 /\ s # <<>> /\ 1 \in DOMAIN s
  BY <1>1
<1>5. ASSUME NEW i \in DOMAIN s
      PROVE  /\ s[i].op \in {"deactivate", "call", "enter"} /\ StaysAs(s[i], Top)
  <2>1. CASE i \in 1 .. n
    <3>1. \A r \in States : (Region(r) /\ StaysIn(Top, r)) => StaysIn(s[i], r)
      BY <1>1, <1>3, <2>1 DEF StaysIn, CallerOps
    <3> QED BY <1>1, <2>1, <3>1 DEF StaysAs, CallerOps
  <2>2. CASE i = n + 1
    BY <1>1, <2>2 DEF StaysAs, StaysIn, CallerOps
  <2>3. CASE i = n + 2
    BY <1>1, <2>3 DEF StaysAs, StaysIn, CallerOps
  <2> QED BY <1>1, <2>1, <2>2, <2>3
<1>6. Adjacent(s) /\ Focused(s)
  <2>1. ASSUME NEW i \in 1 .. Len(s) - 1 PROVE Returns(s[i], s[i + 1])
    <3>1. i + 1 \in DOMAIN s
      BY <1>1, <1>4
    <3> QED BY <1>5, <3>1 DEF Returns, ReturnOps
  <2>2. Focused(s)
    BY <1>5 DEF Focused, FlowsAbove
  <2> QED BY <2>1, <2>2 DEF Adjacent
<1>7. Fits(s, Top)
  <2>1. s[Len(s)].op = "enter"
    BY <1>1, <1>4
  <2> QED BY <1>1, <1>5, <1>6, <2>1 DEF Fits, ReturnsAs, ElementsOf
<1>8. WaitsOK(md', ElementsOf(s))
  BY <1>5 DEF WaitsOK, ElementsOf, WaitingOK
<1>9. ResultOK(md', s[1], ret') /\ s[1].op # "dispatch"
  BY <1>4, <1>5 DEF ResultOK
<1>10. MapStep(md, md', Top) /\ NoNewNeed(md, md')
  BY <1>2, Base, MapStepSame DEF NoNewNeed
<1>11. Top.op \notin {"activate", "enter"}
  BY DEF CallerOps
<1> QED BY <1>2, <1>4, <1>7, <1>8, <1>9, <1>10, <1>11, PushFlow

(***************************************************************************)
(* The dispatch on a state returns false.                                  *)
(***************************************************************************)
\* The caller learns that everything below the state has settled.
LEMMA ReturnsFalse ==
    ASSUME StructuredChart, Inv, Configured(md, agenda), agenda # <<>>,
           FlowOK(md, agenda, ret), Top.op \in CallerOps,
           Top.x \in States \ {Root}, Top.x \in md.active, ~IsPseudo(Top.x),
           Settled(md, Top.x)
    PROVE  TopOK(md, Tail(agenda), FALSE)
<1> DEFINE x == Top.x
<1>1. /\ agenda \in Seq(Task) /\ StackOK(agenda) /\ Top = agenda[1] /\ Adjacent(agenda)
      /\ md.active \subseteq States
  BY Base, BelowTop DEF FlowOK
<1>2. RecordsOK(md) /\ ContextsOK(md) /\ CurrentOK(md)
  BY DEF Configured, MapCond
<1>3. SUFFICES ASSUME Tail(agenda) # <<>> PROVE TopOK(md, Tail(agenda), FALSE)
  BY DEF TopOK
<1> DEFINE g == agenda[2]
<1>4. 1 \in 1 .. Len(agenda) - 1 /\ 2 \in DOMAIN agenda /\ Tail(agenda)[1] = g
  BY <1>1, <1>3
<1>5. g.op # "dispatch" /\ Returns(Top, g) /\ g \in ElementsOf(Tail(agenda))
  <2>1. 1 \in DOMAIN Tail(agenda)
    BY <1>1, <1>4
  <2>2. g.op # "dispatch"
    BY <1>1, <1>4 DEF StackOK
  <2>3. Returns(agenda[1], agenda[1 + 1]) /\ 1 + 1 = 2
    BY <1>1, <1>4 DEF Adjacent
  <2> QED BY <1>1, <1>4, <2>1, <2>2, <2>3 DEF ElementsOf
<1>6. g \in Task /\ FrameOK(g) /\ WaitingOK(md, g)
  BY <1>5, BelowTop
<1>7. Solid(x)
  BY ChartAssumption DEF Solid, IsPseudo, IsHistory, PseudoKinds
<1>8. \A h \in States : (OrState(h) /\ Parent[x] = h) => h \in md.active /\ Settled(md, h)
  <2> SUFFICES ASSUME NEW h \in States, OrState(h), Parent[x] = h
               PROVE  h \in md.active /\ Settled(md, h)
    OBVIOUS
  <2>1. md.current[h] = x /\ x # Null
    BY <1>2, <1>7, ChartAssumption DEF CurrentOK
  <2>2. h \in md.active
    BY <1>7, <1>2, ParentPath DEF ContextsOK
  <2> QED BY <1>1, <1>2, <2>1, <2>2, SettledParent
<1> HIDE DEF g
<1>9. CASE g.op = "bubble"
  <2>1. Parent[x] = g.x /\ g.x \in States /\ OrState(g.x)
    BY <1>5, <1>6, <1>9 DEF Returns, ReturnOps, CallOf, CallerOps, WaitingOK, FrameOK, OrState
  <2> QED BY <1>4, <1>8, <1>9, <2>1 DEF TopOK, ResultOK
<1>10. CASE g.op = "loop"
  <2>1. Parent[x] = Root /\ OrState(Root) /\ Root \in States
    BY <1>5, <1>10, ChartAssumption DEF Returns, ReturnOps, CallOf, CallerOps, OrState
  <2> QED BY <1>4, <1>8, <1>10, <2>1 DEF TopOK, ResultOK
<1>11. CASE g.op = "regions"
  <2>1. /\ g.k - 1 \in DOMAIN Regions[g.x] /\ x = Regions[g.x][g.k - 1]
        /\ g.x \in States /\ Kind[g.x] = "Concurrent"
    BY <1>5, <1>6, <1>11 DEF Returns, ReturnOps, CallOf, CallerOps, WaitingOK, FrameOK
  <2>2. Parent[x] = g.x
    BY <2>1, RegionFacts
  <2>3. g.x \in md.active
    BY <1>2, <1>7, <2>2, ParentPath DEF ContextsOK
  <2>4. ASSUME ~g.b, NEW j \in DOMAIN Regions[g.x], j < g.k
        PROVE  Settled(md, Regions[g.x][j])
    <3>1. CASE Regions[g.x][j] = x
      BY <3>1
    <3>2. CASE Regions[g.x][j] # x
      <4>1. j # g.k - 1
        BY <2>1, <3>2
      <4>2. j \in Nat /\ g.k \in Nat
        <5>1. Regions[g.x] \in Seq(States)
          BY <2>1, ChartAssumption
        <5> QED BY <1>6, <2>4, <5>1 DEF Task
      <4>3. j < g.k - 1
        BY <2>4, <4>1, <4>2
      <4> QED BY <1>6, <1>11, <2>1, <2>4, <3>2, <4>3 DEF WaitingOK
    <3> QED BY <3>1, <3>2
  <2> QED BY <1>4, <1>11, <2>3, <2>4 DEF TopOK, ResultOK
<1>12. CASE g.op \notin {"bubble", "loop", "regions"}
  BY <1>4, <1>5, <1>12 DEF TopOK, ResultOK
<1> QED BY <1>9, <1>10, <1>11, <1>12

\* One of the transitions that may fire executes; if there are none, the
\* state has settled.
LEMMA FireFirstFlow ==
    ASSUME StructuredChart, Inv, Configured(md, agenda), agenda # <<>>,
           FlowOK(md, agenda, ret), Top.op \in CallerOps,
           Top.x \in States \ {Root}, Top.x \in md.active,
           NEW ready, ready \subseteq DOMAIN Outgoing[Top.x], FireFirst(Top.x, ready),
           ready = {} => ~IsPseudo(Top.x) /\ Settled(md, Top.x)
    PROVE  FlowOK(md', agenda', ret')
<1>1. CASE \E i \in ready : Execute(Outgoing[Top.x][i], <<>>)
  <2>1. PICK i \in ready : Execute(Outgoing[Top.x][i], <<>>)
    BY <1>1
  <2>2. PICK t \in Trans : t = Outgoing[Top.x][i] /\ t \in ElementsOf(Outgoing[Top.x])
    <3>1. Outgoing[Top.x] \in Seq(Trans) /\ i \in DOMAIN Outgoing[Top.x]
      BY ChartAssumption
    <3>2. Outgoing[Top.x][i] \in Trans
      BY <3>1
    <3> QED BY <3>1, <3>2 DEF ElementsOf
  <2>3. Source[t] = Top.x /\ Execute(t, <<>>)
    BY <2>1, <2>2, ChartPaths
  <2> QED BY <2>3, ExecuteFlow
<1>2. CASE ready = {} /\ Return(FALSE) /\ UNCHANGED <<md, fired, before, control>>
  <2>1. agenda' = Tail(agenda) /\ ret' = FALSE /\ md' = md
    BY <1>2 DEF Return
  <2>2. TopOK(md', agenda', ret')
    BY <1>2, <2>1, ReturnsFalse
  <2>3. MapStep(md, md', Top) /\ NoNewNeed(md, md')
    BY <2>1, Base, MapStepSame DEF NoNewNeed
  <2>4. \A h \in States : ~WillEnter(Top, h)
    BY DEF WillEnter, CallerOps
  <2> QED BY <2>1, <2>2, <2>3, <2>4, PopFlow
<1> QED BY <1>1, <1>2 DEF FireFirst

(***************************************************************************)
(* One lemma for each action: dispatching.                                 *)
(***************************************************************************)
LEMMA DispatchStateFlow ==
    ASSUME StructuredChart, Inv, Configured(md, agenda), FlowOK(md, agenda, ret), WayOn,
           DispatchState
    PROVE  FlowOK(md', agenda', ret')
<1>1. /\ agenda # <<>> /\ Top.op = "dispatch" /\ FireFirst(Top.x, Ready(Top.x, Top.e))
      /\ Kind[Top.x] \notin {"Statechart", "Hierarchical", "Concurrent"}
      /\ Running("dispatch")
  BY DEF DispatchState, Running, Top
<1>2. Top.x \in States \ {Root} /\ Top.x \in md.active
  BY DispatchedActive
<1>3. Ready(Top.x, Top.e) \subseteq DOMAIN Outgoing[Top.x]
  BY DEF Ready
<1>4. Settled(md, Top.x)
  BY <1>1, <1>2, Base, SettledLeaf
<1>5. Ready(Top.x, Top.e) = {} => ~IsPseudo(Top.x)
  BY <1>1 DEF WayOn
<1> QED BY <1>1, <1>2, <1>3, <1>4, <1>5, FireFirstFlow DEF CallerOps

\* The rest of a call returns what the last one returned.
LEMMA ReturnFlow ==
    ASSUME Inv, agenda # <<>>, FlowOK(md, agenda, ret), Top.op \notin {"activate", "enter"},
           NEW v, Return(v), v \/ Top.op \notin CallerOps, Quiet
    PROVE  FlowOK(md', agenda', ret')
<1>1. agenda' = Tail(agenda) /\ ret' = v /\ md' = md
  BY DEF Return, Quiet
<1>2. MapStep(md, md', Top) /\ NoNewNeed(md, md')
  BY <1>1, Base, MapStepSame DEF NoNewNeed
<1>3. \A h \in States : ~WillEnter(Top, h)
  BY DEF WillEnter
<1>4. TopOK(md', agenda', ret')
  BY <1>1, TopPop
<1> QED BY <1>1, <1>2, <1>3, <1>4, PopFlow

\* A composite whose substate has not handled the event has settled, and so
\* has one that is in a final state.
LEMMA BubbleFlow ==
    ASSUME StructuredChart, Inv, Configured(md, agenda), FlowOK(md, agenda, ret), Bubble
    PROVE  FlowOK(md', agenda', ret')
<1> DEFINE h == Top.x
<1>1. agenda # <<>> /\ Top.op = "bubble"
  BY DEF Bubble, Running, Top
<1>2. h \in States \ {Root} /\ Kind[h] = "Hierarchical" /\ ResultOK(md, Top, ret)
  <2>1. Top = agenda[1] /\ FrameOK(Top) /\ WaitingOK(md, Top)
    BY <1>1, BelowTop
  <2>2. h \in States /\ Kind[h] = "Hierarchical" /\ h # Root
    BY <1>1, <2>1, ChartAssumption DEF FrameOK, WaitingOK
  <2> QED BY <1>1, <2>1, <2>2 DEF FlowOK, TopOK
<1>3. CASE (h \notin md.active \/ HandledBelow(h)) /\ Return(ret) /\ Quiet
  <2>1. ret
    BY <1>1, <1>2, <1>3 DEF ResultOK, HandledBelow
  <2> QED BY <1>1, <1>3, <2>1, ReturnFlow
<1>4. CASE h \in md.active /\ ~HandledBelow(h) /\ FireFirst(h, MayBubble(h, Top.e))
  <2>1. Settled(md, h)
    <3>1. CASE ~ret
      BY <1>1, <1>2, <3>1 DEF ResultOK
    <3>2. CASE IsKind(md.current[h], "Final")
      <4>1. ContextsOK(md) /\ CurrentOK(md) /\ md.active \subseteq States
        BY Base DEF Configured, MapCond
      <4>2. md.current[h] \in States /\ md.current[h] # Null /\ Kind[md.current[h]] = "Final"
        BY <1>2, <3>2, Base DEF IsKind, OrNull
      <4>3. ~IsPseudo(md.current[h])
        BY <4>2 DEF IsPseudo, PseudoKinds, HistoryKinds
      <4>4. Settled(md, md.current[h])
        BY <4>1, <4>2, SettledLeaf
      <4> QED BY <1>2, <4>1, <4>2, <4>3, <4>4, SettledParent DEF OrState
    <3> QED BY <1>4, <3>1, <3>2 DEF HandledBelow
  <2>2. MayBubble(h, Top.e) \subseteq DOMAIN Outgoing[h]
    BY DEF MayBubble, Ready
  <2>3. ~IsPseudo(h)
    BY <1>2 DEF IsPseudo, PseudoKinds, HistoryKinds
  <2> QED BY <1>1, <1>2, <1>4, <2>1, <2>2, <2>3, FireFirstFlow DEF CallerOps
<1> QED BY <1>3, <1>4 DEF Bubble

\* While a call that neither enters nor leaves a state is on top, no other
\* one is about to enter a state.
LEMMA NoEnterPending ==
    ASSUME Inv, Configured(md, agenda), agenda # <<>>, Top.op \in NeutralOps,
           NEW h \in States, NEW g \in ElementsOf(agenda)
    PROVE  ~WillEnter(g, h)
<1>1. agenda \in Seq(Task) /\ StackOK(agenda) /\ ElementsOf(agenda) = {Top} \cup ElementsOf(Tail(agenda))
  BY Base, TopCall
<1>2. CASE g = Top
  BY <1>2 DEF WillEnter, NeutralOps
<1>3. CASE g \in ElementsOf(Tail(agenda))
  <2>1. Enters(md, g) = {} /\ g \in Task /\ FrameOK(g)
    BY <1>1, <1>3, NeutralTop DEF Top
  <2>2. ASSUME g.op = "enter", NEW i \in DOMAIN Activates[g.x], g.k \in 1 .. i
        PROVE  FALSE
    <3>1. Activates[g.x] \in Seq(States \ {Root})
      BY <2>1, <2>2, ChartAssumption DEF FrameOK
    <3>2. g.k \in DOMAIN Activates[g.x]
      BY <2>2, <3>1
    <3>3. Activates[g.x][g.k] \in Enters(md, g)
      BY <2>2, <3>2 DEF Enters
    <3> QED BY <2>1, <3>3
  <2> QED BY <2>1, <2>2 DEF WillEnter, Enters
<1> QED BY <1>1, <1>2, <1>3

LEMMA SubstateKnown ==
    ASSUME Inv, Configured(md, agenda), agenda # <<>>, FlowOK(md, agenda, ret),
           Top.op \in NeutralOps, NEW h \in States, NeedsSubstate(h), h \in md.active
    PROVE  md.current[h] # Null
BY NoEnterPending DEF FlowOK, SubstatesKnown

LEMMA MdActivateStep ==
    ASSUME StructuredChart, NEW m \in RuntimeMap, m.active \subseteq States,
           NEW x \in States, NEW f,
           \A r \in States : (Region(r) /\ StaysIn(f, r)) => Above(r, x),
           f.op \in {"activate", "call", "entered"} => f.x = x
    PROVE  MapStep(m, MdActivate(m, x), f)
<1> DEFINE n == MdActivate(m, x)
<1>1. /\ n.active = m.active \cup {x} /\ n.current[x] = Null
      /\ \A y \in States \ {x} :
            n.current[y] = IF y = Parent[x] /\ y \in m.present THEN x ELSE m.current[y]
  BY MdActivateFields
<1>2. x # Null
  BY ChartAssumption
<1> HIDE DEF n
<1>3. Touches(m, n, x)
  BY <1>1 DEF Touches
<1>4. Local(m, n, f)
  BY <1>3, LocalTouch
<1>5. ASSUME NEW h \in States, f.op \in {"activate", "call", "entered"}, f.x = StartState[h],
             h \in m.active, m.current[h] # Null
      PROVE  h \in n.active /\ n.current[h] # Null
  <2>1. x = StartState[h] /\ Parent[x] = h /\ h # x
    BY <1>2, <1>5, StartFacts, ParentPath
  <2> QED BY <1>1, <1>2, <1>5, <2>1
<1> QED BY <1>1, <1>4, <1>5 DEF MapStep, n

\* A call on a state at or below that of the call on top.
LEMMA TakesDo ==
    ASSUME NEW top, top.op \notin {"call", "enter"},
           ~(top.op \in {"activate", "call", "entered"} /\ IsKind(top.x, "Start")),
           NEW op \in Ops \ {"call", "enter"}, NEW x \in States, Above(top.x, x),
           op = "activate" => ~NeedsSubstate(x),
           NEW e \in OrNull(Events), NEW k \in Nat, NEW b \in BOOLEAN
    PROVE  LET f == Do(op, x, e, k, b) IN
           Takes(f, top) /\ f.op = op /\ f.x = x /\ f.k = k /\ f.b = b
<1> DEFINE f == Do(op, x, e, k, b)
<1>1. f \in Task
  BY DoTask
<1>2. f.op = op /\ f.x = x /\ f.k = k /\ f.b = b
  BY DoFields
<1> HIDE DEF f
<1>3. StaysAs(f, top)
  BY <1>2, StaysBelow
<1> QED BY <1>1, <1>2, <1>3 DEF Takes, f

\* A continuation of a dispatch on a state at or below that of the call on top.
LEMMA TakesCaller ==
    ASSUME NEW top, top.op \in CallerOps, NEW op \in CallerOps,
           NEW x \in States, Above(top.x, x),
           NEW e \in OrNull(Events), NEW k \in Nat, NEW b \in BOOLEAN
    PROVE  /\ Takes(Do(op, x, e, k, b), top)
           /\ x = top.x => LastAs(Do(op, x, e, k, b), top)
<1> DEFINE f == Do(op, x, e, k, b)
<1>1. /\ top.op \notin {"call", "enter"} /\ op \in Ops \ {"call", "enter"} /\ op # "activate"
      /\ top.op \notin {"activate", "call", "entered"}
  BY DEF CallerOps, Ops
<1>2. Takes(f, top)
  BY <1>1, TakesDo, Zenon
<1>3. f.op = op /\ f.x = x
  BY DoFields
<1> HIDE DEF f
<1>4. x = top.x => LastAs(f, top)
  BY <1>3 DEF LastAs
<1> QED BY <1>2, <1>4 DEF f

\* What the current state of a record is.
LEMMA CurrentChild ==
    ASSUME Inv, NEW h \in States, md.current[h] # Null
    PROVE  /\ md.current[h] \in States \ {Root} /\ Parent[md.current[h]] = h
           /\ Above(h, md.current[h])
<1>1. md.current[h] \in States /\ Parent[md.current[h]] = h
  BY Base DEF MapOK, OrNull
<1>2. md.current[h] # Root
  BY <1>1, ChartAssumption
<1> QED BY <1>1, <1>2, ParentPath

LEMMA DispatchSubstateFlow ==
    ASSUME StructuredChart, Inv, Configured(md, agenda), FlowOK(md, agenda, ret),
           DispatchSubstate
    PROVE  FlowOK(md', agenda', ret')
<1> DEFINE h == Top.x
           bubble == Do("bubble", h, Top.e, 1, FALSE)
           inner == Do("dispatch", md.current[h], Top.e, 1, FALSE)
<1>1. /\ agenda # <<>> /\ Top.op = "substate" /\ md' = md
      /\ md.current[h] # Null => Push(<<inner, bubble>>)
  BY DEF DispatchSubstate, Running, Top, Quiet
<1>2. /\ Top \in Task /\ h \in States /\ Kind[h] = "Hierarchical"
      /\ md.current[h] # Null
  BY <1>1, BelowTop DEF FrameOK, WaitingOK
<1>3. Top.e \in OrNull(Events) /\ Above(h, h) /\ 1 \in Nat /\ FALSE \in BOOLEAN
      /\ "bubble" \in CallerOps /\ "dispatch" \in CallerOps /\ Top.op \in CallerOps
  BY <1>1, <1>2, PathEnd DEF Task, CallerOps
<1>4. /\ md.current[h] \in States \ {Root} /\ Parent[md.current[h]] = h
      /\ Above(h, md.current[h])
  BY <1>2, CurrentChild
<1>5. Takes(bubble, Top) /\ bubble.op = "bubble" /\ bubble.x = h
  <2>1. Takes(bubble, Top)
    BY <1>2, <1>3, TakesCaller
  <2> QED BY <2>1 DEF Do
<1>6. Takes(inner, Top) /\ inner.op = "dispatch" /\ inner.x = md.current[h]
  <2>1. Takes(inner, Top)
    BY <1>3, <1>4, TakesCaller
  <2> QED BY <2>1 DEF Do
<1>7. md.current[h] \in md.active
  BY <1>1, <1>2, Base, CompleteMap DEF OrState, NeutralOps, Top
<1> HIDE DEF bubble, inner
<1>8. LastAs(bubble, Top) /\ Returns(inner, bubble) /\ FlowsAbove(inner, bubble)
  BY <1>1, <1>4, <1>5, <1>6 DEF LastAs, Returns, CallOf, CallerOps, FlowsAbove
<1>9. /\ Fits(<<inner, bubble>>, Top) /\ ElementsOf(<<inner, bubble>>) = {inner, bubble}
      /\ <<inner, bubble>> # <<>> /\ <<inner, bubble>>[1] = inner
  BY <1>5, <1>6, <1>8, FitsTwo
<1>10. WaitsOK(md', {inner, bubble}) /\ ResultOK(md', inner, ret')
  BY <1>2, <1>5, <1>6 DEF WaitsOK, WaitingOK, ResultOK
<1>11. MapStep(md, md', Top) /\ NoNewNeed(md, md')
  BY <1>1, Base, MapStepSame DEF NoNewNeed
<1>12. agenda' = <<inner, bubble>> \o Tail(agenda)
  BY <1>1, <1>2 DEF Push
<1> QED BY <1>1, <1>6, <1>7, <1>9, <1>10, <1>11, <1>12, PushFlow

LEMMA DispatchConcurrentFlow ==
    ASSUME StructuredChart, Inv, Configured(md, agenda), FlowOK(md, agenda, ret),
           DispatchConcurrent
    PROVE  FlowOK(md', agenda', ret')
<1> DEFINE c == Top.x
           regions == Do("regions", c, Top.e, 1, FALSE)
<1>1. /\ agenda # <<>> /\ Top.op = "dispatch" /\ md' = md /\ ret' = FALSE
      /\ Kind[c] = "Concurrent" /\ Push(<<regions>>) /\ Running("dispatch")
  BY DEF DispatchConcurrent, Running, Top, Quiet
<1>2. Top \in Task /\ c \in States \ {Root} /\ c # Null
  BY <1>1, BelowTop, ChartAssumption DEF FrameOK
<1>3. Top.e \in OrNull(Events) /\ Above(c, c) /\ 1 \in Nat /\ FALSE \in BOOLEAN
      /\ "regions" \in CallerOps /\ Top.op \in CallerOps
  BY <1>1, <1>2, PathEnd DEF Task, CallerOps
<1>4. /\ Takes(regions, Top) /\ regions.op = "regions" /\ regions.x = c
      /\ regions.k = 1 /\ regions.b = FALSE
  <2>1. Takes(regions, Top)
    BY <1>2, <1>3, TakesCaller
  <2> QED BY <2>1 DEF Do
<1>5. c \in md.active
  <2>1. md.current[Parent[c]] = c
    BY <1>1 DEF Inv, DispatchTarget
  <2>2. Parent[c] \in States /\ OrState(Parent[c])
    BY <1>1, <1>2, Family
  <2> QED BY <1>1, <1>2, <2>1, <2>2, Base, CompleteMap DEF NeutralOps, Top
<1> HIDE DEF regions
<1>6. LastAs(regions, Top)
  BY <1>1, <1>4 DEF LastAs, CallerOps
<1>7. /\ Fits(<<regions>>, Top) /\ ElementsOf(<<regions>>) = {regions}
      /\ <<regions>> # <<>> /\ <<regions>>[1] = regions
  BY <1>4, <1>6, FitsOne
<1>8. \A j \in DOMAIN Regions[c] : ~(j < 1 - 1) /\ ~(j < 1)
  <2>1. Regions[c] \in Seq(States)
    BY <1>2, ChartAssumption
  <2> QED BY <2>1
<1>9. WaitsOK(md', {regions}) /\ ResultOK(md', regions, ret')
  BY <1>1, <1>4, <1>5, <1>8 DEF WaitsOK, WaitingOK, ResultOK
<1>10. MapStep(md, md', Top) /\ NoNewNeed(md, md')
  BY <1>1, Base, MapStepSame DEF NoNewNeed
<1>11. agenda' = <<regions>> \o Tail(agenda)
  BY <1>1 DEF Push
<1> QED BY <1>1, <1>4, <1>7, <1>9, <1>10, <1>11, PushFlow

\* The regions of an active and-state are active while it dispatches.
LEMMA RegionActive ==
    ASSUME StructuredChart, Inv, Configured(md, agenda), agenda # <<>>,
           Top.op \in NeutralOps, Top.x \in md.active, Kind[Top.x] = "Concurrent",
           NEW j \in DOMAIN Regions[Top.x]
    PROVE  Regions[Top.x][j] \in md.active
<1> DEFINE c == Top.x
<1>1. agenda \in Seq(Task) /\ StackOK(agenda) /\ c \in States
      /\ ElementsOf(agenda) = {Top} \cup ElementsOf(Tail(agenda))
  BY Base, TopCall
<1>2. \/ Regions[c][j] \in md.active
      \/ \E f \in ElementsOf(agenda) : StartsRegion(f, c, j) \/ Exits(f, c)
  BY DEF Configured, MapCond, RegionsActive
<1>3. ASSUME NEW f \in ElementsOf(agenda), StartsRegion(f, c, j) \/ Exits(f, c)
      PROVE  FALSE
  <2>1. f # Top
    BY <1>3 DEF StartsRegion, Exits, NeutralOps
  <2>2. f \in ElementsOf(Tail(agenda))
    BY <1>1, <2>1
  <2>3. f.op \notin {"deactivate", "leave"} /\ Enters(md, f) = {}
    BY <1>1, <2>2, NeutralTop DEF Top
  <2>4. MayRunAbove(md, Top, f)
    BY <2>2, TopCall
  <2>5. f.op = "entered" /\ f.x = c
    BY <1>3, <2>3 DEF StartsRegion, Exits, Enters
  <2>6. RunsInside(Top, c)
    BY <2>4, <2>5 DEF MayRunAbove, AboveEntered
  <2> QED BY <1>1, <2>6, InsideOrder DEF RunsInside, NeutralOps
<1> QED BY <1>2, <1>3

\* One call takes the place of the call on top, or two.
LEMMA PushOne ==
    ASSUME Inv, agenda # <<>>, FlowOK(md, agenda, ret), Top.op \notin {"activate", "enter"},
           NEW f, Takes(f, Top), LastAs(f, Top), agenda' = <<f>> \o Tail(agenda),
           MapStep(md, md', Top), NoNewNeed(md, md'),
           WaitingOK(md', f), ResultOK(md', f, ret'),
           f.op = "dispatch" => f.x \in (md').active \/ Top.op \notin CallerOps \cup {"enter"}
    PROVE  FlowOK(md', agenda', ret')
<1> DEFINE s == <<f>>
<1>1. Fits(s, Top) /\ ElementsOf(s) = {f} /\ s # <<>> /\ s[1] = f /\ Len(s) = 1
  BY FitsOne
<1>2. agenda' = s \o Tail(agenda)
  OBVIOUS
<1> HIDE DEF s
<1>3. WaitsOK(md', ElementsOf(s))
  BY <1>1 DEF WaitsOK
<1> QED BY <1>1, <1>2, <1>3, PushFlow

LEMMA PushTwo ==
    ASSUME Inv, agenda # <<>>, FlowOK(md, agenda, ret), Top.op \notin {"activate", "enter"},
           NEW f, NEW g, Takes(f, Top), Takes(g, Top), LastAs(g, Top),
           Returns(f, g), FlowsAbove(f, g),
           agenda' = <<f, g>> \o Tail(agenda),
           MapStep(md, md', Top), NoNewNeed(md, md'),
           WaitingOK(md', f), WaitingOK(md', g), ResultOK(md', f, ret'),
           f.op = "dispatch" => f.x \in (md').active
    PROVE  FlowOK(md', agenda', ret')
<1> DEFINE s == <<f, g>>
<1>1. Fits(s, Top) /\ ElementsOf(s) = {f, g} /\ s # <<>> /\ s[1] = f
  BY FitsTwo
<1>2. agenda' = s \o Tail(agenda)
  OBVIOUS
<1> HIDE DEF s
<1>3. WaitsOK(md', ElementsOf(s))
  BY <1>1 DEF WaitsOK
<1> QED BY <1>1, <1>2, <1>3, PushFlow

\* Nobody waits for the dispatch on an inactive state.
LEMMA UnheardReturn ==
    ASSUME Inv, agenda # <<>>, FlowOK(md, agenda, ret), Top.op = "dispatch",
           Top.x \notin md.active, agenda' = Tail(agenda), NEW m, NEW rc
    PROVE  TopOK(m, agenda', rc)
<1>1. agenda \in Seq(Task) /\ StackOK(agenda) /\ Top = agenda[1] /\ TopOK(md, agenda, ret)
  BY Base, BelowTop DEF FlowOK
<1>2. SUFFICES ASSUME agenda' # <<>> PROVE TopOK(m, agenda', rc)
  BY DEF TopOK
<1>3. Len(agenda) > 1 /\ 2 \in DOMAIN agenda /\ agenda'[1] = agenda[2]
  BY <1>1, <1>2
<1>4. agenda[2].op # "dispatch" /\ agenda[2].op \notin ReturnOps
  BY <1>1, <1>3 DEF StackOK, TopOK
<1> QED BY <1>3, <1>4 DEF TopOK, ResultOK, ReturnOps

LEMMA DispatchHierarchicalFlow ==
    ASSUME StructuredChart, Inv, Configured(md, agenda), FlowOK(md, agenda, ret),
           DispatchHierarchical
    PROVE  FlowOK(md', agenda', ret')
<1> DEFINE h == Top.x
           start == StartState[h]
           substate == Do("substate", h, Top.e, 1, FALSE)
           activate == Call("activate", start)
<1>1. agenda # <<>> /\ Top.op = "dispatch" /\ Kind[h] = "Hierarchical" /\ Running("dispatch")
  BY DEF DispatchHierarchical, Running, Top
<1>2. Top \in Task /\ h \in States
  BY <1>1, BelowTop DEF FrameOK
<1>3. Top.e \in OrNull(Events) /\ Above(h, h) /\ 1 \in Nat /\ FALSE \in BOOLEAN
      /\ "substate" \in CallerOps /\ Top.op \in CallerOps
  BY <1>1, <1>2, PathEnd DEF Task, CallerOps
<1>4. Takes(substate, Top) /\ LastAs(substate, Top) /\ substate.op = "substate" /\ substate.x = h
  <2>1. Takes(substate, Top) /\ LastAs(substate, Top)
    BY <1>2, <1>3, TakesCaller
  <2> QED BY <2>1 DEF Do
<1> HIDE DEF substate
<1>5. CASE h \notin md.active /\ Return(FALSE) /\ Quiet
  <2>1. agenda' = Tail(agenda) /\ md' = md
    BY <1>5 DEF Return, Quiet
  <2>2. MapStep(md, md', Top) /\ NoNewNeed(md, md')
    BY <2>1, Base, MapStepSame DEF NoNewNeed
  <2>3. \A x \in States : ~WillEnter(Top, x)
    BY <1>1 DEF WillEnter
  <2>4. TopOK(md', agenda', ret')
    BY <1>1, <1>5, <2>1, UnheardReturn
  <2> QED BY <1>1, <2>1, <2>2, <2>3, <2>4, PopFlow
<1>6. CASE /\ h \in md.active /\ md.current[h] = Null /\ start # Null
           /\ md' = MdActivate(md, start) /\ Push(<<activate, substate>>)
  <2>1. /\ start \in States \ {Root} /\ Parent[start] = h /\ ~OrState(start)
        /\ IsKind(start, "Start") /\ start # Null
    BY <1>2, <1>6, StartFacts
  <2>2. Above(h, start)
    BY <2>1, ParentPath
  <2>3. Takes(activate, Top) /\ activate.op = "activate" /\ activate.x = start
    <3>1. /\ Top.op \notin {"call", "enter"} /\ Top.op \notin {"activate", "call", "entered"}
          /\ "activate" \in Ops \ {"call", "enter"} /\ ~NeedsSubstate(start)
          /\ Null \in OrNull(Events)
      BY <1>1, <2>1 DEF Ops, NeedsSubstate, OrNull
    <3>2. Takes(Do("activate", start, Null, 1, FALSE), Top)
      BY <1>3, <2>1, <2>2, <3>1, TakesDo
    <3> QED BY <3>2 DEF Call, Do
  <2> HIDE DEF activate
  <2>4. MapStep(md, md', Top)
    <3>1. \A r \in States : (Region(r) /\ StaysIn(Top, r)) => Above(r, start)
      BY <1>1, <2>1, <2>2, AboveTransitive DEF StaysIn
    <3> QED BY <1>1, <1>6, <2>1, <3>1, Base, MdActivateStep
  <2>5. /\ (md').active = md.active \cup {start}
        /\ (md').current[h] = start
        /\ \A y \in States \ {start, h} : (md').current[y] = md.current[y]
    BY <1>2, <1>6, <2>1, Base, MdActivateFields, ParentPath
  <2>6. NoNewNeed(md, md')
    BY <2>1, <2>5 DEF NoNewNeed, NeedsSubstate
  <2>7. WaitingOK(md', substate) /\ WaitingOK(md', activate) /\ ResultOK(md', activate, ret')
    BY <1>1, <1>4, <1>6, <2>1, <2>3, <2>5 DEF WaitingOK, ResultOK
  <2>8. Returns(activate, substate) /\ FlowsAbove(activate, substate)
    BY <1>4, <2>3 DEF Returns, ReturnOps, FlowsAbove
  <2>9. agenda' = <<activate, substate>> \o Tail(agenda)
    BY <1>6 DEF Push
  <2> QED BY <1>1, <1>4, <2>3, <2>4, <2>6, <2>7, <2>8, <2>9, PushTwo
<1>7. CASE /\ h \in md.active
           /\ md.current[h] # Null \/ start = Null
           /\ Push(<<substate>>) /\ UNCHANGED ret /\ Quiet
  <2>1. md.current[h] # Null
    BY <1>1, <1>2, <1>7, SubstateKnown DEF NeedsSubstate, OrState, NeutralOps
  <2>2. md' = md /\ agenda' = <<substate>> \o Tail(agenda)
    BY <1>7 DEF Push, Quiet
  <2>3. MapStep(md, md', Top) /\ NoNewNeed(md, md')
    BY <2>2, Base, MapStepSame DEF NoNewNeed
  <2>4. WaitingOK(md', substate) /\ ResultOK(md', substate, ret')
    BY <1>1, <1>4, <1>7, <2>1, <2>2 DEF WaitingOK, ResultOK
  <2> QED BY <1>1, <1>4, <2>2, <2>3, <2>4, PushOne
<1> QED BY <1>5, <1>6, <1>7 DEF DispatchHierarchical, substate

LEMMA DispatchRegionsFlow ==
    ASSUME StructuredChart, Inv, Configured(md, agenda), FlowOK(md, agenda, ret),
           DispatchRegions
    PROVE  FlowOK(md', agenda', ret')
<1> DEFINE c == Top.x
           k == Top.k
           dispatched == Top.b \/ ret
           inner == Do("dispatch", Regions[c][k], Top.e, 1, FALSE)
           next == Do("regions", c, Top.e, k + 1, dispatched)
<1>1. agenda # <<>> /\ Top.op = "regions"
  BY DEF DispatchRegions, Running, Top
<1>2. /\ Top \in Task /\ c \in States \ {Root} /\ Kind[c] = "Concurrent" /\ k \in Nat \ {0}
      /\ ResultOK(md, Top, ret) /\ Regions[c] \in Seq(States)
  <2>1. Top = agenda[1] /\ Top \in Task /\ FrameOK(Top) /\ WaitingOK(md, Top)
    BY <1>1, BelowTop
  <2>2. c \in States /\ Kind[c] = "Concurrent" /\ c # Root /\ k > 0 /\ k \in Nat
    BY <1>1, <2>1, ChartAssumption DEF FrameOK, WaitingOK, Task
  <2>3. ResultOK(md, Top, ret)
    BY <1>1, <2>1 DEF FlowOK, TopOK
  <2> QED BY <2>1, <2>2, <2>3, ChartAssumption
<1>3. CASE /\ k \in DOMAIN Regions[c] /\ c \in md.active
           /\ Push(<<inner, next>>) /\ UNCHANGED ret /\ Quiet
  <2>1. Regions[c][k] \in States /\ Parent[Regions[c][k]] = c /\ Regions[c][k] \in md.active
        /\ Above(c, Regions[c][k])
    BY <1>1, <1>2, <1>3, RegionActive, RegionFacts, ParentPath DEF NeutralOps
  <2>2. /\ Top.e \in OrNull(Events) /\ Above(c, c) /\ 1 \in Nat /\ k + 1 \in Nat
        /\ FALSE \in BOOLEAN /\ dispatched \in BOOLEAN
        /\ "regions" \in CallerOps /\ "dispatch" \in CallerOps /\ Top.op \in CallerOps
    <3>1. Above(c, c) /\ Top.e \in OrNull(Events)
      BY <1>2, PathEnd DEF Task
    <3> QED BY <1>1, <1>2, <3>1 DEF CallerOps
  <2> HIDE DEF dispatched
  <2>3. Takes(inner, Top) /\ inner.op = "dispatch" /\ inner.x = Regions[c][k]
    <3>1. Takes(inner, Top)
      BY <1>2, <2>1, <2>2, TakesCaller
    <3> QED BY <3>1 DEF Do
  <2>4. /\ Takes(next, Top) /\ LastAs(next, Top) /\ next.op = "regions" /\ next.x = c
        /\ next.k = k + 1 /\ next.b = dispatched
    <3>1. Takes(next, Top) /\ LastAs(next, Top)
      BY <1>2, <2>2, TakesCaller
    <3> QED BY <3>1 DEF Do
  <2>5. md' = md /\ ret' = ret /\ agenda' = <<inner, next>> \o Tail(agenda)
    BY <1>3 DEF Push, Quiet
  <2> HIDE DEF inner, next
  <2>6. MapStep(md, md', Top) /\ NoNewNeed(md, md')
    BY <2>5, Base, MapStepSame DEF NoNewNeed
  <2>7. next.k - 1 = k
    BY <1>2, <2>4
  <2>8. Returns(inner, next) /\ FlowsAbove(inner, next)
    <3>1. StaysIn(inner, Regions[c][k])
      BY <2>1, <2>3, PathEnd DEF StaysIn
    <3> QED BY <1>3, <2>3, <2>4, <2>7, <3>1
        DEF Returns, CallOf, CallerOps, FlowsAbove
  <2>9. WaitingOK(md', next)
    <3>1. ~dispatched => \A j \in DOMAIN Regions[c] : j < k => Settled(md, Regions[c][j])
      BY <1>1, <1>2 DEF ResultOK, dispatched
    <3> QED BY <1>2, <2>4, <2>5, <2>7, <3>1 DEF WaitingOK
  <2>10. WaitingOK(md', inner) /\ ResultOK(md', inner, ret')
    BY <2>3 DEF WaitingOK, ResultOK
  <2> QED BY <1>1, <2>1, <2>3, <2>4, <2>5, <2>6, <2>8, <2>9, <2>10, PushTwo
<1>4. CASE /\ dispatched \/ c \notin md.active
           /\ Return(dispatched) /\ Quiet
  <2>1. dispatched
    BY <1>1, <1>2, <1>4 DEF ResultOK
  <2> QED BY <1>1, <1>4, <2>1, ReturnFlow
<1>5. CASE /\ k \notin DOMAIN Regions[c] /\ c \in md.active /\ ~dispatched
           /\ FireFirst(c, MayComplete(c, Top.e))
  <2>1. \A j \in DOMAIN Regions[c] : j < k
    BY <1>2, <1>5
  <2>2. Settled(md, c)
    <3>1. \A j \in DOMAIN Regions[c] : Settled(md, Regions[c][j])
      BY <1>1, <1>2, <1>5, <2>1 DEF ResultOK
    <3> QED BY <1>2, <3>1, Base, SettledRegions
  <2>3. MayComplete(c, Top.e) \subseteq DOMAIN Outgoing[c] /\ ~IsPseudo(c)
    BY <1>2 DEF MayComplete, Ready, IsPseudo, PseudoKinds, HistoryKinds
  <2> QED BY <1>1, <1>2, <1>5, <2>2, <2>3, FireFirstFlow DEF CallerOps
<1> QED BY <1>3, <1>4, <1>5 DEF DispatchRegions

(***************************************************************************)
(* User actions, and leaving states.                                       *)
(***************************************************************************)
\* A call that nobody waits for is over.
LEMMA PopPlain ==
    ASSUME Inv, agenda # <<>>, FlowOK(md, agenda, ret),
           Top.op \notin CallerOps \cup {"activate", "enter"},
           agenda' = <<>> \o Tail(agenda) \/ agenda' = Tail(agenda),
           MapStep(md, md', Top), NoNewNeed(md, md')
    PROVE  FlowOK(md', agenda', ret')
<1>1. agenda' = Tail(agenda)
  BY Base
<1>2. TopOK(md', agenda', ret')
  BY <1>1, TopPop
<1>3. \A h \in States : ~WillEnter(Top, h)
  BY DEF WillEnter
<1> QED BY <1>1, <1>2, <1>3, PopFlow

LEMMA RunActionFlow ==
    ASSUME Inv, FlowOK(md, agenda, ret), RunAction
    PROVE  FlowOK(md', agenda', ret')
<1>1. agenda # <<>> /\ Top.op \notin CallerOps \cup {"activate", "enter"}
  BY DEF RunAction, Running, Top, CallerOps
<1>2. md' = md /\ agenda' = <<>> \o Tail(agenda)
  BY DEF RunAction, Push
<1>3. MapStep(md, md', Top) /\ NoNewNeed(md, md')
  BY <1>2, Base, MapStepSame DEF NoNewNeed
<1> QED BY <1>1, <1>2, <1>3, PopPlain

\* A call that is neither a dispatch nor waits for one.
PlainCallOps == {"dispatch", "activate", "entered", "runRegion", "deactivate",
                 "leave", "call", "exit", "restored"}

LEMMA TakesPlain ==
    ASSUME NEW top, top.op \in {"entered", "runRegion", "deactivate", "leave"},
           ~(top.op = "entered" /\ IsKind(top.x, "Start")),
           NEW op \in PlainCallOps \ {"call"}, NEW x \in States, Above(top.x, x),
           op = "activate" => ~NeedsSubstate(x)
    PROVE  /\ Takes(Call(op, x), top)
           /\ LastAs(Call(op, x), top)
<1>1. /\ top.op \notin {"call", "enter"} /\ op \in Ops \ {"call", "enter"}
      /\ ~(top.op \in {"activate", "call", "entered"} /\ IsKind(top.x, "Start"))
      /\ top.op \notin CallerOps \cup {"enter"}
  BY DEF CallerOps, Ops, PlainCallOps
<1>2. Null \in OrNull(Events) /\ 1 \in Nat /\ FALSE \in BOOLEAN
  BY DEF OrNull
<1>3. Takes(Do(op, x, Null, 1, FALSE), top)
  BY <1>1, <1>2, TakesDo
<1> QED BY <1>1, <1>3 DEF Call, LastAs

LEMMA RunRegionFlow ==
    ASSUME StructuredChart, Inv, Configured(md, agenda), FlowOK(md, agenda, ret), RunRegion
    PROVE  FlowOK(md', agenda', ret')
<1> DEFINE f == Call("dispatch", Top.x)
<1>1. agenda # <<>> /\ Top.op = "runRegion" /\ md' = md
      /\ agenda' = (IF ret THEN <<f>> ELSE <<>>) \o Tail(agenda)
  BY DEF RunRegion, Running, Top, Push, Quiet
<1>2. Top.x \in States /\ Above(Top.x, Top.x)
  BY <1>1, BelowTop, PathEnd DEF FrameOK
<1>3. Takes(f, Top) /\ LastAs(f, Top) /\ f.op = "dispatch"
  <2>1. "dispatch" \in PlainCallOps \ {"call"} /\ "dispatch" # "activate"
    BY DEF PlainCallOps
  <2>2. Takes(f, Top) /\ LastAs(f, Top)
    BY <1>1, <1>2, <2>1, TakesPlain
  <2> QED BY <2>2 DEF Call, Do
<1> HIDE DEF f
<1>4. MapStep(md, md', Top) /\ NoNewNeed(md, md')
  BY <1>1, Base, MapStepSame DEF NoNewNeed
<1>5. Top.op \notin CallerOps \cup {"activate", "enter"}
  BY <1>1 DEF CallerOps
<1>6. CASE ret
  <2>1. agenda' = <<f>> \o Tail(agenda)
    BY <1>1, <1>6
  <2>2. WaitingOK(md', f) /\ ResultOK(md', f, ret')
    BY <1>3 DEF WaitingOK, ResultOK
  <2> QED BY <1>1, <1>3, <1>4, <1>5, <2>1, <2>2, PushOne
<1>7. CASE ~ret
  <2>1. agenda' = <<>> \o Tail(agenda)
    BY <1>1, <1>7
  <2> QED BY <1>1, <1>4, <1>5, <2>1, PopPlain
<1> QED BY <1>6, <1>7

LEMMA DeactivateHierarchicalFlow ==
    ASSUME StructuredChart, Inv, Configured(md, agenda), FlowOK(md, agenda, ret),
           DeactivateHierarchical
    PROVE  FlowOK(md', agenda', ret')
<1> DEFINE h == Top.x
           inner == Call("deactivate", md.current[h])
           leave == Call("leave", h)
<1>1. agenda # <<>> /\ Top.op = "deactivate" /\ Kind[h] = "Hierarchical"
  BY DEF DeactivateHierarchical, Running, Top
<1>2. h \in States /\ Above(h, h)
  BY <1>1, BelowTop, PathEnd DEF FrameOK
<1>3. Top.op \notin CallerOps \cup {"activate", "enter"}
  BY <1>1 DEF CallerOps
<1>4. CASE h \notin md.active /\ Push(<<>>) /\ UNCHANGED ret /\ Quiet
  <2>1. agenda' = <<>> \o Tail(agenda) /\ md' = md
    BY <1>4 DEF Push, Quiet
  <2>2. MapStep(md, md', Top) /\ NoNewNeed(md, md')
    BY <2>1, Base, MapStepSame DEF NoNewNeed
  <2> QED BY <1>1, <1>3, <2>1, <2>2, PopPlain
<1>5. CASE /\ h \in md.active
           /\ md' = IF StoresHistory(h) THEN StoreHistory(md, HistoryState[h]) ELSE md
           /\ Push(IF md.current[h] = Null THEN <<leave>> ELSE <<inner, leave>>)
  <2>1. (md').active = md.active /\ (md').current = md.current
    BY <1>1, <1>5, StoreKeeps DEF StoresHistory
  <2>2. MapStep(md, md', Top) /\ NoNewNeed(md, md')
    BY <2>1, Base, MapStepSame DEF NoNewNeed
  <2>3. Takes(leave, Top) /\ LastAs(leave, Top) /\ leave.op = "leave"
    <3>1. "leave" \in PlainCallOps \ {"call"} /\ "leave" # "activate"
      BY DEF PlainCallOps
    <3>2. Takes(leave, Top) /\ LastAs(leave, Top)
      BY <1>1, <1>2, <3>1, TakesPlain
    <3> QED BY <3>2 DEF Call, Do
  <2>4. md.current[h] # Null => Takes(inner, Top) /\ inner.op = "deactivate"
    <3>1. "deactivate" \in PlainCallOps \ {"call"} /\ "deactivate" # "activate"
      BY DEF PlainCallOps
    <3>2. ASSUME md.current[h] # Null PROVE Takes(inner, Top)
      <4>1. md.current[h] \in States /\ Above(h, md.current[h])
        BY <1>2, <3>2, CurrentChild
      <4> QED BY <1>1, <3>1, <4>1, TakesPlain
    <3> QED BY <3>2 DEF Call, Do
  <2> HIDE DEF inner, leave
  <2>5. WaitingOK(md', leave) /\ ResultOK(md', leave, ret')
    BY <2>3 DEF WaitingOK, ResultOK
  <2>6. CASE md.current[h] = Null
    <3>1. agenda' = <<leave>> \o Tail(agenda)
      BY <1>5, <2>6 DEF Push
    <3> QED BY <1>1, <1>3, <2>2, <2>3, <2>5, <3>1, PushOne
  <2>7. CASE md.current[h] # Null
    <3>1. agenda' = <<inner, leave>> \o Tail(agenda)
      BY <1>5, <2>7 DEF Push
    <3>2. /\ WaitingOK(md', inner) /\ ResultOK(md', inner, ret')
          /\ Returns(inner, leave) /\ FlowsAbove(inner, leave) /\ inner.op # "dispatch"
      BY <2>3, <2>4, <2>7 DEF WaitingOK, ResultOK, Returns, ReturnOps, FlowsAbove
    <3> QED BY <1>1, <1>3, <2>2, <2>3, <2>4, <2>5, <2>7, <3>1, <3>2, PushTwo
  <2> QED BY <2>6, <2>7
<1> QED BY <1>4, <1>5 DEF DeactivateHierarchical

\* Any number of calls nobody waits for.
LEMMA PushPlain ==
    ASSUME Inv, agenda # <<>>, FlowOK(md, agenda, ret),
           Top.op \notin CallerOps \cup {"activate", "enter"},
           NEW s \in Seq(Task), s # <<>>, agenda' = s \o Tail(agenda),
           \A i \in DOMAIN s : s[i].op \in PlainCallOps \ {"dispatch"} /\ Takes(s[i], Top),
           MapStep(md, md', Top), NoNewNeed(md, md')
    PROVE  FlowOK(md', agenda', ret')
<1>1. DOMAIN s = 1 .. Len(s) /\ Len(s) \in Nat /\ 1 \in DOMAIN s
  OBVIOUS
<1>2. \A i \in DOMAIN s :
         /\ s[i].op \notin {"substate", "bubble", "regions", "chart", "loop", "dispatch"}
         /\ StaysAs(s[i], Top) /\ (s[i].op = "activate" => ~NeedsSubstate(s[i].x))
  BY DEF PlainCallOps, Takes
<1>3. Adjacent(s)
  <2> SUFFICES ASSUME NEW i \in 1 .. Len(s) - 1 PROVE Returns(s[i], s[i + 1])
    BY DEF Adjacent
  <2>1. i + 1 \in DOMAIN s
    BY <1>1
  <2> QED BY <1>2, <2>1 DEF Returns, ReturnOps
<1>4. Focused(s)
  BY <1>2 DEF Focused, FlowsAbove
<1>5. Fits(s, Top)
  BY <1>2, <1>3, <1>4 DEF Fits, ReturnsAs, ElementsOf
<1>6. WaitsOK(md', ElementsOf(s))
  BY <1>2 DEF WaitsOK, WaitingOK, ElementsOf
<1>7. ResultOK(md', s[1], ret') /\ s[1].op # "dispatch"
  BY <1>1, <1>2 DEF ResultOK
<1> QED BY <1>5, <1>6, <1>7, PushFlow

LEMMA DeactivateConcurrentFlow ==
    ASSUME StructuredChart, Inv, Configured(md, agenda), FlowOK(md, agenda, ret),
           DeactivateConcurrent
    PROVE  FlowOK(md', agenda', ret')
<1> DEFINE c == Top.x
           s == RegionCalls(c)
<1>1. /\ agenda # <<>> /\ Top.op = "deactivate" /\ Kind[c] = "Concurrent"
      /\ md' = [md EXCEPT !.stateset[c] = {}] /\ agenda' = s \o Tail(agenda)
  BY DEF DeactivateConcurrent, Running, Top, Push, RegionCalls
<1>2. c \in States /\ Above(c, c)
  BY <1>1, BelowTop, PathEnd DEF FrameOK
<1>3. /\ s \in Seq(Task) /\ Len(Regions[c]) \in Nat /\ DOMAIN Regions[c] = 1 .. Len(Regions[c])
      /\ DOMAIN s = 1 .. Len(Regions[c]) + 1
      /\ \A i \in 1 .. Len(Regions[c]) : s[i].op = "deactivate" /\ s[i].x = Regions[c][i]
      /\ s[Len(Regions[c]) + 1].op = "leave" /\ s[Len(Regions[c]) + 1].x = c
  BY <1>2, RegionCallsOK
<1> HIDE DEF s
<1>4. Top.op \notin CallerOps \cup {"activate", "enter"}
  BY <1>1 DEF CallerOps
<1>5. ASSUME NEW i \in DOMAIN s
      PROVE  s[i].op \in PlainCallOps \ {"dispatch"} /\ Takes(s[i], Top)
  <2>1. s[i].op \in {"deactivate", "leave"} /\ s[i].x \in States /\ Above(c, s[i].x)
    <3>1. CASE i \in 1 .. Len(Regions[c])
      <4>1. i \in DOMAIN Regions[c]
        BY <1>3, <3>1
      <4>2. Regions[c][i] \in States \ {Root} /\ Parent[Regions[c][i]] = c
        BY <1>1, <1>2, <4>1, RegionFacts
      <4>3. Above(c, Regions[c][i])
        BY <4>2, ParentPath
      <4> QED BY <1>3, <3>1, <4>2, <4>3
    <3>2. CASE i = Len(Regions[c]) + 1
      BY <1>2, <1>3, <3>2
    <3> QED BY <1>3, <3>1, <3>2
  <2>2. StaysAs(s[i], Top)
    BY <1>1, <2>1, StaysBelow
  <2>3. s[i] \in Task
    BY <1>3
  <2> QED BY <2>1, <2>2, <2>3 DEF PlainCallOps, Takes
<1>6. MapStep(md, md', Top) /\ NoNewNeed(md, md')
  <2>1. (md').active = md.active /\ (md').current = md.current
    BY <1>1, Base DEF RuntimeMap
  <2> QED BY <2>1, Base, MapStepSame DEF NoNewNeed
<1>7. s # <<>>
  BY <1>3
<1> QED BY <1>1, <1>3, <1>4, <1>5, <1>6, <1>7, PushPlain

LEMMA LeaveFlow ==
    ASSUME StructuredChart, Inv, Configured(md, agenda), FlowOK(md, agenda, ret), Leave
    PROVE  FlowOK(md', agenda', ret')
<1> DEFINE x == Top.x
           exit == Call("exit", x)
<1>1. agenda # <<>> /\ Top.op \in {"leave", "deactivate"}
  BY DEF Leave, Running, Top
<1>2. x \in States \ {Root} /\ Above(x, x)
  BY <1>1, BelowTop, PathEnd DEF FrameOK
<1>3. Top.op \notin CallerOps \cup {"activate", "enter"}
  BY <1>1 DEF CallerOps
<1>4. CASE x \notin md.active /\ Push(<<>>) /\ UNCHANGED <<md, ret>>
  <2>1. agenda' = <<>> \o Tail(agenda) /\ md' = md
    BY <1>4 DEF Push
  <2>2. MapStep(md, md', Top) /\ NoNewNeed(md, md')
    BY <2>1, Base, MapStepSame DEF NoNewNeed
  <2> QED BY <1>1, <1>3, <2>1, <2>2, PopPlain
<1>5. CASE x \in md.active /\ md' = MdDeactivate(md, x) /\ Push(<<exit>>)
  <2>1. Takes(exit, Top) /\ LastAs(exit, Top) /\ exit.op = "exit"
    <3>1. "exit" \in PlainCallOps \ {"call"} /\ "exit" # "activate"
      BY DEF PlainCallOps
    <3>2. Takes(exit, Top) /\ LastAs(exit, Top)
      BY <1>1, <1>2, <3>1, TakesPlain
    <3> QED BY <3>2 DEF Call, Do
  <2> HIDE DEF exit
  <2>2. /\ (md').active = md.active \ {x}
        /\ \A y \in States \ {x} : (md').current[y] = md.current[y]
    BY <1>5, Base, MdDeactivateFields
  <2>3. MapStep(md, md', Top)
    <3>1. Touches(md, md', x)
      BY <2>2 DEF Touches
    <3>2. \A r \in States : (Region(r) /\ StaysIn(Top, r)) => Above(r, x)
      BY <1>1 DEF StaysIn
    <3>3. Local(md, md', Top)
      BY <1>2, <3>1, <3>2, LocalTouch
    <3> QED BY <1>1, <1>2, <2>2, <3>3, Base DEF MapStep
  <2>4. NoNewNeed(md, md')
    BY <2>2 DEF NoNewNeed
  <2>5. WaitingOK(md', exit) /\ ResultOK(md', exit, ret') /\ exit.op # "dispatch"
    BY <2>1 DEF WaitingOK, ResultOK
  <2>6. agenda' = <<exit>> \o Tail(agenda)
    BY <1>5 DEF Push
  <2> QED BY <1>1, <1>3, <2>1, <2>3, <2>4, <2>5, <2>6, PushOne
<1> QED BY <1>4, <1>5 DEF Leave

(***************************************************************************)
(* Entering states.                                                        *)
(***************************************************************************)
\* What is known of a transition that enters a state.
LEMMA EntersBelow ==
    ASSUME StructuredChart, NEW t \in Trans, NEW k \in DOMAIN Activates[t]
    PROVE  /\ Activates[t] \in Seq(States \ {Root})
           /\ Activates[t][k] \in States \ {Root}
           /\ k + 1 \in DOMAIN Activates[t] => Parent[Activates[t][k + 1]] = Activates[t][k]
           /\ k + 1 \notin DOMAIN Activates[t] => k = Len(Activates[t])
           /\ \A r \in States : (Region(r) /\ Above(r, Source[t])) =>
                 Above(r, Activates[t][k])
<1>1. Activates[t] \in Seq(States \ {Root}) /\ Len(Activates[t]) \in Nat
      /\ DOMAIN Activates[t] = 1 .. Len(Activates[t])
  <2>1. Activates[t] \in Seq(States \ {Root})
    BY ChartAssumption
  <2> QED BY <2>1
<1>2. ~Internal(t)
  <2>1. Len(Activates[t]) # 0
    BY <1>1
  <2> QED BY <2>1 DEF Internal
<1>3. PICK ctx \in States : Connects(t, ctx)
  BY <1>2, Connected DEF StructuredChart
<1>4. k \in 1 .. Len(Activates[t]) /\ Inside(Activates[t][k], ctx)
      /\ Activates[t][k] \in States \ {Root}
  BY <1>1, <1>3 DEF Connects
<1>5. k + 1 \in DOMAIN Activates[t] => Parent[Activates[t][k + 1]] = Activates[t][k]
  <2>1. SUFFICES ASSUME k + 1 \in 1 .. Len(Activates[t])
                 PROVE  Parent[Activates[t][k + 1]] = Activates[t][k]
    BY <1>1
  <2>2. \A i \in 1 .. Len(Activates[t]) : i > 1 => Parent[Activates[t][i]] = Activates[t][i - 1]
    BY <1>3 DEF Connects
  <2>3. k + 1 > 1 /\ (k + 1) - 1 = k
    BY <1>4
  <2> QED BY <2>1, <2>2, <2>3
<1>6. k + 1 \notin DOMAIN Activates[t] => k = Len(Activates[t])
  BY <1>1, <1>4
<1>7. ASSUME NEW r \in States, Region(r), Above(r, Source[t])
      PROVE  Above(r, Activates[t][k])
  <2>1. Above(r, ctx)
    BY <1>3, <1>7, RegionOfTransition
  <2> QED BY <1>4, <2>1, AboveTransitive DEF Inside
<1> QED BY <1>1, <1>4, <1>5, <1>6, <1>7

LEMMA EnterFlow ==
    ASSUME StructuredChart, Enterable, Inv, Configured(md, agenda),
           FlowOK(md, agenda, ret), Enter
    PROVE  FlowOK(md', agenda', ret')
<1> DEFINE t == Top.x
           path == Activates[t]
           k == Top.k
           activate == Call("activate", path[k])
           next == Do("enter", t, Null, k + 1, FALSE)
<1>1. agenda # <<>> /\ Top.op = "enter"
  BY DEF Enter, Running, Top
<1>2. /\ Top \in Task /\ t \in Trans /\ k \in Nat
      /\ path \in Seq(States \ {Root}) /\ DOMAIN path = 1 .. Len(path) /\ Len(path) \in Nat
  <2>1. Top \in Task /\ t \in Trans /\ k \in Nat
    BY <1>1, BelowTop DEF FrameOK, Task
  <2>2. path \in Seq(States \ {Root})
    BY <2>1, ChartAssumption
  <2> QED BY <2>1, <2>2
<1>3. CASE k > Len(path) /\ Return(TRUE) /\ Quiet
  <2>1. agenda' = Tail(agenda) /\ ret' = TRUE /\ md' = md
    BY <1>3 DEF Return, Quiet
  <2>2. MapStep(md, md', Top) /\ NoNewNeed(md, md')
    BY <2>1, Base, MapStepSame DEF NoNewNeed
  <2>3. \A h \in States : ~WillEnter(Top, h)
    BY <1>1, <1>2, <1>3 DEF WillEnter
  <2>4. TopOK(md', agenda', ret')
    BY <1>1, <2>1, TopPop
  <2> QED BY <1>1, <2>1, <2>2, <2>3, <2>4, PopFlow
<1>4. CASE /\ k \in DOMAIN path
           /\ md' = IF Kind[path[k]] = "Concurrent" /\ k < Len(path)
                    THEN RegisterRegion(md, path[k], path[k + 1]) ELSE md
           /\ Push(<<activate, next>>)
           /\ UNCHANGED <<ret, fired, before, control>>
  <2> DEFINE s == <<activate, next>>
  <2>1. /\ path[k] \in States \ {Root}
        /\ k + 1 \in DOMAIN path => Parent[path[k + 1]] = path[k]
        /\ k + 1 \notin DOMAIN path => k = Len(path)
        /\ \A r \in States : (Region(r) /\ Above(r, Source[t])) => Above(r, path[k])
    BY <1>2, <1>4, EntersBelow
  <2>2. (md').active = md.active /\ (md').current = md.current
    <3>1. CASE md' = md
      BY <3>1
    <3>2. CASE md' = RegisterRegion(md, path[k], path[k + 1])
      BY <3>2, Base DEF RegisterRegion, RuntimeMap
    <3> QED BY <1>4, <3>1, <3>2
  <2>3. activate.op = "activate" /\ activate.x = path[k]
    BY DEF Call, Do
  <2>4. next.op = "enter" /\ next.x = t /\ next.k = k + 1
    BY DEF Do
  <2>5. activate \in Task /\ next \in Task
    <3>1. "activate" \in Ops /\ "enter" \in Ops /\ k + 1 \in Nat /\ FALSE \in BOOLEAN
          /\ Null \in OrNull(Events) /\ 1 \in Nat
      BY <1>2 DEF Ops, OrNull
    <3> HIDE DEF path, k, t
    <3>2. path[k] \in States \cup Trans /\ t \in States \cup Trans
      BY <1>2, <2>1
    <3>3. Call("activate", path[k]) \in Task
      BY <3>1, <3>2, DoTask, Zenon
    <3>4. Do("enter", t, Null, k + 1, FALSE) \in Task
      BY <3>1, <3>2, DoTask, Zenon
    <3> QED BY <3>3, <3>4
  <2> HIDE DEF activate, next
  <2>6. /\ s \in Seq(Task) /\ Len(s) = 2 /\ s[1] = activate /\ s[2] = next
        /\ s # <<>> /\ DOMAIN s = 1 .. 2
    BY <2>5
  <2>7. agenda' = s \o Tail(agenda) /\ ret' = ret
    BY <1>4 DEF Push
  <2> HIDE DEF s
  <2>8. ElementsOf(s) = {activate, next}
    BY <2>6 DEF ElementsOf
  <2>9. Adjacent(s) /\ Focused(s)
    BY <2>3, <2>4, <2>6 DEF Adjacent, Focused, Returns, ReturnOps, FlowsAbove
  <2>10. StaysAs(activate, Top) /\ StaysAs(next, Top)
    BY <1>1, <2>1, <2>3, <2>4 DEF StaysAs, StaysIn
  <2>11. WaitingOK(md', activate) /\ WaitingOK(md', next) /\ ResultOK(md', activate, ret')
    BY <2>3, <2>4 DEF WaitingOK, ResultOK
  <2>12. MapStep(md, md', Top)
    BY <2>2, Base, MapStepSame
  <2>13. ReturnsAs(s, Top)
    BY <2>4, <2>6, <2>9 DEF ReturnsAs
  <2>14. Adjacent(agenda') /\ Focused(agenda') /\ WaitsOK(md', ElementsOf(agenda'))
    BY <1>1, <2>6, <2>7, <2>8, <2>9, <2>10, <2>11, <2>12, <2>13, WaitsPush
  <2>15. TopOK(md', agenda', ret')
    BY <1>1, <2>3, <2>6, <2>7, <2>11, <2>13, TopPush
  <2>16. SubstatesKnown(md', ElementsOf(agenda'))
    <3> DEFINE F == ElementsOf(agenda)
               G == ElementsOf(agenda')
               R == ElementsOf(Tail(agenda))
    <3>1. agenda \in Seq(Task) /\ SubstatesKnown(md, F) /\ G = {activate, next} \cup R
      BY <1>1, <2>6, <2>7, <2>8, Base, NewStack DEF FlowOK
    <3>2. <<>> \in Seq(Task)
      OBVIOUS
    <3>3. F = {Top} \cup R
      BY <1>1, <3>1, <3>2, PushFrames DEF Top
    <3> HIDE DEF F, G, R
    <3>4. ASSUME NEW h \in States, NEW g \in F, WillEnter(g, h)
          PROVE  \E f \in G : WillEnter(f, h)
      <4>1. CASE g \in R
        BY <3>1, <3>4, <4>1
      <4>2. CASE g = Top
        <5>1. PICK i \in DOMAIN path : k \in 1 .. i /\ Parent[path[i]] = h
          BY <1>1, <3>4, <4>2 DEF WillEnter
        <5>2. CASE i = k
          BY <2>1, <2>3, <3>1, <5>1, <5>2 DEF WillEnter
        <5>3. CASE i # k
          <6>1. k + 1 \in 1 .. i
            BY <1>2, <5>1, <5>3
          <6>2. WillEnter(next, h)
            BY <2>4, <5>1, <6>1 DEF WillEnter
          <6> QED BY <3>1, <6>2
        <5> QED BY <5>2, <5>3
      <4> QED BY <3>3, <4>1, <4>2
    <3>5. ASSUME NEW h \in States, NeedsSubstate(h), h = path[k]
          PROVE  WillEnter(next, h)
      <4>1. OnlyCrossed(h)
        BY <2>1, <3>5 DEF NeedsSubstate, Enterable
      <4>2. k + 1 \in DOMAIN path
        <5>1. SUFFICES ASSUME k = Len(path) PROVE FALSE
          BY <2>1
        <5>2. path # <<>>
          BY <1>2, <1>4
        <5> QED BY <1>2, <3>5, <4>1, <5>1, <5>2 DEF OnlyCrossed
      <4>3. k + 1 \in 1 .. k + 1
        BY <1>2
      <4> QED BY <2>1, <2>4, <3>5, <4>2, <4>3 DEF WillEnter
    <3>6. SUFFICES ASSUME NEW h \in States, NeedsSubstate(h),
                          \/ h \in md.active /\ md.current[h] = Null
                          \/ \E f \in G : f.op = "activate" /\ f.x = h
                   PROVE  \E g \in G : WillEnter(g, h)
      BY <2>2 DEF SubstatesKnown, G
    <3>7. CASE h = path[k]
      BY <3>1, <3>5, <3>6, <3>7
    <3>8. CASE h # path[k]
      <4>1. \/ h \in md.active /\ md.current[h] = Null
            \/ \E f \in F : f.op = "activate" /\ f.x = h
        BY <2>3, <2>4, <3>1, <3>3, <3>6, <3>8
      <4>2. \E g \in F : WillEnter(g, h)
        BY <3>1, <3>6, <4>1 DEF SubstatesKnown
      <4> QED BY <3>4, <4>2
    <3> QED BY <3>7, <3>8
  <2> QED BY <2>14, <2>15, <2>16 DEF FlowOK
<1> QED BY <1>3, <1>4 DEF Enter

LEMMA ActivateFlow ==
    ASSUME StructuredChart, Inv, Configured(md, agenda), FlowOK(md, agenda, ret), Activate
    PROVE  FlowOK(md', agenda', ret')
<1> DEFINE x == Top.x
           call == Call("call", x)
           entered == Call("entered", x)
           F == ElementsOf(agenda)
           R == ElementsOf(Tail(agenda))
<1>1. agenda # <<>> /\ Top.op = "activate"
  BY DEF Activate, Running, Top
<1>2. Top \in Task /\ x \in States /\ Above(x, x)
  BY <1>1, BelowTop, PathEnd DEF FrameOK
<1>3. agenda \in Seq(Task) /\ F = {Top} \cup R /\ SubstatesKnown(md, F) /\ Top \in F
  BY <1>1, Base, TopCall DEF FlowOK
<1> HIDE DEF F, R
<1>4. \A h \in States : WillEnter(Top, h) => x # Root /\ Parent[x] = h
  BY <1>1 DEF WillEnter
<1>5. ASSUME NEW h \in States, NeedsSubstate(h), \E f \in R : f.op = "activate" /\ f.x = h
      PROVE  \E g \in R : WillEnter(g, h)
  <2>1. PICK f \in R : f.op = "activate" /\ f.x = h
    BY <1>5
  <2>2. h \in Enters(md, f)
    BY <2>1 DEF Enters
  <2>3. Depth(x) < Depth(h)
    BY <1>1, <2>2, EnteringTop DEF R
  <2>4. ~WillEnter(Top, h)
    <3>1. SUFFICES ASSUME x # Root, Parent[x] = h PROVE FALSE
      BY <1>4
    <3> QED BY <1>2, <2>3, <3>1, ParentPath
  <2> QED BY <1>3, <1>5, <2>1, <2>4 DEF SubstatesKnown
<1>6. CASE ~IsPseudo(x) /\ x \in md.active /\ Return(FALSE) /\ Quiet
  <2>1. agenda' = Tail(agenda) /\ ret' = FALSE /\ md' = md
    BY <1>6 DEF Return, Quiet
  <2>2. MapStep(md, md', Top)
    BY <2>1, Base, MapStepSame
  <2>3. TopOK(md', agenda', ret')
    BY <1>1, <2>1, TopPop DEF CallerOps
  <2>4. /\ <<>> \in Seq(Task) /\ ReturnsAs(<<>>, Top) /\ Focused(<<>>)
        /\ ElementsOf(<<>>) = {}
    BY NothingFits DEF Fits
  <2>5. agenda' = <<>> \o Tail(agenda)
    BY <1>3, <2>1
  <2>6. Adjacent(agenda') /\ Focused(agenda') /\ WaitsOK(md', ElementsOf(agenda'))
    BY <1>1, <2>2, <2>4, <2>5, WaitsPush
  <2>7. SubstatesKnown(md', ElementsOf(agenda'))
    <3>1. SUFFICES ASSUME NEW h \in States, NeedsSubstate(h),
                          h \in md.active, md.current[h] = Null
                   PROVE  \E g \in R : WillEnter(g, h)
      BY <1>5, <2>1 DEF SubstatesKnown, R
    <3>2. ~WillEnter(Top, h)
      <4>1. SUFFICES ASSUME x # Root, Parent[x] = h PROVE FALSE
        BY <1>4
      <4>2. CurrentOK(md) /\ Solid(x) /\ OrState(h)
        BY <1>6, <3>1, ChartAssumption
           DEF Configured, MapCond, Solid, IsPseudo, IsHistory, PseudoKinds, NeedsSubstate
      <4>3. md.current[h] = x
        BY <1>6, <4>1, <4>2 DEF CurrentOK
      <4> QED BY <1>2, <3>1, <4>3, ChartAssumption
    <3> QED BY <1>3, <3>1, <3>2 DEF SubstatesKnown
  <2> QED BY <2>3, <2>6, <2>7 DEF FlowOK
<1>7. CASE /\ IsPseudo(x) \/ x \notin md.active
           /\ md' = MdActivate(md, x) /\ Push(<<call, entered>>)
  <2> DEFINE s == <<call, entered>>
  <2>1. call.op = "call" /\ call.x = x /\ entered.op = "entered" /\ entered.x = x
    BY DEF Call, Do
  <2>2. call \in Task /\ entered \in Task
    <3>1. "call" \in Ops /\ "entered" \in Ops /\ x \in States \cup Trans
      BY <1>2 DEF Ops
    <3> QED BY <3>1, CallOne, Zenon
  <2> HIDE DEF call, entered
  <2>3. /\ s \in Seq(Task) /\ Len(s) = 2 /\ s[1] = call /\ s[2] = entered
        /\ s # <<>> /\ DOMAIN s = 1 .. 2
    BY <2>2
  <2>4. agenda' = s \o Tail(agenda)
    BY <1>7 DEF Push
  <2> HIDE DEF s
  <2>5. ElementsOf(s) = {call, entered}
    BY <2>3 DEF ElementsOf
  <2>6. Adjacent(s) /\ Focused(s)
    BY <2>1, <2>3 DEF Adjacent, Focused, Returns, ReturnOps, FlowsAbove
  <2>7. StaysAs(call, Top) /\ StaysAs(entered, Top)
    BY <1>1, <2>1 DEF StaysAs, StaysIn
  <2>8. WaitingOK(md', call) /\ WaitingOK(md', entered) /\ ResultOK(md', call, ret')
    BY <2>1 DEF WaitingOK, ResultOK
  <2>9. MapStep(md, md', Top)
    <3>1. \A r \in States : (Region(r) /\ StaysIn(Top, r)) => Above(r, x)
      BY <1>1 DEF StaysIn
    <3> QED BY <1>2, <1>7, <3>1, Base, MdActivateStep
  <2>10. ReturnsAs(s, Top)
    BY <1>1, <2>6 DEF ReturnsAs, CallerOps
  <2>11. Adjacent(agenda') /\ Focused(agenda') /\ WaitsOK(md', ElementsOf(agenda'))
    BY <1>1, <2>3, <2>4, <2>5, <2>6, <2>7, <2>8, <2>9, <2>10, WaitsPush
  <2>12. TopOK(md', agenda', ret')
    BY <1>1, <2>1, <2>3, <2>4, <2>8, <2>10, TopPush
  <2>13. SubstatesKnown(md', ElementsOf(agenda'))
    <3>1. ElementsOf(agenda') = {call, entered} \cup R
      BY <1>1, <1>3, <2>3, <2>4, <2>5, NewStack DEF R
    <3>2. /\ (md').active = md.active \cup {x}
          /\ \A y \in States \ {x} :
               (md').current[y] = IF y = Parent[x] /\ y \in md.present THEN x ELSE md.current[y]
      BY <1>2, <1>7, Base, MdActivateFields
    <3>3. SUFFICES ASSUME NEW h \in States, NeedsSubstate(h),
                          \/ h \in (md').active /\ (md').current[h] = Null
                          \/ \E f \in R : f.op = "activate" /\ f.x = h
                   PROVE  \E g \in R : WillEnter(g, h)
      BY <2>1, <3>1 DEF SubstatesKnown
    <3>4. CASE \E f \in R : f.op = "activate" /\ f.x = h
      BY <1>5, <3>3, <3>4
    <3>5. CASE h = x
      <4>1. \E g \in F : WillEnter(g, h)
        BY <1>1, <1>3, <3>3, <3>5 DEF SubstatesKnown
      <4>2. ~WillEnter(Top, h)
        BY <1>2, <1>4, <3>5, ParentPath
      <4> QED BY <1>3, <4>1, <4>2
    <3>6. CASE h # x /\ h \in (md').active /\ (md').current[h] = Null
      <4>1. h \in md.active /\ h \in md.present /\ x # Null
        BY <1>2, <3>2, <3>6, Base, ChartAssumption
      <4>2. h # Parent[x] /\ md.current[h] = Null
        BY <3>2, <3>6, <4>1
      <4>3. \E g \in F : WillEnter(g, h)
        BY <1>3, <3>3, <4>1, <4>2 DEF SubstatesKnown
      <4> QED BY <1>3, <1>4, <4>2, <4>3
    <3> QED BY <3>3, <3>4, <3>5, <3>6
  <2> QED BY <2>11, <2>12, <2>13 DEF FlowOK
<1> QED BY <1>6, <1>7 DEF Activate

\* Three calls take the place of the one on top.
LEMMA PushThree ==
    ASSUME Inv, agenda # <<>>, FlowOK(md, agenda, ret),
           Top.op \notin CallerOps \cup {"activate", "enter"},
           NEW f, NEW g, NEW h, Takes(f, Top), Takes(g, Top), Takes(h, Top),
           f.op \in PlainCallOps \ {"dispatch"}, g.op \in PlainCallOps \ {"dispatch"},
           h.op \in PlainCallOps \ {"dispatch"},
           agenda' = <<f, g, h>> \o Tail(agenda),
           MapStep(md, md', Top), NoNewNeed(md, md')
    PROVE  FlowOK(md', agenda', ret')
<1> DEFINE s == <<f, g, h>>
<1>1. s \in Seq(Task) /\ s # <<>> /\ DOMAIN s = 1 .. 3 /\ s[1] = f /\ s[2] = g /\ s[3] = h
  BY DEF Takes
<1>2. agenda' = s \o Tail(agenda)
  OBVIOUS
<1> HIDE DEF s
<1>3. \A i \in DOMAIN s : s[i].op \in PlainCallOps \ {"dispatch"} /\ Takes(s[i], Top)
  <2> SUFFICES ASSUME NEW i \in 1 .. 3
               PROVE  s[i].op \in PlainCallOps \ {"dispatch"} /\ Takes(s[i], Top)
    BY <1>1
  <2>1. i = 1 \/ i = 2 \/ i = 3
    OBVIOUS
  <2> QED BY <1>1, <2>1
<1> QED BY <1>1, <1>2, <1>3, PushPlain

\* The continuation of the entry of a state.
LEMMA EnteredNext ==
    ASSUME NEW top, top.op = "entered", top.x \in States, ~IsKind(top.x, "Start"),
           top.k \in Nat
    PROVE  LET next == Do("entered", top.x, Null, top.k + 1, FALSE) IN
           Takes(next, top) /\ LastAs(next, top) /\ next.op = "entered"
<1> DEFINE next == Do("entered", top.x, Null, top.k + 1, FALSE)
<1>1. /\ top.op \notin {"call", "enter"}
      /\ ~(top.op \in {"activate", "call", "entered"} /\ IsKind(top.x, "Start"))
      /\ "entered" \in Ops \ {"call", "enter"} /\ Above(top.x, top.x)
      /\ "entered" # "activate"
      /\ Null \in OrNull(Events) /\ top.k + 1 \in Nat /\ FALSE \in BOOLEAN
  BY PathEnd DEF Ops, OrNull
<1>2. Takes(next, top)
  BY <1>1, TakesDo
<1>3. next.op = "entered"
  BY DEF Do
<1>4. LastAs(next, top)
  BY DEF LastAs, CallerOps
<1> QED BY <1>2, <1>3, <1>4

LEMMA EnteredFlow ==
    ASSUME StructuredChart, Enterable, Inv, Configured(md, agenda),
           FlowOK(md, agenda, ret), Entered
    PROVE  FlowOK(md', agenda', ret')
<1> DEFINE x == Top.x
           k == Top.k
           next == Do("entered", x, Null, k + 1, FALSE)
<1>1. agenda # <<>> /\ Top.op = "entered"
  BY DEF Entered, Running, Top
<1>2. Top \in Task /\ x \in States /\ k \in Nat /\ x # Null
  BY <1>1, BelowTop, ChartAssumption DEF FrameOK, Task
<1>3. Top.op \notin CallerOps \cup {"activate", "enter"}
  BY <1>1 DEF CallerOps
<1>4. ~IsKind(x, "Start") => Takes(next, Top) /\ LastAs(next, Top) /\ next.op = "entered"
  BY <1>1, <1>2, EnteredNext
<1> HIDE DEF next
<1>5. md' = md => MapStep(md, md', Top) /\ NoNewNeed(md, md')
  BY Base, MapStepSame DEF NoNewNeed
<1>6. CASE /\ Kind[x] = "Concurrent" /\ k \in DOMAIN Regions[x]
           /\ Push(<<Call("activate", Regions[x][k]), Call("runRegion", Regions[x][k]), next>>)
           /\ Quiet
  <2> DEFINE r == Regions[x][k]
             activate == Call("activate", r)
             run == Call("runRegion", r)
  <2>1. r \in States \ {Root} /\ Parent[r] = x /\ Kind[r] = "Hierarchical" /\ Above(x, r)
    <3>1. r \in States \ {Root} /\ Parent[r] = x /\ Kind[r] = "Hierarchical"
      BY <1>2, <1>6, RegionFacts
    <3> QED BY <3>1, ParentPath
  <2>2. ~NeedsSubstate(r)
    BY <1>6, <2>1 DEF NeedsSubstate, Enterable, OnlyCrossed
  <2>3. ~IsKind(x, "Start")
    BY <1>6 DEF IsKind
  <2> HIDE DEF r
  <2>4. Takes(activate, Top) /\ activate.op \in PlainCallOps \ {"dispatch"}
    <3>1. "activate" \in PlainCallOps \ {"call"} /\ "activate" \in PlainCallOps \ {"dispatch"}
      BY DEF PlainCallOps
    <3>2. Takes(activate, Top)
      BY <1>1, <2>1, <2>2, <2>3, <3>1, TakesPlain
    <3> QED BY <3>1, <3>2 DEF Call, Do
  <2>5. Takes(run, Top) /\ run.op \in PlainCallOps \ {"dispatch"}
    <3>1. "runRegion" \in PlainCallOps \ {"call"} /\ "runRegion" \in PlainCallOps \ {"dispatch"}
          /\ "runRegion" # "activate"
      BY DEF PlainCallOps
    <3>2. Takes(run, Top)
      BY <1>1, <2>1, <2>3, <3>1, TakesPlain
    <3> QED BY <3>1, <3>2 DEF Call, Do
  <2>6. next.op \in PlainCallOps \ {"dispatch"}
    BY <1>4, <2>3 DEF PlainCallOps
  <2>7. md' = md /\ agenda' = <<activate, run, next>> \o Tail(agenda)
    BY <1>6 DEF Push, Quiet, r
  <2> HIDE DEF activate, run
  <2> QED BY <1>1, <1>3, <1>4, <1>5, <2>3, <2>4, <2>5, <2>6, <2>7, PushThree
<1>7. CASE Kind[x] = "Concurrent" /\ Push(<<next>>) /\ Quiet
  <2>1. ~IsKind(x, "Start")
    BY <1>7 DEF IsKind
  <2>2. md' = md /\ agenda' = <<next>> \o Tail(agenda)
    BY <1>7 DEF Push, Quiet
  <2>3. WaitingOK(md', next) /\ ResultOK(md', next, ret') /\ next.op # "dispatch"
    BY <1>4, <2>1 DEF WaitingOK, ResultOK
  <2> QED BY <1>1, <1>3, <1>4, <1>5, <2>1, <2>2, <2>3, PushOne
<1>8. CASE /\ IsHistory(x)
           /\ \E r \in Recorded(x, k) : Push(<<Call("activate", r), next>>)
           /\ UNCHANGED ret /\ Quiet
  <2>1. PICK r \in Recorded(x, k) : Push(<<Call("activate", r), next>>)
    BY <1>8
  <2> DEFINE activate == Call("activate", r)
  <2>2. r \in md.stateset[x] /\ r \in States /\ Inside(r, Parent[x])
    BY <1>2, <1>8, Base DEF Recorded, Configured, MapCond, StatesetsOK, HistoryOK
  <2>3. ~NeedsSubstate(r)
    BY <1>2, <1>8, <2>2, RootPath DEF NeedsSubstate, Enterable, OnlyCrossed
  <2>4. ~IsKind(x, "Start")
    BY <1>8 DEF IsKind, IsHistory, HistoryKinds
  <2>5. activate.op = "activate" /\ activate.x = r
    BY DEF Call, Do
  <2>6. activate \in Task
    <3>1. "activate" \in Ops /\ r \in States \cup Trans
      BY <2>2 DEF Ops
    <3> QED BY <3>1, CallOne, Zenon
  <2> HIDE DEF activate
  <2>7. StaysAs(activate, Top)
    <3>1. ASSUME NEW q \in States, Region(q), Above(q, x)
          PROVE  Above(q, r)
      <4>1. x # Root /\ Kind[q] = "Hierarchical" /\ q # x
        <5>1. Kind[q] = "Hierarchical"
          BY <3>1, Family DEF Region
        <5> QED BY <1>2, <1>8, <5>1, HistoryParent DEF OrState
      <4>2. Above(q, Parent[x])
        BY <1>2, <3>1, <4>1, ParentPath DEF Inside
      <4> QED BY <2>2, <4>2, AboveTransitive DEF Inside
    <3> QED BY <1>1, <2>4, <2>5, <3>1 DEF StaysAs, StaysIn
  <2>8. Takes(activate, Top)
    BY <2>3, <2>5, <2>6, <2>7 DEF Takes
  <2>9. /\ WaitingOK(md', activate) /\ ResultOK(md', activate, ret') /\ activate.op # "dispatch"
        /\ WaitingOK(md', next) /\ Returns(activate, next) /\ FlowsAbove(activate, next)
    BY <1>4, <2>4, <2>5 DEF WaitingOK, ResultOK, Returns, ReturnOps, FlowsAbove
  <2>10. md' = md /\ agenda' = <<activate, next>> \o Tail(agenda)
    BY <1>8, <2>1 DEF Push, Quiet, activate
  <2> QED BY <1>1, <1>3, <1>4, <1>5, <2>4, <2>8, <2>9, <2>10, PushTwo
<1>9. CASE Return(TRUE) /\ Quiet
  <2>1. md' = md /\ agenda' = Tail(agenda)
    BY <1>9 DEF Return, Quiet
  <2> QED BY <1>1, <1>3, <1>5, <2>1, PopPlain
<1>10. Kind[x] # "Fork"
  BY <1>2 DEF StructuredChart
<1> QED BY <1>6, <1>7, <1>8, <1>9, <1>10 DEF Entered, next

(***************************************************************************)
(* The calls at the bottom of the stack, and the calls of the user.        *)
(***************************************************************************)
LEMMA BottomFlow ==
    ASSUME Inv, Configured(md, agenda), FlowOK(md, agenda, ret), agenda # <<>>,
           Top.op \in BottomOps, md' = md, agenda' = <<>>
    PROVE  FlowOK(md', agenda', ret')
<1>1. agenda' = Tail(agenda) /\ Top.op \in NeutralOps
  BY BottomAlone DEF Inv, BottomOps, NeutralOps
<1>2. MapStep(md, md', Top) /\ NoNewNeed(md, md')
  BY Base, MapStepSame DEF NoNewNeed
<1>3. \A h \in States : ~WillEnter(Top, h)
  BY <1>1 DEF WillEnter, NeutralOps
<1>4. TopOK(md', agenda', ret')
  BY DEF TopOK
<1> QED BY <1>1, <1>2, <1>3, <1>4, PopFlow

\* The Statechart dispatches to its current state.
LEMMA RootDispatchFlow ==
    ASSUME StructuredChart, Inv, Configured(md, agenda), FlowOK(md, agenda, ret),
           agenda # <<>>, Top.op \in {"chart", "loop"},
           NEW k \in Nat, NEW b \in BOOLEAN, NEW e \in OrNull(Events),
           NEW f, f = Do("dispatch", md.current[Root], e, 1, FALSE),
           NEW g, g = Do("loop", Root, Null, k, b),
           md.current[Root] # Null, Push(<<f, g>>), md' = md
    PROVE  FlowOK(md', agenda', ret')
<1>1. /\ Root \in States /\ OrState(Root) /\ Above(Root, Root) /\ Null \in OrNull(Events)
      /\ Top.x = Root /\ Root \in md.active /\ FALSE \in BOOLEAN /\ 1 \in Nat
  BY BelowTop, ChartAssumption, PathEnd DEF OrState, OrNull, WaitingOK
<1>2. /\ md.current[Root] \in States \ {Root} /\ Parent[md.current[Root]] = Root
      /\ Above(Root, md.current[Root])
  BY <1>1, CurrentChild
<1>3. md.current[Root] \in md.active
  BY <1>1, Base, CompleteMap DEF NeutralOps, Top
<1>4. f.op = "dispatch" /\ f.x = md.current[Root] /\ g.op = "loop" /\ g.x = Root
  BY DEF Do
<1>5. Takes(f, Top) /\ Takes(g, Top)
  <2>1. /\ "dispatch" \in Ops \ {"call", "enter"} /\ "loop" \in Ops \ {"call", "enter"}
        /\ "dispatch" # "activate" /\ "loop" # "activate"
        /\ Top.op \notin {"call", "enter"}
        /\ ~(Top.op \in {"activate", "call", "entered"} /\ IsKind(Top.x, "Start"))
    BY DEF Ops
  <2>2. Takes(f, Top)
    BY <1>1, <1>2, <2>1, TakesDo
  <2>3. Takes(g, Top)
    BY <1>1, <2>1, TakesDo
  <2> QED BY <2>2, <2>3
<1>6. LastAs(g, Top)
  BY DEF LastAs, CallerOps
<1>7. Returns(f, g) /\ FlowsAbove(f, g)
  BY <1>2, <1>4 DEF Returns, CallOf, CallerOps, FlowsAbove
<1>8. WaitingOK(md', f) /\ WaitingOK(md', g) /\ ResultOK(md', f, ret')
  BY <1>1, <1>4 DEF WaitingOK, ResultOK
<1>9. MapStep(md, md', Top) /\ NoNewNeed(md, md')
  BY Base, MapStepSame DEF NoNewNeed
<1>10. agenda' = <<f, g>> \o Tail(agenda)
  BY DEF Push
<1>11. Top.op \notin {"activate", "enter"}
  OBVIOUS
<1> QED BY <1>3, <1>4, <1>5, <1>6, <1>7, <1>8, <1>9, <1>10, <1>11, PushTwo

\* The Statechart has a current state as long as a dispatch has not begun.
LEMMA RootCurrent ==
    ASSUME Inv, Configured(md, agenda), FlowOK(md, agenda, ret), agenda # <<>>,
           Top.op \in {"chart", "loop"}
    PROVE  md.current[Root] # Null
<1>1. Root \in States /\ Root \in md.active /\ NeedsSubstate(Root)
  BY BelowTop, ChartAssumption DEF NeedsSubstate, OrState, WaitingOK
<1> QED BY <1>1, SubstateKnown DEF NeutralOps

LEMMA DispatchChartFlow ==
    ASSUME StructuredChart, Inv, Configured(md, agenda), FlowOK(md, agenda, ret), DispatchChart
    PROVE  FlowOK(md', agenda', ret')
<1>1. agenda # <<>> /\ Top.op = "chart" /\ md' = md
  BY DEF DispatchChart, Running, Top, Quiet
<1>2. md.current[Root] # Null /\ Top.e \in OrNull(Events) /\ 0 \in Nat /\ FALSE \in BOOLEAN
  BY <1>1, RootCurrent, BelowTop DEF Task
<1>3. Push(<<Do("dispatch", md.current[Root], Top.e, 1, FALSE), Do("loop", Root, Null, 0, FALSE)>>)
  BY <1>2 DEF DispatchChart
<1> QED BY <1>1, <1>2, <1>3, RootDispatchFlow

\* The loop ends when nothing has fired, and then the chart has settled.
LEMMA LoopFlow ==
    ASSUME StructuredChart, Inv, Configured(md, agenda), FlowOK(md, agenda, ret), Loop
    PROVE  /\ FlowOK(md', agenda', ret')
           /\ outcome' = "done" => Settled(md', Root)
<1> DEFINE k == Top.k
           rc == ResultOfEvent(k)
           f == Do("dispatch", md.current[Root], Null, 1, FALSE)
           g == Do("loop", Root, Null, k + 1, rc)
<1>1. agenda # <<>> /\ Top.op = "loop" /\ md' = md /\ Top.op \in BottomOps
  BY DEF Loop, Running, Top, BottomOps
<1>2. /\ md.current[Root] # Null /\ k \in Nat /\ k + 1 \in Nat /\ rc \in BOOLEAN
      /\ Null \in OrNull(Events) /\ ResultOK(md, Top, ret)
  <2>1. Top \in Task /\ Top = agenda[1]
    BY <1>1, BelowTop
  <2>2. ResultOK(md, Top, ret)
    BY <1>1, <2>1 DEF FlowOK, TopOK
  <2> QED BY <1>1, <2>1, <2>2, RootCurrent, InvData DEF Task, ResultOfEvent, OrNull
<1>3. outcome = "running"
  BY <1>1 DEF Inv, ControlOK, CallStack
<1>4. CASE agenda' = <<>> /\ outcome' = "InfiniteLoop"
  BY <1>1, <1>4, BottomFlow
<1>5. CASE Push(<<f, g>>) /\ UNCHANGED <<ret, outcome, tainted>>
  <2> HIDE DEF rc, k
  <2>1. FlowOK(md', agenda', ret')
    BY <1>1, <1>2, <1>5, RootDispatchFlow
  <2> QED BY <1>3, <1>5, <2>1
<1>6. CASE ~(k = 0 \/ ret) /\ Return(rc)
  <2>1. agenda' = <<>>
    BY <1>1, <1>6, BottomAlone DEF Inv, Return
  <2>2. Settled(md, Root)
    BY <1>1, <1>2, <1>6 DEF ResultOK
  <2> QED BY <1>1, <2>1, <2>2, BottomFlow
<1> QED BY <1>2, <1>4, <1>5, <1>6 DEF Loop, Counted, Call

LEMMA RestoredFlow ==
    ASSUME Inv, Configured(md, agenda), FlowOK(md, agenda, ret), Restored
    PROVE  FlowOK(md', agenda', ret')
<1>1. /\ agenda # <<>> /\ Top.op \in BottomOps /\ md' = md /\ agenda' = Tail(agenda)
  BY DEF Restored, Running, Top, Return, BottomOps
<1>2. agenda' = <<>>
  BY <1>1, BottomAlone DEF Inv
<1> QED BY <1>1, <1>2, BottomFlow

\* A call of the user begins.
LEMMA BeginFlow ==
    ASSUME NEW m, NEW g \in Task, g.op = "chart", g.x = Root, Root \in m.active,
           SubstatesKnown(m, {}), NEW rc
    PROVE  FlowOK(m, <<g>>, rc)
<1> DEFINE q == <<g>>
<1>1. Len(q) = 1 /\ DOMAIN q = {1} /\ q[1] = g
  OBVIOUS
<1>2. ElementsOf(q) = {g}
  BY <1>1 DEF ElementsOf
<1>3. Adjacent(q) /\ Focused(q)
  BY <1>1 DEF Adjacent, Focused
<1>4. WaitsOK(m, {g})
  BY DEF WaitsOK, WaitingOK
<1>5. TopOK(m, q, rc)
  BY <1>1 DEF TopOK, ResultOK
<1>6. SubstatesKnown(m, {g})
  BY DEF SubstatesKnown
<1> QED BY <1>2, <1>3, <1>4, <1>5, <1>6 DEF FlowOK

LEMMA StartChartFlow ==
    ASSUME StructuredChart, Enterable, StartChart
    PROVE  FlowOK(md', agenda', ret')
<1> DEFINE g == Call("chart", Root)
           m == MdActivate(EmptyMap, Root)
           start == StartState[Root]
<1>1. agenda' = <<g>> /\ md' = StartedMap
  BY DEF StartChart, BeginCall
<1>2. g \in Task /\ g.op = "chart" /\ g.x = Root
  <2>1. "chart" \in Ops /\ Root \in States \cup Trans
    BY ChartAssumption DEF Ops
  <2> QED BY <2>1, CallOne, Zenon
<1>3. Root \in StartedMap.active
  BY StartedMapOK
<1>4. Root \in States /\ OrState(Root)
  BY ChartAssumption DEF OrState
<1>5. start # Null
  BY <1>4 DEF Enterable, OnlyCrossed
<1>6. /\ start \in States \ {Root} /\ Parent[start] = Root /\ ~OrState(start) /\ start # Null
  BY <1>4, <1>5, StartFacts
<1>7. m \in RuntimeMap /\ m.active = {Root} /\ Root \in m.present
  <2>1. EmptyMap.active = {}
    BY DEF EmptyMap
  <2> QED BY <1>4, <2>1, EmptyMapOK, MdActivateOK, MdActivateFields
<1> HIDE DEF m
<1>8. StartedMap = MdActivate(m, start)
  BY <1>5 DEF StartedMap, m
<1>9. StartedMap.active = {Root, start} /\ StartedMap.current[Root] = start
  BY <1>4, <1>6, <1>7, <1>8, MdActivateFields
<1>10. SubstatesKnown(StartedMap, {})
  BY <1>6, <1>9 DEF SubstatesKnown, NeedsSubstate
<1> HIDE DEF g
<1> QED BY <1>1, <1>2, <1>3, <1>10, BeginFlow

LEMMA DispatchEventFlow ==
    ASSUME Inv, Configured(md, agenda), FlowOK(md, agenda, ret), NEW e \in Events,
           DispatchEvent(e)
    PROVE  FlowOK(md', agenda', ret')
<1> DEFINE g == Do("chart", Root, e, 1, FALSE)
<1>1. agenda = <<>> /\ agenda' = <<g>> /\ md' = md /\ Root \in md.present
  BY DEF DispatchEvent, BeginCall
<1>2. g \in Task /\ g.op = "chart" /\ g.x = Root
  <2>1. /\ "chart" \in Ops /\ Root \in States \cup Trans /\ e \in OrNull(Events)
        /\ 1 \in Nat /\ FALSE \in BOOLEAN
    BY ChartAssumption DEF Ops, OrNull
  <2>2. g \in Task
    BY <2>1, DoTask, Zenon
  <2> QED BY <2>2 DEF Do
<1> HIDE DEF g
<1>3. Root \in md.active
  BY <1>1, ChartAssumption DEF Configured, MapCond, RecordsOK, IsHistory, HistoryKinds
<1>4. SubstatesKnown(md, {})
  <2>1. ElementsOf(<<>>) = {}
    BY NothingFits
  <2> QED BY <1>1, <2>1 DEF FlowOK
<1> QED BY <1>1, <1>2, <1>3, <1>4, BeginFlow

LEMMA RestoreStateFlow ==
    ASSUME RestorableEnterable, NEW s \in Restorable, RestoreState(s)
    PROVE  FlowOK(md', agenda', ret')
<1> DEFINE q == RestoreCalls(s)
<1>1. agenda' = q /\ md' = EmptyMap
  BY DEF RestoreState, BeginCall, RestoreCalls
<1>2. s \in States /\ s # Root /\ Kind[s] # "Statechart"
  BY RestorableAssumption, ChartAssumption DEF RealStates
<1>3. /\ q \in Seq(Task) /\ DOMAIN q = 1 .. Depth(s) + 1 /\ Depth(s) \in Nat
      /\ \A i \in 1 .. Depth(s) : q[i].op = "activate" /\ q[i].x = Path[s][i]
      /\ q[Depth(s) + 1].op = "restored"
  BY <1>2, RestoreCallsOK, PathEnd
<1> HIDE DEF q
<1>4. \A i \in DOMAIN q : /\ i \in 1 .. Depth(s) \/ i = Depth(s) + 1
                          /\ q[i].op \in {"activate", "restored"}
  <2>1. \A i \in DOMAIN q : i \in 1 .. Depth(s) \/ i = Depth(s) + 1
    BY <1>3
  <2> QED BY <1>3, <2>1
<1>5. Adjacent(q)
  <2> SUFFICES ASSUME NEW i \in 1 .. Len(q) - 1 PROVE Returns(q[i], q[i + 1])
    BY DEF Adjacent
  <2>1. i + 1 \in DOMAIN q
    BY <1>3
  <2> QED BY <1>4, <2>1 DEF Returns, ReturnOps
<1>6. Focused(q)
  BY <1>4 DEF Focused, FlowsAbove
<1>7. WaitsOK(EmptyMap, ElementsOf(q))
  BY <1>4 DEF WaitsOK, WaitingOK, ElementsOf
<1>8. TopOK(EmptyMap, q, ret')
  <2>1. q # <<>> => 1 \in DOMAIN q
    BY <1>3
  <2> QED BY <1>4, <2>1 DEF TopOK, ResultOK
<1>9. SubstatesKnown(EmptyMap, ElementsOf(q))
  <2>1. EmptyMap.active = {}
    BY DEF EmptyMap
  <2>2. SUFFICES ASSUME NEW h \in States, NeedsSubstate(h),
                        NEW i \in DOMAIN q, q[i].op = "activate", q[i].x = h
                 PROVE  \E g \in ElementsOf(q) : WillEnter(g, h)
    BY <2>1 DEF SubstatesKnown, ElementsOf
  <2>3. i \in 1 .. Depth(s) /\ h = Path[s][i]
    BY <1>3, <1>4, <2>2
  <2>4. i # Depth(s)
    <3>1. SUFFICES ASSUME h = s PROVE FALSE
      BY <1>2, <2>3, PathEnd
    <3> QED BY <1>2, <2>2, <3>1 DEF NeedsSubstate, OrState, RestorableEnterable
  <2>5. i + 1 \in 1 .. Depth(s) /\ i \in 1 .. Depth(s) /\ i < i + 1 /\ (i + 1) - 1 = i
    BY <1>3, <2>3, <2>4
  <2>6. Path[s][i + 1] \in States \ {Root} /\ Parent[Path[s][i + 1]] = Path[s][(i + 1) - 1]
    BY <1>2, <2>5, PathStep
  <2>7. WillEnter(q[i + 1], h)
    BY <1>3, <2>3, <2>5, <2>6 DEF WillEnter
  <2>8. i + 1 \in DOMAIN q
    BY <1>3, <2>3
  <2> QED BY <2>7, <2>8 DEF ElementsOf
<1> QED BY <1>1, <1>5, <1>6, <1>7, <1>8, <1>9 DEF FlowOK

(***************************************************************************)
(* The invariant.                                                          *)
(***************************************************************************)
LEMMA StepFlow ==
    ASSUME StructuredChart, Enterable, Inv, Configured(md, agenda),
           FlowOK(md, agenda, ret), WayOn, Step, ~ThrowAction
    PROVE  FlowOK(md', agenda', ret')
<1>1. CASE DispatchState \/ DispatchHierarchical \/ DispatchSubstate \/ Bubble
  BY <1>1, DispatchStateFlow, DispatchHierarchicalFlow, DispatchSubstateFlow, BubbleFlow
<1>2. CASE DispatchFork \/ DispatchConcurrent \/ DispatchRegions
  BY <1>2, DispatchForkStep, DispatchConcurrentFlow, DispatchRegionsFlow
<1>3. CASE Enter \/ Activate \/ Entered \/ RunRegion
  BY <1>3, EnterFlow, ActivateFlow, EnteredFlow, RunRegionFlow
<1>4. CASE DeactivateHierarchical \/ DeactivateConcurrent \/ Leave
  BY <1>4, DeactivateHierarchicalFlow, DeactivateConcurrentFlow, LeaveFlow
<1>5. CASE RunAction
  BY <1>5, RunActionFlow
<1>6. CASE DispatchChart \/ Loop \/ Restored
  BY <1>6, DispatchChartFlow, LoopFlow, RestoredFlow
<1> QED BY <1>1, <1>2, <1>3, <1>4, <1>5, <1>6 DEF Step

\* Only the loop of Statechart::dispatch ends a call with a result.
LEMMA StepOutcome ==
    ASSUME Inv, Step, outcome' = "done"
    PROVE  Loop
<1>1. CASE DispatchState \/ DispatchFork \/ DispatchHierarchical
           \/ DispatchSubstate \/ Bubble \/ DispatchConcurrent \/ DispatchRegions
           \/ Enter \/ Activate \/ Entered \/ RunRegion \/ DeactivateHierarchical
           \/ DeactivateConcurrent \/ Leave \/ RunAction \/ DispatchChart
  <2>1. outcome' = outcome /\ agenda # <<>>
    <3>1. CASE DispatchState \/ DispatchFork \/ DispatchHierarchical \/ DispatchSubstate
      BY <3>1 DEF DispatchState, DispatchFork, DispatchHierarchical, DispatchSubstate,
         FireFirst, Execute, Quiet, control, Running
    <3>2. CASE Bubble \/ DispatchConcurrent \/ DispatchRegions \/ Enter
      BY <3>2 DEF Bubble, DispatchConcurrent, DispatchRegions, Enter,
         FireFirst, Execute, Quiet, control, Running
    <3>3. CASE Activate \/ Entered \/ RunRegion \/ RunAction
      BY <3>3 DEF Activate, Entered, RunRegion, RunAction,
         FireFirst, Execute, Quiet, control, Running
    <3>4. CASE DeactivateHierarchical \/ DeactivateConcurrent \/ Leave \/ DispatchChart
      BY <3>4 DEF DeactivateHierarchical, DeactivateConcurrent, Leave, DispatchChart,
         FireFirst, Execute, Quiet, control, Running
    <3> QED BY <1>1, <3>1, <3>2, <3>3, <3>4
  <2> QED BY <2>1 DEF Inv, ControlOK, CallStack
<1>2. CASE ThrowAction \/ Restored
  BY <1>2 DEF ThrowAction, Restored
<1> QED BY <1>1, <1>2 DEF Step

LEMMA InitFlow == Init => FlowInv
<1> SUFFICES ASSUME Init PROVE FlowOK(md, agenda, ret) /\ outcome # "done"
  BY DEF FlowInv, Flow
<1>1. agenda = <<>> /\ md = EmptyMap /\ outcome = "idle"
  BY DEF Init
<1>2. Adjacent(<<>>) /\ Focused(<<>>) /\ ElementsOf(<<>>) = {}
  BY NothingFits DEF Fits, ReturnsAs
<1>3. WaitsOK(md, {}) /\ SubstatesKnown(md, {}) /\ TopOK(md, <<>>, ret)
  BY <1>1 DEF WaitsOK, SubstatesKnown, TopOK, EmptyMap
<1> QED BY <1>1, <1>2, <1>3 DEF FlowOK

LEMMA NextFlow ==
    ASSUME StructuredChart, Enterable, RestorableEnterable,
           Inv, ConfigInv, FlowInv, WayOn, [Next]_vars
    PROVE  FlowInv'
<1> SUFFICES ASSUME Trusted'
             PROVE  /\ FlowOK(md', agenda', ret')
                    /\ outcome' = "done" => Settled(md', Root)
  BY DEF FlowInv, Flow
<1>1. CASE StartChart
  BY <1>1, StartChartFlow DEF StartChart, BeginCall
<1>2. CASE \E e \in Events : DispatchEvent(e)
  <2>1. PICK e \in Events : DispatchEvent(e)
    BY <1>2
  <2>2. Trusted
    BY <2>1 DEF DispatchEvent, Trusted
  <2> QED BY <2>1, <2>2, DispatchEventFlow DEF ConfigInv, FlowInv, Flow, DispatchEvent, BeginCall
<1>3. CASE \E s \in Restorable : RestoreState(s)
  BY <1>3, RestoreStateFlow DEF RestoreState, BeginCall
<1>4. CASE Step
  <2>1. Trusted /\ ~ThrowAction
    BY <1>4, TrustedStep
  <2>2. FlowOK(md', agenda', ret')
    BY <1>4, <2>1, StepFlow DEF ConfigInv, FlowInv, Flow
  <2>3. outcome' = "done" => Settled(md', Root)
    BY <1>4, <2>1, StepOutcome, LoopFlow DEF ConfigInv, FlowInv, Flow
  <2> QED BY <2>2, <2>3
<1>5. CASE UNCHANGED vars
  BY <1>5 DEF vars, FlowInv, Flow, Trusted
<1> QED BY <1>1, <1>2, <1>3, <1>4, <1>5 DEF Next, UserCall

\* While every pseudo-state that is dispatched to has a way on, whatever is
\* pending fits the configuration, and no result claims a state to have
\* settled that has not.
THEOREM FlowInvariant ==
    ASSUME StructuredChart, RestorableInOrStates, Enterable, RestorableEnterable
    PROVE  Spec /\ []WayOn => []FlowInv
<1>1. Init => FlowInv
  BY InitFlow
<1>2. Inv /\ ConfigInv /\ WayOn /\ FlowInv /\ [Next]_vars => FlowInv'
  BY NextFlow
<1>3. Spec => []Inv
  BY Invariant
<1>4. Spec => []ConfigInv
  BY ConfigurationInvariant
<1> QED BY <1>1, <1>2, <1>3, <1>4, PTL DEF Spec

(***************************************************************************)
(* The configuration a call ends in.                                       *)
(***************************************************************************)
\* An active or-state is in the one substate that is active.
LEMMA SettledSubstate ==
    ASSUME StructuredChart, Inv, Configured(md, agenda), Settled(md, Root),
           agenda = <<>>
    PROVE  OneSubstate
<1>1. SUFFICES ASSUME NEW h \in md.active, OrState(h)
               PROVE  ChildrenOf(h) \cap RealStates \cap md.active = {md.current[h]}
  BY DEF OneSubstate, OrState
<1>2. h \in States
  BY Base
<1>3. ChildrenOf(h) \cap RealStates \cap md.active \subseteq {md.current[h]}
  BY <1>1, ConfiguredContexts DEF AtMostOneSubstate
<1>4. md.current[h] # Null /\ ~IsPseudo(md.current[h])
  <2>1. Above(Root, h)
    BY <1>2, RootPath
  <2> QED BY <1>1, <2>1 DEF Settled
<1>5. md.current[h] \in States \ {Root} /\ Parent[md.current[h]] = h
  BY <1>2, <1>4, CurrentChild
<1>6. md.current[h] \in ChildrenOf(h) \cap RealStates
  BY <1>4, <1>5, ChartPaths DEF ChildrenOf, RealStates, IsPseudo
<1>7. md.current[h] \in md.active
  BY <1>1, <1>2, <1>4, ConfiguredComplete DEF CurrentStatesActive
<1> QED BY <1>3, <1>6, <1>7

\* No pseudo-state but a history pseudo-state is left active.
LEMMA SettledPseudo ==
    ASSUME StructuredChart, Inv, Configured(md, agenda), Settled(md, Root)
    PROVE  NoPseudoState
<1>1. SUFFICES ASSUME NEW s \in md.active, IsPseudo(s), ~IsHistory(s) PROVE FALSE
  BY DEF NoPseudoState
<1>2. s \in States \ {Root} /\ Solid(s)
  BY <1>1, Base, ChartAssumption DEF IsPseudo, PseudoKinds, HistoryKinds, Solid
<1>3. Kind[s] # "Hierarchical"
  BY <1>1 DEF IsPseudo, PseudoKinds, HistoryKinds
<1>4. /\ Parent[s] \in States /\ Above(Parent[s], s) /\ OrState(Parent[s])
  BY <1>2, <1>3, Family, ParentPath
<1>5. ContextsOK(md) /\ CurrentOK(md)
  BY DEF Configured, MapCond
<1>6. Parent[s] \in md.active /\ md.current[Parent[s]] = s
  BY <1>2, <1>4, <1>5 DEF ContextsOK, CurrentOK
<1>7. Above(Root, Parent[s])
  BY <1>4, RootPath
<1> QED BY <1>1, <1>4, <1>6, <1>7 DEF Settled

\* doc/statecharts.md: whatever events, guards, restarts and restored states
\* led there, the active states form a configuration of the chart when a call
\* of the user has ended.  Every active or-state is in exactly one substate,
\* every active and-state is in all its regions, and no pseudo-state is left
\* but history.  Statechart::dispatch (Statechart.cpp:170-190) stops at the first
\* dispatch that returns false; the theorem says that such a dispatch left
\* nothing unfinished further down, in a region that was served before another
\* one or in an or-state that was entered across its border
\* (HierarchicalState.cpp:86, ConcurrentState.cpp:107).
THEOREM LegalAtRest ==
    ASSUME StructuredChart, RestorableInOrStates, Enterable, RestorableEnterable
    PROVE  Spec /\ []WayOn => []LegalConfiguration
<1>1. ASSUME Inv, ConfigInv, FlowInv PROVE LegalConfiguration
  <2>1. SUFFICES ASSUME AtRest
                 PROVE  ContextsActive /\ OneSubstate /\ RegionsTogether /\ NoPseudoState
    BY DEF LegalConfiguration
  <2>2. Trusted /\ outcome = "done"
    BY <2>1 DEF AtRest, Trusted
  <2>3. Configured(md, agenda) /\ Settled(md, Root)
    BY <1>1, <2>2 DEF ConfigInv, FlowInv, Flow
  <2>4. agenda = <<>>
    BY <1>1, <2>2 DEF Inv, ControlOK, CallStack
  <2>5. ContextsActive
    BY <1>1, <2>3, ConfiguredContexts
  <2>6. RegionsTogether
    BY <1>1, <2>3, <2>4, ConfiguredComplete
  <2> QED BY <1>1, <2>3, <2>4, <2>5, <2>6, SettledSubstate, SettledPseudo
<1>2. Inv /\ ConfigInv /\ FlowInv => LegalConfiguration
  BY <1>1
<1>3. Spec => []Inv
  BY Invariant
<1>4. Spec => []ConfigInv
  BY ConfigurationInvariant
<1>5. Spec /\ []WayOn => []FlowInv
  BY FlowInvariant
<1> QED BY <1>2, <1>3, <1>4, <1>5, PTL

(***************************************************************************)
(* What a call reports, on every chart.  Calls that report true whatever   *)
(* happens above them:                                                     *)
(***************************************************************************)
FirmOps == {"enter", "forkEach"}
Firm(f) == f.op \in FirmOps \/ (f.op = "regions" /\ f.b)

\* f belongs to the dispatch g waits for, and carries g's event.
Serves(f, g) ==
    /\ f.op \in CallerOps
    /\ f.e = g.e \/ (g.op = "loop" /\ g.k = 0)
    /\ g.op = "regions" => /\ g.k - 1 \in DOMAIN Regions[g.x]
                           /\ Above(Regions[g.x][g.k - 1], f.x)

\* From j on down to i, a transition or the entry of a start state is under way.
Guarded(stack, j, i) ==
    \/ \E l \in j .. i - 1 : stack[l].op \in FirmOps
    \/ \E l \in j + 1 .. i - 1 : stack[l].op = "substate"

\* A call made while a start state is entered.
StartCall(f) ==
    f.op \in {"activate", "call", "entered"} /\ f.x \in States /\ Kind[f.x] = "Start"

\* Above these calls only nullptr is dispatched.
NullAbove(g) ==
    g.op \in FirmOps \/ (IF g.op = "loop" THEN g.k > 0 ELSE g.e = Null)

Link(stack, j, i) ==
    /\ stack[i].op \in ReturnOps => Serves(stack[j], stack[i]) \/ Guarded(stack, j, i)
    /\ stack[i].op = "substate" => StartCall(stack[j])
    /\ NullAbove(stack[i]) => stack[j].e = Null
    /\ stack[i].op # "chart"

LinksOK(stack) == \A i, j \in DOMAIN stack : j < i => Link(stack, j, i)

\* The calls in s may take the place of top.
Continues(s, top) ==
    /\ LinksOK(s)
    /\ \A j \in DOMAIN s :
          /\ \/ Guarded(s, j, Len(s) + 1)
             \/ top.op \notin CallerOps \cup FirmOps
             \/ /\ top.op \in CallerOps /\ s[j].op \in CallerOps
                /\ s[j].e = top.e /\ s[j].x \in States /\ Above(top.x, s[j].x)
          /\ StartCall(top) => StartCall(s[j])
          /\ top.e = Null => s[j].e = Null

\* The stack after s has taken the place of the top of q.
LEMMA Replaced ==
    ASSUME NEW q \in Seq(Task), q # <<>>, NEW s \in Seq(Task)
    PROVE  LET r == s \o Tail(q)
               n == Len(s)
           IN /\ r \in Seq(Task) /\ n \in Nat /\ Len(q) \in Nat /\ Len(q) >= 1
              /\ DOMAIN q = 1 .. Len(q) /\ DOMAIN s = 1 .. n
              /\ DOMAIN r = 1 .. n + Len(q) - 1 /\ Len(r) = n + Len(q) - 1
              /\ \A l \in 1 .. n : r[l] = s[l]
              /\ \A l \in 2 .. Len(q) : r[l + n - 1] = q[l]
              /\ Head(q) = q[1]
<1> DEFINE r == s \o Tail(q)
           n == Len(s)
<1>1. /\ r \in Seq(Task) /\ Len(r) = n + Len(q) - 1
      /\ \A i \in 1 .. Len(r) : r[i] = IF i <= n THEN s[i] ELSE q[i - n + 1]
  BY PushElements
<1>2. /\ n \in Nat /\ Len(q) \in Nat /\ Len(q) >= 1 /\ DOMAIN q = 1 .. Len(q)
      /\ DOMAIN s = 1 .. n /\ Head(q) = q[1]
  OBVIOUS
<1>3. DOMAIN r = 1 .. n + Len(q) - 1
  BY <1>1
<1> HIDE DEF r, n
<1>4. ASSUME NEW l \in 1 .. n PROVE r[l] = s[l]
  <2>1. l \in 1 .. Len(r) /\ l <= n
    BY <1>1, <1>2
  <2> QED BY <1>1, <2>1
<1>5. ASSUME NEW l \in 2 .. Len(q) PROVE r[l + n - 1] = q[l]
  <2>1. PICK i \in 1 .. Len(r) : i = l + n - 1
    BY <1>1, <1>2
  <2>2. ~(i <= n) /\ i - n + 1 = l
    BY <1>2, <2>1
  <2> QED BY <1>1, <2>1, <2>2
<1> QED BY <1>1, <1>2, <1>3, <1>4, <1>5 DEF r, n

\* What guards calls of q below its top, or of s, still guards them.
LEMMA GuardedBelow ==
    ASSUME NEW q \in Seq(Task), q # <<>>, NEW s \in Seq(Task),
           NEW i \in 2 .. Len(q), NEW j \in 1 .. Len(q), j < i, Guarded(q, j, i),
           NEW p \in Nat, p <= j + Len(s) - 1, j = 1 => q[1].op \notin FirmOps
    PROVE  Guarded(s \o Tail(q), p, i + Len(s) - 1)
<1> DEFINE r == s \o Tail(q)
           n == Len(s)
<1>1. /\ n \in Nat /\ Len(q) \in Nat /\ \A l \in 2 .. Len(q) : r[l + n - 1] = q[l]
  BY Replaced
<1>2. CASE \E l \in j .. i - 1 : q[l].op \in FirmOps
  <2>1. PICK l \in j .. i - 1 : q[l].op \in FirmOps
    BY <1>2
  <2>2. l \in 2 .. Len(q)
    BY <1>1, <2>1
  <2> HIDE DEF r, n
  <2>3. l + n - 1 \in p .. (i + n - 1) - 1 /\ r[l + n - 1].op \in FirmOps
    <3>1. p <= j + n - 1
      BY DEF n
    <3> QED BY <1>1, <2>1, <2>2, <3>1
  <2> QED BY <2>3 DEF Guarded, r, n
<1>3. CASE \E l \in j + 1 .. i - 1 : q[l].op = "substate"
  <2>1. PICK l \in j + 1 .. i - 1 : q[l].op = "substate"
    BY <1>3
  <2>2. l \in 2 .. Len(q)
    BY <1>1, <2>1
  <2> HIDE DEF r, n
  <2>3. l + n - 1 \in p + 1 .. (i + n - 1) - 1 /\ r[l + n - 1].op = "substate"
    <3>1. p <= j + n - 1
      BY DEF n
    <3> QED BY <1>1, <2>1, <2>2, <3>1
  <2> QED BY <2>3 DEF Guarded, r, n
<1> QED BY <1>2, <1>3 DEF Guarded

LEMMA GuardedWithin ==
    ASSUME NEW q \in Seq(Task), q # <<>>, NEW s \in Seq(Task),
           NEW i \in Nat, NEW j \in 1 .. Len(s), j < i, i <= Len(s) + 1,
           Guarded(s, j, i), NEW k \in Nat, i <= k
    PROVE  Guarded(s \o Tail(q), j, k)
<1> DEFINE r == s \o Tail(q)
<1>1. Len(s) \in Nat /\ \A l \in 1 .. Len(s) : r[l] = s[l]
  BY Replaced
<1> HIDE DEF r
<1>2. CASE \E l \in j .. i - 1 : s[l].op \in FirmOps
  <2>1. PICK l \in j .. i - 1 : s[l].op \in FirmOps
    BY <1>2
  <2>2. l \in 1 .. Len(s) /\ l \in j .. k - 1
    BY <1>1
  <2> QED BY <1>1, <2>1, <2>2 DEF Guarded, r
<1>3. CASE \E l \in j + 1 .. i - 1 : s[l].op = "substate"
  <2>1. PICK l \in j + 1 .. i - 1 : s[l].op = "substate"
    BY <1>3
  <2>2. l \in 1 .. Len(s) /\ l \in j + 1 .. k - 1
    BY <1>1
  <2> QED BY <1>1, <2>1, <2>2 DEF Guarded, r
<1> QED BY <1>2, <1>3 DEF Guarded

\* A new call and a call below the old one.
LEMMA LinkAcross ==
    ASSUME NEW q \in Seq(Task), q # <<>>, StackOK(q), LinksOK(q),
           NEW s \in Seq(Task), Continues(s, q[1]),
           NEW j \in 1 .. Len(s), NEW i \in 2 .. Len(q)
    PROVE  Link(s \o Tail(q), j, i + Len(s) - 1)
<1> DEFINE r == s \o Tail(q)
           n == Len(s)
           g == q[i]
           top == q[1]
<1>1. /\ n \in Nat /\ Len(q) \in Nat /\ DOMAIN q = 1 .. Len(q) /\ DOMAIN s = 1 .. n
      /\ r[j] = s[j] /\ r[i + n - 1] = g
  BY Replaced
<1>2. 1 \in DOMAIN q /\ i \in DOMAIN q /\ 1 < i /\ j \in DOMAIN s
  BY <1>1
<1>3. Link(q, 1, i)
  BY <1>2 DEF LinksOK
<1>4. ASSUME g.op \in ReturnOps
      PROVE  Serves(s[j], g) \/ Guarded(r, j, i + n - 1)
  <2>1. CASE Guarded(s, j, n + 1)
    <3>1. n + 1 \in Nat /\ j < n + 1 /\ i + n - 1 \in Nat /\ n + 1 <= i + n - 1
      BY <1>1
    <3> QED BY <2>1, <3>1, GuardedWithin
  <2>2. CASE top.op \notin FirmOps /\ Guarded(q, 1, i)
    <3>1. j \in Nat /\ j <= 1 + n - 1 /\ 1 \in 1 .. Len(q) /\ 1 < i
      BY <1>1
    <3> QED BY <2>2, <3>1, GuardedBelow
  <2>3. CASE top.op \notin CallerOps \cup FirmOps
    BY <1>3, <1>4, <2>2, <2>3 DEF Link, Serves
  <2>4. CASE /\ top.op \in CallerOps /\ s[j].op \in CallerOps
             /\ s[j].e = top.e /\ s[j].x \in States /\ Above(top.x, s[j].x)
    <3>1. top.op \notin FirmOps
      BY <2>4 DEF CallerOps, FirmOps
    <3>2. CASE Serves(top, g)
      <4>1. FrameOK(top) /\ FrameOK(g)
        BY <1>2 DEF StackOK
      <4>2. ASSUME g.op = "regions"
            PROVE  /\ g.k - 1 \in DOMAIN Regions[g.x]
                   /\ Above(Regions[g.x][g.k - 1], s[j].x)
        <5>1. g.k - 1 \in DOMAIN Regions[g.x] /\ Above(Regions[g.x][g.k - 1], top.x)
          BY <3>2, <4>2 DEF Serves
        <5>2. top.x \in States /\ g.x \in States
          BY <2>4, <4>1, <4>2 DEF FrameOK, CallerOps
        <5>3. Regions[g.x] \in Seq(States)
          BY <5>2, ChartAssumption
        <5>4. Regions[g.x][g.k - 1] \in States
          BY <5>1, <5>3
        <5> QED BY <2>4, <5>1, <5>2, <5>4, AboveTransitive
      <4>3. Serves(s[j], g)
        BY <2>4, <3>2, <4>2 DEF Serves
      <4> QED BY <4>3
    <3> QED BY <1>3, <1>4, <2>2, <3>1, <3>2 DEF Link
  <2> QED BY <1>1, <1>2, <2>1, <2>3, <2>4 DEF Continues
<1>5. g.op = "substate" => StartCall(s[j])
  BY <1>2, <1>3 DEF Link, Continues
<1>6. NullAbove(g) => s[j].e = Null
  BY <1>2, <1>3 DEF Link, Continues
<1>7. g.op # "chart"
  BY <1>3 DEF Link
<1> HIDE DEF r, n, g
<1> QED BY <1>1, <1>4, <1>5, <1>6, <1>7 DEF Link, r, n

\* The stack keeps its shape.
LEMMA LinksPush ==
    ASSUME NEW q \in Seq(Task), q # <<>>, StackOK(q), LinksOK(q),
           NEW s \in Seq(Task), Continues(s, q[1])
    PROVE  LinksOK(s \o Tail(q))
<1> DEFINE r == s \o Tail(q)
           n == Len(s)
<1>1. /\ n \in Nat /\ Len(q) \in Nat /\ DOMAIN q = 1 .. Len(q) /\ DOMAIN s = 1 .. n
      /\ DOMAIN r = 1 .. n + Len(q) - 1
      /\ \A l \in 1 .. n : r[l] = s[l]
      /\ \A l \in 2 .. Len(q) : r[l + n - 1] = q[l]
  BY Replaced
<1> HIDE DEF r, n
<1>2. SUFFICES ASSUME NEW i \in DOMAIN r, NEW j \in DOMAIN r, j < i
               PROVE  Link(r, j, i)
  BY DEF LinksOK, r
<1>3. CASE i <= n
  <2>1. i \in 1 .. n /\ j \in 1 .. n
    BY <1>1, <1>2, <1>3
  <2>2. Link(s, j, i)
    BY <1>1, <1>2, <2>1 DEF Continues, LinksOK
  <2>3. Guarded(s, j, i) => Guarded(r, j, i)
    <3>1. i \in Nat /\ i <= n + 1 /\ i <= i
      BY <1>1, <1>3
    <3> QED BY <1>2, <2>1, <3>1, GuardedWithin DEF r, n
  <2> QED BY <1>1, <2>1, <2>2, <2>3 DEF Link
<1>4. CASE i > n /\ j <= n
  <2>1. PICK k \in 2 .. Len(q) : i = k + n - 1
    <3>1. i - n + 1 \in 2 .. Len(q) /\ i = (i - n + 1) + n - 1
      BY <1>1, <1>4
    <3> QED BY <3>1
  <2>2. j \in 1 .. n
    BY <1>1, <1>4
  <2> QED BY <2>1, <2>2, LinkAcross DEF r, n
<1>5. CASE j > n
  <2>1. PICK k \in 2 .. Len(q) : i = k + n - 1
    <3>1. i - n + 1 \in 2 .. Len(q) /\ i = (i - n + 1) + n - 1
      BY <1>1, <1>2, <1>5
    <3> QED BY <3>1
  <2>2. PICK l \in 2 .. Len(q) : j = l + n - 1
    <3>1. j - n + 1 \in 2 .. Len(q) /\ j = (j - n + 1) + n - 1
      BY <1>1, <1>2, <1>5
    <3> QED BY <3>1
  <2>3. l < k /\ k \in DOMAIN q /\ l \in DOMAIN q
    BY <1>1, <1>2, <2>1, <2>2
  <2>4. Link(q, l, k)
    BY <2>3 DEF LinksOK
  <2>5. r[i] = q[k] /\ r[j] = q[l]
    BY <1>1, <2>1, <2>2
  <2>6. Guarded(q, l, k) => Guarded(r, j, i)
    <3>1. j \in Nat /\ j <= l + n - 1 /\ l # 1 /\ l \in 1 .. Len(q)
      BY <1>1, <2>2
    <3> QED BY <2>1, <2>3, <3>1, GuardedBelow DEF r, n
  <2> QED BY <2>4, <2>5, <2>6 DEF Link
<1> QED BY <1>1, <1>2, <1>3, <1>4, <1>5
(***************************************************************************)
(* A call that will answer true.                                           *)
(***************************************************************************)
\* The call i of the stack will be told that a transition has fired.
Assured(stack, i, rc) ==
    \/ stack[1].op \in ReturnOps /\ rc
    \/ \E l \in 1 .. i - 1 : Firm(stack[l])

\* What top was going to answer, the calls in s will.
Keeps(s, top, rc, rc2) ==
    (Firm(top) \/ (top.op \in ReturnOps /\ rc)) =>
        (\E j \in DOMAIN s : Firm(s[j])) \/ (s = <<>> /\ rc2)

LEMMA AssuredPush ==
    ASSUME NEW q \in Seq(Task), q # <<>>, StackOK(q), LinksOK(q),
           NEW s \in Seq(Task), NEW i \in 2 .. Len(q), q[i].op \in ReturnOps,
           NEW rc, NEW rc2, Assured(q, i, rc),
           Keeps(s, q[1], rc, rc2) \/ \E l \in 2 .. i - 1 : Firm(q[l])
    PROVE  Assured(s \o Tail(q), i + Len(s) - 1, rc2)
<1> DEFINE r == s \o Tail(q)
           n == Len(s)
<1>1. /\ n \in Nat /\ Len(q) \in Nat /\ DOMAIN q = 1 .. Len(q) /\ DOMAIN s = 1 .. n
      /\ \A l \in 1 .. n : r[l] = s[l]
      /\ \A l \in 2 .. Len(q) : r[l + n - 1] = q[l]
  BY Replaced
<1>2. s = <<>> => n = 0
  OBVIOUS
<1> HIDE DEF r, n
<1>3. CASE \E l \in 2 .. i - 1 : Firm(q[l])
  <2>1. PICK l \in 2 .. i - 1 : Firm(q[l])
    BY <1>3
  <2>2. l \in 2 .. Len(q) /\ l + n - 1 \in 1 .. (i + n - 1) - 1
    BY <1>1
  <2>3. Firm(r[l + n - 1])
    BY <1>1, <2>1, <2>2
  <2> QED BY <2>2, <2>3 DEF Assured, r, n
<1>4. CASE ~\E l \in 2 .. i - 1 : Firm(q[l])
  <2>1. Firm(q[1]) \/ (q[1].op \in ReturnOps /\ rc)
    <3>1. SUFFICES ASSUME NEW l \in 1 .. i - 1, Firm(q[l]) PROVE Firm(q[1])
      BY DEF Assured
    <3>2. l = 1
      BY <1>4, <3>1
    <3> QED BY <3>1, <3>2
  <2>2. (\E j \in DOMAIN s : Firm(s[j])) \/ (s = <<>> /\ rc2)
    BY <1>4, <2>1 DEF Keeps
  <2>3. CASE \E j \in DOMAIN s : Firm(s[j])
    <3>1. PICK j \in DOMAIN s : Firm(s[j])
      BY <2>3
    <3>2. j \in 1 .. (i + n - 1) - 1 /\ r[j] = s[j]
      BY <1>1, <3>1
    <3> QED BY <3>1, <3>2 DEF Assured, r, n
  <2>4. CASE s = <<>> /\ rc2
    <3>1. r[1] = q[2] /\ 2 \in DOMAIN q
      <4>1. 2 \in 2 .. Len(q) /\ n = 0 /\ 2 + n - 1 = 1
        BY <1>1, <1>2, <2>4
      <4> QED BY <1>1, <4>1
    <3>2. q[2].op \in ReturnOps
      <4>1. CASE i = 2
        BY <4>1
      <4>2. CASE i # 2
        <5>1. 2 < i /\ i \in DOMAIN q /\ 1 \in DOMAIN q /\ 1 < 2 /\ 1 < i
          BY <1>1, <4>2
        <5>2. Link(q, 2, i) /\ Link(q, 1, 2)
          BY <3>1, <5>1 DEF LinksOK
        <5>3. ~StartCall(q[1])
          BY <2>1 DEF StartCall, Firm, FirmOps, ReturnOps
        <5>4. ASSUME Guarded(q, 2, i) PROVE FALSE
          <6>1. CASE \E l \in 2 .. i - 1 : q[l].op \in FirmOps
            BY <1>4, <6>1 DEF Firm
          <6>2. CASE \E l \in 2 + 1 .. i - 1 : q[l].op = "substate"
            <7>1. PICK l \in 2 + 1 .. i - 1 : q[l].op = "substate"
              BY <6>2
            <7>2. l \in DOMAIN q /\ 1 < l
              BY <1>1, <7>1
            <7>3. Link(q, 1, l)
              BY <5>1, <7>2 DEF LinksOK
            <7> QED BY <5>3, <7>1, <7>3 DEF Link
          <6> QED BY <5>4, <6>1, <6>2 DEF Guarded
        <5>5. q[2].op \in CallerOps
          BY <5>2, <5>4 DEF Link, Serves
        <5>6. q[2].op # "dispatch" /\ q[2].op # "substate"
          BY <3>1, <5>2, <5>3 DEF StackOK, Link
        <5> QED BY <5>5, <5>6 DEF CallerOps, ReturnOps
      <4> QED BY <4>1, <4>2
    <3> QED BY <2>4, <3>1, <3>2 DEF Assured, r
  <2> QED BY <2>2, <2>3, <2>4
<1> QED BY <1>3, <1>4

(***************************************************************************)
(* How a call goes on.                                                     *)
(***************************************************************************)
\* The calls that end in s report for the transition that fires, if one with
\* a trigger does.
Fires(s) ==
    \/ fired' = fired
    \/ \E t \in Trans :
          /\ fired' = Append(fired, t) /\ Source[t] = Top.x /\ Top.e # Null
          /\ \E j \in DOMAIN s : Firm(s[j])
          /\ \A j \in DOMAIN s : s[j].op \notin CallerOps

\* The calls that hand an event on, and the states they hand it to.
Follows(f, top, rc) ==
    /\ (f.op \in CallerOps /\ f.e # Null) =>
          /\ f.e = top.e /\ f.x \in States
          /\ \/ top.op \in {"dispatch", "substate"} /\ Above(top.x, f.x)
             \/ /\ top.op = "regions" /\ f.op = "dispatch"
                /\ top.k \in DOMAIN Regions[top.x] /\ f.x = Regions[top.x][top.k]
             \/ /\ top.op = "regions" /\ f.op = "regions"
                /\ f.x = top.x /\ f.k = top.k + 1 /\ (f.b <=> top.b \/ rc)
    /\ f.op = "forkEach" => f.x = top.x /\ (top.op = "forkEach" \/ Kind[top.x] = "Fork")

Goes(s) ==
    /\ s \in Seq(Task) /\ agenda' = s \o Tail(agenda)
    /\ Continues(s, Top)
    /\ \A j \in DOMAIN s : Follows(s[j], Top, ret)
    /\ \/ Keeps(s, Top, ret, ret')
       \/ Top.op = "bubble" /\ Top.e = Null
    /\ Fires(s)

\* Calls that wait for no answer.
LEMMA PlainContinues ==
    ASSUME NEW s \in Seq(Task), NEW top,
           \A j \in DOMAIN s :
              /\ s[j].op \notin ReturnOps \cup {"substate", "chart"}
              /\ s[j].e = Null \/ (j = Len(s) /\ s[j].e = top.e)
              /\ StartCall(top) => StartCall(s[j]),
           s # <<>> => s[Len(s)].op \in FirmOps \/ top.op \notin CallerOps \cup FirmOps
    PROVE  Continues(s, top)
<1>1. Len(s) \in Nat /\ DOMAIN s = 1 .. Len(s)
  OBVIOUS
<1>2. LinksOK(s)
  <2> SUFFICES ASSUME NEW i \in DOMAIN s, NEW j \in DOMAIN s, j < i
               PROVE  Link(s, j, i)
    BY DEF LinksOK
  <2>1. s[j].e = Null
    <3>1. j # Len(s)
      BY <1>1
    <3> QED BY <3>1
  <2> QED BY <2>1 DEF Link
<1>3. ASSUME NEW j \in DOMAIN s, s[Len(s)].op \in FirmOps
      PROVE  Guarded(s, j, Len(s) + 1)
  <2>1. Len(s) \in j .. (Len(s) + 1) - 1
    BY <1>1
  <2> QED BY <1>3, <2>1 DEF Guarded
<1>4. ASSUME NEW j \in DOMAIN s PROVE s # <<>>
  BY <1>1
<1> QED BY <1>2, <1>3, <1>4 DEF Continues

LEMMA EmptyContinues ==
    ASSUME NEW top
    PROVE  /\ <<>> \in Seq(Task) /\ Continues(<<>>, top) /\ DOMAIN <<>> = {}
           /\ \A q \in Seq(Task) : <<>> \o q = q
<1>1. <<>> \in Seq(Task) /\ DOMAIN <<>> = {} /\ \A q \in Seq(Task) : <<>> \o q = q
  OBVIOUS
<1> QED BY <1>1 DEF Continues, LinksOK
LEMMA StackTop ==
    ASSUME Inv, agenda # <<>>
    PROVE  /\ agenda \in Seq(Task) /\ StackOK(agenda) /\ Tail(agenda) \in Seq(Task)
           /\ Top = agenda[1] /\ Top \in Task /\ FrameOK(Top)
           /\ Top.e \in OrNull(Events) /\ Top.k \in Nat /\ Top.b \in BOOLEAN
           /\ ret \in BOOLEAN /\ fired \in Seq(Trans)
<1>1. ControlOK /\ agenda \in Seq(Task) /\ StackOK(agenda)
  BY DEF Inv, ControlOK, CallStack
<1>2. Tail(agenda) \in Seq(Task)
  BY <1>1
<1> QED BY <1>1, <1>2, TopFrame DEF Inv, DataOK

LEMMA ReturnGoes ==
    ASSUME Inv, agenda # <<>>, agenda' = Tail(agenda), fired' = fired,
           \/ (Firm(Top) \/ (Top.op \in ReturnOps /\ ret)) => ret'
           \/ Top.op = "bubble" /\ Top.e = Null
    PROVE  \E s : Goes(s)
<1>1. agenda' = <<>> \o Tail(agenda)
  BY StackTop, EmptyContinues
<1>2. Goes(<<>>)
  BY <1>1, EmptyContinues DEF Goes, Keeps, Fires
<1> QED BY <1>2

WorkOps == {"activate", "entered", "runRegion", "deactivate", "leave", "call", "exit"}

LEMMA WorkGoes ==
    ASSUME Inv, agenda # <<>>, Top.op \in WorkOps, NEW s \in Seq(Task), Push(s),
           fired' = fired,
           \A j \in DOMAIN s :
              /\ s[j].op \notin ReturnOps \cup {"substate", "chart", "forkEach"}
              /\ s[j].e = Null
              /\ StartCall(Top) => StartCall(s[j])
    PROVE  \E u : Goes(u)
<1>1. Top.op \notin CallerOps \cup FirmOps \cup ReturnOps
  BY DEF WorkOps, CallerOps, FirmOps, ReturnOps
<1>2. Continues(s, Top)
  BY <1>1, PlainContinues
<1>3. Keeps(s, Top, ret, ret')
  BY <1>1 DEF Keeps, Firm, FirmOps, WorkOps
<1>4. \A j \in DOMAIN s : Follows(s[j], Top, ret)
  BY DEF Follows
<1> QED BY <1>2, <1>3, <1>4 DEF Goes, Fires, Push

\* What Transition::execute pushes.
FiringCalls(t, more) ==
    CallEach("deactivate", Deactivates[t]) \o <<Call("call", t), Call("enter", t)>> \o more

LEMMA ExecuteFrames ==
    ASSUME NEW t \in Trans, NEW more \in Seq(Task)
    PROVE  LET s == FiringCalls(t, more)
               n == Len(Deactivates[t])
           IN /\ s \in Seq(Task) /\ n \in Nat /\ Len(s) = n + 2 + Len(more)
              /\ DOMAIN s = 1 .. Len(s) /\ Len(more) \in Nat
              /\ \A i \in 1 .. n : s[i].op = "deactivate" /\ s[i].e = Null
              /\ s[n + 1].op = "call" /\ s[n + 1].e = Null
              /\ s[n + 2].op = "enter" /\ s[n + 2].e = Null
              /\ \A i \in 1 .. Len(more) : s[n + 2 + i] = more[i]
<1> DEFINE D == Deactivates[t]
           n == Len(D)
           exits == CallEach("deactivate", D)
           middle == <<Call("call", t), Call("enter", t)>>
           p == exits \o middle
           s == p \o more
<1>1. D \in Seq(States \cup Trans) /\ n \in Nat
  <2>1. D \in Seq(States \ {Root})
    BY ChartAssumption
  <2> QED BY <2>1
<1>2. /\ exits \in Seq(Task) /\ Len(exits) = n
      /\ \A i \in 1 .. n : exits[i] = Call("deactivate", D[i])
  BY <1>1, CallEachOK DEF Ops
<1>3. /\ Call("call", t) \in Task /\ Call("call", t).op = "call" /\ Call("call", t).e = Null
      /\ Call("enter", t) \in Task /\ Call("enter", t).op = "enter" /\ Call("enter", t).e = Null
      /\ \A x : Call("deactivate", x).op = "deactivate" /\ Call("deactivate", x).e = Null
  <2>1. "call" \in Ops /\ "enter" \in Ops /\ t \in States \cup Trans
        /\ Null \in OrNull(Events) /\ 1 \in Nat /\ FALSE \in BOOLEAN
    BY DEF Ops, OrNull
  <2>2. Call("call", t) \in Task /\ Call("enter", t) \in Task
    BY <2>1, DoTask
  <2> QED BY <2>2 DEF Call, Do
<1> HIDE DEF exits, D, n
<1>4. middle \in Seq(Task) /\ Len(middle) = 2 /\ middle[1] = Call("call", t)
      /\ middle[2] = Call("enter", t)
  BY <1>3
<1> HIDE DEF middle
<1>5. /\ p \in Seq(Task) /\ Len(p) = n + 2
      /\ \A i \in 1 .. n + 2 : p[i] = IF i <= n THEN exits[i] ELSE middle[i - n]
  <2>1. /\ p \in Seq(Task) /\ Len(p) = Len(exits) + Len(middle)
        /\ \A i \in 1 .. Len(exits) + Len(middle) :
              p[i] = IF i <= Len(exits) THEN exits[i] ELSE middle[i - Len(exits)]
    BY <1>2, <1>4, ConcatProperties
  <2> QED BY <1>2, <1>4, <2>1
<1>6. p[n + 1] = middle[1] /\ p[n + 2] = middle[2]
  <2>1. PICK i \in 1 .. n + 2 : i = n + 1
    BY <1>1
  <2>2. ~(i <= n) /\ i - n = 1
    BY <1>1, <2>1
  <2>3. PICK j \in 1 .. n + 2 : j = n + 2
    BY <1>1
  <2>4. ~(j <= n) /\ j - n = 2
    BY <1>1, <2>3
  <2> QED BY <1>5, <2>1, <2>2, <2>3, <2>4
<1>7. \A i \in 1 .. n : p[i] = exits[i]
  BY <1>1, <1>5
<1> HIDE DEF p
<1>8. /\ s \in Seq(Task) /\ Len(s) = n + 2 + Len(more) /\ Len(more) \in Nat
      /\ DOMAIN s = 1 .. Len(s)
      /\ \A i \in 1 .. n + 2 + Len(more) :
            s[i] = IF i <= n + 2 THEN p[i] ELSE more[i - (n + 2)]
  <2>1. /\ s \in Seq(Task) /\ Len(s) = Len(p) + Len(more)
        /\ \A i \in 1 .. Len(p) + Len(more) :
              s[i] = IF i <= Len(p) THEN p[i] ELSE more[i - Len(p)]
    BY <1>5, ConcatProperties
  <2>2. Len(more) \in Nat /\ DOMAIN s = 1 .. Len(s)
    BY <2>1
  <2> QED BY <1>1, <1>5, <2>1, <2>2
<1> HIDE DEF s
<1>9. \A i \in 1 .. n + 2 : s[i] = p[i]
  BY <1>1, <1>8
<1>10. ASSUME NEW i \in 1 .. Len(more) PROVE s[n + 2 + i] = more[i]
  <2>1. PICK j \in 1 .. n + 2 + Len(more) : j = n + 2 + i
    BY <1>1, <1>8
  <2>2. ~(j <= n + 2) /\ j - (n + 2) = i
    BY <1>1, <2>1
  <2> QED BY <1>8, <2>1, <2>2
<1>11. /\ \A i \in 1 .. n : s[i].op = "deactivate" /\ s[i].e = Null
  BY <1>1, <1>2, <1>3, <1>7, <1>9
<1>12. /\ s[n + 1].op = "call" /\ s[n + 1].e = Null
       /\ s[n + 2].op = "enter" /\ s[n + 2].e = Null
  <2>1. n + 1 \in 1 .. n + 2 /\ n + 2 \in 1 .. n + 2
    BY <1>1
  <2> QED BY <1>3, <1>4, <1>6, <1>9, <2>1
<1> QED BY <1>1, <1>8, <1>10, <1>11, <1>12 DEF FiringCalls, s, p, exits, middle, D, n

LEMMA ExecuteGoes ==
    ASSUME Inv, agenda # <<>>, Top.op \in CallerOps \cup FirmOps,
           NEW t \in Trans, Source[t] = Top.x, Enabled(t, Top.e),
           NEW more \in Seq(Task), Execute(t, more),
           \/ more = <<>>
           \/ /\ Len(more) = 1 /\ more[1].op = "forkEach" /\ more[1].e = Top.e
              /\ more[1].x = Top.x /\ (Top.op = "forkEach" \/ Kind[Top.x] = "Fork")
    PROVE  \E s : Goes(s)
<1> DEFINE s == FiringCalls(t, more)
           n == Len(Deactivates[t])
<1>1. /\ s \in Seq(Task) /\ n \in Nat /\ Len(s) = n + 2 + Len(more)
      /\ DOMAIN s = 1 .. Len(s) /\ Len(more) \in Nat
      /\ \A i \in 1 .. n : s[i].op = "deactivate" /\ s[i].e = Null
      /\ s[n + 1].op = "call" /\ s[n + 1].e = Null
      /\ s[n + 2].op = "enter" /\ s[n + 2].e = Null
      /\ \A i \in 1 .. Len(more) : s[n + 2 + i] = more[i]
  BY ExecuteFrames
<1>2. agenda' = s \o Tail(agenda) /\ fired' = IF Trigger[t] = Null THEN fired ELSE Append(fired, t)
  BY DEF Execute, Push, FiringCalls
<1>3. more = <<>> => Len(more) = 0
  OBVIOUS
<1>4. Trigger[t] # Null => Top.e # Null
  BY DEF Enabled
<1> HIDE DEF s, n
<1>5. \/ Len(s) = n + 2
      \/ /\ Len(s) = n + 3 /\ s[n + 3].op = "forkEach" /\ s[n + 3].e = Top.e
         /\ s[n + 3].x = Top.x /\ (Top.op = "forkEach" \/ Kind[Top.x] = "Fork")
  <2>1. CASE more = <<>>
    BY <1>1, <1>3, <2>1
  <2>2. CASE /\ Len(more) = 1 /\ more[1].op = "forkEach" /\ more[1].e = Top.e
             /\ more[1].x = Top.x /\ (Top.op = "forkEach" \/ Kind[Top.x] = "Fork")
    <3>1. 1 \in 1 .. Len(more) /\ n + 2 + 1 = n + 3
      BY <1>1, <2>2
    <3>2. s[n + 3] = more[1]
      BY <1>1, <3>1
    <3> QED BY <1>1, <2>2, <3>2
  <2> QED BY <2>1, <2>2
<1>6. s[Len(s)].op \in FirmOps
  BY <1>1, <1>5 DEF FirmOps
<1>7. ASSUME NEW j \in DOMAIN s
      PROVE  /\ s[j].op \in {"deactivate", "call", "enter", "forkEach"}
             /\ s[j].e = Null \/ (j = Len(s) /\ s[j].e = Top.e)
             /\ s[j].op = "forkEach" =>
                   s[j].x = Top.x /\ (Top.op = "forkEach" \/ Kind[Top.x] = "Fork")
  <2>1. j \in 1 .. n \/ j = n + 1 \/ j = n + 2 \/ (j = n + 3 /\ Len(s) = n + 3)
    BY <1>1, <1>5
  <2> QED BY <1>1, <1>5, <2>1
<1>8. ~StartCall(Top)
  BY DEF StartCall, CallerOps, FirmOps
<1>9. Continues(s, Top)
  BY <1>1, <1>6, <1>7, <1>8, PlainContinues DEF ReturnOps
<1>10. Len(s) \in DOMAIN s /\ Firm(s[Len(s)])
  BY <1>1, <1>6 DEF Firm
<1>11. Fires(s)
  BY <1>2, <1>4, <1>7, <1>10 DEF Fires, CallerOps
<1>12. Keeps(s, Top, ret, ret')
  BY <1>10 DEF Keeps
<1>13. \A j \in DOMAIN s : Follows(s[j], Top, ret)
  BY <1>7 DEF Follows, CallerOps
<1> QED BY <1>1, <1>2, <1>9, <1>11, <1>12, <1>13 DEF Goes

LEMMA FireFirstGoes ==
    ASSUME Inv, agenda # <<>>, Top.op \in CallerOps, Top.x \in States,
           NEW ready, ready \subseteq Ready(Top.x, Top.e), FireFirst(Top.x, ready),
           ready = {} => \/ ~(Firm(Top) \/ (Top.op \in ReturnOps /\ ret))
                         \/ Top.op = "bubble" /\ Top.e = Null
    PROVE  \E s : Goes(s)
<1>1. CASE \E i \in ready : Execute(Outgoing[Top.x][i], <<>>)
  <2>1. PICK i \in ready : Execute(Outgoing[Top.x][i], <<>>)
    BY <1>1
  <2>2. i \in DOMAIN Outgoing[Top.x] /\ Enabled(Outgoing[Top.x][i], Top.e)
    BY DEF Ready
  <2>3. PICK t \in Trans : t = Outgoing[Top.x][i] /\ t \in ElementsOf(Outgoing[Top.x])
    <3>1. Outgoing[Top.x] \in Seq(Trans)
      BY ChartAssumption
    <3>2. Outgoing[Top.x][i] \in Trans
      BY <2>2, <3>1
    <3> QED BY <2>2, <3>2 DEF ElementsOf
  <2>4. Source[t] = Top.x /\ Execute(t, <<>>) /\ Enabled(t, Top.e)
    BY <2>1, <2>2, <2>3, ChartPaths
  <2> QED BY <2>4, ExecuteGoes, EmptyContinues
<1>2. CASE ready = {} /\ Return(FALSE) /\ UNCHANGED <<md, fired, before, control>>
  <2>1. agenda' = Tail(agenda) /\ fired' = fired
    BY <1>2 DEF Return
  <2> QED BY <1>2, <2>1, ReturnGoes
<1> QED BY <1>1, <1>2 DEF FireFirst

(***************************************************************************)
(* One lemma for each action: how it goes on.                              *)
(***************************************************************************)
LEMMA DispatchStateGoes ==
    ASSUME Inv, DispatchState
    PROVE  \E s : Goes(s)
<1>1. agenda # <<>> /\ Top.op = "dispatch" /\ FireFirst(Top.x, Ready(Top.x, Top.e))
  BY DEF DispatchState, Running, Top
<1>2. Top.x \in States /\ Top.op \in CallerOps
  BY <1>1, StackTop DEF FrameOK, CallerOps
<1>3. ~(Firm(Top) \/ (Top.op \in ReturnOps /\ ret))
  BY <1>1 DEF Firm, FirmOps, ReturnOps
<1> QED BY <1>1, <1>2, <1>3, FireFirstGoes

LEMMA DispatchForkGoes ==
    ASSUME Inv, DispatchFork
    PROVE  \E s : Goes(s)
<1> DEFINE out == Outgoing[Top.x]
           f == Do("forkEach", Top.x, Top.e, Top.k + 1, FALSE)
           more == <<f>>
<1>1. /\ agenda # <<>> /\ Top.op \in {"dispatch", "forkEach"}
      /\ Top.op = "forkEach" \/ Kind[Top.x] = "Fork"
  BY DEF DispatchFork, Running, Top
<1>2. Top.x \in States /\ Top.op \in CallerOps \cup FirmOps
  BY <1>1, StackTop DEF FrameOK, CallerOps, FirmOps
<1>3. f \in Task /\ f.op = "forkEach" /\ f.e = Top.e /\ f.x = Top.x
  <2>1. "forkEach" \in Ops /\ Top.x \in States \cup Trans /\ Top.k + 1 \in Nat
        /\ FALSE \in BOOLEAN
    BY <1>1, <1>2, StackTop DEF Ops
  <2>2. f \in Task
    BY <1>1, <2>1, StackTop, DoTask
  <2> QED BY <2>2 DEF Do
<1>4. out \in Seq(Trans)
  BY <1>2, ChartAssumption
<1> HIDE DEF f
<1>5. more \in Seq(Task) /\ Len(more) = 1 /\ more[1] = f /\ more # <<>> /\ DOMAIN more = 1 .. 1
  BY <1>3
<1>6. CASE Top.k > Len(out) /\ Return(TRUE) /\ Quiet
  <2>1. agenda' = Tail(agenda) /\ fired' = fired /\ ret'
    BY <1>6 DEF Return, Quiet
  <2> QED BY <1>1, <2>1, ReturnGoes
<1>7. CASE Top.k \in DOMAIN out /\ Enabled(out[Top.k], Top.e) /\ Execute(out[Top.k], more)
  <2>1. PICK t \in Trans : t = out[Top.k] /\ t \in ElementsOf(out)
    BY <1>4, <1>7 DEF ElementsOf
  <2>2. Source[t] = Top.x
    BY <1>2, <2>1, ChartPaths
  <2> QED BY <1>1, <1>2, <1>3, <1>5, <1>7, <2>1, <2>2, ExecuteGoes
<1>8. CASE Push(more) /\ Quiet
  <2>1. agenda' = more \o Tail(agenda) /\ fired' = fired
    BY <1>8 DEF Push, Quiet
  <2>2. more[Len(more)].op \in FirmOps /\ Firm(more[1]) /\ 1 \in DOMAIN more
    BY <1>3, <1>5 DEF FirmOps, Firm
  <2>3. ~StartCall(Top)
    BY <1>1 DEF StartCall
  <2>4. \A j \in DOMAIN more : j = 1
    BY <1>5
  <2>5. Continues(more, Top)
    BY <1>3, <1>5, <2>2, <2>3, <2>4, PlainContinues DEF ReturnOps
  <2>6. Keeps(more, Top, ret, ret')
    BY <2>2 DEF Keeps
  <2>7. \A j \in DOMAIN more : Follows(more[j], Top, ret)
    BY <1>1, <1>3, <1>5, <2>4 DEF Follows, CallerOps
  <2> QED BY <1>5, <2>1, <2>5, <2>6, <2>7 DEF Goes, Fires
<1> QED BY <1>6, <1>7, <1>8 DEF DispatchFork, f

\* One or two calls written out.
LEMMA ContinuesOne ==
    ASSUME NEW f \in Task, NEW top \in Task, top.op \in CallerOps,
           f.op \in CallerOps, f.e = top.e, f.x \in States, Above(top.x, f.x)
    PROVE  <<f>> \in Seq(Task) /\ Continues(<<f>>, top)
<1>1. <<f>> \in Seq(Task) /\ DOMAIN <<f>> = 1 .. 1 /\ <<f>>[1] = f
  OBVIOUS
<1>2. \A j \in 1 .. 1 : j = 1
  OBVIOUS
<1>3. LinksOK(<<f>>)
  BY <1>1, <1>2 DEF LinksOK
<1>4. ~StartCall(top)
  BY DEF StartCall, CallerOps
<1> QED BY <1>1, <1>2, <1>3, <1>4 DEF Continues

LEMMA ContinuesTwo ==
    ASSUME NEW f \in Task, NEW g \in Task, NEW top \in Task, top.op \in CallerOps,
           g.op \in CallerOps, g.e = top.e, g.x \in States, Above(top.x, g.x),
           \/ /\ g.op \in ReturnOps /\ Serves(f, g)
              /\ f.x \in States /\ Above(top.x, f.x) /\ f.e = top.e
           \/ g.op = "substate" /\ StartCall(f) /\ f.e = Null
    PROVE  <<f, g>> \in Seq(Task) /\ Continues(<<f, g>>, top)
<1> DEFINE s == <<f, g>>
<1>1. s \in Seq(Task) /\ DOMAIN s = 1 .. 2 /\ s[1] = f /\ s[2] = g /\ Len(s) = 2
  OBVIOUS
<1> HIDE DEF s
<1>2. ~StartCall(top)
  BY DEF StartCall, CallerOps
<1>3. g.op \notin FirmOps \cup {"loop", "chart"} /\ (g.op = "substate" => g.op \notin ReturnOps)
  BY DEF CallerOps, FirmOps, ReturnOps
<1>4. Link(s, 1, 2)
  <2>1. NullAbove(g) => f.e = Null
    BY <1>3 DEF NullAbove
  <2>2. g.op \in ReturnOps => Serves(f, g)
    BY <1>3
  <2>3. g.op = "substate" => StartCall(f)
    BY <1>3 DEF ReturnOps
  <2> QED BY <1>1, <1>3, <2>1, <2>2, <2>3 DEF Link
<1>5. LinksOK(s)
  <2>1. \A i, j \in 1 .. 2 : j < i => i = 2 /\ j = 1
    OBVIOUS
  <2> QED BY <1>1, <1>4, <2>1 DEF LinksOK
<1>6. Guarded(s, 1, Len(s) + 1) \/ (f.op \in CallerOps /\ f.e = top.e /\ f.x \in States /\ Above(top.x, f.x))
  <2>1. CASE g.op = "substate"
    <3>1. 2 \in 1 + 1 .. (Len(s) + 1) - 1
      BY <1>1
    <3> QED BY <1>1, <2>1, <3>1 DEF Guarded
  <2> QED BY <2>1 DEF Serves
<1>7. \A j \in DOMAIN s : j = 1 \/ j = 2
  BY <1>1
<1>8. top.e = Null => f.e = Null /\ g.e = Null
  OBVIOUS
<1> QED BY <1>1, <1>2, <1>5, <1>6, <1>7, <1>8 DEF Continues, s

LEMMA CallerGoes ==
    ASSUME Inv, agenda # <<>>, NEW s \in Seq(Task), Push(s), Continues(s, Top), fired' = fired,
           (Firm(Top) \/ (Top.op \in ReturnOps /\ ret)) => \E j \in DOMAIN s : Firm(s[j]),
           \A j \in DOMAIN s : Follows(s[j], Top, ret)
    PROVE  \E u : Goes(u)
BY DEF Goes, Push, Keeps, Fires

LEMMA FollowsTwo ==
    ASSUME NEW f, NEW g, NEW top, NEW rc, Follows(f, top, rc), Follows(g, top, rc)
    PROVE  /\ \A j \in DOMAIN <<f, g>> : Follows(<<f, g>>[j], top, rc)
           /\ \A j \in DOMAIN <<g>> : Follows(<<g>>[j], top, rc)
<1>1. \A j \in DOMAIN <<f, g>> : <<f, g>>[j] = f \/ <<f, g>>[j] = g
  OBVIOUS
<1>2. \A j \in DOMAIN <<g>> : <<g>>[j] = g
  OBVIOUS
<1> QED BY <1>1, <1>2

LEMMA DispatchHierarchicalGoes ==
    ASSUME Inv, DispatchHierarchical
    PROVE  \E s : Goes(s)
<1> DEFINE h == Top.x
           g == Do("substate", h, Top.e, 1, FALSE)
           a == Call("activate", StartState[h])
<1>1. agenda # <<>> /\ Top.op = "dispatch"
  BY DEF DispatchHierarchical, Running, Top
<1>2. h \in States /\ Top.op \in CallerOps /\ Above(h, h) /\ Top \in Task
  BY <1>1, StackTop, PathEnd DEF FrameOK, CallerOps
<1>3. ~(Firm(Top) \/ (Top.op \in ReturnOps /\ ret))
  BY <1>1 DEF Firm, FirmOps, ReturnOps
<1>4. g \in Task /\ g.op = "substate" /\ g.e = Top.e /\ g.x = h
  <2>1. "substate" \in Ops /\ h \in States \cup Trans
    BY <1>2 DEF Ops
  <2>2. g \in Task
    BY <1>1, <2>1, StackTop, DoTask
  <2> QED BY <2>2 DEF Do
<1> HIDE DEF g
<1>8. Follows(g, Top, ret)
  BY <1>1, <1>2, <1>4 DEF Follows
<1>5. CASE Return(FALSE) /\ Quiet
  <2>1. agenda' = Tail(agenda) /\ fired' = fired
    BY <1>5 DEF Return, Quiet
  <2> QED BY <1>1, <1>3, <2>1, ReturnGoes
<1>6. CASE StartState[h] # Null /\ Push(<<a, g>>) /\ UNCHANGED <<ret, fired, before, control>>
  <2>1. StartState[h] \in States /\ Kind[StartState[h]] = "Start"
    BY <1>2, <1>6, StartFacts DEF IsKind
  <2>2. a \in Task /\ StartCall(a) /\ a.e = Null
    <3>1. "activate" \in PlainOps
      BY DEF PlainOps
    <3>2. Good(a) /\ a.op = "activate" /\ a.x = StartState[h]
      BY <2>1, <3>1, PlainCall
    <3>3. a.e = Null
      BY DEF Call, Do
    <3> QED BY <2>1, <3>2, <3>3 DEF Good, StartCall
  <2> HIDE DEF a
  <2>3. <<a, g>> \in Seq(Task) /\ Continues(<<a, g>>, Top)
    BY <1>2, <1>4, <2>2, ContinuesTwo DEF CallerOps
  <2>4. Follows(a, Top, ret)
    BY <2>2 DEF Follows, StartCall
  <2> QED BY <1>1, <1>3, <1>6, <1>8, <2>3, <2>4, FollowsTwo, CallerGoes
<1>7. CASE Push(<<g>>) /\ Quiet
  <2>1. <<g>> \in Seq(Task) /\ Continues(<<g>>, Top)
    BY <1>2, <1>4, ContinuesOne DEF CallerOps
  <2> QED BY <1>1, <1>3, <1>7, <1>8, <2>1, FollowsTwo, CallerGoes DEF Quiet
<1> QED BY <1>5, <1>6, <1>7 DEF DispatchHierarchical, g

LEMMA DispatchSubstateGoes ==
    ASSUME Inv, DispatchSubstate
    PROVE  \E s : Goes(s)
<1> DEFINE h == Top.x
           current == md.current[h]
           g == Do("bubble", h, Top.e, 1, FALSE)
           d == Do("dispatch", current, Top.e, 1, FALSE)
<1>1. agenda # <<>> /\ Top.op = "substate" /\ fired' = fired
  BY DEF DispatchSubstate, Running, Top, Quiet
<1>2. h \in States /\ Top.op \in CallerOps /\ Above(h, h) /\ Top \in Task
  BY <1>1, StackTop, PathEnd DEF FrameOK, CallerOps
<1>3. ~(Firm(Top) \/ (Top.op \in ReturnOps /\ ret))
  BY <1>1 DEF Firm, FirmOps, ReturnOps
<1>4. g \in Task /\ g.op = "bubble" /\ g.e = Top.e /\ g.x = h
  <2>1. "bubble" \in Ops /\ h \in States \cup Trans
    BY <1>2 DEF Ops
  <2>2. g \in Task
    BY <1>1, <2>1, StackTop, DoTask
  <2> QED BY <2>2 DEF Do
<1> HIDE DEF g
<1>7. Follows(g, Top, ret)
  BY <1>1, <1>2, <1>4 DEF Follows
<1>5. CASE current # Null /\ Push(<<d, g>>)
  <2>1. current \in States \ {Root} /\ Parent[current] = h
    BY <1>2, <1>5, InvData, CurrentBelowRoot
  <2>2. Above(h, current)
    BY <1>2, <2>1, ParentPath
  <2>3. d \in Task /\ d.op = "dispatch" /\ d.e = Top.e /\ d.x = current
    <3>1. Good(d)
      BY <1>1, <2>1, StackTop, DispatchDo
    <3> QED BY <3>1 DEF Good, Do
  <2> HIDE DEF d
  <2>4. Serves(d, g)
    BY <1>4, <2>3 DEF Serves, CallerOps
  <2>5. <<d, g>> \in Seq(Task) /\ Continues(<<d, g>>, Top)
    BY <1>2, <1>4, <2>1, <2>2, <2>3, <2>4, ContinuesTwo DEF CallerOps, ReturnOps
  <2>6. Follows(d, Top, ret)
    BY <1>1, <2>1, <2>2, <2>3 DEF Follows
  <2> QED BY <1>1, <1>3, <1>5, <1>7, <2>5, <2>6, FollowsTwo, CallerGoes
<1>6. CASE Push(<<g>>)
  <2>1. <<g>> \in Seq(Task) /\ Continues(<<g>>, Top)
    BY <1>2, <1>4, ContinuesOne DEF CallerOps
  <2> QED BY <1>1, <1>3, <1>6, <1>7, <2>1, FollowsTwo, CallerGoes
<1> QED BY <1>5, <1>6 DEF DispatchSubstate, g

LEMMA BubbleGoes ==
    ASSUME Inv, Bubble, FinishGoesOn(Events)
    PROVE  \E s : Goes(s)
<1> DEFINE h == Top.x
<1>1. agenda # <<>> /\ Top.op = "bubble" /\ Running("bubble")
  BY DEF Bubble, Running, Top
<1>2. h \in States /\ Top.op \in CallerOps /\ ~Firm(Top)
  BY <1>1, StackTop DEF FrameOK, CallerOps, Firm, FirmOps
<1>3. CASE Return(ret) /\ Quiet
  <2>1. agenda' = Tail(agenda) /\ fired' = fired /\ ret' = ret
    BY <1>3 DEF Return, Quiet
  <2> QED BY <1>1, <1>2, <2>1, ReturnGoes
<1>4. CASE h \in md.active /\ ~HandledBelow(h) /\ FireFirst(h, MayBubble(h, Top.e))
  <2>1. MayBubble(h, Top.e) \subseteq Ready(h, Top.e)
    BY DEF MayBubble
  <2>2. ASSUME MayBubble(h, Top.e) = {}, ret PROVE Top.e = Null
    <3>1. JustFinished
      BY <1>1, <1>4, <2>2 DEF JustFinished, HandledBelow
    <3>2. Top.e \notin Events
      BY <2>2, <3>1 DEF FinishGoesOn
    <3> QED BY <1>1, <3>2, StackTop DEF OrNull
  <2> QED BY <1>1, <1>2, <1>4, <2>1, <2>2, FireFirstGoes
<1> QED BY <1>3, <1>4 DEF Bubble

LEMMA DispatchConcurrentGoes ==
    ASSUME Inv, DispatchConcurrent
    PROVE  \E s : Goes(s)
<1> DEFINE c == Top.x
           g == Do("regions", c, Top.e, 1, FALSE)
<1>1. agenda # <<>> /\ Top.op = "dispatch" /\ Push(<<g>>) /\ fired' = fired
  BY DEF DispatchConcurrent, Running, Top, Quiet
<1>2. c \in States /\ Top.op \in CallerOps /\ Above(c, c) /\ Top \in Task
  BY <1>1, StackTop, PathEnd DEF FrameOK, CallerOps
<1>3. ~(Firm(Top) \/ (Top.op \in ReturnOps /\ ret))
  BY <1>1 DEF Firm, FirmOps, ReturnOps
<1>4. g \in Task /\ g.op = "regions" /\ g.e = Top.e /\ g.x = c
  <2>1. "regions" \in Ops /\ c \in States \cup Trans
    BY <1>2 DEF Ops
  <2>2. g \in Task
    BY <1>1, <2>1, StackTop, DoTask
  <2> QED BY <2>2 DEF Do
<1> HIDE DEF g
<1>5. <<g>> \in Seq(Task) /\ Continues(<<g>>, Top)
  BY <1>2, <1>4, ContinuesOne DEF CallerOps
<1>6. Follows(g, Top, ret)
  BY <1>1, <1>2, <1>4 DEF Follows
<1> QED BY <1>1, <1>3, <1>5, <1>6, FollowsTwo, CallerGoes

LEMMA DispatchRegionsGoes ==
    ASSUME Inv, DispatchRegions
    PROVE  \E s : Goes(s)
<1> DEFINE c == Top.x
           k == Top.k
           dispatched == Top.b \/ ret
           d == Do("dispatch", Regions[c][k], Top.e, 1, FALSE)
           g == Do("regions", c, Top.e, k + 1, dispatched)
<1>1. agenda # <<>> /\ Top.op = "regions"
  BY DEF DispatchRegions, Running, Top
<1>2. /\ c \in States /\ Top.op \in CallerOps /\ Above(c, c) /\ Top \in Task
      /\ k \in Nat /\ dispatched \in BOOLEAN
  BY <1>1, StackTop, PathEnd DEF FrameOK, CallerOps
<1>3. (Firm(Top) \/ (Top.op \in ReturnOps /\ ret)) => dispatched
  BY <1>1 DEF Firm, FirmOps
<1>4. CASE k \in DOMAIN Regions[c] /\ Push(<<d, g>>) /\ Quiet
  <2>1. g \in Task /\ g.op = "regions" /\ g.e = Top.e /\ g.x = c /\ g.k = k + 1 /\ g.b = dispatched
    <3>1. "regions" \in Ops /\ c \in States \cup Trans /\ k + 1 \in Nat
      BY <1>2 DEF Ops
    <3>2. g \in Task
      BY <1>1, <1>2, <3>1, StackTop, DoTask
    <3> QED BY <3>2 DEF Do
  <2>2. Regions[c][k] \in States \ {Root} /\ Parent[Regions[c][k]] = c
    <3>1. Regions[c][k] \in ElementsOf(Regions[c])
      BY <1>4 DEF ElementsOf
    <3>2. Regions[c][k] \in ChildrenOf(c)
      BY <1>2, <3>1, ChartStructure
    <3> QED BY <1>2, <3>2, ChartAssumption DEF ChildrenOf
  <2>3. Above(c, Regions[c][k]) /\ Above(Regions[c][k], Regions[c][k])
    BY <1>2, <2>2, ParentPath, PathEnd
  <2>4. d \in Task /\ d.op = "dispatch" /\ d.e = Top.e /\ d.x = Regions[c][k]
    <3>1. Good(d)
      BY <1>1, <2>2, StackTop, DispatchDo
    <3> QED BY <3>1 DEF Good, Do
  <2> HIDE DEF d, g
  <2>5. Serves(d, g)
    <3>1. g.k - 1 = k
      BY <1>2, <2>1
    <3> QED BY <1>4, <2>1, <2>3, <2>4, <3>1 DEF Serves, CallerOps
  <2>6. <<d, g>> \in Seq(Task) /\ Continues(<<d, g>>, Top)
    BY <1>2, <2>1, <2>2, <2>3, <2>4, <2>5, ContinuesTwo DEF CallerOps, ReturnOps
  <2>7. dispatched => 2 \in DOMAIN <<d, g>> /\ Firm(<<d, g>>[2])
    <3>1. 2 \in DOMAIN <<d, g>> /\ <<d, g>>[2] = g
      OBVIOUS
    <3>2. dispatched => Firm(g)
      BY <2>1, Zenon DEF Firm
    <3> QED BY <3>1, <3>2, Zenon
  <2>8. Follows(d, Top, ret)
    BY <1>1, <1>4, <2>2, <2>4 DEF Follows
  <2>9. Follows(g, Top, ret)
    <3>1. g.b <=> Top.b \/ ret
      BY <2>1, Zenon
    <3>2. /\ g.op = "regions" /\ g.e = Top.e /\ g.x = Top.x /\ g.x \in States
          /\ g.k = Top.k + 1 /\ Top.op = "regions"
      BY <1>1, <1>2, <2>1
    <3> HIDE DEF dispatched
    <3> QED BY ONLY <3>1, <3>2, Zenon DEF Follows
  <2> QED BY <1>1, <1>3, <1>4, <2>6, <2>7, <2>8, <2>9, FollowsTwo, CallerGoes DEF Quiet
<1>5. CASE Return(dispatched) /\ Quiet
  <2>1. agenda' = Tail(agenda) /\ fired' = fired /\ ret' = dispatched
    BY <1>5 DEF Return, Quiet
  <2> QED BY <1>1, <1>3, <2>1, ReturnGoes
<1>6. CASE ~dispatched /\ FireFirst(c, MayComplete(c, Top.e))
  <2>1. MayComplete(c, Top.e) \subseteq Ready(c, Top.e)
    BY DEF MayComplete
  <2> QED BY <1>1, <1>2, <1>3, <1>6, <2>1, FireFirstGoes
<1> QED BY <1>4, <1>5, <1>6 DEF DispatchRegions

\* A call that waits for no answer, made while top is at work.
PlainFrame(f, top) ==
    /\ f \in Task /\ f.op \notin ReturnOps \cup {"substate", "chart", "forkEach"}
    /\ f.e = Null
    /\ StartCall(top) => StartCall(f)

LEMMA PlainFrameCall ==
    ASSUME NEW op \in WorkOps \cup {"dispatch"}, NEW x \in States, NEW top,
           StartCall(top) => op \in {"call", "entered"} /\ x = top.x
    PROVE  PlainFrame(Call(op, x), top)
<1>1. op \in Ops /\ x \in States \cup Trans /\ Null \in OrNull(Events)
  BY DEF WorkOps, Ops, OrNull
<1>2. Call(op, x) \in Task /\ Call(op, x).op = op /\ Call(op, x).x = x
  BY <1>1, DoTask
<1>3. Call(op, x).e = Null
  BY DEF Call, Do
<1>4. op \notin ReturnOps \cup {"substate", "chart", "forkEach"}
  BY DEF WorkOps, ReturnOps
<1>5. StartCall(top) => StartCall(Call(op, x))
  BY <1>2 DEF StartCall
<1> QED BY <1>2, <1>3, <1>4, <1>5 DEF PlainFrame

LEMMA WorkPush ==
    ASSUME Inv, agenda # <<>>, Top.op \in WorkOps, NEW s \in Seq(Task), Push(s),
           fired' = fired, \A j \in DOMAIN s : PlainFrame(s[j], Top)
    PROVE  \E u : Goes(u)
BY WorkGoes DEF PlainFrame

LEMMA WorkOne ==
    ASSUME Inv, agenda # <<>>, Top.op \in WorkOps, fired' = fired,
           NEW f, PlainFrame(f, Top), Push(<<f>>)
    PROVE  \E u : Goes(u)
<1>1. <<f>> \in Seq(Task) /\ \A j \in DOMAIN <<f>> : <<f>>[j] = f
  BY DEF PlainFrame
<1> QED BY <1>1, WorkPush

LEMMA WorkTwo ==
    ASSUME Inv, agenda # <<>>, Top.op \in WorkOps, fired' = fired,
           NEW f, PlainFrame(f, Top), NEW g, PlainFrame(g, Top), Push(<<f, g>>)
    PROVE  \E u : Goes(u)
<1>1. <<f, g>> \in Seq(Task) /\ \A j \in DOMAIN <<f, g>> : <<f, g>>[j] = f \/ <<f, g>>[j] = g
  BY DEF PlainFrame
<1> QED BY <1>1, WorkPush

LEMMA WorkThree ==
    ASSUME Inv, agenda # <<>>, Top.op \in WorkOps, fired' = fired,
           NEW f, PlainFrame(f, Top), NEW g, PlainFrame(g, Top),
           NEW h, PlainFrame(h, Top), Push(<<f, g, h>>)
    PROVE  \E u : Goes(u)
<1>1. /\ <<f, g, h>> \in Seq(Task)
      /\ \A j \in DOMAIN <<f, g, h>> :
            <<f, g, h>>[j] = f \/ <<f, g, h>>[j] = g \/ <<f, g, h>>[j] = h
  BY DEF PlainFrame
<1> QED BY <1>1, WorkPush

LEMMA WorkNone ==
    ASSUME Inv, agenda # <<>>, Top.op \in WorkOps, fired' = fired,
           Push(<<>>) \/ agenda' = Tail(agenda)
    PROVE  \E u : Goes(u)
<1>1. agenda' = Tail(agenda)
  BY StackTop, EmptyContinues DEF Push
<1>2. ~(Firm(Top) \/ (Top.op \in ReturnOps /\ ret))
  BY DEF WorkOps, Firm, FirmOps, ReturnOps
<1> QED BY <1>1, <1>2, ReturnGoes

LEMMA EnterGoes ==
    ASSUME Inv, Enter
    PROVE  \E s : Goes(s)
<1> DEFINE path == Activates[Top.x]
           a == Call("activate", path[Top.k])
           g == Do("enter", Top.x, Null, Top.k + 1, FALSE)
<1>1. agenda # <<>> /\ Top.op = "enter"
  BY DEF Enter, Running, Top
<1>2. Top.x \in Trans /\ Top \in Task /\ Top.k \in Nat
  BY <1>1, StackTop DEF FrameOK
<1>3. CASE Return(TRUE) /\ Quiet
  <2>1. agenda' = Tail(agenda) /\ fired' = fired /\ ret'
    BY <1>3 DEF Return, Quiet
  <2> QED BY <1>1, <2>1, ReturnGoes
<1>4. CASE Top.k \in DOMAIN path /\ Push(<<a, g>>) /\ UNCHANGED <<ret, fired, before, control>>
  <2>1. path[Top.k] \in States
    <3>1. path \in Seq(States \ {Root})
      BY <1>2, ChartAssumption
    <3> QED BY <1>4, <3>1
  <2>2. a \in Task /\ a.op = "activate" /\ a.e = Null
    <3>1. "activate" \in PlainOps
      BY DEF PlainOps
    <3>2. Good(a) /\ a.op = "activate"
      BY <2>1, <3>1, PlainCall
    <3>3. a.e = Null
      BY DEF Call, Do
    <3> QED BY <3>2, <3>3 DEF Good
  <2>3. g \in Task /\ g.op = "enter" /\ g.e = Null
    <3>1. Top.k + 1 \in Nat /\ FALSE \in BOOLEAN
      BY <1>2
    <3>2. Good(g) /\ g.op = "enter"
      BY <1>2, <3>1, TransitionDo
    <3> QED BY <3>2 DEF Good, Do
  <2> HIDE DEF a, g
  <2>4. /\ <<a, g>> \in Seq(Task) /\ DOMAIN <<a, g>> = 1 .. 2 /\ <<a, g>>[1] = a
        /\ <<a, g>>[2] = g /\ Len(<<a, g>>) = 2
    BY <2>2, <2>3
  <2>5. \A j \in DOMAIN <<a, g>> : j = 1 \/ j = 2
    BY <2>4
  <2>6. ~StartCall(Top)
    BY <1>1 DEF StartCall
  <2>7. Continues(<<a, g>>, Top)
    BY <2>2, <2>3, <2>4, <2>5, <2>6, PlainContinues DEF ReturnOps, FirmOps
  <2>8. 2 \in DOMAIN <<a, g>> /\ Firm(<<a, g>>[2])
    BY <2>3, <2>4 DEF Firm, FirmOps
  <2>9. Follows(a, Top, ret) /\ Follows(g, Top, ret)
    BY <2>2, <2>3 DEF Follows, CallerOps
  <2> QED BY <1>1, <1>4, <2>4, <2>7, <2>8, <2>9, FollowsTwo, CallerGoes
<1> QED BY <1>3, <1>4 DEF Enter

LEMMA ActivateGoes ==
    ASSUME Inv, Activate
    PROVE  \E s : Goes(s)
<1>1. agenda # <<>> /\ Top.op = "activate"
  BY DEF Activate, Running, Top
<1>2. Top.x \in States /\ Top.op \in WorkOps
  BY <1>1, StackTop DEF FrameOK, WorkOps
<1>3. CASE Return(FALSE) /\ Quiet
  BY <1>1, <1>2, <1>3, WorkNone DEF Return, Quiet
<1>4. CASE Push(<<Call("call", Top.x), Call("entered", Top.x)>>) /\ fired' = fired
  <2>1. PlainFrame(Call("call", Top.x), Top) /\ PlainFrame(Call("entered", Top.x), Top)
    BY <1>2, PlainFrameCall DEF WorkOps
  <2> QED BY <1>1, <1>2, <1>4, <2>1, WorkTwo
<1> QED BY <1>3, <1>4 DEF Activate

LEMMA EnteredGoes ==
    ASSUME Inv, Entered
    PROVE  \E s : Goes(s)
<1> DEFINE x == Top.x
           next == Do("entered", x, Null, Top.k + 1, FALSE)
           r == Regions[x][Top.k]
<1>1. agenda # <<>> /\ Top.op = "entered"
  BY DEF Entered, Running, Top
<1>2. x \in States /\ Top.op \in WorkOps /\ Top.k \in Nat
  BY <1>1, StackTop DEF FrameOK, WorkOps
<1>3. next \in Task /\ next.op = "entered" /\ next.e = Null /\ next.x = x
  <2>1. "entered" \in Ops /\ x \in States \cup Trans /\ Top.k + 1 \in Nat
        /\ Null \in OrNull(Events) /\ FALSE \in BOOLEAN
    BY <1>2 DEF Ops, OrNull
  <2>2. next \in Task
    BY <2>1, DoTask
  <2> QED BY <2>2 DEF Do
<1> HIDE DEF next
<1>4. PlainFrame(next, Top)
  BY <1>2, <1>3 DEF PlainFrame, ReturnOps, StartCall
<1>5. CASE /\ Kind[x] = "Concurrent" /\ Top.k \in DOMAIN Regions[x] /\ fired' = fired
           /\ Push(<<Call("activate", r), Call("runRegion", r), next>>)
  <2>1. r \in States
    <3>1. Regions[x] \in Seq(States)
      BY <1>2, ChartAssumption
    <3> QED BY <1>5, <3>1
  <2>2. ~StartCall(Top)
    BY <1>5 DEF StartCall
  <2>3. PlainFrame(Call("activate", r), Top) /\ PlainFrame(Call("runRegion", r), Top)
    BY <2>1, <2>2, PlainFrameCall DEF WorkOps
  <2> QED BY <1>1, <1>2, <1>4, <1>5, <2>3, WorkThree
<1>6. CASE Push(<<next>>) /\ fired' = fired
  BY <1>1, <1>2, <1>4, <1>6, WorkOne
<1>7. CASE /\ IsHistory(x) /\ fired' = fired
           /\ \E s \in Recorded(x, Top.k) : Push(<<Call("activate", s), next>>)
  <2>1. PICK s \in Recorded(x, Top.k) : Push(<<Call("activate", s), next>>)
    BY <1>7
  <2>2. s \in States
    BY <1>2, Base DEF Recorded
  <2>3. ~StartCall(Top)
    BY <1>7 DEF StartCall, IsHistory, HistoryKinds
  <2>4. PlainFrame(Call("activate", s), Top)
    BY <2>2, <2>3, PlainFrameCall DEF WorkOps
  <2> QED BY <1>1, <1>2, <1>4, <1>7, <2>1, <2>4, WorkTwo
<1>8. CASE Return(TRUE) /\ fired' = fired
  BY <1>1, <1>2, <1>8, WorkNone DEF Return
<1> QED BY <1>5, <1>6, <1>7, <1>8 DEF Entered, Quiet, next

LEMMA RunRegionGoes ==
    ASSUME Inv, RunRegion
    PROVE  \E s : Goes(s)
<1>1. agenda # <<>> /\ Top.op = "runRegion" /\ fired' = fired
  BY DEF RunRegion, Running, Top, Quiet
<1>2. Top.x \in States /\ Top.op \in WorkOps
  BY <1>1, StackTop DEF FrameOK, WorkOps
<1>3. CASE Push(<<Call("dispatch", Top.x)>>)
  <2>1. ~StartCall(Top)
    BY <1>1 DEF StartCall
  <2>2. PlainFrame(Call("dispatch", Top.x), Top)
    BY <1>2, <2>1, PlainFrameCall
  <2> QED BY <1>1, <1>2, <1>3, <2>2, WorkOne
<1>4. CASE Push(<<>>)
  BY <1>1, <1>2, <1>4, WorkNone
<1> QED BY <1>3, <1>4 DEF RunRegion

LEMMA DeactivateHierarchicalGoes ==
    ASSUME Inv, DeactivateHierarchical
    PROVE  \E s : Goes(s)
<1> DEFINE h == Top.x
           current == md.current[h]
<1>1. agenda # <<>> /\ Top.op = "deactivate" /\ fired' = fired
  BY DEF DeactivateHierarchical, Running, Top, Quiet
<1>2. h \in States /\ Top.op \in WorkOps /\ ~StartCall(Top)
  BY <1>1, StackTop DEF FrameOK, WorkOps, StartCall
<1>3. PlainFrame(Call("leave", h), Top)
  BY <1>2, PlainFrameCall DEF WorkOps
<1>4. CASE Push(<<>>)
  BY <1>1, <1>2, <1>4, WorkNone
<1>5. CASE Push(<<Call("leave", h)>>)
  BY <1>1, <1>2, <1>3, <1>5, WorkOne
<1>6. CASE current # Null /\ Push(<<Call("deactivate", current), Call("leave", h)>>)
  <2>1. current \in States
    BY <1>2, <1>6, InvData, CurrentBelowRoot
  <2>2. PlainFrame(Call("deactivate", current), Top)
    BY <1>2, <2>1, PlainFrameCall DEF WorkOps
  <2> QED BY <1>1, <1>2, <1>3, <1>6, <2>2, WorkTwo
<1> QED BY <1>4, <1>5, <1>6 DEF DeactivateHierarchical

LEMMA DeactivateConcurrentGoes ==
    ASSUME Inv, DeactivateConcurrent
    PROVE  \E s : Goes(s)
<1> DEFINE c == Top.x
           f == Call("leave", c)
           exits == CallEach("deactivate", Regions[c])
<1>1. agenda # <<>> /\ Top.op = "deactivate" /\ fired' = fired /\ Push(exits \o <<f>>)
  BY DEF DeactivateConcurrent, Running, Top
<1>2. c \in States /\ Top.op \in WorkOps /\ ~StartCall(Top)
  BY <1>1, StackTop DEF FrameOK, WorkOps, StartCall
<1>3. PlainFrame(f, Top)
  BY <1>2, PlainFrameCall DEF WorkOps
<1>4. Regions[c] \in Seq(States) /\ Regions[c] \in Seq(States \cup Trans) /\ Len(Regions[c]) \in Nat
  <2>1. Regions[c] \in Seq(States)
    BY <1>2, ChartAssumption
  <2> QED BY <2>1
<1>5. /\ exits \in Seq(Task) /\ Len(exits) = Len(Regions[c])
      /\ \A i \in 1 .. Len(Regions[c]) : exits[i] = Call("deactivate", Regions[c][i])
  BY <1>4, CallEachOK DEF Ops
<1>6. ASSUME NEW i \in 1 .. Len(exits) PROVE PlainFrame(exits[i], Top)
  <2>1. Regions[c][i] \in States
    BY <1>4, <1>5
  <2>2. PlainFrame(Call("deactivate", Regions[c][i]), Top)
    BY <1>2, <2>1, PlainFrameCall DEF WorkOps
  <2> QED BY <1>5, <2>2
<1>7. f \in Task
  BY <1>3 DEF PlainFrame
<1> HIDE DEF exits, f
<1>8. /\ exits \o <<f>> \in Seq(Task)
      /\ \A j \in DOMAIN (exits \o <<f>>) :
            \/ j \in 1 .. Len(exits) /\ (exits \o <<f>>)[j] = exits[j]
            \/ (exits \o <<f>>)[j] = f
  BY <1>5, <1>7
<1> QED BY <1>1, <1>2, <1>3, <1>6, <1>8, WorkPush

LEMMA LeaveGoes ==
    ASSUME Inv, Leave
    PROVE  \E s : Goes(s)
<1>1. agenda # <<>> /\ Top.op \in {"leave", "deactivate"} /\ fired' = fired
  BY DEF Leave, Running, Top
<1>2. Top.x \in States /\ Top.op \in WorkOps /\ ~StartCall(Top)
  BY <1>1, StackTop DEF FrameOK, WorkOps, StartCall
<1>3. CASE Push(<<>>)
  BY <1>1, <1>2, <1>3, WorkNone
<1>4. CASE Push(<<Call("exit", Top.x)>>)
  <2>1. PlainFrame(Call("exit", Top.x), Top)
    BY <1>2, PlainFrameCall DEF WorkOps
  <2> QED BY <1>1, <1>2, <1>4, <2>1, WorkOne
<1> QED BY <1>3, <1>4 DEF Leave

LEMMA RunActionGoes ==
    ASSUME Inv, RunAction
    PROVE  \E s : Goes(s)
<1>1. agenda # <<>> /\ Top.op \in WorkOps /\ fired' = fired /\ Push(<<>>)
  BY DEF RunAction, Running, Top, WorkOps
<1> QED BY <1>1, WorkNone

\* Every step of a call goes on so, but the ones of Statechart::dispatch
\* itself and an action that throws.
InnerStep ==
    \/ DispatchState \/ DispatchFork
    \/ DispatchHierarchical \/ DispatchSubstate \/ Bubble
    \/ DispatchConcurrent \/ DispatchRegions
    \/ Enter \/ Activate \/ Entered \/ RunRegion
    \/ DeactivateHierarchical \/ DeactivateConcurrent \/ Leave
    \/ RunAction

LEMMA StepGoes ==
    ASSUME Inv, InnerStep, FinishGoesOn(Events)
    PROVE  \E s : Goes(s)
BY DispatchStateGoes, DispatchForkGoes, DispatchHierarchicalGoes, DispatchSubstateGoes,
   BubbleGoes, DispatchConcurrentGoes, DispatchRegionsGoes, EnterGoes, ActivateGoes,
   EnteredGoes, RunRegionGoes, DeactivateHierarchicalGoes, DeactivateConcurrentGoes,
   LeaveGoes, RunActionGoes DEF InnerStep

(***************************************************************************)
(* Statechart::dispatch answers true when a transition with a trigger has  *)
(* fired.                                                                  *)
(***************************************************************************)
\* When nullptr is all that is dispatched for the user, no such transition
\* has fired.
Heard(stack) == \A i, j \in DOMAIN stack :
    (/\ j < i /\ stack[i].op = "loop" /\ stack[i].k = 0
     /\ stack[j].op \in CallerOps /\ stack[j].e = Null)
        => fired = <<>> \/ Guarded(stack, j, i)

\* The loop of Statechart::dispatch will know, or knows.
FiredKnown(stack, rc) == \A i \in DOMAIN stack :
    /\ stack[i].op = "chart" => fired = <<>>
    /\ (stack[i].op = "loop" /\ fired # <<>>) =>
          IF stack[i].k = 0 THEN Assured(stack, i, rc) ELSE stack[i].b

Report ==
    /\ LinksOK(agenda) /\ Heard(agenda) /\ FiredKnown(agenda, ret)
    /\ (outcome = "done" /\ fired # <<>>) => ret

\* A step inside of a call.
LEMMA InnerTop ==
    ASSUME Inv, InnerStep
    PROVE  /\ agenda # <<>> /\ Top.op \notin BottomOps /\ outcome = "running"
           /\ outcome' = outcome /\ tainted' = tainted
<1>1. agenda # <<>> /\ Top.op \notin BottomOps
  BY DEF InnerStep, DispatchState, DispatchFork, DispatchHierarchical, DispatchSubstate,
     Bubble, DispatchConcurrent, DispatchRegions, Enter, Activate, Entered, RunRegion,
     DeactivateHierarchical, DeactivateConcurrent, Leave, RunAction, Running, Top, BottomOps
<1>2. UNCHANGED <<outcome, tainted>>
  <2>1. CASE \/ DispatchState \/ DispatchFork \/ Bubble \/ DispatchRegions
    BY <2>1 DEF DispatchState, DispatchFork, Bubble, DispatchRegions, FireFirst, Execute,
       Quiet, control
  <2>2. CASE \/ DispatchHierarchical \/ DispatchSubstate \/ DispatchConcurrent
             \/ Enter \/ Activate \/ Entered \/ RunRegion
             \/ DeactivateHierarchical \/ DeactivateConcurrent \/ Leave \/ RunAction
    BY <2>2 DEF DispatchHierarchical, DispatchSubstate, DispatchConcurrent, Enter,
       Activate, Entered, RunRegion, DeactivateHierarchical, DeactivateConcurrent, Leave,
       RunAction, Quiet, control
  <2> QED BY <2>1, <2>2 DEF InnerStep
<1> QED BY <1>1, <1>2 DEF Inv, ControlOK, CallStack

\* Where the calls of the new stack come from.
LEMMA Placed ==
    ASSUME Inv, agenda # <<>>, NEW s, Goes(s), NEW i \in DOMAIN agenda'
    PROVE  \/ i \in DOMAIN s /\ agenda'[i] = s[i]
           \/ \E k \in 2 .. Len(agenda) : /\ k \in DOMAIN agenda /\ i = k + Len(s) - 1
                                         /\ agenda'[i] = agenda[k]
<1> DEFINE n == Len(s)
<1>1. /\ n \in Nat /\ Len(agenda) \in Nat /\ DOMAIN agenda = 1 .. Len(agenda)
      /\ DOMAIN s = 1 .. n /\ DOMAIN agenda' = 1 .. n + Len(agenda) - 1
      /\ \A l \in 1 .. n : agenda'[l] = s[l]
      /\ \A l \in 2 .. Len(agenda) : agenda'[l + n - 1] = agenda[l]
  BY StackTop, Replaced DEF Goes
<1> HIDE DEF n
<1>2. CASE i <= n
  BY <1>1, <1>2
<1>3. CASE i > n
  <2>1. PICK k \in 2 .. Len(agenda) : k = i - n + 1
    BY <1>1, <1>3
  <2>2. i = k + n - 1 /\ k \in DOMAIN agenda
    BY <1>1, <2>1
  <2> QED BY <1>1, <2>1, <2>2 DEF n
<1> QED BY <1>1, <1>2, <1>3

LEMMA GoesLinks ==
    ASSUME Inv, agenda # <<>>, LinksOK(agenda), NEW s, Goes(s)
    PROVE  LinksOK(agenda')
BY StackTop, LinksPush DEF Goes

\* Below the call that fires no call waits for nullptr.
LEMMA FiringLoud ==
    ASSUME Inv, agenda # <<>>, LinksOK(agenda), NEW s, Goes(s), fired' # fired
    PROVE  /\ Top.e # Null /\ fired' # <<>>
           /\ \A k \in DOMAIN agenda : k > 1 => ~NullAbove(agenda[k])
           /\ \A j \in DOMAIN s : s[j].op \notin CallerOps
           /\ \E j \in DOMAIN s : Firm(s[j])
           /\ \E t \in Trans : fired' = Append(fired, t) /\ Source[t] = Top.x
<1>1. PICK t \in Trans :
          /\ fired' = Append(fired, t) /\ Source[t] = Top.x /\ Top.e # Null
          /\ \E j \in DOMAIN s : Firm(s[j])
          /\ \A j \in DOMAIN s : s[j].op \notin CallerOps
  BY DEF Goes, Fires
<1>2. fired' # <<>>
  <2>1. fired \in Seq(Trans)
    BY StackTop
  <2> QED BY <1>1, <2>1
<1>3. ASSUME NEW k \in DOMAIN agenda, k > 1 PROVE ~NullAbove(agenda[k])
  <2>1. 1 \in DOMAIN agenda /\ 1 < k
    BY <1>3, StackTop
  <2>2. Link(agenda, 1, k)
    BY <2>1 DEF LinksOK
  <2> QED BY <1>1, <2>2, StackTop DEF Link
<1> QED BY <1>1, <1>2, <1>3

\* A dispatch of nullptr by the loop, or on behalf of it.
LEMMA LoopGuard ==
    ASSUME Inv, agenda # <<>>, LinksOK(agenda), NEW k \in 2 .. Len(agenda),
           Top.op = "bubble", Guarded(agenda, 1, k)
    PROVE  \E l \in 2 .. k - 1 : Firm(agenda[l])
<1>1. /\ agenda \in Seq(Task) /\ Len(agenda) \in Nat /\ DOMAIN agenda = 1 .. Len(agenda)
      /\ Top = agenda[1]
  BY StackTop
<1>2. CASE \E l \in 1 .. k - 1 : agenda[l].op \in FirmOps
  <2>1. PICK l \in 1 .. k - 1 : agenda[l].op \in FirmOps
    BY <1>2
  <2>2. l # 1
    BY <1>1, <2>1 DEF FirmOps
  <2>3. l \in 2 .. k - 1
    BY <2>1, <2>2
  <2> QED BY <2>1, <2>3 DEF Firm
<1>3. CASE \E l \in 1 + 1 .. k - 1 : agenda[l].op = "substate"
  <2>1. PICK l \in 1 + 1 .. k - 1 : agenda[l].op = "substate"
    BY <1>3
  <2>2. l \in DOMAIN agenda /\ 1 \in DOMAIN agenda /\ 1 < l
    BY <1>1, <2>1
  <2>3. Link(agenda, 1, l)
    BY <2>2 DEF LinksOK
  <2> QED BY <1>1, <2>1, <2>3 DEF Link, StartCall
<1> QED BY <1>2, <1>3 DEF Guarded

LEMMA GoesHeard ==
    ASSUME Inv, agenda # <<>>, Top.op \notin BottomOps, Report, NEW s, Goes(s), Inv'
    PROVE  Heard(agenda)'
<1> SUFFICES ASSUME NEW i \in DOMAIN agenda', NEW j \in DOMAIN agenda', j < i,
                    agenda'[i].op = "loop", agenda'[i].k = 0,
                    agenda'[j].op \in CallerOps, agenda'[j].e = Null
             PROVE  fired' = <<>> \/ Guarded(agenda', j, i)
  BY DEF Heard
<1> DEFINE n == Len(s)
<1>1. /\ n \in Nat /\ Len(agenda) \in Nat /\ DOMAIN agenda = 1 .. Len(agenda)
      /\ DOMAIN s = 1 .. n /\ DOMAIN agenda' = 1 .. n + Len(agenda) - 1
      /\ \A l \in 1 .. n : agenda'[l] = s[l]
      /\ \A l \in 2 .. Len(agenda) : agenda'[l + n - 1] = agenda[l]
      /\ Len(agenda') = n + Len(agenda) - 1 /\ Top = agenda[1]
      /\ s \in Seq(Task) /\ agenda' = s \o Tail(agenda) /\ agenda \in Seq(Task)
  BY StackTop, Replaced DEF Goes
<1>2. StackOK(agenda) /\ StackOK(agenda') /\ LinksOK(agenda)
  BY StackTop DEF Inv, ControlOK, CallStack, Report
<1> HIDE DEF n
<1>3. i = Len(agenda')
  BY <1>2 DEF StackOK, BottomOps
<1>4. Len(agenda) >= 2
  <2>1. 1 \in DOMAIN agenda
    BY <1>1, StackTop
  <2>2. 1 # Len(agenda)
    BY <1>1, <1>2, <2>1 DEF StackOK
  <2> QED BY <1>1, <2>1, <2>2
<1> DEFINE k == Len(agenda)
<1>5. /\ k \in 2 .. Len(agenda) /\ i = k + n - 1 /\ agenda'[i] = agenda[k] /\ k \in DOMAIN agenda
      /\ 1 \in 1 .. Len(agenda) /\ 1 < k
  BY <1>1, <1>3, <1>4
<1> HIDE DEF k
<1>8. n \in Nat /\ k \in Nat /\ k >= 2 /\ i \in Nat /\ j \in Nat /\ 1 <= j
      /\ k <= Len(agenda) /\ Len(agenda) \in Nat
  <2>1. n \in Nat /\ Len(agenda) \in Nat /\ k \in 2 .. Len(agenda)
    BY <1>1, <1>5
  <2>2. i \in 1 .. n + Len(agenda) - 1 /\ j \in 1 .. n + Len(agenda) - 1
    BY <1>1
  <2> QED BY <2>1, <2>2
<1>6. CASE j <= n
  <2>1. j \in DOMAIN s /\ agenda'[j] = s[j] /\ j \in 1 .. n /\ j \in Nat
    BY <1>1, <1>6
  <2>2. fired' = fired
    BY <1>2, <2>1, FiringLoud
  <2>3. CASE Guarded(s, j, n + 1)
    <3>1. n + 1 \in Nat /\ j < n + 1 /\ i \in Nat /\ n + 1 <= i
      <4>1. i = k + n - 1
        BY <1>5
      <4> QED BY <1>6, <1>8, <4>1
    <3>2. /\ j \in 1 .. Len(s) /\ n + 1 \in Nat /\ j < n + 1 /\ n + 1 <= Len(s) + 1
          /\ s \in Seq(Task) /\ agenda \in Seq(Task) /\ agenda # <<>>
      <4>1. j \in 1 .. Len(s) /\ n + 1 <= Len(s) + 1
        BY <2>1, <3>1 DEF n
      <4> QED BY <1>1, <3>1, <4>1
    <3>3. Guarded(s \o Tail(agenda), j, i)
      BY <2>3, <3>1, <3>2, GuardedWithin
    <3> QED BY <1>1, <3>3
  <2>4. ASSUME Top.op \notin FirmOps, Guarded(agenda, 1, k) PROVE Guarded(agenda', j, i)
    <3>1. j <= 1 + n - 1
      BY <1>6, <1>8
    <3>2. agenda # <<>> /\ agenda[1].op \notin FirmOps /\ i = k + Len(s) - 1 /\ j <= 1 + Len(s) - 1
      BY <1>1, <1>5, <2>4, <3>1 DEF n
    <3>3. Guarded(s \o Tail(agenda), j, k + Len(s) - 1)
      BY <1>1, <1>5, <1>8, <2>4, <3>2, GuardedBelow
    <3> QED BY <1>1, <3>2, <3>3
  <2>5. CASE Top.op \notin CallerOps \cup FirmOps
    <3>1. Link(agenda, 1, k)
      BY <1>1, <1>2, <1>5 DEF LinksOK
    <3> QED BY <1>1, <1>5, <2>4, <2>5, <3>1 DEF Link, Serves, ReturnOps
  <2>6. CASE Top.op \in CallerOps /\ s[j].e = Top.e
    <3>1. Top.op \notin FirmOps /\ Top.e = Null
      BY <2>1, <2>6 DEF CallerOps, FirmOps
    <3>2. fired = <<>> \/ Guarded(agenda, 1, k)
      BY <1>1, <1>5, <2>6, <3>1 DEF Report, Heard
    <3> QED BY <2>2, <2>4, <3>1, <3>2
  <2> QED BY <1>1, <2>1, <2>3, <2>5, <2>6 DEF Goes, Continues, n
<1>7. CASE j > n
  <2>1. PICK l \in 2 .. Len(agenda) : j = l + n - 1
    <3>1. i = k + n - 1 /\ j < i
      BY <1>5
    <3>2. j - n + 1 \in 2 .. Len(agenda) /\ j = (j - n + 1) + n - 1
      BY <1>7, <1>8, <3>1
    <3> QED BY <3>2
  <2>2. agenda'[j] = agenda[l] /\ l \in DOMAIN agenda /\ l < k /\ l > 1
    <3>1. agenda'[j] = agenda[l]
      BY <1>1, <2>1
    <3>2. l \in DOMAIN agenda
      BY <1>1, <2>1
    <3>3. l \in Nat /\ l > 1
      BY <1>8, <2>1
    <3>4. l + n - 1 < k + n - 1
      BY <1>5, <2>1
    <3>5. l < k
      BY <1>8, <3>3, <3>4
    <3> QED BY <3>1, <3>2, <3>3, <3>5
  <2>3. CASE fired' = fired
    <3>1. fired = <<>> \/ Guarded(agenda, l, k)
      BY <1>5, <2>2 DEF Report, Heard
    <3>2. Guarded(agenda, l, k) => Guarded(agenda', j, i)
      <4>1. j \in Nat /\ j <= l + n - 1 /\ l # 1 /\ l \in 1 .. Len(agenda)
        BY <1>8, <2>1
      <4>2. j <= l + Len(s) - 1 /\ i = k + Len(s) - 1
        BY <1>5, <4>1 DEF n
      <4>3. Guarded(agenda, l, k) => Guarded(s \o Tail(agenda), j, k + Len(s) - 1)
        BY <1>1, <1>5, <2>2, <4>1, <4>2, GuardedBelow
      <4> QED BY <1>1, <4>2, <4>3
    <3> QED BY <2>3, <3>1, <3>2
  <2>4. CASE fired' # fired
    <3>1. ~NullAbove(agenda[l])
      BY <1>2, <2>2, <2>4, FiringLoud
    <3>2. agenda[l].op # "loop"
      BY <2>2 DEF CallerOps
    <3> QED BY <2>2, <3>1, <3>2 DEF NullAbove
  <2> QED BY <2>3, <2>4
<1> QED BY <1>1, <1>6, <1>7

LEMMA GoesKnown ==
    ASSUME Inv, agenda # <<>>, Top.op \notin BottomOps, Report, NEW s, Goes(s), Inv'
    PROVE  FiredKnown(agenda, ret)'
<1> DEFINE n == Len(s)
<1>1. /\ n \in Nat /\ Len(agenda) \in Nat /\ DOMAIN agenda = 1 .. Len(agenda)
      /\ DOMAIN s = 1 .. n /\ DOMAIN agenda' = 1 .. n + Len(agenda) - 1
      /\ \A l \in 1 .. n : agenda'[l] = s[l]
      /\ \A l \in 2 .. Len(agenda) : agenda'[l + n - 1] = agenda[l]
      /\ Len(agenda') = n + Len(agenda) - 1 /\ Top = agenda[1]
      /\ s \in Seq(Task) /\ agenda' = s \o Tail(agenda) /\ agenda \in Seq(Task)
  BY StackTop, Replaced DEF Goes
<1>2. StackOK(agenda) /\ StackOK(agenda') /\ LinksOK(agenda)
  BY StackTop DEF Inv, ControlOK, CallStack, Report
<1> HIDE DEF n
<1>4. Len(agenda) >= 2
  <2>1. 1 \in DOMAIN agenda
    BY <1>1, StackTop
  <2>2. 1 # Len(agenda)
    BY <1>1, <1>2, <2>1 DEF StackOK
  <2> QED BY <1>1, <2>1, <2>2
<1> SUFFICES ASSUME NEW i \in DOMAIN agenda', agenda'[i].op \in {"chart", "loop"}
             PROVE  /\ agenda'[i].op # "chart"
                    /\ fired' # <<>> => IF agenda'[i].k = 0 THEN Assured(agenda', i, ret')
                                        ELSE agenda'[i].b
  BY DEF FiredKnown
<1>3. i = Len(agenda')
  BY <1>2 DEF StackOK, BottomOps
<1> DEFINE k == Len(agenda)
<1>5. /\ k \in 2 .. Len(agenda) /\ i = k + n - 1 /\ agenda'[i] = agenda[k] /\ k \in DOMAIN agenda
      /\ 1 \in DOMAIN agenda /\ 1 < k
  BY <1>1, <1>3, <1>4
<1> HIDE DEF k
<1>6. Link(agenda, 1, k)
  BY <1>2, <1>5 DEF LinksOK
<1>7. agenda'[i].op # "chart" /\ agenda[k].op = "loop"
  BY <1>5, <1>6 DEF Link
<1>8. agenda[k] \in Task
  BY <1>1, <1>5
<1>9. CASE fired' # fired
  <2>1. ~NullAbove(agenda[k]) /\ \E j \in DOMAIN s : Firm(s[j])
    BY <1>2, <1>5, <1>9, FiringLoud
  <2>2. agenda[k].k = 0
    <3>1. ~(agenda[k].k > 0) /\ agenda[k].k \in Nat
      BY <1>7, <1>8, <2>1 DEF NullAbove, Task
    <3> QED BY <3>1
  <2>3. PICK j \in DOMAIN s : Firm(s[j])
    BY <2>1
  <2>4. j \in 1 .. i - 1 /\ agenda'[j] = s[j]
    BY <1>1, <1>5, <2>3
  <2>5. Assured(agenda', i, ret')
    BY <2>3, <2>4 DEF Assured
  <2> QED BY <1>5, <1>7, <2>2, <2>5
<1>10. CASE fired' = fired /\ fired # <<>>
  <2>1. IF agenda[k].k = 0 THEN Assured(agenda, k, ret) ELSE agenda[k].b
    BY <1>5, <1>7, <1>10 DEF Report, FiredKnown
  <2>2. ASSUME agenda[k].k = 0 PROVE Assured(agenda', i, ret')
    <3>1. Assured(agenda, k, ret) /\ agenda[k].op \in ReturnOps
      BY <1>7, <2>1, <2>2 DEF ReturnOps
    <3>2. Keeps(s, agenda[1], ret, ret') \/ \E l \in 2 .. k - 1 : Firm(agenda[l])
      <4>1. CASE Top.op = "bubble" /\ Top.e = Null
        <5>1. Guarded(agenda, 1, k)
          BY <1>1, <1>5, <1>7, <1>10, <2>2, <4>1 DEF Report, Heard, CallerOps
        <5> QED BY <1>2, <1>5, <4>1, <5>1, LoopGuard
      <4> QED BY <1>1, <4>1 DEF Goes
    <3> QED BY <1>1, <1>2, <1>5, <3>1, <3>2, AssuredPush DEF n
  <2> QED BY <1>5, <1>7, <2>1, <2>2
<1> QED BY <1>7, <1>9, <1>10

LEMMA GoesReport ==
    ASSUME Inv, InnerStep, Report, FinishGoesOn(Events), Inv'
    PROVE  Report'
<1>1. /\ agenda # <<>> /\ Top.op \notin BottomOps /\ outcome' = "running"
  BY InnerTop
<1>2. PICK s : Goes(s)
  BY StepGoes
<1>3. LinksOK(agenda)'
  BY <1>1, <1>2, GoesLinks DEF Report
<1>4. Heard(agenda)' /\ FiredKnown(agenda, ret)'
  BY <1>1, <1>2, GoesHeard, GoesKnown
<1> QED BY <1>1, <1>3, <1>4 DEF Report

\* Stacks with a call of the user at their bottom.
LEMMA LoopLinks ==
    ASSUME NEW d \in Task, NEW g \in Task, d.op = "dispatch", g.op = "loop",
           g.k = 0 \/ (d.e = Null /\ g.e = Null)
    PROVE  LinksOK(<<d, g>>)
<1> DEFINE s == <<d, g>>
<1>1. DOMAIN s = 1 .. 2 /\ s[1] = d /\ s[2] = g
  OBVIOUS
<1>2. \A i, j \in 1 .. 2 : j < i => i = 2 /\ j = 1
  OBVIOUS
<1> HIDE DEF s
<1>3. Serves(d, g)
  BY DEF Serves, CallerOps
<1>4. NullAbove(g) => d.e = Null
  BY DEF NullAbove, FirmOps
<1>5. Link(s, 1, 2)
  BY <1>1, <1>3, <1>4 DEF Link
<1> QED BY <1>1, <1>2, <1>5 DEF LinksOK, s

LEMMA SingleLinks ==
    ASSUME NEW f
    PROVE  LinksOK(<<f>>)
<1>1. DOMAIN <<f>> = 1 .. 1
  OBVIOUS
<1> QED BY <1>1 DEF LinksOK

LEMMA EmptyLinks == DOMAIN <<>> = {} /\ LinksOK(<<>>)
<1>1. DOMAIN <<>> = {}
  OBVIOUS
<1> QED BY <1>1 DEF LinksOK

LEMMA QuietReport ==
    ASSUME fired' = <<>>, LinksOK(agenda)'
    PROVE  Report'
BY DEF Report, Heard, FiredKnown

LEMMA DispatchChartPushes ==
    ASSUME Inv, DispatchChart
    PROVE  /\ agenda # <<>> /\ Top.op = "chart" /\ fired' = fired /\ outcome' = outcome
           /\ tainted' = tainted /\ md' = md
           /\ \/ \E d, g \in Task : /\ agenda' = <<d, g>> /\ d.op = "dispatch" /\ g.op = "loop"
                                    /\ g.k = 0
              \/ \E g \in Task : agenda' = <<g>> /\ g.op = "loop" /\ g.k = 0 /\ ~ret'
<1> DEFINE current == md.current[Root]
           g == Do("loop", Root, Null, 0, FALSE)
           d == Do("dispatch", current, Top.e, 1, FALSE)
<1>1. /\ agenda # <<>> /\ Top.op = "chart" /\ fired' = fired /\ outcome' = outcome
      /\ tainted' = tainted /\ md' = md
  BY DEF DispatchChart, Running, Top, Quiet, control
<1>2. g \in Task /\ g.op = "loop" /\ g.k = 0
  <2>1. "loop" \in Ops /\ Root \in States \cup Trans /\ Null \in OrNull(Events)
        /\ 0 \in Nat /\ FALSE \in BOOLEAN
    BY ChartAssumption DEF Ops, OrNull
  <2>2. g \in Task
    BY <2>1, DoTask
  <2> QED BY <2>2 DEF Do
<1> HIDE DEF g
<1>3. Top.op \in BottomOps /\ ControlOK
  BY <1>1 DEF BottomOps, Inv
<1>4. CASE current # Null /\ Push(<<d, g>>)
  <2>1. current \in States
    BY <1>4, ChartAssumption, InvData, CurrentBelowRoot
  <2>2. d \in Task /\ d.op = "dispatch"
    <3>1. Good(d)
      BY <1>1, <2>1, StackTop, DispatchDo
    <3> QED BY <3>1 DEF Good, Do
  <2> HIDE DEF d
  <2>3. <<d, g>> \in Seq(Task)
    BY <1>2, <2>2
  <2>4. agenda' = <<d, g>>
    BY <1>1, <1>3, <1>4, <2>3, BottomPush
  <2> QED BY <1>1, <1>2, <2>2, <2>4
<1>5. CASE Push(<<g>>) /\ ret' = FALSE
  <2>1. <<g>> \in Seq(Task)
    BY <1>2
  <2>2. agenda' = <<g>>
    BY <1>1, <1>3, <1>5, <2>1, BottomPush
  <2> QED BY <1>1, <1>2, <1>5, <2>2
<1> QED BY <1>4, <1>5 DEF DispatchChart, g

LEMMA DispatchChartReport ==
    ASSUME Inv, DispatchChart, Report
    PROVE  Report'
<1>1. agenda # <<>> /\ Top.op = "chart" /\ fired' = fired
  BY DispatchChartPushes
<1>2. 1 \in DOMAIN agenda /\ agenda[1] = Top
  BY <1>1, StackTop
<1>3. fired' = <<>>
  BY <1>1, <1>2 DEF Report, FiredKnown
<1>4. LinksOK(agenda')
  BY DispatchChartPushes, LoopLinks, SingleLinks
<1> QED BY <1>3, <1>4, QuietReport

\* The loop of Statechart::dispatch.
LEMMA LoopPushes ==
    ASSUME Inv, Loop
    PROVE  /\ agenda # <<>> /\ Top.op = "loop" /\ fired' = fired /\ md' = md
           /\ Top.k \in Nat /\ Top = agenda[1] /\ param' = param
           /\ \/ agenda' = <<>> /\ outcome' = "InfiniteLoop"
              \/ /\ Top.k = 0 \/ ret
                 /\ outcome' = "running" /\ tainted' = tainted /\ ret' = ret
                 /\ \E d, g \in Task :
                       /\ agenda' = <<d, g>> /\ d.op = "dispatch" /\ d.e = Null
                       /\ d.x = md.current[Root] /\ md.current[Root] # Null
                       /\ g.op = "loop" /\ g.e = Null /\ g.k = Top.k + 1
                       /\ g.b = ResultOfEvent(Top.k)
              \/ /\ (Top.k # 0 /\ ~ret) \/ md.current[Root] = Null
                 /\ agenda' = <<>> /\ outcome' = "done" /\ tainted' = tainted
                 /\ ret' = ResultOfEvent(Top.k)
<1> DEFINE k == Top.k
           rc == ResultOfEvent(k)
           current == md.current[Root]
           d == Call("dispatch", current)
           g == Do("loop", Root, Null, Counted(k), rc)
<1>1. agenda # <<>> /\ Top.op = "loop" /\ UNCHANGED <<md, param, fired, before>>
  BY DEF Loop, Running, Top
<1>2. Top.op \in BottomOps /\ k \in Nat /\ rc \in BOOLEAN /\ ControlOK /\ Top = agenda[1]
  BY <1>1, TopFrame, InvData DEF Inv, BottomOps, ResultOfEvent
<1>3. Tail(agenda) = <<>> /\ outcome = "running"
  BY <1>1, <1>2, BottomAlone
<1>4. CASE agenda' = <<>> /\ outcome' = "InfiniteLoop"
  BY <1>1, <1>2, <1>4
<1>5. CASE /\ k = 0 \/ ret
           /\ current # Null /\ Push(<<d, g>>) /\ UNCHANGED <<ret, outcome, tainted>>
  <2>1. g \in Task /\ g.op = "loop" /\ g.e = Null /\ g.k = k + 1 /\ g.b = rc
    <3>1. "loop" \in Ops /\ Root \in States \cup Trans /\ Null \in OrNull(Events)
          /\ k + 1 \in Nat /\ Counted(k) = k + 1
      BY <1>2, ChartAssumption DEF Ops, OrNull, Counted
    <3> HIDE DEF rc
    <3>2. g \in Task
      BY <1>2, <3>1, DoTask
    <3> QED BY <3>1, <3>2 DEF Do
  <2>2. current \in States
    BY <1>5, ChartAssumption, InvData, CurrentBelowRoot
  <2>3. d \in Task /\ d.op = "dispatch" /\ d.e = Null /\ d.x = current
    <3>1. Good(Do("dispatch", current, Null, 1, FALSE))
      BY <2>2, DispatchDo DEF OrNull
    <3> QED BY <3>1 DEF Good, Call, Do
  <2> HIDE DEF d, g
  <2>4. <<d, g>> \in Seq(Task)
    BY <2>1, <2>3
  <2>5. agenda' = <<d, g>>
    BY <1>1, <1>2, <1>5, <2>4, BottomPush
  <2> HIDE DEF rc
  <2> QED BY <1>1, <1>2, <1>3, <1>5, <2>1, <2>3, <2>5 DEF rc
<1>6. CASE /\ (k # 0 /\ ~ret) \/ current = Null
           /\ Return(rc) /\ outcome' = "done" /\ UNCHANGED tainted
  BY <1>1, <1>2, <1>3, <1>6 DEF Return
<1> QED BY <1>4, <1>5, <1>6 DEF Loop, g

LEMMA LoopReport ==
    ASSUME Inv, Loop, Report
    PROVE  Report'
<1>1. 1 \in DOMAIN agenda /\ agenda[1] = Top /\ Top.op = "loop" /\ fired' = fired /\ Top.k \in Nat
  BY LoopPushes, StackTop
<1>2. fired # <<>> => ResultOfEvent(Top.k)
  <2>1. (Top.k = 0 /\ fired # <<>>) => Assured(agenda, 1, ret)
    BY <1>1 DEF Report, FiredKnown
  <2>2. Assured(agenda, 1, ret) => ret
    <3>1. 1 .. 1 - 1 = {}
      OBVIOUS
    <3> QED BY <3>1 DEF Assured
  <2>3. (Top.k # 0 /\ fired # <<>>) => Top.b
    BY <1>1 DEF Report, FiredKnown
  <2> QED BY <2>1, <2>2, <2>3 DEF ResultOfEvent
<1>3. CASE agenda' = <<>> /\ outcome' = "InfiniteLoop"
  <2>1. DOMAIN agenda' = {} /\ LinksOK(agenda')
    BY <1>3, EmptyLinks
  <2> QED BY <1>3, <2>1 DEF Report, Heard, FiredKnown
<1>4. CASE agenda' = <<>> /\ outcome' = "done" /\ ret' = ResultOfEvent(Top.k)
  <2>1. DOMAIN agenda' = {} /\ LinksOK(agenda')
    BY <1>4, EmptyLinks
  <2> QED BY <1>1, <1>2, <1>4, <2>1 DEF Report, Heard, FiredKnown
<1>5. ASSUME NEW d \in Task, NEW g \in Task, outcome' = "running",
             agenda' = <<d, g>>, d.op = "dispatch", d.e = Null,
             g.op = "loop", g.e = Null, g.k = Top.k + 1, g.b = ResultOfEvent(Top.k)
      PROVE  Report'
  <2>1. DOMAIN agenda' = 1 .. 2 /\ agenda'[1] = d /\ agenda'[2] = g
    BY <1>5
  <2>2. LinksOK(agenda')
    BY <1>5, LoopLinks
  <2>3. g.k # 0
    BY <1>1, <1>5
  <2>4. \A i \in DOMAIN agenda' : i = 1 \/ i = 2
    BY <2>1
  <2>5. Heard(agenda)'
    BY <1>5, <2>1, <2>3, <2>4 DEF Heard
  <2>6. FiredKnown(agenda, ret)'
    BY <1>1, <1>2, <1>5, <2>1, <2>3, <2>4 DEF FiredKnown
  <2> QED BY <1>5, <2>2, <2>5, <2>6 DEF Report
<1> QED BY <1>3, <1>4, <1>5, LoopPushes

LEMMA EndReport ==
    ASSUME Inv, Restored \/ ThrowAction
    PROVE  Report'
<1>1. agenda' = <<>> /\ outcome' # "done"
  <2>1. CASE Restored
    <3>1. agenda # <<>> /\ Top.op \in BottomOps /\ agenda' = Tail(agenda) /\ outcome' = "restored"
      BY <2>1 DEF Restored, Running, Top, BottomOps, Return
    <3> QED BY <3>1, BottomAlone DEF Inv
  <2>2. CASE ThrowAction
    BY <2>2 DEF ThrowAction
  <2> QED BY <2>1, <2>2
<1>2. DOMAIN agenda' = {} /\ LinksOK(agenda')
  BY <1>1, EmptyLinks
<1> QED BY <1>1, <1>2 DEF Report, Heard, FiredKnown

LEMMA UserReport ==
    ASSUME Inv, UserCall
    PROVE  /\ Report' /\ fired' = <<>> /\ outcome' = "running"
           /\ \A i \in DOMAIN agenda' : agenda'[i].op \in {"chart", "activate", "restored"}
<1>1. fired' = <<>> /\ outcome' = "running"
  BY DEF UserCall, StartChart, DispatchEvent, RestoreState, BeginCall
<1>2. CASE StartChart \/ \E e \in Events : DispatchEvent(e)
  <2>1. \E f : agenda' = <<f>> /\ f.op = "chart"
    BY <1>2 DEF StartChart, DispatchEvent, BeginCall, Call, Do
  <2>2. \A i \in DOMAIN agenda' : agenda'[i].op = "chart"
    BY <2>1
  <2> QED BY <1>1, <2>1, <2>2, SingleLinks, QuietReport
<1>3. CASE \E x \in Restorable : RestoreState(x)
  <2>1. PICK x \in Restorable : RestoreState(x)
    BY <1>3
  <2> DEFINE u == CallEach("activate", Path[x])
             f == Call("restored", Root)
             top == Call("chart", Root)
  <2>2. agenda' = u \o <<f>>
    BY <2>1 DEF RestoreState, BeginCall
  <2>3. x \in States /\ Path[x] \in Seq(States \cup Trans)
    <3>1. x \in States
      BY RestorableAssumption DEF RealStates
    <3>2. Path[x] \in Seq(States)
      BY <3>1, ChartAssumption
    <3> QED BY <3>1, <3>2
  <2>4. /\ u \in Seq(Task) /\ Len(u) = Len(Path[x]) /\ Len(Path[x]) \in Nat
        /\ \A i \in 1 .. Len(Path[x]) : u[i] = Call("activate", Path[x][i])
    BY <2>3, CallEachOK DEF Ops
  <2>5. \A y : Call("activate", y).op = "activate" /\ Call("activate", y).e = Null
    BY DEF Call, Do
  <2>6. f \in Task /\ f.op = "restored" /\ f.e = Null
    <3>1. "restored" \in Ops /\ Root \in States \cup Trans
      BY ChartAssumption DEF Ops
    <3>2. f \in Task
      BY <3>1, DoTask DEF OrNull
    <3> QED BY <3>2 DEF Call, Do
  <2>7. top.op = "chart"
    BY DEF Call, Do
  <2> HIDE DEF u, f, top
  <2>8. /\ u \o <<f>> \in Seq(Task)
        /\ \A j \in DOMAIN (u \o <<f>>) :
              \/ j \in 1 .. Len(u) /\ (u \o <<f>>)[j] = u[j]
              \/ (u \o <<f>>)[j] = f
    BY <2>4, <2>6
  <2>9. ASSUME NEW j \in DOMAIN (u \o <<f>>)
        PROVE  (u \o <<f>>)[j].op \in {"activate", "restored"} /\ (u \o <<f>>)[j].e = Null
    BY <2>4, <2>5, <2>6, <2>8
  <2>10. ~StartCall(top) /\ top.op \notin CallerOps \cup FirmOps
    BY <2>7 DEF StartCall, CallerOps, FirmOps
  <2>11. Continues(u \o <<f>>, top)
    BY <2>8, <2>9, <2>10, PlainContinues DEF ReturnOps
  <2>12. LinksOK(agenda)'
    BY <2>2, <2>11 DEF Continues
  <2>13. \A i \in DOMAIN agenda' : agenda'[i].op \in {"activate", "restored"}
    BY <2>2, <2>9
  <2> QED BY <1>1, <2>12, <2>13, QuietReport
<1> QED BY <1>2, <1>3, <1>1 DEF UserCall

LEMMA InitReport == Init => Report
<1> SUFFICES ASSUME Init PROVE Report
  OBVIOUS
<1>1. DOMAIN agenda = {} /\ LinksOK(agenda)
  BY EmptyLinks DEF Init
<1> QED BY <1>1 DEF Init, Report, Heard, FiredKnown

LEMMA NextReport ==
    ASSUME Inv, Inv', [Next]_vars, Report, FinishGoesOn(Events)
    PROVE  Report'
<1>1. CASE InnerStep
  BY <1>1, GoesReport
<1>2. CASE UNCHANGED vars
  BY <1>2 DEF vars, Report, LinksOK, Link, Serves, Guarded, StartCall, NullAbove, Heard,
     FiredKnown, Assured, Firm
<1> QED BY <1>1, <1>2, UserReport, EndReport, LoopReport, DispatchChartReport
        DEF Next, Step, InnerStep

\* State.hpp:148 and Statechart::dispatch: a call that has fired a transition
\* with a trigger answers true, on every chart on which no composite is left
\* in a final state by an event it has no transition for.
THEOREM FiringReported ==
    Spec /\ []FinishGoesOn(Events) => []ResultReportsFiring
<1>1. Report => ResultReportsFiring
  BY DEF Report, ResultReportsFiring, AtRest
<1>2. Init => Report
  BY InitReport
<1>3. Inv /\ Inv' /\ [Next]_vars /\ Report /\ FinishGoesOn(Events) => Report'
  BY NextReport
<1>4. Spec => []Inv
  BY Invariant
<1> QED BY <1>1, <1>2, <1>3, <1>4, PTL DEF Spec

(***************************************************************************)
(* States in different regions.                                            *)
(***************************************************************************)
LEMMA OrthogonalSym ==
    ASSUME NEW s, NEW t, Orthogonal(s, t)
    PROVE  Orthogonal(t, s)
BY DEF Orthogonal

LEMMA OrthogonalBelow ==
    ASSUME NEW s \in States, NEW c \in States, NEW x \in States,
           Orthogonal(s, c), Above(c, x)
    PROVE  Orthogonal(s, x)
<1>1. /\ Depth(c) \in 1 .. Depth(x) /\ Path[x][Depth(c)] = c
      /\ DOMAIN Path[c] = 1 .. Depth(c) /\ DOMAIN Path[x] = 1 .. Depth(x)
      /\ Depth(c) \in Nat /\ Depth(x) \in Nat
  BY AboveDepth, PathEnd
<1>2. \A j \in 1 .. Depth(c) : Path[c][j] = Path[x][j] /\ j \in 1 .. Depth(x)
  BY <1>1, PathIndex
<1>3. PICK k \in DOMAIN Path[s] \cap DOMAIN Path[c] :
        /\ k + 1 \in DOMAIN Path[s] \cap DOMAIN Path[c]
        /\ Path[s][k] = Path[c][k]
        /\ Kind[Path[s][k]] = "Concurrent"
        /\ Path[s][k + 1] # Path[c][k + 1]
  BY DEF Orthogonal
<1>4. /\ k \in DOMAIN Path[x] /\ k + 1 \in DOMAIN Path[x]
      /\ Path[x][k] = Path[c][k] /\ Path[x][k + 1] = Path[c][k + 1]
  BY <1>1, <1>2, <1>3
<1> QED BY <1>3, <1>4 DEF Orthogonal

LEMMA OrthogonalRegions ==
    ASSUME NEW c \in States, NEW i \in DOMAIN Regions[c], NEW j \in DOMAIN Regions[c], i # j,
           NEW s \in States, Above(Regions[c][i], s)
    PROVE  Orthogonal(s, Regions[c][j])
<1> DEFINE q == Regions[c][i]
           r == Regions[c][j]
           k == Depth(c)
<1>1. Kind[c] = "Concurrent" /\ q # r
  <2>1. Regions[c] # <<>>
    OBVIOUS
  <2> QED BY <2>1, ChartContainers
<1>2. /\ q \in States \ {Root} /\ Parent[q] = c
      /\ r \in States \ {Root} /\ Parent[r] = c
  BY <1>1, RegionFacts
<1>3. /\ Depth(c) = Depth(q) - 1 /\ Depth(q) \in Nat /\ Depth(c) = Depth(r) - 1
      /\ Depth(r) \in Nat /\ k \in Nat \ {0}
      /\ Above(c, q) /\ Above(c, r)
  BY <1>2, ParentPath
<1> HIDE DEF q, r, k
<1>4. Depth(q) = k + 1 /\ Depth(r) = k + 1
  BY <1>3 DEF k
<1>5. Above(q, s) /\ Above(c, s)
  BY <1>2, <1>3, AboveTransitive DEF q
<1>6. /\ k + 1 \in 1 .. Depth(s) /\ Path[s][k + 1] = q
      /\ k \in 1 .. Depth(s) /\ Path[s][k] = c /\ DOMAIN Path[s] = 1 .. Depth(s)
  BY <1>2, <1>4, <1>5, AboveDepth, PathEnd DEF k
<1>7. /\ k + 1 \in 1 .. Depth(r) /\ Path[r][k + 1] = r
      /\ k \in 1 .. Depth(r) /\ Path[r][k] = c /\ DOMAIN Path[r] = 1 .. Depth(r)
  BY <1>2, <1>3, <1>4, AboveDepth, PathEnd DEF k
<1>8. Orthogonal(s, r)
  BY <1>1, <1>6, <1>7 DEF Orthogonal, q, r
<1> QED BY <1>8 DEF r

(***************************************************************************)
(* One event fires transitions in different regions only.                  *)
(***************************************************************************)
\* What the event has fired lies in other regions than x.
Apart(x) == \A n \in DOMAIN fired : Orthogonal(Source[fired[n]], x)

\* What it has fired lies elsewhere or in the regions of g.x it was sent to.
Visited(g, done) == \A n \in DOMAIN done :
    \/ Orthogonal(Source[done[n]], g.x)
    \/ \E j \in DOMAIN Regions[g.x] : j < g.k /\ Above(Regions[g.x][j], Source[done[n]])

\* The states that are still to be offered the event.
ServedOK(stack, i, rc) ==
    LET g == stack[i] IN
    /\ g.e # Null =>
         /\ g.op \in {"dispatch", "substate"} => Apart(g.x)
         /\ g.op = "bubble" => Apart(g.x) \/ Assured(stack, i, rc)
         /\ g.op = "regions" => Visited(g, fired) /\ (g.b \/ Apart(g.x) \/ Assured(stack, i, rc))
    /\ g.op = "forkEach" => Kind[g.x] = "Fork"

Consume == EventConsumedOnce /\ \A i \in DOMAIN agenda : ServedOK(agenda, i, ret)

\* The call on top has not been told that the event has fired anything.
Unheard ==
    \/ Top.op = "dispatch" /\ Kind[Top.x] # "Fork"
    \/ Top.op = "bubble" /\ ~ret
    \/ Top.op = "regions" /\ ~Top.b /\ ~ret

LEMMA ExecuteFires ==
    ASSUME NEW t, NEW more, Execute(t, more), fired' # fired
    PROVE  Trigger[t] # Null
BY DEF Execute

LEMMA FiringUnheard ==
    ASSUME ForksSilent, Inv, InnerStep, FinishCompletes, fired' # fired,
           Top.op = "forkEach" => Kind[Top.x] = "Fork"
    PROVE  Unheard
<1>1. DispatchState \/ DispatchFork \/ Bubble \/ DispatchRegions
  BY DEF InnerStep, DispatchHierarchical, DispatchSubstate, DispatchConcurrent, Enter,
     Activate, Entered, RunRegion, DeactivateHierarchical, DeactivateConcurrent, Leave,
     RunAction, Quiet
<1>2. CASE DispatchState
  BY <1>2 DEF DispatchState, Running, Top, Unheard
<1>3. CASE DispatchFork
  <2>1. agenda # <<>> /\ Top.op \in {"dispatch", "forkEach"} /\ Kind[Top.x] = "Fork"
    BY <1>3 DEF DispatchFork, Running, Top
  <2>2. Top.x \in States
    BY <2>1, StackTop DEF FrameOK
  <2>3. PICK k \in DOMAIN Outgoing[Top.x] : \E more : Execute(Outgoing[Top.x][k], more)
    BY <1>3 DEF DispatchFork, Quiet
  <2>4. Trigger[Outgoing[Top.x][k]] # Null
    BY <2>3, ExecuteFires
  <2> QED BY <2>1, <2>2, <2>4 DEF ForksSilent, ElementsOf
<1>4. CASE Bubble
  <2> DEFINE ready == MayBubble(Top.x, Top.e)
  <2>1. agenda # <<>> /\ Top.op = "bubble" /\ Running("bubble")
    BY <1>4 DEF Bubble, Running, Top
  <2>2. Top.x \in md.active /\ ~HandledBelow(Top.x) /\ FireFirst(Top.x, ready)
    BY <1>4 DEF Bubble, Quiet
  <2>3. PICK i \in ready : /\ \A j \in ready : i <= j
                           /\ Execute(Outgoing[Top.x][i], <<>>)
    BY <2>2 DEF FireFirst
  <2>4. Trigger[Outgoing[Top.x][i]] # Null
    BY <2>3, ExecuteFires
  <2>5. Top.e # Null
    BY <2>3, <2>4 DEF MayBubble, Ready, Enabled
  <2>6. SUFFICES ASSUME ret PROVE FALSE
    BY <2>1 DEF Unheard
  <2>7. JustFinished
    BY <2>1, <2>2, <2>6 DEF JustFinished, HandledBelow
  <2> QED BY <2>3, <2>4, <2>5, <2>7 DEF FinishCompletes
<1>5. CASE DispatchRegions
  BY <1>5 DEF DispatchRegions, Running, Top, Quiet, Unheard
<1> QED BY <1>1, <1>2, <1>3, <1>4, <1>5

\* A call on top that has not been told so is apart from what has fired.
LEMMA UnheardApart ==
    ASSUME Inv, agenda # <<>>, Consume, Unheard, Top.e # Null
    PROVE  Apart(Top.x)
<1>1. 1 \in DOMAIN agenda /\ Top = agenda[1]
  BY StackTop
<1>2. ServedOK(agenda, 1, ret)
  BY <1>1 DEF Consume
<1>3. ~ret => ~Assured(agenda, 1, ret)
  <2>1. 1 .. 1 - 1 = {}
    OBVIOUS
  <2> QED BY <2>1 DEF Assured
<1> QED BY <1>1, <1>2, <1>3 DEF ServedOK, Unheard

LEMMA ApartBelow ==
    ASSUME fired \in Seq(Trans), NEW c \in States, NEW x \in States, Apart(c), Above(c, x)
    PROVE  Apart(x)
<1> SUFFICES ASSUME NEW n \in DOMAIN fired PROVE Orthogonal(Source[fired[n]], x)
  BY DEF Apart
<1>1. fired[n] \in Trans
  OBVIOUS
<1>2. Source[fired[n]] \in States
  BY <1>1, ChartAssumption
<1> QED BY <1>2, OrthogonalBelow DEF Apart

\* The calls an event is handed on to.
LEMMA FollowsServed ==
    ASSUME Inv, agenda # <<>>, Consume, NEW f \in Task, Follows(f, Top, ret), f.e # Null,
           f.op \in CallerOps
    PROVE  /\ f.op \in {"dispatch", "substate", "bubble"} => Apart(f.x)
           /\ f.op = "regions" => Visited(f, fired) /\ (f.b \/ Apart(f.x))
<1>1. 1 \in DOMAIN agenda /\ Top = agenda[1] /\ fired \in Seq(Trans) /\ FrameOK(Top)
      /\ Top.k \in Nat
  BY StackTop
<1>2. ServedOK(agenda, 1, ret)
  BY <1>1 DEF Consume
<1>3. ~ret => ~Assured(agenda, 1, ret)
  <2>1. 1 .. 1 - 1 = {}
    OBVIOUS
  <2> QED BY <2>1 DEF Assured
<1>4. f.e = Top.e /\ f.x \in States
  BY DEF Follows
<1>5. CASE Top.op \in {"dispatch", "substate"} /\ Above(Top.x, f.x)
  <2>1. Apart(Top.x) /\ Top.x \in States
    BY <1>1, <1>2, <1>4, <1>5 DEF ServedOK, FrameOK
  <2>2. Apart(f.x)
    BY <1>1, <1>4, <1>5, <2>1, ApartBelow
  <2> QED BY <2>2 DEF Apart, Visited
<1>6. CASE /\ Top.op = "regions" /\ f.op = "dispatch"
           /\ Top.k \in DOMAIN Regions[Top.x] /\ f.x = Regions[Top.x][Top.k]
  <2>1. Visited(Top, fired) /\ Top.x \in States
    BY <1>1, <1>2, <1>4, <1>6 DEF ServedOK, FrameOK
  <2>2. Above(Top.x, f.x)
    <3>1. f.x \in ElementsOf(Regions[Top.x])
      BY <1>6 DEF ElementsOf
    <3>2. Parent[f.x] = Top.x
      BY <2>1, <3>1, ChartStructure DEF ChildrenOf
    <3>3. f.x # Root
      BY <2>1, <3>2, ChartAssumption
    <3> QED BY <1>4, <3>2, <3>3, ParentPath
  <2>3. ASSUME NEW n \in DOMAIN fired PROVE Orthogonal(Source[fired[n]], f.x)
    <3>1. fired[n] \in Trans
      BY <1>1
    <3>2. Source[fired[n]] \in States
      BY <3>1, ChartAssumption
    <3>3. CASE Orthogonal(Source[fired[n]], Top.x)
      BY <1>4, <2>1, <2>2, <3>2, <3>3, OrthogonalBelow
    <3>4. CASE \E j \in DOMAIN Regions[Top.x] :
                  j < Top.k /\ Above(Regions[Top.x][j], Source[fired[n]])
      <4>1. PICK j \in DOMAIN Regions[Top.x] :
                  j < Top.k /\ Above(Regions[Top.x][j], Source[fired[n]])
        BY <3>4
      <4>2. j # Top.k
        <5>1. Regions[Top.x] \in Seq(States)
          BY <2>1, ChartAssumption
        <5>2. j \in Nat
          BY <5>1
        <5> QED BY <1>1, <4>1, <5>2
      <4> QED BY <1>6, <2>1, <3>2, <4>1, <4>2, OrthogonalRegions
    <3> QED BY <2>1, <3>3, <3>4 DEF Visited
  <2> QED BY <1>6, <2>3 DEF Apart
<1>7. CASE /\ Top.op = "regions" /\ f.op = "regions"
           /\ f.x = Top.x /\ f.k = Top.k + 1 /\ (f.b <=> Top.b \/ ret)
  <2>1. Visited(Top, fired) /\ (Top.b \/ Apart(Top.x) \/ Assured(agenda, 1, ret)) /\ Top.x \in States
    BY <1>1, <1>2, <1>4, <1>7 DEF ServedOK, FrameOK
  <2>2. f.b \/ Apart(f.x)
    BY <1>3, <1>7, <2>1
  <2>3. \A j \in DOMAIN Regions[Top.x] : j < Top.k => j < Top.k + 1
    <3>1. Regions[Top.x] \in Seq(States)
      BY <2>1, ChartAssumption
    <3> QED BY <1>1, <3>1
  <2>4. Visited(f, fired)
    BY <1>7, <2>1, <2>3 DEF Visited
  <2> QED BY <1>7, <2>2, <2>4
<1> QED BY <1>5, <1>6, <1>7 DEF Follows

\* The calls below the one that fires.
LEMMA FiringBelow ==
    ASSUME Inv, agenda # <<>>, LinksOK(agenda), Consume, Unheard, NEW s, Goes(s),
           fired' # fired, NEW k \in 2 .. Len(agenda), k \in DOMAIN agenda,
           agenda[k].e # Null, agenda[k].op \in CallerOps
    PROVE  /\ agenda[k].op \in {"bubble", "regions"}
           /\ agenda[k].op = "regions" => Visited(agenda[k], fired')
           /\ Assured(agenda', k + Len(s) - 1, ret')
<1> DEFINE g == agenda[k]
           n == Len(s)
<1>1. /\ agenda \in Seq(Task) /\ StackOK(agenda) /\ Len(agenda) \in Nat /\ Top = agenda[1]
      /\ DOMAIN agenda = 1 .. Len(agenda) /\ 1 \in DOMAIN agenda /\ 1 < k
      /\ fired \in Seq(Trans)
  BY StackTop
<1>2. Link(agenda, 1, k)
  BY <1>1 DEF LinksOK
<1>3. ~StartCall(Top) /\ Top.op \notin FirmOps
  BY DEF Unheard, StartCall, FirmOps
<1>4. g.op # "dispatch" /\ g.op # "substate"
  BY <1>1, <1>2, <1>3 DEF StackOK, Link
<1>5. g.op \in {"bubble", "regions"}
  BY <1>4 DEF CallerOps
<1>6. PICK t \in Trans : fired' = Append(fired, t) /\ Source[t] = Top.x
  BY FiringLoud
<1>7. Assured(agenda', k + n - 1, ret')
  <2>1. PICK j \in DOMAIN s : Firm(s[j])
    BY FiringLoud
  <2>2. /\ n \in Nat /\ DOMAIN s = 1 .. n /\ \A l \in 1 .. n : agenda'[l] = s[l]
    BY <1>1, Replaced DEF Goes
  <2> HIDE DEF n
  <2>3. j \in 1 .. (k + n - 1) - 1 /\ agenda'[j] = s[j]
    BY <1>1, <2>1, <2>2
  <2> QED BY <2>1, <2>3 DEF Assured
<1>8. ASSUME g.op = "regions" PROVE Visited(g, fired')
  <2>1. ~Guarded(agenda, 1, k)
    <3>1. ASSUME NEW l \in 1 .. k - 1, agenda[l].op \in FirmOps PROVE FALSE
      <4>1. l # 1
        BY <1>1, <1>3, <3>1
      <4>2. l \in DOMAIN agenda /\ l > 1
        BY <1>1, <3>1, <4>1
      <4> QED BY <3>1, <4>2, FiringLoud DEF NullAbove
    <3>2. ASSUME NEW l \in 1 + 1 .. k - 1, agenda[l].op = "substate" PROVE FALSE
      <4>1. l \in DOMAIN agenda /\ 1 < l
        BY <1>1, <3>2
      <4>2. Link(agenda, 1, l)
        BY <1>1, <4>1 DEF LinksOK
      <4> QED BY <1>1, <1>3, <3>2, <4>2 DEF Link
    <3> QED BY <3>1, <3>2 DEF Guarded
  <2>2. Serves(Top, g)
    BY <1>1, <1>2, <1>8, <2>1 DEF Link, ReturnOps
  <2>3. g.k - 1 \in DOMAIN Regions[g.x] /\ Above(Regions[g.x][g.k - 1], Top.x)
    BY <1>8, <2>2 DEF Serves
  <2>4. g.k - 1 < g.k
    <3>1. g \in Task
      BY <1>1
    <3>2. g.k \in Nat
      BY <3>1 DEF Task
    <3> QED BY <3>2
  <2>5. Visited(g, fired)
    BY <1>8 DEF Consume, ServedOK
  <2>6. \A m \in DOMAIN fired' : \/ m \in DOMAIN fired /\ fired'[m] = fired[m]
                                 \/ fired'[m] = t
    BY <1>1, <1>6
  <2> HIDE DEF g
  <2>7. ASSUME NEW m \in DOMAIN fired'
        PROVE  \/ Orthogonal(Source[fired'[m]], g.x)
               \/ \E j \in DOMAIN Regions[g.x] :
                     j < g.k /\ Above(Regions[g.x][j], Source[fired'[m]])
    <3>1. CASE m \in DOMAIN fired /\ fired'[m] = fired[m]
      BY <2>5, <3>1 DEF Visited
    <3>2. CASE fired'[m] = t
      BY <1>6, <2>3, <2>4, <3>2
    <3> QED BY <2>6, <3>1, <3>2
  <2> QED BY <2>7 DEF Visited
<1> QED BY <1>5, <1>7, <1>8

\* The calls below one that fires nothing.
LEMMA QuietBelow ==
    ASSUME Inv, agenda # <<>>, LinksOK(agenda), NEW s, Goes(s),
           NEW k \in 2 .. Len(agenda), k \in DOMAIN agenda,
           agenda[k].e # Null, agenda[k].op \in {"bubble", "regions"},
           Assured(agenda, k, ret)
    PROVE  Assured(agenda', k + Len(s) - 1, ret')
<1>1. /\ agenda \in Seq(Task) /\ StackOK(agenda) /\ Len(agenda) \in Nat /\ Top = agenda[1]
      /\ DOMAIN agenda = 1 .. Len(agenda) /\ 1 \in DOMAIN agenda /\ 1 < k
      /\ s \in Seq(Task) /\ agenda' = s \o Tail(agenda)
  BY StackTop DEF Goes
<1>2. agenda[k].op \in ReturnOps /\ agenda[k].op # "loop"
  BY DEF ReturnOps
<1>3. Keeps(s, agenda[1], ret, ret') \/ \E l \in 2 .. k - 1 : Firm(agenda[l])
  <2>1. CASE Top.op = "bubble" /\ Top.e = Null
    <3>1. Link(agenda, 1, k)
      BY <1>1 DEF LinksOK
    <3>2. Guarded(agenda, 1, k)
      BY <1>1, <1>2, <2>1, <3>1 DEF Link, Serves
    <3> QED BY <2>1, <3>2, LoopGuard
  <2> QED BY <1>1, <2>1 DEF Goes
<1> QED BY <1>1, <1>2, <1>3, AssuredPush

\* Every call of the new stack is as the old ones were.
LEMMA GoesServed ==
    ASSUME Inv, InnerStep, ForksSilent, FinishCompletes, LinksOK(agenda), Consume,
           NEW s, Goes(s), NEW i \in DOMAIN agenda'
    PROVE  ServedOK(agenda, i, ret)'
<1> DEFINE g == agenda'[i]
<1>1. agenda # <<>>
  BY InnerTop
<1>2. 1 \in DOMAIN agenda /\ Top = agenda[1] /\ agenda \in Seq(Task) /\ StackOK(agenda)
  BY <1>1, StackTop
<1>3. ServedOK(agenda, 1, ret)
  BY <1>2 DEF Consume
<1>4. fired' # fired => Unheard
  BY <1>2, <1>3, FiringUnheard DEF ServedOK
<1>5. fired' = fired => \A x : Apart(x) <=> \A n \in DOMAIN fired' : Orthogonal(Source[fired'[n]], x)
  BY DEF Apart
<1>6. CASE i \in DOMAIN s /\ g = s[i]
  <2>1. s[i] \in Task /\ Follows(s[i], Top, ret)
    BY <1>6 DEF Goes
  <2>2. g.op = "forkEach" => Kind[g.x] = "Fork"
    BY <1>2, <1>3, <1>6, <2>1 DEF Follows, ServedOK
  <2>3. ASSUME g.e # Null, g.op \in CallerOps
        PROVE  /\ g.op \in {"dispatch", "substate", "bubble"} =>
                     \A n \in DOMAIN fired' : Orthogonal(Source[fired'[n]], g.x)
               /\ g.op = "regions" =>
                     /\ Visited(g, fired')
                     /\ g.b \/ \A n \in DOMAIN fired' : Orthogonal(Source[fired'[n]], g.x)
    <3>1. fired' = fired
      BY <1>1, <1>6, <2>3, FiringLoud
    <3> HIDE DEF g
    <3>2. /\ g.op \in {"dispatch", "substate", "bubble"} => Apart(g.x)
          /\ g.op = "regions" => Visited(g, fired) /\ (g.b \/ Apart(g.x))
      BY <1>1, <1>6, <2>1, <2>3, FollowsServed
    <3> QED BY <1>5, <3>1, <3>2
  <2> QED BY <2>2, <2>3 DEF ServedOK, Apart, CallerOps
<1>7. ASSUME NEW k \in 2 .. Len(agenda), k \in DOMAIN agenda, i = k + Len(s) - 1,
             g = agenda[k]
      PROVE  ServedOK(agenda, i, ret)'
  <2>1. ServedOK(agenda, k, ret)
    BY <1>7 DEF Consume
  <2>2. g.op = "forkEach" => Kind[g.x] = "Fork"
    BY <1>7, <2>1 DEF ServedOK
  <2>3. CASE fired' = fired
    <3>1. ASSUME g.e # Null, g.op \in {"bubble", "regions"}, Assured(agenda, k, ret)
          PROVE  Assured(agenda', i, ret')
      BY <1>1, <1>7, <3>1, QuietBelow
    <3>2. g.e # Null =>
            /\ g.op \in {"dispatch", "substate"} => Apart(g.x)
            /\ g.op = "bubble" => Apart(g.x) \/ Assured(agenda', i, ret')
            /\ g.op = "regions" =>
                  Visited(g, fired) /\ (g.b \/ Apart(g.x) \/ Assured(agenda', i, ret'))
      BY <1>7, <2>1, <3>1 DEF ServedOK
    <3>3. \A x : Apart(x) => \A n \in DOMAIN fired' : Orthogonal(Source[fired'[n]], x)
      BY <1>5, <2>3
    <3>4. Visited(g, fired) => Visited(g, fired')
      BY <2>3
    <3> QED BY <2>2, <3>2, <3>3, <3>4 DEF ServedOK, Apart
  <2>4. CASE fired' # fired
    <3>1. ASSUME g.e # Null, g.op \in CallerOps
          PROVE  /\ g.op \in {"bubble", "regions"}
                 /\ g.op = "regions" => Visited(g, fired')
                 /\ Assured(agenda', i, ret')
      BY <1>1, <1>4, <1>7, <2>4, <3>1, FiringBelow
    <3> QED BY <2>2, <3>1 DEF ServedOK, CallerOps
  <2> QED BY <2>3, <2>4
<1>8. \/ i \in DOMAIN s /\ agenda'[i] = s[i]
      \/ \E k \in 2 .. Len(agenda) : /\ k \in DOMAIN agenda /\ i = k + Len(s) - 1
                                     /\ agenda'[i] = agenda[k]
  BY <1>1, Placed
<1> QED BY <1>6, <1>7, <1>8

LEMMA GoesConsume ==
    ASSUME Inv, InnerStep, ForksSilent, FinishCompletes, FinishGoesOn(Events),
           LinksOK(agenda), Consume
    PROVE  Consume'
<1>1. agenda # <<>>
  BY InnerTop
<1>2. PICK s : Goes(s)
  BY StepGoes
<1>3. \A i \in DOMAIN agenda' : ServedOK(agenda, i, ret)'
  BY <1>2, GoesServed
<1>4. EventConsumedOnce'
  <2>1. CASE fired' = fired
    BY <2>1 DEF Consume, EventConsumedOnce
  <2>2. CASE fired' # fired
    <3>1. 1 \in DOMAIN agenda /\ Top = agenda[1] /\ fired \in Seq(Trans)
      BY <1>1, StackTop
    <3>2. Unheard
      BY <2>2, <3>1, FiringUnheard DEF Consume, ServedOK
    <3>3. Top.e # Null
      BY <1>1, <1>2, <2>2, FiringLoud
    <3>4. Apart(Top.x)
      BY <1>1, <3>2, <3>3, UnheardApart
    <3>5. PICK t \in Trans : fired' = Append(fired, t) /\ Source[t] = Top.x
      BY <1>1, <1>2, <2>2, FiringLoud
    <3>6. \A m \in DOMAIN fired' : \/ m \in DOMAIN fired /\ fired'[m] = fired[m]
                                   \/ m = Len(fired) + 1 /\ fired'[m] = t
      BY <3>1, <3>5
    <3>7. \A m \in DOMAIN fired : /\ Orthogonal(Source[fired[m]], Source[t])
                                  /\ Orthogonal(Source[t], Source[fired[m]])
      BY <3>4, <3>5, OrthogonalSym DEF Apart
    <3>8. \A m, n \in DOMAIN fired : m # n => Orthogonal(Source[fired[m]], Source[fired[n]])
      BY DEF Consume, EventConsumedOnce
    <3>9. \A m, n \in DOMAIN fired' : m # n => Orthogonal(Source[fired'[m]], Source[fired'[n]])
      BY <3>6, <3>7, <3>8
    <3> QED BY <3>9 DEF EventConsumedOnce
  <2> QED BY <2>1, <2>2
<1> QED BY <1>3, <1>4 DEF Consume

\* A call that starts, or ends.
LEMMA FreshConsume ==
    ASSUME fired' = <<>> \/ (fired' = fired /\ Consume),
           \A i \in DOMAIN agenda' :
              /\ agenda'[i].op # "forkEach"
              /\ agenda'[i].op \in CallerOps => agenda'[i].e = Null \/ fired' = <<>>
              /\ agenda'[i].op # "regions"
    PROVE  Consume'
<1>1. EventConsumedOnce'
  <2>1. CASE fired' = <<>>
    <3>1. DOMAIN fired' = {}
      BY <2>1
    <3> QED BY <3>1 DEF EventConsumedOnce
  <2>2. CASE fired' = fired /\ Consume
    BY <2>2 DEF Consume, EventConsumedOnce
  <2> QED BY <2>1, <2>2
<1>2. ASSUME NEW i \in DOMAIN agenda' PROVE ServedOK(agenda, i, ret)'
  <2>1. CASE fired' = <<>>
    <3>1. DOMAIN fired' = {}
      BY <2>1
    <3> QED BY <3>1 DEF ServedOK, Apart
  <2>2. CASE agenda'[i].op \in CallerOps => agenda'[i].e = Null
    BY <2>2 DEF ServedOK, CallerOps
  <2> QED BY <2>1, <2>2
<1> QED BY <1>1, <1>2 DEF Consume

LEMMA ChartConsume ==
    ASSUME Inv, DispatchChart, Report, Consume
    PROVE  Consume'
<1>1. agenda # <<>> /\ Top.op = "chart" /\ fired' = fired
  BY DispatchChartPushes
<1>2. 1 \in DOMAIN agenda /\ agenda[1] = Top
  BY <1>1, StackTop
<1>3. fired' = <<>>
  BY <1>1, <1>2 DEF Report, FiredKnown
<1>4. \A i \in DOMAIN agenda' : agenda'[i].op \in {"dispatch", "loop"}
  <2>1. CASE \E d, g \in Task : agenda' = <<d, g>> /\ d.op = "dispatch" /\ g.op = "loop"
    BY <2>1
  <2>2. CASE \E g \in Task : agenda' = <<g>> /\ g.op = "loop"
    BY <2>2
  <2> QED BY <2>1, <2>2, DispatchChartPushes
<1> QED BY <1>3, <1>4, FreshConsume

LEMMA LoopConsume ==
    ASSUME Inv, Loop, Consume
    PROVE  Consume'
<1>1. fired' = fired
  BY LoopPushes
<1>2. \A i \in DOMAIN agenda' : /\ agenda'[i].op \in {"dispatch", "loop"}
                                /\ agenda'[i].op = "dispatch" => agenda'[i].e = Null
  <2>1. CASE agenda' = <<>>
    BY <2>1
  <2>2. CASE \E d, g \in Task : /\ agenda' = <<d, g>> /\ d.op = "dispatch" /\ d.e = Null
                                /\ g.op = "loop"
    BY <2>2
  <2> QED BY <2>1, <2>2, LoopPushes
<1> QED BY <1>1, <1>2, FreshConsume DEF CallerOps

LEMMA EndConsume ==
    ASSUME Inv, Restored \/ ThrowAction, Consume
    PROVE  Consume'
<1>1. agenda' = <<>> /\ fired' = fired
  <2>1. CASE Restored
    <3>1. /\ agenda # <<>> /\ Top.op \in BottomOps /\ agenda' = Tail(agenda)
          /\ fired' = fired
      BY <2>1 DEF Restored, Running, Top, BottomOps, Return
    <3> QED BY <3>1, BottomAlone DEF Inv
  <2>2. CASE ThrowAction
    BY <2>2 DEF ThrowAction
  <2> QED BY <2>1, <2>2
<1>2. DOMAIN agenda' = {}
  BY <1>1
<1> QED BY <1>1, <1>2, FreshConsume

LEMMA UserConsume ==
    ASSUME Inv, UserCall
    PROVE  Consume'
<1>1. /\ fired' = <<>>
      /\ \A i \in DOMAIN agenda' : agenda'[i].op \in {"chart", "activate", "restored"}
  BY UserReport
<1> QED BY <1>1, FreshConsume

LEMMA InitConsume == Init => Consume
<1> SUFFICES ASSUME Init PROVE Consume
  OBVIOUS
<1>1. DOMAIN agenda = {} /\ DOMAIN fired = {}
  BY EmptyLinks DEF Init
<1> QED BY <1>1 DEF Consume, EventConsumedOnce

LEMMA NextConsume ==
    ASSUME ForksSilent, Inv, [Next]_vars, Report, FinishGoesOn(Events), FinishCompletes,
           Consume
    PROVE  Consume'
<1>1. CASE InnerStep
  BY <1>1, GoesConsume DEF Report
<1>2. CASE UNCHANGED vars
  BY <1>2 DEF vars, Consume, EventConsumedOnce, ServedOK, Apart, Visited, Assured, Firm
<1> QED BY <1>1, <1>2, UserConsume, EndConsume, LoopConsume, ChartConsume
        DEF Next, Step, InnerStep

\* doc/statecharts.md, State transitions: the transitions one event fires
\* start in different regions, so of nested ones only one fires.  The charts:
\* no fork waits for an event, and a composite that an event has just brought
\* to its final state has a transition to take, and completes by one without
\* a trigger.
THEOREM EventFiresApart ==
    ASSUME ForksSilent
    PROVE  Spec /\ []FinishGoesOn(Events) /\ []FinishCompletes => []EventConsumedOnce
<1>1. Consume => EventConsumedOnce
  BY DEF Consume
<1>2. Init => Report /\ Consume
  BY InitReport, InitConsume
<1>3. Inv /\ Inv' /\ [Next]_vars /\ FinishGoesOn(Events) /\ FinishCompletes /\ Report /\ Consume
        => Report' /\ Consume'
  BY NextReport, NextConsume
<1>4. Spec => []Inv
  BY Invariant
<1> QED BY <1>1, <1>2, <1>3, <1>4, PTL DEF Spec

(***************************************************************************)
(* Run to completion.  The loop of Statechart::dispatch ends with the      *)
(* first dispatch of nullptr that answers false; such a dispatch has asked *)
(* every active state in vain and changed nothing meanwhile.               *)
(***************************************************************************)
Undone == {t \in Trans : Pending(t)}

\* No transition of P starts in a region of g before the n-th.
RegionsDone(P, g, n) ==
    \A j \in DOMAIN Regions[g.x] : j < n => \A t \in P : ~Above(Regions[g.x][j], Source[t])

\* Below the call j lie only calls that hand its answer on to the loop.
Answers(stack, j) ==
    /\ j \in DOMAIN stack
    /\ \A i \in j .. Len(stack) - 1 : stack[i].e = Null
    /\ \A i \in j + 1 .. Len(stack) - 1 : stack[i].op \in {"bubble", "regions"}

\* The call j has fired a transition or is about to.
OnWay(m, stack, j, rc) ==
    LET f == stack[j] IN
    \/ f.op = "enter"
    \/ f.op = "regions" /\ f.b
    \/ f.op = "substate" /\ IsPseudo(m.current[f.x])
    \/ f.op = "dispatch" /\ IsPseudo(f.x)
    \/ j = 1 /\ f.op \in ReturnOps /\ rc

\* Calls that wait: the regions served before the present one are done.
WaitsDone(P, F) ==
    \A g \in F : (g.op = "regions" /\ ~g.b) => RegionsDone(P, g, g.k - 1)

\* What f concludes when it is told that nothing has fired.
AnswerDone(P, f) ==
    /\ f.op = "bubble" => \A t \in P : ~Inside(Source[t], f.x)
    /\ (f.op = "regions" /\ ~f.b) => RegionsDone(P, f, f.k)
    /\ f.op = "loop" => P = {}

\* Nothing has fired so far.
Calm(P, stack, rc) ==
    /\ stack[1].op \in CallerOps \cup {"loop"}
    /\ WaitsDone(P, ElementsOf(Tail(stack)))
    /\ ~rc => AnswerDone(P, stack[1])

\* The loop waits for the answer to a nullptr.
Looping(stack) ==
    stack # <<>> /\ stack[Len(stack)].op = "loop" /\ stack[Len(stack)].k > 0

RunOK(m, P, stack, rc) ==
    Looping(stack) =>
        \/ \E j \in DOMAIN stack : Answers(stack, j) /\ OnWay(m, stack, j, rc)
        \/ Answers(stack, 1) /\ Calm(P, stack, rc)

RunInv ==
    Trusted => /\ RunOK(md, Undone, agenda, ret)
               /\ outcome = "done" => Undone = {}

LEMMA SameUndone ==
    ASSUME md' = md, param' = param
    PROVE  Undone' = Undone
<1>1. Open' = Open
  BY DEF Open, GuardHolds, JoinReady
<1> QED BY <1>1, Zenon DEF Undone, Pending, Allowed, Finished

(***************************************************************************)
(* The stack after s has taken the place of the call on top of q.          *)
(***************************************************************************)
LEMMA AnswersTop ==
    ASSUME NEW q \in Seq(Task), Len(q) > 1, Answers(q, 1), NEW s \in Seq(Task),
           NEW j \in 1 .. Len(s), \A i \in j .. Len(s) : s[i].e = Null,
           \A i \in j + 1 .. Len(s) : s[i].op \in {"bubble", "regions"}
    PROVE  Answers(s \o Tail(q), j) /\ (s \o Tail(q))[j] = s[j]
<1> DEFINE r == s \o Tail(q)
           n == Len(s)
<1>1. /\ n \in Nat /\ Len(q) \in Nat /\ DOMAIN r = 1 .. n + Len(q) - 1
      /\ Len(r) = n + Len(q) - 1
      /\ \A l \in 1 .. n : r[l] = s[l]
      /\ \A l \in 2 .. Len(q) : r[l + n - 1] = q[l]
  <2>1. q # <<>>
    OBVIOUS
  <2> QED BY <2>1, Replaced
<1>2. /\ \A i \in j .. n : s[i].e = Null
      /\ \A i \in j + 1 .. n : s[i].op \in {"bubble", "regions"}
      /\ j \in 1 .. n
  OBVIOUS
<1> HIDE DEF r, n
<1>3. ASSUME NEW i \in j .. Len(r) - 1, i > n
      PROVE  r[i].e = Null /\ r[i].op \in {"bubble", "regions"}
  <2>1. PICK l \in 2 .. Len(q) - 1 : i = l + n - 1
    <3>1. i - n + 1 \in 2 .. Len(q) - 1 /\ i = (i - n + 1) + n - 1
      BY <1>1, <1>2, <1>3
    <3> QED BY <3>1
  <2>2. l \in 2 .. Len(q) /\ l \in 1 .. Len(q) - 1 /\ l \in 1 + 1 .. Len(q) - 1
    BY <1>1
  <2>3. r[i] = q[l]
    BY <1>1, <2>1, <2>2
  <2> QED BY <2>2, <2>3 DEF Answers
<1>4. ASSUME NEW i \in j .. Len(r) - 1 PROVE r[i].e = Null
  <2>1. CASE i > n
    BY <1>3, <2>1
  <2>2. CASE ~(i > n)
    <3>1. i \in 1 .. n /\ i \in j .. n
      BY <1>1, <1>2, <2>2
    <3> QED BY <1>1, <1>2, <3>1
  <2> QED BY <2>1, <2>2
<1>5. ASSUME NEW i \in j + 1 .. Len(r) - 1 PROVE r[i].op \in {"bubble", "regions"}
  <2>1. CASE i > n
    <3>1. i \in j .. Len(r) - 1
      BY <1>1, <1>2
    <3> QED BY <1>3, <2>1, <3>1
  <2>2. CASE ~(i > n)
    <3>1. i \in 1 .. n /\ i \in j + 1 .. n
      BY <1>1, <1>2, <2>2
    <3> QED BY <1>1, <1>2, <3>1
  <2> QED BY <2>1, <2>2
<1>6. j \in DOMAIN r /\ r[j] = s[j]
  BY <1>1, <1>2
<1> QED BY <1>4, <1>5, <1>6 DEF Answers, r

LEMMA AnswersRest ==
    ASSUME NEW q \in Seq(Task), q # <<>>, NEW s \in Seq(Task),
           NEW j \in 2 .. Len(q), Answers(q, j)
    PROVE  /\ Answers(s \o Tail(q), j + Len(s) - 1)
           /\ (s \o Tail(q))[j + Len(s) - 1] = q[j]
           /\ j + Len(s) - 1 \in DOMAIN (s \o Tail(q))
<1> DEFINE r == s \o Tail(q)
           n == Len(s)
<1>1. /\ n \in Nat /\ Len(q) \in Nat /\ DOMAIN r = 1 .. n + Len(q) - 1
      /\ Len(r) = n + Len(q) - 1
      /\ \A l \in 2 .. Len(q) : r[l + n - 1] = q[l]
  BY Replaced
<1> HIDE DEF r, n
<1>2. ASSUME NEW i \in j + n - 1 .. Len(r) - 1
      PROVE  \E l \in j .. Len(q) - 1 : i = l + n - 1 /\ r[i] = q[l]
  <2>1. i - n + 1 \in j .. Len(q) - 1 /\ i = (i - n + 1) + n - 1
    BY <1>1
  <2>2. PICK l \in j .. Len(q) - 1 : i = l + n - 1
    BY <2>1
  <2>3. l \in 2 .. Len(q)
    BY <1>1
  <2> QED BY <1>1, <2>2, <2>3
<1>3. ASSUME NEW i \in j + n - 1 .. Len(r) - 1 PROVE r[i].e = Null
  BY <1>2 DEF Answers
<1>4. ASSUME NEW i \in (j + n - 1) + 1 .. Len(r) - 1 PROVE r[i].op \in {"bubble", "regions"}
  <2>1. i \in j + n - 1 .. Len(r) - 1
    BY <1>1
  <2>2. PICK l \in j .. Len(q) - 1 : i = l + n - 1 /\ r[i] = q[l]
    BY <1>2, <2>1
  <2>3. l \in j + 1 .. Len(q) - 1
    BY <1>1, <2>2
  <2> QED BY <2>2, <2>3 DEF Answers
<1>5. j + n - 1 \in DOMAIN r /\ r[j + n - 1] = q[j]
  BY <1>1
<1> QED BY <1>3, <1>4, <1>5 DEF Answers, r, n

\* The call below comes to the top.
LEMMA AnswersPop ==
    ASSUME NEW q \in Seq(Task), Len(q) > 1, Answers(q, 1)
    PROVE  /\ Answers(Tail(q), 1) /\ Tail(q) # <<>> /\ Tail(q)[1] = q[2]
           /\ 1 \in DOMAIN Tail(q)
           /\ Looping(q) => q[2].op \in ReturnOps
<1>1. q # <<>> /\ Len(q) \in Nat /\ 2 \in 2 .. Len(q) /\ 2 \in DOMAIN q
      /\ <<>> \in Seq(Task) /\ Len(<<>>) = 0 /\ <<>> \o Tail(q) = Tail(q)
  OBVIOUS
<1>2. Answers(q, 2)
  <2>1. \A i \in 2 .. Len(q) - 1 : i \in 1 .. Len(q) - 1
    BY <1>1
  <2>2. \A i \in 2 + 1 .. Len(q) - 1 : i \in 1 + 1 .. Len(q) - 1
    BY <1>1
  <2> QED BY <1>1, <2>1, <2>2 DEF Answers
<1>3. Answers(Tail(q), 1) /\ Tail(q)[1] = q[2]
  <2>1. 2 + Len(<<>>) - 1 = 1
    BY <1>1
  <2>2. /\ Answers(<<>> \o Tail(q), 2 + Len(<<>>) - 1)
        /\ (<<>> \o Tail(q))[2 + Len(<<>>) - 1] = q[2]
    BY <1>1, <1>2, AnswersRest
  <2> QED BY <1>1, <2>1, <2>2
<1>4. Looping(q) => q[2].op \in ReturnOps
  <2>1. CASE Len(q) = 2
    BY <2>1 DEF Looping, ReturnOps
  <2>2. CASE Len(q) # 2
    <3>1. Len(q) \in Nat /\ Len(q) > 2
      <4>1. \A n \in Nat : (n > 1 /\ n # 2) => n > 2
        OBVIOUS
      <4> QED BY <1>1, <2>2, <4>1
    <3>2. 2 \in 1 + 1 .. Len(q) - 1
      BY ONLY <3>1
    <3> QED BY <3>2 DEF Answers, ReturnOps
  <2> QED BY <2>1, <2>2
<1>5. 1 \in DOMAIN Tail(q) /\ Tail(q) # <<>>
  <2>1. Tail(q) \in Seq(Task) /\ Len(Tail(q)) = Len(q) - 1
    BY <1>1
  <2>2. \A n \in Nat : n > 1 => 1 \in 1 .. n - 1
    OBVIOUS
  <2>3. 1 \in DOMAIN Tail(q)
    BY <1>1, <2>1, <2>2
  <2>4. DOMAIN <<>> = {}
    OBVIOUS
  <2> QED BY <2>3, <2>4
<1> QED BY <1>3, <1>4, <1>5

\* A step inside of a call leaves the loop at the bottom alone.
LEMMA LoopBelow ==
    ASSUME Inv, agenda # <<>>, Top.op \notin BottomOps, NEW s \in Seq(Task),
           agenda' = s \o Tail(agenda)
    PROVE  Len(agenda) > 1 /\ (Looping(agenda') => Looping(agenda))
<1>1. agenda \in Seq(Task) /\ StackOK(agenda) /\ Top = agenda[1]
  BY StackTop
<1>2. Len(agenda) \in Nat /\ 1 \in DOMAIN agenda
  BY <1>1
<1>3. Len(agenda) > 1
  <2>1. Len(agenda) # 1
    BY <1>1, <1>2 DEF StackOK
  <2>2. Len(agenda) # 0
    BY <1>1
  <2>3. \A n \in Nat : (n # 0 /\ n # 1) => n > 1
    OBVIOUS
  <2> QED BY <1>2, <2>1, <2>2, <2>3
<1> DEFINE n == Len(s)
           N == Len(agenda)
           r == s \o Tail(agenda)
<1>4. /\ n \in Nat /\ Len(r) = n + N - 1
      /\ \A l \in 2 .. N : r[l + n - 1] = agenda[l]
  BY <1>1, Replaced
<1> HIDE DEF n, r
<1>5. r[Len(r)] = agenda[N]
  <2>1. N \in 2 .. N /\ N + n - 1 = Len(r)
    BY <1>2, <1>3, <1>4
  <2> QED BY <1>4, <2>1
<1> QED BY <1>3, <1>5 DEF Looping, r

(***************************************************************************)
(* How a dispatch goes on, and how it ends.                                *)
(***************************************************************************)
RunOKNext == RunOK(md', Undone', agenda', ret')

\* One call that is bound to answer true is enough.
LEMMA OnWayRun ==
    ASSUME NEW m, NEW P, NEW stack, NEW rc, NEW j \in DOMAIN stack,
           Answers(stack, j), OnWay(m, stack, j, rc)
    PROVE  RunOK(m, P, stack, rc)
BY DEF RunOK

\* A call takes its place that will answer true.
LEMMA WayPush ==
    ASSUME Inv, agenda # <<>>, Top.op \notin BottomOps,
           Looping(agenda) => Answers(agenda, 1),
           NEW s \in Seq(Task), agenda' = s \o Tail(agenda),
           NEW j \in 1 .. Len(s), \A i \in j .. Len(s) : s[i].e = Null,
           \A i \in j + 1 .. Len(s) : s[i].op \in {"bubble", "regions"},
           OnWay(md', s, j, ret')
    PROVE  RunOKNext
<1>1. agenda \in Seq(Task) /\ Len(agenda) > 1 /\ (Looping(agenda') => Looping(agenda))
  BY StackTop, LoopBelow
<1>2. SUFFICES ASSUME Looping(agenda') PROVE RunOKNext
  BY DEF RunOKNext, RunOK
<1>3. Answers(agenda', j) /\ agenda'[j] = s[j]
  BY <1>1, <1>2, AnswersTop
<1>4. OnWay(md', agenda', j, ret')
  BY <1>3 DEF OnWay
<1>5. j \in DOMAIN agenda'
  BY <1>3 DEF Answers
<1> QED BY <1>3, <1>4, <1>5, OnWayRun, Zenon DEF RunOKNext

\* Transition::execute.
LEMMA ExecuteRun ==
    ASSUME Inv, agenda # <<>>, Top.op \in CallerOps, Looping(agenda) => Answers(agenda, 1),
           NEW t \in Trans, NEW more \in Seq(Task), Len(more) = 0, Execute(t, more)
    PROVE  RunOKNext
<1> DEFINE s == FiringCalls(t, more)
           n == Len(Deactivates[t])
<1>1. /\ s \in Seq(Task) /\ n \in Nat /\ Len(s) = n + 2 + Len(more)
      /\ DOMAIN s = 1 .. Len(s) /\ Len(more) \in Nat
      /\ \A i \in 1 .. n : s[i].op = "deactivate" /\ s[i].e = Null
      /\ s[n + 1].op = "call" /\ s[n + 1].e = Null
      /\ s[n + 2].op = "enter" /\ s[n + 2].e = Null
      /\ \A i \in 1 .. Len(more) : s[n + 2 + i] = more[i]
  BY ExecuteFrames
<1>3. agenda' = s \o Tail(agenda)
  BY DEF Execute, Push, FiringCalls
<1> HIDE DEF s, n
<1>2. /\ s \in Seq(Task) /\ n \in Nat /\ Len(s) = n + 2
      /\ s[n + 2].op = "enter" /\ s[n + 2].e = Null
  BY <1>1
<1>4. /\ n + 2 \in 1 .. Len(s)
      /\ \A i \in n + 2 .. Len(s) : i = n + 2
      /\ \A i \in (n + 2) + 1 .. Len(s) : FALSE
  BY <1>2
<1>5. /\ \A i \in n + 2 .. Len(s) : s[i].e = Null
      /\ \A i \in (n + 2) + 1 .. Len(s) : s[i].op \in {"bubble", "regions"}
  BY <1>2, <1>4
<1>6. OnWay(md', s, n + 2, ret')
  BY <1>2 DEF OnWay
<1>7. Top.op \notin BottomOps
  BY DEF CallerOps, BottomOps
<1> QED BY <1>2, <1>3, <1>4, <1>5, <1>6, <1>7, WayPush

LEMMA FireRun ==
    ASSUME Inv, agenda # <<>>, Top.op \in CallerOps, Looping(agenda) => Answers(agenda, 1),
           Top.x \in States, NEW ready, ready \subseteq DOMAIN Outgoing[Top.x],
           FireFirst(Top.x, ready)
    PROVE  \/ RunOKNext
           \/ /\ ready = {} /\ agenda' = Tail(agenda) /\ ~ret'
              /\ md' = md /\ param' = param
<1>1. CASE \E i \in ready : Execute(Outgoing[Top.x][i], <<>>)
  <2>1. PICK i \in ready : Execute(Outgoing[Top.x][i], <<>>)
    BY <1>1
  <2>2. Outgoing[Top.x][i] \in Trans
    <3>1. Outgoing[Top.x] \in Seq(Trans) /\ i \in DOMAIN Outgoing[Top.x]
      BY ChartAssumption
    <3> QED BY <3>1
  <2>3. <<>> \in Seq(Task) /\ Len(<<>>) = 0
    OBVIOUS
  <2> QED BY <2>1, <2>2, <2>3, ExecuteRun
<1>2. CASE ready = {} /\ Return(FALSE) /\ UNCHANGED <<md, fired, before, control>>
  BY <1>2 DEF Return, control
<1> QED BY <1>1, <1>2 DEF FireFirst

\* The answer is true.
LEMMA TrueRun ==
    ASSUME Inv, agenda # <<>>, Top.op \notin BottomOps, Looping(agenda) => Answers(agenda, 1),
           agenda' = Tail(agenda), ret'
    PROVE  RunOKNext
<1>1. agenda' = <<>> \o Tail(agenda) /\ <<>> \in Seq(Task) /\ agenda \in Seq(Task)
  BY StackTop, EmptyContinues
<1>2. Len(agenda) > 1 /\ (Looping(agenda') => Looping(agenda))
  BY <1>1, LoopBelow
<1>3. SUFFICES ASSUME Looping(agenda') PROVE RunOKNext
  BY DEF RunOKNext, RunOK
<1>4. /\ Answers(agenda', 1) /\ agenda'[1] = agenda[2] /\ 1 \in DOMAIN agenda'
      /\ agenda[2].op \in ReturnOps
  BY <1>1, <1>2, <1>3, AnswersPop
<1>5. OnWay(md', agenda', 1, ret')
  BY <1>4 DEF OnWay
<1> QED BY <1>4, <1>5 DEF RunOKNext, RunOK

\* Nothing has fired, and the call f, or f and g below it, go on.
LEMMA CalmOne ==
    ASSUME Inv, agenda # <<>>, Top.op \in CallerOps,
           Looping(agenda) => Answers(agenda, 1) /\ Calm(Undone, agenda, ret),
           NEW f \in Task, f.e = Null, f.op \in CallerOps, AnswerDone(Undone, f),
           agenda' = <<f>> \o Tail(agenda), md' = md, param' = param
    PROVE  RunOKNext
<1> DEFINE s == <<f>>
<1>1. s \in Seq(Task) /\ Len(s) = 1 /\ s[1] = f /\ s # <<>>
  OBVIOUS
<1>2. agenda' = s \o Tail(agenda) /\ Tail(agenda') = Tail(agenda)
  BY <1>1, StackTop
<1> HIDE DEF s
<1>3. agenda \in Seq(Task) /\ Top.op \notin BottomOps
  BY StackTop DEF CallerOps, BottomOps
<1>4. Len(agenda) > 1 /\ (Looping(agenda') => Looping(agenda))
  BY <1>1, <1>2, <1>3, LoopBelow
<1>5. SUFFICES ASSUME Looping(agenda') PROVE RunOKNext
  BY DEF RunOKNext, RunOK
<1>6. /\ 1 \in 1 .. Len(s) /\ \A i \in 1 .. Len(s) : i = 1
      /\ \A i \in 1 + 1 .. Len(s) : FALSE
  BY <1>1
<1>7. /\ \A i \in 1 .. Len(s) : s[i].e = Null
      /\ \A i \in 1 + 1 .. Len(s) : s[i].op \in {"bubble", "regions"}
  BY <1>1, <1>6
<1>8. Answers(agenda', 1) /\ agenda'[1] = f
  BY <1>1, <1>2, <1>3, <1>4, <1>5, <1>6, <1>7, AnswersTop
<1>9. Calm(Undone', agenda', ret')
  <2>1. Undone' = Undone
    BY SameUndone
  <2> QED BY <1>2, <1>4, <1>5, <1>8, <2>1 DEF Calm
<1> QED BY <1>8, <1>9 DEF RunOKNext, RunOK

LEMMA CalmTwo ==
    ASSUME Inv, agenda # <<>>, Top.op \in CallerOps,
           Looping(agenda) => Answers(agenda, 1) /\ Calm(Undone, agenda, ret),
           NEW f \in Task, NEW g \in Task, f.e = Null, g.e = Null,
           f.op = "dispatch", g.op \in {"bubble", "regions"},
           Looping(agenda) => WaitsDone(Undone, {g}),
           agenda' = <<f, g>> \o Tail(agenda), md' = md, param' = param
    PROVE  RunOKNext
<1> DEFINE s == <<f, g>>
<1>1. s \in Seq(Task) /\ Len(s) = 2 /\ s[1] = f /\ s[2] = g /\ s # <<>>
  OBVIOUS
<1>2. agenda' = s \o Tail(agenda) /\ Tail(agenda') = <<g>> \o Tail(agenda)
  BY <1>1, StackTop
<1>3. ElementsOf(Tail(agenda')) = {g} \cup ElementsOf(Tail(agenda))
  <2>1. <<g>> \in Seq(Task) /\ ElementsOf(<<g>>) = {g} /\ agenda \in Seq(Task)
    <3>1. DOMAIN <<g>> = {1} /\ <<g>>[1] = g
      OBVIOUS
    <3> QED BY <3>1, StackTop DEF ElementsOf
  <2> DEFINE u == <<g>>
  <2>3. u \in Seq(Task) /\ Tail(agenda) \in Seq(Task) /\ ElementsOf(u) = {g}
    BY <2>1, StackTop
  <2> HIDE DEF u
  <2>2. ElementsOf(u \o Tail(agenda)) = ElementsOf(u) \cup ElementsOf(Tail(agenda))
    BY <2>3, PushFrames
  <2> QED BY <1>2, <2>2, <2>3 DEF u
<1> HIDE DEF s
<1>4. agenda \in Seq(Task) /\ Top.op \notin BottomOps
  BY StackTop DEF CallerOps, BottomOps
<1>5. Len(agenda) > 1 /\ (Looping(agenda') => Looping(agenda))
  BY <1>1, <1>2, <1>4, LoopBelow
<1>6. SUFFICES ASSUME Looping(agenda') PROVE RunOKNext
  BY DEF RunOKNext, RunOK
<1>7. /\ 1 \in 1 .. Len(s) /\ \A i \in 1 .. Len(s) : i = 1 \/ i = 2
      /\ \A i \in 1 + 1 .. Len(s) : i = 2
  BY <1>1
<1>8. /\ \A i \in 1 .. Len(s) : s[i].e = Null
      /\ \A i \in 1 + 1 .. Len(s) : s[i].op \in {"bubble", "regions"}
  BY <1>1, <1>7
<1>9. Answers(agenda', 1) /\ agenda'[1] = f
  <2>1. 1 \in 1 .. Len(s)
    BY <1>7
  <2>2. Answers(s \o Tail(agenda), 1) /\ (s \o Tail(agenda))[1] = s[1]
    BY <1>1, <1>4, <1>5, <1>6, <1>8, <2>1, AnswersTop
  <2> QED BY <1>1, <1>2, <2>2
<1>10. Calm(Undone', agenda', ret')
  <2>1. Undone' = Undone
    BY SameUndone
  <2>2. WaitsDone(Undone, ElementsOf(Tail(agenda)))
    BY <1>5, <1>6 DEF Calm
  <2>3. WaitsDone(Undone, ElementsOf(Tail(agenda')))
    BY <1>3, <1>5, <1>6, <2>2 DEF WaitsDone
  <2>4. AnswerDone(Undone, f) /\ f.op \in CallerOps
    BY DEF AnswerDone, CallerOps
  <2> QED BY <1>9, <2>1, <2>3, <2>4 DEF Calm
<1> QED BY <1>9, <1>10 DEF RunOKNext, RunOK

\* A transition of Undone below an or-state starts in its current state.
LEMMA UndoneSource ==
    ASSUME NEW t \in Undone
    PROVE  /\ t \in Trans /\ Pending(t) /\ Source[t] \in States \ {Root}
           /\ Source[t] \in md.active /\ Solid(Source[t])
<1>1. t \in Trans /\ Pending(t)
  BY DEF Undone
<1>2. Source[t] \in md.active /\ Source[t] \in States /\ Kind[Source[t]] \notin PseudoKinds
      /\ Kind[Source[t]] # "Statechart"
  BY <1>1 DEF Pending, RealStates
<1>3. Source[t] # Root
  BY <1>2, ChartAssumption
<1>4. Solid(Source[t])
  BY <1>2 DEF Solid, IsHistory, PseudoKinds
<1> QED BY <1>1, <1>2, <1>3, <1>4

\* The state has been asked in vain, and so has everything inside of it.
LEMMA FalseAnswer ==
    ASSUME StructuredChart, Inv, Configured(md, agenda), agenda # <<>>,
           FlowOK(md, agenda, ret), Top.op \in CallerOps,
           Top.x \in States \ {Root}, Top.x \in md.active, ~IsPseudo(Top.x),
           \A t \in Undone : ~Above(Top.x, Source[t]),
           WaitsDone(Undone, ElementsOf(Tail(agenda))),
           Len(agenda) > 1, agenda[2].op \in ReturnOps
    PROVE  AnswerDone(Undone, agenda[2])
<1> DEFINE x == Top.x
           g == agenda[2]
<1>1. agenda \in Seq(Task) /\ Top = agenda[1] /\ Adjacent(agenda) /\ Len(agenda) \in Nat
  BY Base, BelowTop DEF FlowOK
<1>2. RecordsOK(md) /\ ContextsOK(md) /\ CurrentOK(md)
  BY DEF Configured, MapCond
<1>3. 1 \in 1 .. Len(agenda) - 1 /\ 1 + 1 = 2 /\ 1 \in DOMAIN Tail(agenda) /\ Tail(agenda)[1] = g
  BY <1>1
<1>4. Returns(Top, g) /\ g \in ElementsOf(Tail(agenda))
  BY <1>1, <1>3 DEF Adjacent, ElementsOf
<1>5. g \in Task /\ FrameOK(g) /\ WaitingOK(md, g) /\ g.op \in ReturnOps
  BY <1>4, BelowTop
<1>6. CallOf(Top, g)
  BY <1>4, <1>5 DEF Returns, CallerOps
<1>7. Solid(x)
  BY ChartAssumption DEF Solid, IsPseudo, IsHistory, PseudoKinds
<1>8. ASSUME NEW h \in States, OrState(h), Parent[x] = h, NEW t \in Undone
      PROVE  ~Inside(Source[t], h)
  <2>1. md.current[h] = x
    BY <1>2, <1>7, <1>8 DEF CurrentOK
  <2>2. ASSUME Inside(Source[t], h) PROVE Above(x, Source[t])
    BY <1>2, <1>8, <2>1, <2>2, UndoneSource, CurrentOnPath
  <2> QED BY <2>2
<1> HIDE DEF g
<1>9. CASE g.op = "bubble"
  <2>1. Parent[x] = g.x /\ g.x \in States /\ OrState(g.x)
    BY <1>5, <1>6, <1>9 DEF CallOf, WaitingOK, FrameOK, OrState
  <2> QED BY <1>8, <1>9, <2>1 DEF AnswerDone, g
<1>10. CASE g.op = "loop"
  <2>1. Parent[x] = Root /\ OrState(Root) /\ Root \in States
    BY <1>6, <1>10, ChartAssumption DEF CallOf, OrState
  <2>2. ASSUME NEW t \in Undone PROVE FALSE
    <3>1. Above(Root, Source[t])
      BY UndoneSource, RootPath
    <3> QED BY <1>8, <2>1, <3>1, UndoneSource DEF Inside
  <2> QED BY <1>10, <2>2 DEF AnswerDone, g
<1>11. CASE g.op = "regions"
  <2>1. /\ g.k - 1 \in DOMAIN Regions[g.x] /\ x = Regions[g.x][g.k - 1]
        /\ g.x \in States /\ g.k \in Nat
    BY <1>5, <1>6, <1>11 DEF CallOf, FrameOK, Task
  <2>2. ASSUME ~g.b, NEW j \in DOMAIN Regions[g.x], j < g.k, NEW t \in Undone
        PROVE  ~Above(Regions[g.x][j], Source[t])
    <3>1. CASE j = g.k - 1
      BY <2>1, <3>1
    <3>2. CASE j # g.k - 1
      <4>1. j \in Nat
        <5>1. Regions[g.x] \in Seq(States)
          BY <2>1, ChartAssumption
        <5> QED BY <5>1
      <4>2. j < g.k - 1
        BY <2>1, <2>2, <3>2, <4>1
      <4> QED BY <1>4, <1>11, <2>2, <4>2 DEF WaitsDone, RegionsDone
    <3> QED BY <3>1, <3>2
  <2> QED BY <1>11, <2>2 DEF AnswerDone, RegionsDone, g
<1> QED BY <1>5, <1>9, <1>10, <1>11 DEF ReturnOps

LEMMA FalseRun ==
    ASSUME StructuredChart, Inv, Configured(md, agenda), agenda # <<>>,
           FlowOK(md, agenda, ret), Top.op \in CallerOps,
           Top.x \in States \ {Root}, Top.x \in md.active, ~IsPseudo(Top.x),
           Looping(agenda) =>
               /\ Answers(agenda, 1) /\ WaitsDone(Undone, ElementsOf(Tail(agenda)))
               /\ \A t \in Undone : ~Above(Top.x, Source[t]),
           agenda' = Tail(agenda), md' = md, param' = param
    PROVE  RunOKNext
<1>1. agenda' = <<>> \o Tail(agenda) /\ <<>> \in Seq(Task) /\ agenda \in Seq(Task)
      /\ Top.op \notin BottomOps
  BY StackTop, EmptyContinues DEF CallerOps, BottomOps
<1>2. Len(agenda) > 1 /\ (Looping(agenda') => Looping(agenda))
  BY <1>1, LoopBelow
<1>3. SUFFICES ASSUME Looping(agenda') PROVE RunOKNext
  BY DEF RunOKNext, RunOK
<1>4. /\ Answers(agenda', 1) /\ agenda'[1] = agenda[2] /\ agenda' # <<>>
      /\ agenda[2].op \in ReturnOps
  BY <1>1, <1>2, <1>3, AnswersPop
<1>5. AnswerDone(Undone, agenda[2])
  BY <1>2, <1>3, <1>4, FalseAnswer
<1>6. ElementsOf(Tail(agenda')) \subseteq ElementsOf(Tail(agenda))
  <2>1. Tail(agenda) \in Seq(Task) /\ Tail(agenda) # <<>>
    BY <1>1, <1>4
  <2>2. ElementsOf(Tail(agenda)) = {Head(Tail(agenda))} \cup ElementsOf(Tail(Tail(agenda)))
    BY <2>1, <1>1, PushFrames
  <2> QED BY <2>2
<1>7. Calm(Undone', agenda', ret')
  <2>1. Undone' = Undone
    BY SameUndone
  <2>2. agenda'[1].op \in CallerOps \cup {"loop"}
    BY <1>4 DEF CallerOps, ReturnOps
  <2>3. WaitsDone(Undone, ElementsOf(Tail(agenda')))
    BY <1>2, <1>3, <1>6 DEF WaitsDone
  <2> QED BY <1>4, <1>5, <2>1, <2>2, <2>3 DEF Calm
<1> QED BY <1>4, <1>7 DEF RunOKNext, RunOK

(***************************************************************************)
(* The steps of calls further up.                                          *)
(***************************************************************************)
LEMMA FirePushes ==
    ASSUME Inv, agenda # <<>>, Top.x \in States,
           NEW ready, ready \subseteq DOMAIN Outgoing[Top.x], FireFirst(Top.x, ready)
    PROVE  \E s \in Seq(Task) : agenda' = s \o Tail(agenda)
<1>1. CASE \E i \in ready : Execute(Outgoing[Top.x][i], <<>>)
  <2>1. PICK i \in ready : Execute(Outgoing[Top.x][i], <<>>)
    BY <1>1
  <2>2. Outgoing[Top.x][i] \in Trans
    <3>1. Outgoing[Top.x] \in Seq(Trans) /\ i \in DOMAIN Outgoing[Top.x]
      BY ChartAssumption
    <3> QED BY <3>1
  <2>3. ASSUME NEW t \in Trans, NEW more \in Seq(Task), Execute(t, more)
        PROVE  \E s \in Seq(Task) : agenda' = s \o Tail(agenda)
    <3> DEFINE s == FiringCalls(t, more)
    <3>1. s \in Seq(Task)
      BY ExecuteFrames
    <3>2. agenda' = s \o Tail(agenda)
      BY <2>3 DEF Execute, Push, FiringCalls
    <3> HIDE DEF s
    <3> QED BY <3>1, <3>2
  <2>4. <<>> \in Seq(Task)
    OBVIOUS
  <2> QED BY <2>1, <2>2, <2>3, <2>4
<1>2. CASE Return(FALSE)
  <2>1. agenda' = <<>> \o Tail(agenda) /\ <<>> \in Seq(Task)
    BY <1>2, StackTop, EmptyContinues DEF Return
  <2> QED BY <2>1
<1> QED BY <1>1, <1>2 DEF FireFirst

LEMMA Pushes ==
    ASSUME Inv, InnerStep
    PROVE  \E s \in Seq(Task) : agenda' = s \o Tail(agenda)
<1>1. CASE Bubble
  <2>1. agenda # <<>> /\ Top.op = "bubble"
    BY <1>1 DEF Bubble, Running, Top
  <2>2. Top.x \in States
    BY <2>1, StackTop DEF FrameOK
  <2>3. CASE Return(ret)
    <3>1. agenda' = <<>> \o Tail(agenda) /\ <<>> \in Seq(Task)
      BY <2>1, <2>3, StackTop, EmptyContinues DEF Return
    <3> QED BY <3>1
  <2>4. CASE FireFirst(Top.x, MayBubble(Top.x, Top.e))
    BY <2>1, <2>2, <2>4, ReadyPositions, FirePushes
  <2> QED BY <1>1, <2>3, <2>4 DEF Bubble
<1>2. CASE ~Bubble
  <2>1. \E s : Goes(s)
    BY <1>2, DispatchStateGoes, DispatchForkGoes, DispatchHierarchicalGoes,
       DispatchSubstateGoes, DispatchConcurrentGoes, DispatchRegionsGoes, EnterGoes,
       ActivateGoes, EnteredGoes, RunRegionGoes, DeactivateHierarchicalGoes,
       DeactivateConcurrentGoes, LeaveGoes, RunActionGoes DEF InnerStep
  <2> QED BY <2>1 DEF Goes
<1> QED BY <1>1, <1>2

\* While a composite state enters its start state nothing else becomes its
\* current state.
LEMMA StartKeeps ==
    ASSUME Inv, InnerStep, Top.op \in {"activate", "call", "entered"},
           NEW h \in States, StartState[h] # Null, Top.x = StartState[h],
           IsPseudo(md.current[h])
    PROVE  IsPseudo(md'.current[h])
<1>1. /\ Top.x \in States \ {Root} /\ Parent[Top.x] = h /\ IsPseudo(Top.x)
      /\ Kind[Top.x] = "Start" /\ h # Top.x
  <2>1. Kind[Parent[Top.x]] \in {"Statechart", "Hierarchical", "Concurrent"}
    BY StartFacts, ChartPaths
  <2> QED BY <2>1, StartFacts DEF IsKind
<1>2. CASE Activate
  <2>1. CASE md' = md
    BY <2>1
  <2>2. CASE md' = MdActivate(md, Top.x)
    <3>1. md'.current[h] = IF h = Parent[Top.x] /\ h \in md.present THEN Top.x ELSE md.current[h]
      BY <1>1, <2>2, Base, MdActivateFields
    <3> QED BY <1>1, <3>1
  <2> QED BY <1>2, <2>1, <2>2 DEF Activate, Quiet
<1>3. CASE Entered
  <2>1. Kind[Top.x] # "Concurrent" /\ ~IsHistory(Top.x) /\ Kind[Top.x] # "Fork"
    BY <1>1 DEF IsHistory, HistoryKinds
  <2>2. md' = md
    BY <1>3, <2>1 DEF Entered, Quiet
  <2> QED BY <2>2
<1>4. CASE RunAction
  BY <1>4 DEF RunAction
<1>5. Activate \/ Entered \/ RunAction
  BY DEF InnerStep, DispatchState, DispatchFork, DispatchHierarchical, DispatchSubstate,
     Bubble, DispatchConcurrent, DispatchRegions, Enter, RunRegion,
     DeactivateHierarchical, DeactivateConcurrent, Leave, Running, Top
<1> QED BY <1>2, <1>3, <1>4, <1>5

\* A call that waits further down keeps its way.
LEMMA BelowRun ==
    ASSUME Inv, FlowOK(md, agenda, ret), InnerStep,
           NEW j \in 2 .. Len(agenda), Answers(agenda, j), OnWay(md, agenda, j, ret)
    PROVE  RunOKNext
<1>1. agenda # <<>> /\ agenda \in Seq(Task)
  BY InnerTop, StackTop
<1>2. PICK s \in Seq(Task) : agenda' = s \o Tail(agenda)
  BY Pushes
<1> DEFINE i == j + Len(s) - 1
           f == agenda[j]
<1>3. Answers(agenda', i) /\ agenda'[i] = f /\ i \in DOMAIN agenda'
  BY <1>1, <1>2, AnswersRest
<1>4. j # 1 /\ f \in ElementsOf(Tail(agenda))
  <2>1. j - 1 \in DOMAIN Tail(agenda) /\ Tail(agenda)[j - 1] = agenda[j]
    BY <1>1
  <2>2. j # 1
    OBVIOUS
  <2> QED BY <2>1, <2>2 DEF ElementsOf
<1> HIDE DEF i
<1>5. CASE f.op = "substate" /\ IsPseudo(md.current[f.x])
  <2>1. FlowsAbove(Top, f) /\ FrameOK(f) /\ f \in Task
    BY <1>1, <1>4, BelowTop
  <2>2. /\ Top.op \in {"activate", "call", "entered"} /\ Top.x = StartState[f.x]
        /\ f.x \in States
    BY <1>5, <2>1 DEF FlowsAbove, FrameOK
  <2>3. StartState[f.x] # Null
    BY <1>1, <2>2, StackTop, ChartAssumption DEF Task
  <2>4. IsPseudo(md'.current[f.x])
    BY <1>5, <2>2, <2>3, StartKeeps
  <2>5. OnWay(md', agenda', i, ret')
    BY <1>3, <1>5, <2>4 DEF OnWay
  <2> QED BY <1>3, <2>5 DEF RunOKNext, RunOK
<1>6. CASE ~(f.op = "substate" /\ IsPseudo(md.current[f.x]))
  <2>1. OnWay(md', agenda', i, ret')
    BY <1>3, <1>4, <1>6 DEF OnWay
  <2> QED BY <1>3, <2>1 DEF RunOKNext, RunOK
<1> QED BY <1>5, <1>6

LEMMA QuietRun ==
    ASSUME Inv, InnerStep, ~Looping(agenda)
    PROVE  RunOKNext
<1>1. agenda # <<>> /\ Top.op \notin BottomOps
  BY InnerTop
<1>2. PICK s \in Seq(Task) : agenda' = s \o Tail(agenda)
  BY Pushes
<1>3. ~Looping(agenda')
  BY <1>1, <1>2, LoopBelow
<1> QED BY <1>3 DEF RunOKNext, RunOK

(***************************************************************************)
(* The step of the call that the loop waits for.                           *)
(***************************************************************************)
\* The call on top is going to answer true, or nothing has fired so far.
AtTop ==
    /\ Looping(agenda) /\ Answers(agenda, 1)
    /\ OnWay(md, agenda, 1, ret) \/ Calm(Undone, agenda, ret)

LEMMA TopFacts ==
    ASSUME Inv, agenda # <<>>, Top.op \notin BottomOps, AtTop
    PROVE  /\ agenda \in Seq(Task) /\ Top = agenda[1] /\ Len(agenda) > 1
           /\ Top.e = Null /\ agenda[2].op \in ReturnOps
           /\ Looping(agenda) /\ Answers(agenda, 1)
<1>1. agenda \in Seq(Task) /\ Top = agenda[1] /\ StackOK(agenda) /\ Len(agenda) \in Nat
      /\ <<>> \in Seq(Task)
  BY StackTop
<1>2. Len(agenda) > 1
  <2>1. agenda[Len(agenda)].op = "loop"
    BY DEF AtTop, Looping
  <2>2. Len(agenda) # 1
    BY <1>1, <2>1 DEF BottomOps
  <2>3. Len(agenda) # 0
    BY <1>1
  <2>4. \A n \in Nat : (n # 0 /\ n # 1) => n > 1
    OBVIOUS
  <2> QED BY <1>1, <2>2, <2>3, <2>4
<1>3. agenda[2].op \in ReturnOps
  BY <1>1, <1>2, AnswersPop DEF AtTop
<1>4. Top.e = Null
  <2>1. 1 \in 1 .. Len(agenda) - 1
    BY <1>1, <1>2
  <2> QED BY <1>1, <2>1 DEF AtTop, Answers
<1> QED BY <1>1, <1>2, <1>3, <1>4 DEF AtTop

\* One or two calls take its place, and one of them will answer true.
LEMMA WayOne ==
    ASSUME Inv, agenda # <<>>, Top.op \notin BottomOps, AtTop,
           NEW f \in Task, f.e = Null, agenda' = <<f>> \o Tail(agenda),
           f.op = "substate" /\ IsPseudo(md'.current[f.x])
    PROVE  RunOKNext
<1> DEFINE s == <<f>>
<1>1. s \in Seq(Task) /\ Len(s) = 1 /\ s[1] = f
  OBVIOUS
<1> HIDE DEF s
<1>2. /\ 1 \in 1 .. Len(s) /\ \A i \in 1 .. Len(s) : i = 1
      /\ \A i \in 1 + 1 .. Len(s) : FALSE
  BY <1>1
<1>3. /\ \A i \in 1 .. Len(s) : s[i].e = Null
      /\ \A i \in 1 + 1 .. Len(s) : s[i].op \in {"bubble", "regions"}
  BY <1>1, <1>2
<1>4. OnWay(md', s, 1, ret')
  BY <1>1 DEF OnWay
<1>5. Looping(agenda) => Answers(agenda, 1)
  BY DEF AtTop
<1> QED BY <1>1, <1>2, <1>3, <1>4, <1>5, WayPush DEF s

LEMMA WayLast ==
    ASSUME Inv, agenda # <<>>, Top.op \notin BottomOps, AtTop,
           NEW f \in Task, NEW g \in Task, g.e = Null, agenda' = <<f, g>> \o Tail(agenda),
           \/ g.op = "enter"
           \/ g.op = "regions" /\ g.b
           \/ g.op = "substate" /\ IsPseudo(md'.current[g.x])
    PROVE  RunOKNext
<1> DEFINE s == <<f, g>>
<1>1. s \in Seq(Task) /\ Len(s) = 2 /\ s[2] = g
  OBVIOUS
<1> HIDE DEF s
<1>2. /\ 2 \in 1 .. Len(s) /\ \A i \in 2 .. Len(s) : i = 2
      /\ \A i \in 2 + 1 .. Len(s) : FALSE
  BY <1>1
<1>3. /\ \A i \in 2 .. Len(s) : s[i].e = Null
      /\ \A i \in 2 + 1 .. Len(s) : s[i].op \in {"bubble", "regions"}
  BY <1>1, <1>2
<1>4. OnWay(md', s, 2, ret')
  BY <1>1 DEF OnWay
<1>5. Looping(agenda) => Answers(agenda, 1)
  BY DEF AtTop
<1> QED BY <1>1, <1>2, <1>3, <1>4, <1>5, WayPush DEF s

LEMMA WayFirst ==
    ASSUME Inv, agenda # <<>>, Top.op \notin BottomOps, AtTop,
           NEW f \in Task, NEW g \in Task, f.e = Null, g.e = Null,
           agenda' = <<f, g>> \o Tail(agenda),
           f.op = "dispatch" /\ IsPseudo(f.x), g.op = "bubble"
    PROVE  RunOKNext
<1> DEFINE s == <<f, g>>
<1>1. s \in Seq(Task) /\ Len(s) = 2 /\ s[1] = f /\ s[2] = g
  OBVIOUS
<1> HIDE DEF s
<1>2. /\ 1 \in 1 .. Len(s) /\ \A i \in 1 .. Len(s) : i = 1 \/ i = 2
      /\ \A i \in 1 + 1 .. Len(s) : i = 2
  BY <1>1
<1>3. /\ \A i \in 1 .. Len(s) : s[i].e = Null
      /\ \A i \in 1 + 1 .. Len(s) : s[i].op \in {"bubble", "regions"}
  BY <1>1, <1>2
<1>4. OnWay(md', s, 1, ret')
  BY <1>1 DEF OnWay
<1>5. Looping(agenda) => Answers(agenda, 1)
  BY DEF AtTop
<1> QED BY <1>1, <1>2, <1>3, <1>4, <1>5, WayPush DEF s

\* A pending transition is ready when nullptr comes to its source.
LEMMA PendingReady ==
    ASSUME NEW t \in Undone
    PROVE  \E i \in Ready(Source[t], Null) : Outgoing[Source[t]][i] = t
<1>1. t \in Trans /\ Pending(t) /\ Source[t] \in States
  BY UndoneSource
<1>2. t \in ElementsOf(Outgoing[Source[t]])
  BY <1>1, ChartContainers
<1>3. PICK i \in DOMAIN Outgoing[Source[t]] : Outgoing[Source[t]][i] = t
  BY <1>2 DEF ElementsOf
<1>4. Enabled(t, Null)
  BY <1>1 DEF Pending, Enabled
<1> QED BY <1>3, <1>4 DEF Ready

LEMMA AboveCases ==
    ASSUME StructuredChart, NEW x \in States, NEW t \in Undone, Above(x, Source[t])
    PROVE  Source[t] = x \/ (Inside(Source[t], x) /\ \E c \in States \ {Root} :
              /\ Parent[c] = x /\ Above(c, Source[t])
              /\ Kind[x] \in {"Statechart", "Hierarchical", "Concurrent"})
<1>1. Source[t] \in States
  BY UndoneSource
<1>2. CASE Source[t] # x
  <2>1. Inside(Source[t], x)
    BY <1>2 DEF Inside
  <2> QED BY <1>1, <2>1, ChildOnPath
<1> QED BY <1>2

LEMMA EnterRun ==
    ASSUME Inv, Enter, AtTop
    PROVE  RunOKNext
<1> DEFINE path == Activates[Top.x]
           a == Call("activate", path[Top.k])
           g == Do("enter", Top.x, Null, Top.k + 1, FALSE)
<1>1. agenda # <<>> /\ Top.op = "enter"
  BY DEF Enter, Running, Top
<1>2. Top.x \in Trans /\ Top.k \in Nat /\ Top.op \notin BottomOps
  BY <1>1, StackTop DEF FrameOK, BottomOps
<1>3. Looping(agenda) => Answers(agenda, 1)
  BY DEF AtTop
<1>4. CASE Return(TRUE)
  BY <1>1, <1>2, <1>3, <1>4, TrueRun DEF Return
<1>5. CASE Top.k \in DOMAIN path /\ Push(<<a, g>>)
  <2>1. path[Top.k] \in States
    <3>1. path \in Seq(States \ {Root})
      BY <1>2, ChartAssumption
    <3> QED BY <1>5, <3>1
  <2>2. a \in Task
    BY <2>1, PlainCall DEF PlainOps, Good
  <2>3. g \in Task /\ g.op = "enter" /\ g.e = Null
    <3>1. "enter" \in Ops /\ Top.x \in States \cup Trans /\ Top.k + 1 \in Nat
          /\ Null \in OrNull(Events) /\ FALSE \in BOOLEAN
      BY <1>2 DEF Ops, OrNull
    <3>2. g \in Task
      BY <3>1, DoTask
    <3> QED BY <3>2 DEF Do
  <2> HIDE DEF a, g
  <2>4. agenda' = <<a, g>> \o Tail(agenda)
    BY <1>5 DEF Push
  <2> QED BY <1>1, <1>2, <2>2, <2>3, <2>4, WayLast
<1> QED BY <1>4, <1>5 DEF Enter

LEMMA DispatchStateRun ==
    ASSUME StructuredChart, Inv, Configured(md, agenda), FlowOK(md, agenda, ret),
           DispatchState, WayOn, AtTop
    PROVE  RunOKNext
<1> DEFINE x == Top.x
<1>1. /\ agenda # <<>> /\ Top.op = "dispatch" /\ Running("dispatch")
      /\ Kind[x] \notin {"Statechart", "Hierarchical", "Concurrent", "Fork"}
      /\ FireFirst(x, Ready(x, Top.e))
  BY DEF DispatchState, Running, Top
<1>2. /\ x \in States \ {Root} /\ Top.op \in CallerOps /\ Top.op \notin BottomOps
  BY <1>1, StackTop, ChartAssumption DEF FrameOK, CallerOps, BottomOps
<1>3. /\ Top = agenda[1] /\ Len(agenda) > 1 /\ Top.e = Null /\ agenda[2].op \in ReturnOps
      /\ Looping(agenda) /\ Answers(agenda, 1)
  BY <1>1, <1>2, TopFacts
<1>4. CASE /\ Ready(x, Null) = {} /\ agenda' = Tail(agenda) /\ ~ret'
           /\ md' = md /\ param' = param
  <2>1. ~IsPseudo(x)
    BY <1>1, <1>3, <1>4 DEF WayOn
  <2>2. x \in md.active
    BY <1>1, <1>3 DEF FlowOK, TopOK
  <2>3. WaitsDone(Undone, ElementsOf(Tail(agenda)))
    BY <1>1, <1>3, <2>1 DEF AtTop, OnWay, Calm, ReturnOps
  <2>4. ASSUME NEW t \in Undone, Above(x, Source[t]) PROVE FALSE
    BY <1>1, <1>2, <1>4, <2>4, AboveCases, PendingReady
  <2> QED BY <1>1, <1>2, <1>3, <1>4, <2>1, <2>2, <2>3, <2>4, FalseRun
<1>5. Ready(x, Null) \subseteq DOMAIN Outgoing[x]
  BY ReadyPositions
<1> QED BY <1>1, <1>2, <1>3, <1>4, <1>5, FireRun

LEMMA DispatchHierarchicalRun ==
    ASSUME StructuredChart, Inv, Configured(md, agenda), FlowOK(md, agenda, ret),
           DispatchHierarchical, AtTop
    PROVE  RunOKNext
<1> DEFINE h == Top.x
           g == Do("substate", h, Top.e, 1, FALSE)
           a == Call("activate", StartState[h])
<1>1. agenda # <<>> /\ Top.op = "dispatch" /\ Kind[h] = "Hierarchical"
  BY DEF DispatchHierarchical, Running, Top
<1>2. h \in States /\ Top.op \in CallerOps /\ Top.op \notin BottomOps
  BY <1>1, StackTop DEF FrameOK, CallerOps, BottomOps
<1>3. /\ Top = agenda[1] /\ Len(agenda) > 1 /\ Top.e = Null /\ agenda[2].op \in ReturnOps
      /\ Looping(agenda) /\ Answers(agenda, 1)
  BY <1>1, <1>2, TopFacts
<1>4. h \in md.active
  BY <1>1, <1>3 DEF FlowOK, TopOK
<1>5. g \in Task /\ g.op = "substate" /\ g.e = Null /\ g.x = h
  <2>1. "substate" \in Ops /\ h \in States \cup Trans
    BY <1>2 DEF Ops
  <2>2. g \in Task
    BY <1>1, <2>1, StackTop, DoTask
  <2> QED BY <1>3, <2>2 DEF Do
<1> HIDE DEF g
<1>6. CASE /\ StartState[h] # Null /\ md' = MdActivate(md, StartState[h]) /\ Push(<<a, g>>)
  <2>1. /\ StartState[h] \in States \ {Root} /\ Parent[StartState[h]] = h
        /\ IsPseudo(StartState[h])
    BY <1>2, <1>6, StartFacts
  <2>2. a \in Task
    BY <2>1, PlainCall DEF PlainOps, Good
  <2>3. h # StartState[h]
    BY <2>1, Family
  <2>4. md'.current[h] = StartState[h]
    BY <1>2, <1>4, <1>6, <2>1, <2>3, Base, MdActivateFields
  <2> HIDE DEF a
  <2>5. agenda' = <<a, g>> \o Tail(agenda)
    BY <1>6 DEF Push
  <2> QED BY <1>1, <1>2, <1>5, <2>1, <2>2, <2>4, <2>5, WayLast
<1>7. CASE Push(<<g>>) /\ Quiet
  <2>1. Calm(Undone, agenda, ret)
    BY <1>1, <1>3 DEF AtTop, OnWay, ReturnOps, IsPseudo, PseudoKinds, HistoryKinds
  <2>2. AnswerDone(Undone, g)
    BY <1>5 DEF AnswerDone
  <2>3. agenda' = <<g>> \o Tail(agenda) /\ md' = md /\ param' = param
    BY <1>7 DEF Push, Quiet, control
  <2>4. g.op \in CallerOps
    BY <1>5 DEF CallerOps
  <2> QED BY <1>1, <1>2, <1>3, <1>5, <2>1, <2>2, <2>3, <2>4, CalmOne
<1> QED BY <1>4, <1>6, <1>7 DEF DispatchHierarchical, g

LEMMA DispatchSubstateRun ==
    ASSUME StructuredChart, Inv, Configured(md, agenda), FlowOK(md, agenda, ret),
           DispatchSubstate, AtTop
    PROVE  RunOKNext
<1> DEFINE h == Top.x
           c == md.current[h]
           g == Do("bubble", h, Top.e, 1, FALSE)
           d == Do("dispatch", c, Top.e, 1, FALSE)
<1>1. agenda # <<>> /\ Top.op = "substate" /\ Quiet
  BY DEF DispatchSubstate, Running, Top
<1>2. h \in States /\ Top.op \in CallerOps /\ Top.op \notin BottomOps
  BY <1>1, StackTop DEF FrameOK, CallerOps, BottomOps
<1>3. /\ Top = agenda[1] /\ Len(agenda) > 1 /\ Top.e = Null /\ agenda[2].op \in ReturnOps
      /\ Looping(agenda) /\ Answers(agenda, 1)
  BY <1>1, <1>2, TopFacts
<1>4. c # Null /\ c \in States
  BY <1>1, <1>2, BelowTop, CurrentChild DEF WaitingOK
<1>5. g \in Task /\ g.op = "bubble" /\ g.e = Null
  <2>1. "bubble" \in Ops /\ h \in States \cup Trans
    BY <1>2 DEF Ops
  <2>2. g \in Task
    BY <1>1, <2>1, StackTop, DoTask
  <2> QED BY <1>3, <2>2 DEF Do
<1>6. d \in Task /\ d.op = "dispatch" /\ d.e = Null /\ d.x = c
  <2>1. Good(d)
    BY <1>1, <1>4, StackTop, DispatchDo
  <2> QED BY <1>3, <2>1 DEF Good, Do
<1> HIDE DEF g, d
<1>7. agenda' = <<d, g>> \o Tail(agenda) /\ md' = md /\ param' = param
  BY <1>1, <1>4 DEF DispatchSubstate, Push, Quiet, control, g, d
<1>8. CASE IsPseudo(c)
  BY <1>1, <1>2, <1>5, <1>6, <1>7, <1>8, WayFirst
<1>9. CASE ~IsPseudo(c)
  <2>1. Calm(Undone, agenda, ret)
    BY <1>1, <1>3, <1>9 DEF AtTop, OnWay, ReturnOps
  <2>2. WaitsDone(Undone, {g})
    BY <1>5 DEF WaitsDone
  <2> QED BY <1>1, <1>2, <1>3, <1>5, <1>6, <1>7, <2>1, <2>2, CalmTwo
<1> QED BY <1>8, <1>9

LEMMA BubbleRun ==
    ASSUME StructuredChart, Inv, Configured(md, agenda), FlowOK(md, agenda, ret),
           Bubble, NothingOverlooked, AtTop
    PROVE  RunOKNext
<1> DEFINE h == Top.x
           ready == MayBubble(h, Null)
<1>1. agenda # <<>> /\ Top.op = "bubble" /\ Running("bubble")
  BY DEF Bubble, Running, Top
<1>2. h \in States /\ Top.op \in CallerOps /\ Top.op \in ReturnOps /\ Top.op \notin BottomOps
  BY <1>1, StackTop DEF FrameOK, CallerOps, ReturnOps, BottomOps
<1>3. /\ Top = agenda[1] /\ Len(agenda) > 1 /\ Top.e = Null /\ agenda[2].op \in ReturnOps
      /\ Looping(agenda) /\ Answers(agenda, 1)
  BY <1>1, <1>2, TopFacts
<1>4. Kind[h] = "Hierarchical"
  BY <1>1, BelowTop DEF WaitingOK
<1>5. ~ret => h \in md.active
  BY <1>1, <1>3 DEF FlowOK, TopOK, ResultOK
<1>6. CASE h \notin md.active \/ HandledBelow(h)
  <2>1. Return(ret)
    BY <1>6 DEF Bubble
  <2>2. ret
    BY <1>5, <1>6 DEF HandledBelow
  <2> QED BY <1>1, <1>2, <1>3, <2>1, <2>2, TrueRun DEF Return
<1>7. CASE h \in md.active /\ ~HandledBelow(h)
  <2>1. FireFirst(h, ready)
    BY <1>3, <1>7 DEF Bubble
  <2>2. ready \subseteq DOMAIN Outgoing[h]
    BY ReadyPositions
  <2>3. CASE /\ ready = {} /\ agenda' = Tail(agenda) /\ ~ret' /\ md' = md /\ param' = param
    <3>1. ASSUME ~ret
          PROVE  /\ WaitsDone(Undone, ElementsOf(Tail(agenda)))
                 /\ \A t \in Undone : ~Inside(Source[t], h)
      <4>1. Calm(Undone, agenda, ret)
        BY <1>1, <1>3, <3>1 DEF AtTop, OnWay
      <4> QED BY <1>1, <1>3, <3>1, <4>1 DEF Calm, AnswerDone
    <3>2. ASSUME ret
          PROVE  /\ WaitsDone(Undone, ElementsOf(Tail(agenda)))
                 /\ \A t \in Undone : ~Inside(Source[t], h)
      <4>1. /\ JustFinished /\ NothingOverlooked /\ IsKind(md.current[h], "Final")
            /\ OrState(h)
        BY <1>1, <1>4, <1>7, <3>2 DEF JustFinished, HandledBelow, OrState
      <4>2. ASSUME NEW g \in ElementsOf(Tail(agenda)), g.op = "regions", ~g.b
            PROVE  RegionsDone(Undone, g, g.k - 1)
        <5>1. PICK i \in DOMAIN agenda : agenda[i] = g
          <6>1. ElementsOf(Tail(agenda)) \subseteq ElementsOf(agenda)
            BY <1>1, <1>3, StackTop, PushFrames
          <6> QED BY <6>1 DEF ElementsOf
        <5> QED BY <1>3, <2>3, <4>1, <4>2, <5>1, UndoneSource DEF NothingOverlooked, RegionsDone
      <4>3. ASSUME NEW t \in Undone, Inside(Source[t], h) PROVE FALSE
        <5>1. ContextsOK(md) /\ CurrentOK(md)
          BY DEF Configured, MapCond
        <5>2. Above(md.current[h], Source[t]) /\ md.current[h] \in States
          BY <1>2, <4>1, <4>3, <5>1, UndoneSource, CurrentOnPath
        <5>3. Kind[md.current[h]] = "Final"
          BY <4>1 DEF IsKind
        <5>4. Source[t] = md.current[h]
          BY <5>2, <5>3, AboveCases
        <5> QED BY <1>3, <2>3, <4>1, <5>4, UndoneSource DEF NothingOverlooked
      <4> QED BY <4>2, <4>3 DEF WaitsDone
    <3>3. /\ WaitsDone(Undone, ElementsOf(Tail(agenda)))
          /\ \A t \in Undone : ~Inside(Source[t], h)
      BY <3>1, <3>2
    <3>4. ASSUME NEW t \in Undone, Above(h, Source[t]) PROVE FALSE
      <4>1. Source[t] = h
        BY <3>3, <3>4 DEF Inside
      <4>2. PICK i \in Ready(h, Null) : Outgoing[h][i] = t
        BY <4>1, PendingReady
      <4>3. IsKind(md.current[h], "Final")
        BY <1>4, <4>1, UndoneSource DEF Pending
      <4> QED BY <2>3, <4>2, <4>3 DEF MayBubble
    <3>5. h # Root /\ ~IsPseudo(h)
      BY <1>4, ChartAssumption DEF IsPseudo, PseudoKinds, HistoryKinds
    <3> QED BY <1>1, <1>2, <1>3, <1>7, <2>3, <3>3, <3>4, <3>5, FalseRun
  <2> QED BY <1>1, <1>2, <1>3, <2>1, <2>2, <2>3, FireRun
<1> QED BY <1>6, <1>7

LEMMA DispatchConcurrentRun ==
    ASSUME Inv, DispatchConcurrent, AtTop
    PROVE  RunOKNext
<1> DEFINE c == Top.x
           g == Do("regions", c, Top.e, 1, FALSE)
<1>1. agenda # <<>> /\ Top.op = "dispatch" /\ Kind[c] = "Concurrent" /\ Push(<<g>>) /\ Quiet
  BY DEF DispatchConcurrent, Running, Top
<1>2. c \in States /\ Top.op \in CallerOps /\ Top.op \notin BottomOps
  BY <1>1, StackTop DEF FrameOK, CallerOps, BottomOps
<1>3. Top = agenda[1] /\ Top.e = Null /\ Looping(agenda) /\ Answers(agenda, 1)
  BY <1>1, <1>2, TopFacts
<1>4. g \in Task /\ g.op = "regions" /\ g.e = Null /\ g.x = c /\ g.k = 1 /\ g.op \in CallerOps
  <2>1. "regions" \in Ops /\ c \in States \cup Trans
    BY <1>2 DEF Ops
  <2>2. g \in Task
    BY <1>1, <2>1, StackTop, DoTask
  <2> QED BY <1>3, <2>2 DEF Do, CallerOps
<1> HIDE DEF g
<1>5. Calm(Undone, agenda, ret)
  BY <1>1, <1>3 DEF AtTop, OnWay, ReturnOps, IsPseudo, PseudoKinds, HistoryKinds
<1>6. AnswerDone(Undone, g)
  <2>1. Regions[c] \in Seq(States)
    BY <1>2, ChartAssumption
  <2>2. \A j \in DOMAIN Regions[c] : ~(j < 1)
    BY <2>1
  <2> QED BY <1>4, <2>2 DEF AnswerDone, RegionsDone
<1>7. agenda' = <<g>> \o Tail(agenda) /\ md' = md /\ param' = param
  BY <1>1 DEF Push, Quiet, control
<1> QED BY <1>1, <1>2, <1>3, <1>4, <1>5, <1>6, <1>7, CalmOne

LEMMA DispatchRegionsRun ==
    ASSUME StructuredChart, Inv, Configured(md, agenda), FlowOK(md, agenda, ret),
           DispatchRegions, AtTop
    PROVE  RunOKNext
<1> DEFINE c == Top.x
           k == Top.k
           dispatched == Top.b \/ ret
           d == Do("dispatch", Regions[c][k], Top.e, 1, FALSE)
           g == Do("regions", c, Top.e, k + 1, dispatched)
           ready == MayComplete(c, Null)
<1>1. agenda # <<>> /\ Top.op = "regions"
  BY DEF DispatchRegions, Running, Top
<1>2. /\ c \in States /\ Top.op \in CallerOps /\ Top.op \in ReturnOps /\ Top.op \notin BottomOps
      /\ k \in Nat /\ dispatched \in BOOLEAN
  BY <1>1, StackTop DEF FrameOK, CallerOps, ReturnOps, BottomOps
<1>3. /\ Top = agenda[1] /\ Len(agenda) > 1 /\ Top.e = Null /\ agenda[2].op \in ReturnOps
      /\ Looping(agenda) /\ Answers(agenda, 1)
  BY <1>1, <1>2, TopFacts
<1>4. Kind[c] = "Concurrent" /\ k > 0
  BY <1>1, BelowTop DEF WaitingOK
<1>5. ~dispatched => c \in md.active
  BY <1>1, <1>3 DEF FlowOK, TopOK, ResultOK
<1>6. ~dispatched => /\ Calm(Undone, agenda, ret)
                     /\ WaitsDone(Undone, ElementsOf(Tail(agenda)))
                     /\ RegionsDone(Undone, Top, k)
  <2>1. ~dispatched => Calm(Undone, agenda, ret)
    BY <1>1, <1>3 DEF AtTop, OnWay
  <2> QED BY <1>1, <1>3, <2>1 DEF Calm, AnswerDone
<1>7. CASE k \in DOMAIN Regions[c] /\ Push(<<d, g>>) /\ Quiet
  <2>1. /\ g \in Task /\ g.op = "regions" /\ g.e = Null /\ g.x = c /\ g.k = k + 1
        /\ g.b = dispatched
    <3>1. "regions" \in Ops /\ c \in States \cup Trans /\ k + 1 \in Nat
      BY <1>2 DEF Ops
    <3>2. g \in Task
      BY <1>1, <1>2, <3>1, StackTop, DoTask
    <3> QED BY <1>3, <3>2 DEF Do
  <2>2. d \in Task /\ d.op = "dispatch" /\ d.e = Null
    <3>1. Regions[c][k] \in States
      BY <1>2, <1>4, <1>7, RegionFacts
    <3>2. Good(d)
      BY <1>1, <3>1, StackTop, DispatchDo
    <3> QED BY <1>3, <3>2 DEF Good, Do
  <2>3. agenda' = <<d, g>> \o Tail(agenda) /\ md' = md /\ param' = param
    BY <1>7 DEF Push, Quiet, control
  <2> HIDE DEF d, g
  <2>4. CASE dispatched
    <3>1. g.b
      BY <2>1, <2>4, Zenon
    <3> QED BY <1>1, <1>2, <2>1, <2>2, <2>3, <3>1, WayLast
  <2>5. CASE ~dispatched
    <3>1. g.k - 1 = k
      BY <1>2, <2>1
    <3>2. WaitsDone(Undone, {g})
      BY <1>6, <2>1, <2>5, <3>1 DEF WaitsDone, RegionsDone
    <3> QED BY <1>1, <1>2, <1>3, <1>6, <2>1, <2>2, <2>3, <2>5, <3>2, CalmTwo
  <2> QED BY <2>4, <2>5
<1>8. CASE (dispatched \/ c \notin md.active) /\ Return(dispatched)
  <2>1. dispatched
    BY <1>5, <1>8
  <2> QED BY <1>1, <1>2, <1>3, <1>8, <2>1, TrueRun DEF Return
<1>9. CASE k \notin DOMAIN Regions[c] /\ ~dispatched /\ FireFirst(c, ready)
  <2>1. ready \subseteq DOMAIN Outgoing[c]
    BY ReadyPositions
  <2>2. CASE /\ ready = {} /\ agenda' = Tail(agenda) /\ md' = md /\ param' = param
    <3>1. ASSUME NEW j \in DOMAIN Regions[c], NEW t \in Undone PROVE ~Above(Regions[c][j], Source[t])
      <4>1. Regions[c] \in Seq(States)
        BY <1>2, ChartAssumption
      <4>2. j < k
        BY <1>2, <1>4, <1>9, <4>1
      <4> QED BY <1>6, <1>9, <4>2 DEF RegionsDone
    <3>2. ASSUME NEW t \in Undone, Above(c, Source[t]) PROVE FALSE
      <4>1. CASE Source[t] = c
        <5>1. PICK i \in Ready(c, Null) : Outgoing[c][i] = t
          BY <4>1, PendingReady
        <5>2. Finished(md, c)
          BY <1>4, <4>1, UndoneSource DEF Pending
        <5> QED BY <2>2, <5>1, <5>2 DEF MayComplete
      <4>2. CASE Source[t] # c
        <5>1. PICK r \in States \ {Root} : Parent[r] = c /\ Above(r, Source[t])
          BY <1>2, <3>2, <4>2, AboveCases
        <5>2. PICK j \in DOMAIN Regions[c] : r = Regions[c][j]
          BY <1>4, <5>1, Family DEF ElementsOf
        <5> QED BY <3>1, <5>1, <5>2
      <4> QED BY <4>1, <4>2
    <3>3. c # Root /\ ~IsPseudo(c)
      BY <1>4, ChartAssumption DEF IsPseudo, PseudoKinds, HistoryKinds
    <3> QED BY <1>1, <1>2, <1>3, <1>5, <1>6, <1>9, <2>2, <3>2, <3>3, FalseRun
  <2> QED BY <1>1, <1>2, <1>3, <1>9, <2>1, <2>2, FireRun
<1>10. \/ k \in DOMAIN Regions[c] /\ Push(<<d, g>>) /\ Quiet
       \/ (dispatched \/ c \notin md.active) /\ Return(dispatched)
       \/ k \notin DOMAIN Regions[c] /\ ~dispatched /\ FireFirst(c, MayComplete(c, Top.e))
  BY DEF DispatchRegions
<1> QED BY <1>3, <1>7, <1>8, <1>9, <1>10

LEMMA TopRun ==
    ASSUME StructuredChart, Inv, Configured(md, agenda), FlowOK(md, agenda, ret),
           InnerStep, WayOn, NothingOverlooked, AtTop
    PROVE  RunOKNext
<1>1. agenda # <<>> /\ Top = agenda[1]
  BY InnerTop, StackTop
<1>2. Top.op \notin WorkOps
  BY <1>1 DEF AtTop, OnWay, Calm, WorkOps, ReturnOps, CallerOps
<1>3. ~(Activate \/ Entered \/ RunRegion \/ DeactivateHierarchical
        \/ DeactivateConcurrent \/ Leave \/ RunAction)
  BY <1>2 DEF Activate, Entered, RunRegion, DeactivateHierarchical, DeactivateConcurrent,
     Leave, RunAction, Running, Top, WorkOps
<1> QED BY <1>3, DispatchForkStep, DispatchStateRun, DispatchHierarchicalRun,
           DispatchSubstateRun, BubbleRun, DispatchConcurrentRun, DispatchRegionsRun,
           EnterRun DEF InnerStep

LEMMA InnerRun ==
    ASSUME StructuredChart, Inv, Configured(md, agenda), FlowOK(md, agenda, ret),
           InnerStep, WayOn, NothingOverlooked, RunOK(md, Undone, agenda, ret)
    PROVE  RunOKNext
<1>1. agenda \in Seq(Task)
  BY InnerTop, StackTop
<1>2. CASE ~Looping(agenda)
  BY <1>2, QuietRun
<1>3. CASE Looping(agenda) /\ \E j \in DOMAIN agenda : Answers(agenda, j) /\ OnWay(md, agenda, j, ret)
  <2>1. PICK j \in DOMAIN agenda : Answers(agenda, j) /\ OnWay(md, agenda, j, ret)
    BY <1>3
  <2>2. CASE j = 1
    BY <1>3, <2>1, <2>2, TopRun DEF AtTop
  <2>3. CASE j # 1
    <3>1. j \in 2 .. Len(agenda)
      BY <1>1, <2>3
    <3> QED BY <2>1, <3>1, BelowRun
  <2> QED BY <2>2, <2>3
<1>4. CASE Looping(agenda) /\ Answers(agenda, 1) /\ Calm(Undone, agenda, ret)
  BY <1>4, TopRun DEF AtTop
<1> QED BY <1>2, <1>3, <1>4 DEF RunOK

(***************************************************************************)
(* Statechart::dispatch and the calls of the user.                         *)
(***************************************************************************)
LEMMA NotLooping ==
    ASSUME agenda' = <<>> \/ (agenda' \in Seq(Task) /\ \A i \in DOMAIN agenda' :
              agenda'[i].op # "loop" \/ agenda'[i].k = 0)
    PROVE  RunOKNext
<1>1. ~Looping(agenda')
  <2>1. SUFFICES ASSUME agenda' # <<>>, agenda' \in Seq(Task) PROVE Len(agenda') \in DOMAIN agenda'
    BY DEF Looping
  <2> QED BY <2>1
<1> QED BY <1>1 DEF RunOKNext, RunOK

LEMMA LoopRun ==
    ASSUME StructuredChart, Inv, Configured(md, agenda), FlowOK(md, agenda, ret),
           Loop, RunOK(md, Undone, agenda, ret)
    PROVE  RunOKNext /\ (outcome' = "done" => Undone' = {})
<1>1. /\ agenda # <<>> /\ Top.op = "loop" /\ md' = md /\ param' = param
      /\ Top.k \in Nat /\ Top = agenda[1]
  BY LoopPushes
<1>2. Undone' = Undone
  BY <1>1, SameUndone
<1>3. CASE agenda' = <<>> /\ outcome' = "InfiniteLoop"
  BY <1>3, NotLooping
<1>4. ASSUME NEW d \in Task, NEW g \in Task, outcome' = "running",
             agenda' = <<d, g>>, d.op = "dispatch", d.e = Null, g.op = "loop"
      PROVE  RunOKNext
  <2>1. /\ Len(agenda') = 2 /\ DOMAIN agenda' = 1 .. 2 /\ agenda'[1] = d
        /\ Tail(agenda') = <<g>>
    BY <1>4
  <2>2. ElementsOf(Tail(agenda')) = {g}
    <3>1. DOMAIN <<g>> = {1} /\ <<g>>[1] = g
      OBVIOUS
    <3> QED BY <2>1, <3>1 DEF ElementsOf
  <2>3. Answers(agenda', 1)
    <3>1. 1 \in 1 .. 2 /\ \A i \in 1 .. 2 - 1 : i = 1
      OBVIOUS
    <3>2. \A i \in 1 + 1 .. 2 - 1 : FALSE
      OBVIOUS
    <3> QED BY <1>4, <2>1, <3>1, <3>2 DEF Answers
  <2>4. Calm(Undone', agenda', ret')
    BY <1>4, <2>1, <2>2 DEF Calm, CallerOps, WaitsDone, AnswerDone
  <2> QED BY <2>3, <2>4 DEF RunOKNext, RunOK
<1>5. CASE /\ (Top.k # 0 /\ ~ret) \/ md.current[Root] = Null
           /\ agenda' = <<>> /\ outcome' = "done"
  <2>1. Top.k > 0 /\ ~ret
    BY <1>1, <1>5, RootCurrent
  <2>2. Len(agenda) = 1 /\ DOMAIN agenda = {1}
    <3>1. StackOK(agenda) /\ agenda \in Seq(Task)
      BY <1>1, StackTop
    <3>2. 1 \in DOMAIN agenda
      BY <1>1, <3>1
    <3>3. Len(agenda) = 1
      BY <1>1, <3>1, <3>2 DEF StackOK, BottomOps
    <3> QED BY <3>1, <3>3
  <2>3. Looping(agenda)
    BY <1>1, <2>1, <2>2 DEF Looping
  <2>4. ~OnWay(md, agenda, 1, ret)
    BY <1>1, <2>1 DEF OnWay
  <2>5. Calm(Undone, agenda, ret)
    BY <2>2, <2>3, <2>4 DEF RunOK
  <2>6. Undone = {}
    BY <1>1, <2>1, <2>5 DEF Calm, AnswerDone
  <2> QED BY <1>2, <1>5, <2>6, NotLooping
<1> QED BY <1>3, <1>4, <1>5, LoopPushes

LEMMA ChartRun ==
    ASSUME Inv, DispatchChart
    PROVE  RunOKNext
<1>1. ASSUME NEW d \in Task, NEW g \in Task, agenda' = <<d, g>>, d.op = "dispatch", g.k = 0
      PROVE  RunOKNext
  <2>1. agenda' \in Seq(Task) /\ \A i \in DOMAIN agenda' : agenda'[i] = d \/ agenda'[i] = g
    BY <1>1
  <2> QED BY <1>1, <2>1, NotLooping
<1>2. ASSUME NEW g \in Task, agenda' = <<g>>, g.k = 0 PROVE RunOKNext
  <2>1. agenda' \in Seq(Task) /\ \A i \in DOMAIN agenda' : agenda'[i] = g
    BY <1>2
  <2> QED BY <1>2, <2>1, NotLooping
<1> QED BY <1>1, <1>2, DispatchChartPushes

LEMMA InitRun == Init => RunInv
BY DEF Init, RunInv, RunOK, Looping

LEMMA NextRun ==
    ASSUME StructuredChart, Inv, Inv', ConfigInv, FlowInv, RunInv, WayOn,
           NothingOverlooked, [Next]_vars
    PROVE  RunInv'
<1> SUFFICES ASSUME Trusted' PROVE RunOKNext /\ (outcome' = "done" => Undone' = {})
  BY DEF RunInv, RunOKNext
<1>1. CASE UserCall
  <2>1. /\ outcome' = "running"
        /\ \A i \in DOMAIN agenda' : agenda'[i].op \in {"chart", "activate", "restored"}
    BY <1>1, UserReport
  <2>2. agenda' \in Seq(Task)
    BY Base DEF Inv, ControlOK
  <2> QED BY <2>1, <2>2, NotLooping
<1>2. CASE Step
  <2>1. Trusted /\ ~ThrowAction
    BY <1>2, TrustedStep
  <2>2. /\ Configured(md, agenda) /\ FlowOK(md, agenda, ret)
        /\ RunOK(md, Undone, agenda, ret)
    BY <2>1 DEF ConfigInv, FlowInv, Flow, RunInv
  <2>3. CASE Loop
    BY <2>2, <2>3, LoopRun
  <2>4. CASE ~Loop
    <3>1. outcome' # "done"
      BY <1>2, <2>4, StepOutcome
    <3>2. CASE InnerStep
      BY <2>2, <3>1, <3>2, InnerRun
    <3>3. CASE DispatchChart
      BY <3>1, <3>3, ChartRun
    <3>4. CASE Restored
      <4>1. agenda # <<>> /\ Top.op \in BottomOps /\ agenda' = Tail(agenda)
        BY <3>4 DEF Restored, Running, Top, BottomOps, Return
      <4>2. agenda' = <<>>
        BY <4>1, BottomAlone DEF Inv
      <4> QED BY <3>1, <4>2, NotLooping
    <3> QED BY <1>2, <2>1, <2>4, <3>2, <3>3, <3>4 DEF Step, InnerStep
  <2> QED BY <2>3, <2>4
<1>3. CASE UNCHANGED vars
  <2>1. md' = md /\ param' = param /\ agenda' = agenda /\ ret' = ret /\ outcome' = outcome
        /\ tainted' = tainted
    BY <1>3 DEF vars
  <2>2. Undone' = Undone
    BY <2>1, SameUndone
  <2>3. Trusted
    BY <2>1 DEF Trusted
  <2>4. RunOK(md, Undone, agenda, ret) /\ (outcome = "done" => Undone = {})
    BY <2>3 DEF RunInv
  <2> QED BY <2>1, <2>2, <2>4 DEF RunOKNext
<1> QED BY <1>1, <1>2, <1>3 DEF Next

\* Statechart.cpp:178-190, HierarchicalState.cpp:106, ConcurrentState.cpp:118:
\* a call of the user that has ended leaves no enabled transition without a
\* trigger behind, whatever events, guards, restarts and restored states led
\* there.  The one exception is a composite in which nullptr has reached the
\* final state: it may answer false although something has fired.
THEOREM RunsToCompletion ==
    ASSUME StructuredChart, RestorableInOrStates, Enterable, RestorableEnterable
    PROVE  Spec /\ []WayOn /\ []NothingOverlooked => []RunToCompletion
<1>1. RunInv => RunToCompletion
  BY DEF RunInv, RunToCompletion, AtRest, Trusted, Undone
<1>2. Init => RunInv
  BY InitRun
<1>3. Inv /\ Inv' /\ ConfigInv /\ FlowInv /\ RunInv /\ WayOn /\ NothingOverlooked
        /\ [Next]_vars => RunInv'
  BY NextRun
<1>4. Spec => []Inv
  BY Invariant
<1>5. Spec => []ConfigInv
  BY ConfigurationInvariant
<1>6. Spec /\ []WayOn => []FlowInv
  BY FlowInvariant
<1> QED BY <1>1, <1>2, <1>3, <1>4, <1>5, <1>6, PTL DEF Spec
=============================================================================
