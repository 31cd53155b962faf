--------------------------- MODULE Agenda_proofs ---------------------------
(***************************************************************************)
(* Proofs about the configurations Interpreter reaches on the structured   *)
(* charts of ChartGraph: what is active, what currentState points to and   *)
(* which pending calls will repair what a transition has taken apart.      *)
(***************************************************************************)
EXTENDS Interpreter_proofs, WellFoundedInduction

(***************************************************************************)
(* Paths.                                                                  *)
(***************************************************************************)
\* The path of a state ends at the state; it is one of its own "contexts".
LEMMA PathEnd ==
    ASSUME NEW s \in States
    PROVE  /\ Path[s] \in Seq(States) /\ Depth(s) \in Nat \ {0}
           /\ DOMAIN Path[s] = 1 .. Depth(s)
           /\ Path[s][Depth(s)] = s /\ Path[s][1] = Root
           /\ \A i \in 1 .. Depth(s) : Path[s][i] \in States
           /\ Above(s, s)
<1>1. Path[s] \in Seq(States) /\ Path[s] # <<>>
  BY ChartAssumption, ChartPaths
<1>2. DOMAIN Path[s] = 1 .. Depth(s) /\ Depth(s) \in Nat \ {0}
  BY <1>1 DEF Depth
<1>3. Path[s][Depth(s)] = s /\ Path[s][1] = Root
  BY ChartPaths DEF Depth
<1>4. \A i \in 1 .. Depth(s) : Path[s][i] \in States
  BY <1>1, <1>2
<1> QED BY <1>1, <1>2, <1>3, <1>4 DEF Above, ElementsOf

\* The states on a path are those above the state, at their own depth.
LEMMA PathIndex ==
    ASSUME NEW s \in States, NEW i \in 1 .. Depth(s)
    PROVE  /\ Depth(Path[s][i]) = i
           /\ Above(Path[s][i], s)
           /\ \A j \in 1 .. i : Path[Path[s][i]][j] = Path[s][j]
<1>1. Path[s] \in Seq(States) /\ DOMAIN Path[s] = 1 .. Depth(s) /\ Depth(s) \in Nat
  BY PathEnd
<1>2. Path[Path[s][i]] = SubSeq(Path[s], 1, i)
  BY <1>1, ChartPaths
<1>3. /\ Len(SubSeq(Path[s], 1, i)) = i
      /\ \A j \in 1 .. i : SubSeq(Path[s], 1, i)[j] = Path[s][j]
  BY <1>1 DEF Depth
<1> QED BY <1>1, <1>2, <1>3 DEF Above, ElementsOf, Depth

\* A state is above another exactly if it is the entry at its depth.
LEMMA AboveIndex ==
    ASSUME NEW s \in States, NEW a
    PROVE  Above(a, s) <=> (\E i \in 1 .. Depth(s) : Path[s][i] = a)
BY PathEnd DEF Above, ElementsOf

LEMMA AboveDepth ==
    ASSUME NEW s \in States, NEW a, Above(a, s)
    PROVE  /\ a \in States /\ Depth(a) \in 1 .. Depth(s)
           /\ Path[s][Depth(a)] = a
           /\ Depth(a) = Depth(s) => a = s
<1>1. PICK i \in 1 .. Depth(s) : Path[s][i] = a
  BY AboveIndex
<1>2. Depth(a) = i
  BY <1>1, PathIndex
<1> QED BY <1>1, <1>2, PathEnd

\* Of two states above a third, the shallower is above the deeper.
LEMMA AboveChain ==
    ASSUME NEW s \in States, NEW a, NEW b, Above(a, s), Above(b, s),
           Depth(a) <= Depth(b)
    PROVE  Above(a, b)
<1>1. /\ a \in States /\ Depth(a) \in 1 .. Depth(s) /\ Path[s][Depth(a)] = a
      /\ b \in States /\ Depth(b) \in 1 .. Depth(s) /\ Path[s][Depth(b)] = b
  BY AboveDepth
<1>2. Depth(a) \in 1 .. Depth(b) /\ Depth(s) \in Nat
  BY <1>1, PathEnd
<1>3. Path[b][Depth(a)] = a
  BY <1>1, <1>2, PathIndex
<1> QED BY <1>1, <1>2, <1>3, AboveIndex

LEMMA AboveTransitive ==
    ASSUME NEW s \in States, NEW a, NEW b, Above(a, b), Above(b, s)
    PROVE  Above(a, s)
<1>1. /\ b \in States /\ Depth(b) \in 1 .. Depth(s) /\ Path[s][Depth(b)] = b
  BY AboveDepth
<1>2. /\ a \in States /\ Depth(a) \in 1 .. Depth(b) /\ Path[b][Depth(a)] = a
  BY <1>1, AboveDepth
<1>3. Depth(a) \in 1 .. Depth(s) /\ Depth(s) \in Nat /\ Depth(b) \in Nat
  BY <1>1, <1>2, PathEnd
<1>4. Path[s][Depth(a)] = a
  BY <1>1, <1>2, PathIndex
<1> QED BY <1>3, <1>4, AboveIndex

\* The context of a state: one level up, and everything above the state but
\* itself is above the context.
LEMMA ParentPath ==
    ASSUME NEW s \in States, s # Root
    PROVE  /\ Parent[s] \in States /\ Parent[s] # s
           /\ Depth(Parent[s]) = Depth(s) - 1
           /\ Depth(s) \in Nat /\ Depth(Parent[s]) \in Nat \ {0}
           /\ Above(Parent[s], s)
           /\ \A a : Inside(s, a) <=> Above(a, Parent[s])
<1>1. /\ Depth(s) \in Nat \ {0} /\ Path[s][Depth(s)] = s /\ Path[s][1] = Root
      /\ DOMAIN Path[s] = 1 .. Depth(s)
  BY PathEnd
<1>2. Depth(s) > 1 /\ Depth(s) - 1 \in 1 .. Depth(s)
  BY <1>1
<1>3. Parent[s] = Path[s][Depth(s) - 1]
  <2>1. \A i \in DOMAIN Path[s] : i > 1 => Parent[Path[s][i]] = Path[s][i - 1]
    BY ChartPaths
  <2>2. Parent[Path[s][Depth(s)]] = Path[s][Depth(s) - 1]
    BY <1>1, <1>2, <2>1
  <2> QED BY <1>1, <2>2
<1>4. Depth(Parent[s]) = Depth(s) - 1 /\ Above(Parent[s], s)
  BY <1>2, <1>3, PathIndex
<1>5. Parent[s] \in States
  BY <1>2, <1>3, PathEnd
<1>6. ASSUME NEW a PROVE Inside(s, a) <=> Above(a, Parent[s])
  <2>1. ASSUME Inside(s, a) PROVE Above(a, Parent[s])
    <3>1. Above(a, s) /\ a # s
      BY <2>1 DEF Inside
    <3>2. Depth(a) \in 1 .. Depth(s) /\ Depth(a) # Depth(s)
      BY <3>1, AboveDepth
    <3>3. Depth(a) <= Depth(Parent[s])
      BY <1>1, <1>4, <3>2
    <3> QED BY <1>4, <3>1, <3>3, AboveChain
  <2>2. ASSUME Above(a, Parent[s]) PROVE Inside(s, a)
    <3>1. Above(a, s)
      BY <1>4, <2>2, AboveTransitive
    <3>2. Depth(a) \in 1 .. Depth(s) - 1
      BY <1>4, <1>5, <2>2, AboveDepth
    <3> QED BY <1>1, <3>1, <3>2 DEF Inside
  <2> QED BY <2>1, <2>2
<1> QED BY <1>1, <1>2, <1>4, <1>5, <1>6

LEMMA RootPath ==
    /\ Depth(Root) = 1 /\ Root \in States
    /\ \A a : Above(a, Root) <=> a = Root
    /\ \A a : ~Inside(Root, a)
    /\ \A s \in States : Above(Root, s)
<1>1. Root \in States
  BY ChartAssumption
<1>2. \A s \in States : Above(Root, s)
  BY PathEnd, AboveIndex
<1>3. Depth(Root) = 1
  <2>1. Path[Root][1] = Root /\ 1 \in 1 .. Depth(Root)
    BY <1>1, PathEnd
  <2> QED BY <1>1, <2>1, PathIndex
<1>4. \A a : Above(a, Root) <=> a = Root
  BY <1>1, <1>2, <1>3, AboveDepth
<1> QED BY <1>1, <1>2, <1>3, <1>4 DEF Inside

\* Inside is a strict order, and what is inside a child is inside its parent.
LEMMA InsideOrder ==
    ASSUME NEW s \in States, NEW a, NEW b
    PROVE  /\ ~Inside(s, s)
           /\ Inside(s, a) => a \in States /\ Depth(a) < Depth(s) /\ ~Inside(a, s)
           /\ Inside(s, a) /\ Inside(a, b) => Inside(s, b)
           /\ Inside(s, a) /\ Above(b, a) => Inside(s, b)
           /\ Above(a, s) /\ Inside(a, b) => Inside(s, b)
<1>0. Depth(s) \in Nat
  BY PathEnd
<1>1. ASSUME Inside(s, a) PROVE a \in States /\ Depth(a) < Depth(s) /\ ~Inside(a, s)
  <2>1. a \in States /\ Depth(a) \in 1 .. Depth(s) /\ Depth(a) # Depth(s)
    BY <1>1, AboveDepth DEF Inside
  <2>2. ASSUME Inside(a, s) PROVE FALSE
    <3>1. Depth(s) \in 1 .. Depth(a)
      BY <2>1, <2>2, AboveDepth DEF Inside
    <3> QED BY <1>0, <2>1, <3>1
  <2> QED BY <1>0, <2>1, <2>2
<1>2. ASSUME Inside(s, a), Above(b, a) PROVE Inside(s, b)
  <2>1. Above(b, s)
    BY <1>2, AboveTransitive DEF Inside
  <2>2. a \in States /\ Depth(a) < Depth(s)
    BY <1>1, <1>2
  <2>3. Depth(b) \in 1 .. Depth(a) /\ Depth(a) \in Nat
    BY <1>2, <2>2, AboveDepth, PathEnd
  <2>4. s # b
    BY <1>0, <2>2, <2>3
  <2> QED BY <2>1, <2>4 DEF Inside
<1>3. ASSUME Above(a, s), Inside(a, b) PROVE Inside(s, b)
  <2>1. a \in States /\ Depth(a) \in 1 .. Depth(s)
    BY <1>3, AboveDepth
  <2>2. Above(b, s)
    BY <1>3, AboveTransitive DEF Inside
  <2>3. Depth(b) \in 1 .. Depth(a) /\ Depth(b) # Depth(a)
    BY <1>3, <2>1, AboveDepth DEF Inside
  <2>4. s # b
    BY <1>0, <2>1, <2>3
  <2> QED BY <2>2, <2>4 DEF Inside
<1> QED BY <1>1, <1>2, <1>3 DEF Inside

\* Two states above a third at the same depth are the same.
LEMMA AboveUnique ==
    ASSUME NEW s \in States, NEW a, NEW b, Above(a, s), Above(b, s),
           Depth(a) = Depth(b)
    PROVE  a = b
BY AboveDepth

(***************************************************************************)
(* What the pending calls promise.                                         *)
(***************************************************************************)
\* A history pseudo-state may stay active after it has been left through the
\* states it recorded; every other active state is where it should be.
Solid(s) == ~IsHistory(s)

\* f will leave c.
Exits(f, c) == f.op \in {"deactivate", "leave"} /\ f.x = c

\* The state f will activate next; a history has one recorded per level.
RecordedAt(m, history, k) ==
    {s \in m.stateset[history] : Depth(s) = Depth(history) + k - 1}

Enters(m, f) ==
    CASE f.op = "activate" -> {f.x}
      [] f.op = "enter" -> {Activates[f.x][i] : i \in {f.k} \cap DOMAIN Activates[f.x]}
      [] f.op = "entered" /\ IsHistory(f.x) -> RecordedAt(m, f.x, f.k)
      [] OTHER -> {}

EntersChild(m, f, h) == \E s \in Enters(m, f) : s # Root /\ Parent[s] = h

\* f will make the current state of h an active one again, or leave h.
Repairs(m, f, h) == Exits(f, h) \/ EntersChild(m, f, h)

\* f will activate the k-th region of c.
StartsRegion(f, c, k) ==
    \/ f.op = "entered" /\ f.x = c /\ f.k <= k
    \/ f.op = "activate" /\ f.x = Regions[c][k]

\* The whole of the call f happens inside c.
RunsInside(f, c) ==
    \/ f.op = "call"
    \/ f.op = "enter" /\ Inside(Source[f.x], c)
    \/ f.op \notin {"call", "enter"} /\ Inside(f.x, c)

(***************************************************************************)
(* The runtime map m while the calls in F are pending.                     *)
(***************************************************************************)
RecordsOK(m) ==
    /\ \A s \in m.present : s \in m.active \/ IsHistory(s)
    /\ \A s \in States \ m.present : m.current[s] = Null

ContextsOK(m) ==
    \A s \in m.active : Solid(s) => \A a \in States : Above(a, s) => a \in m.active

CurrentOK(m) ==
    \A s \in m.active :
        (Solid(s) /\ s # Root /\ OrState(Parent[s])) => m.current[Parent[s]] = s

CurrentActive(m, F) ==
    \A h \in States : (OrState(h) /\ m.current[h] # Null) =>
        m.current[h] \in m.active \/ \E f \in F : Repairs(m, f, h)

RegionsActive(m, F) ==
    \A c \in m.active : Kind[c] = "Concurrent" =>
        \A k \in DOMAIN Regions[c] :
            \/ Regions[c][k] \in m.active
            \/ \E f \in F : StartsRegion(f, c, k) \/ Exits(f, c)

\* What a history pseudo-state has recorded: a chain of or-states below its
\* context, one state per level.
HistoryOK(m, history) ==
    /\ \A s \in m.stateset[history] :
          /\ Inside(s, Parent[history])
          /\ Depth(s) > Depth(history) =>
                Parent[s] \in m.stateset[history] /\ Kind[Parent[s]] = "Hierarchical"
    /\ \A s, t \in m.stateset[history] : Depth(s) = Depth(t) => s = t

StatesetsOK(m) ==
    \A s \in States : /\ Kind[s] = "Concurrent" => m.stateset[s] = {}
                      /\ IsHistory(s) => HistoryOK(m, s)

MapCond(m, F) ==
    /\ RecordsOK(m) /\ ContextsOK(m) /\ CurrentOK(m) /\ StatesetsOK(m)
    /\ CurrentActive(m, F) /\ RegionsActive(m, F)

(***************************************************************************)
(* Each pending call f among the calls in F.                               *)
(***************************************************************************)
\* A state is left because its context is, or makes room for its sibling.
LeavingOK(m, F, f) ==
    f.op \in {"deactivate", "leave"} =>
        \E g \in F : \/ Exits(g, Parent[f.x])
                     \/ OrState(Parent[f.x]) /\ Repairs(m, g, Parent[f.x])

\* The exit action of a context runs after those of its substates.
SubstatesFirst(m, F, f) ==
    f.op = "leave" =>
        \A c \in m.active : (Solid(c) /\ c # Root /\ Parent[c] = f.x) =>
            \E g \in F : Exits(g, c)

\* A state is entered into an active context, and no sibling of it in an
\* or-state stays active.
EnteringOK(m, F, f) ==
    \A s \in Enters(m, f) \ {Root} :
        /\ \/ Parent[s] \in m.active
           \/ \E g \in F : g.op = "activate" /\ g.x = Parent[s]
        /\ OrState(Parent[s]) =>
              \A c \in m.active : (Solid(c) /\ c # Root /\ Parent[c] = Parent[s]) =>
                  \/ c = s /\ IsPseudo(s)
                  \/ \E g \in F : Exits(g, c)

CompositeOps == {"substate", "bubble", "regions"}

\* There are no forks; an and-state stays active until its regions run.
CallOK(m, f) ==
    /\ f.op # "forkEach"
    /\ f.op \in CompositeOps => Kind[f.x] \in {"Hierarchical", "Concurrent"}
    /\ f.op = "entered" => /\ f.k \in Nat \ {0}
                           /\ Kind[f.x] = "Concurrent" => f.x \in m.active

FrameCond(m, F, f) ==
    /\ LeavingOK(m, F, f) /\ SubstatesFirst(m, F, f)
    /\ EnteringOK(m, F, f) /\ CallOK(m, f)

(***************************************************************************)
(* Which calls may be above which.                                         *)
(***************************************************************************)
AboveLeaving(f, g) ==
    g.op \in {"deactivate", "leave"} =>
        \/ f.op = "exit"
        \/ f.op \in {"deactivate", "leave"} /\ ~Inside(g.x, f.x)

AboveEntering(m, f, g) ==
    \A s \in Enters(m, g) :
        \/ f.op \in {"call", "exit"}
        \/ f.op \in {"deactivate", "leave"} /\ Depth(f.x) >= Depth(s)
        \/ f.op \in {"activate", "entered"} /\ OrState(f.x) /\ Depth(f.x) < Depth(s)

AboveEntered(f, g) ==
    g.op = "entered" =>
        /\ Kind[g.x] = "Concurrent" => RunsInside(f, g.x)
        /\ IsHistory(g.x) =>
              \/ f.op = "call"
              \/ f.op \in {"activate", "entered"} /\ Inside(f.x, Parent[g.x])
              \/ \E c \in States : /\ Kind[c] = "Concurrent" /\ Inside(c, Parent[g.x])
                                   /\ RunsInside(f, c)

MayRunAbove(m, f, g) ==
    AboveLeaving(f, g) /\ AboveEntering(m, f, g) /\ AboveEntered(f, g)

Ordered(m, stack) ==
    \A i, j \in DOMAIN stack : i < j => MayRunAbove(m, stack[i], stack[j])

Configured(m, stack) ==
    /\ MapCond(m, ElementsOf(stack))
    /\ \A f \in ElementsOf(stack) : FrameCond(m, ElementsOf(stack), f)
    /\ Ordered(m, stack)

\* No exception has cut a transition short.
Trusted == ~tainted \/ Throwing = {}
ConfigInv == Trusted => Configured(md, agenda)

(***************************************************************************)
(* The states a transition leaves and enters.                              *)
(***************************************************************************)
\* ctx is the innermost common context of the transition's two ends.
Connects(t, ctx) ==
    LET D == Deactivates[t]
        A == Activates[t]
    IN /\ ctx \in States /\ OrState(ctx) /\ Inside(Source[t], ctx)
       /\ \A c \in States : (Kind[c] = "Concurrent" /\ Inside(Source[t], c)) => Above(c, ctx)
       /\ D \in Seq(States \ {Root}) /\ Len(D) \in Nat \ {0} /\ D[1] = Source[t]
       /\ Parent[D[Len(D)]] = ctx
       /\ \A i \in 1 .. Len(D) :
             /\ Depth(D[i]) = Depth(ctx) + Len(D) + 1 - i /\ Inside(D[i], ctx)
             /\ Above(D[i], Source[t])
             /\ i < Len(D) => Parent[D[i]] = D[i + 1]
             /\ i > 1 => Kind[D[i]] = "Hierarchical"
       /\ A \in Seq(States \ {Root}) /\ Len(A) \in Nat \ {0}
       /\ Parent[A[1]] = ctx
       /\ \A i \in 1 .. Len(A) :
             /\ Depth(A[i]) = Depth(ctx) + i /\ Inside(A[i], ctx)
             /\ i > 1 => Parent[A[i]] = A[i - 1]
             /\ i < Len(A) => Kind[A[i]] = "Hierarchical"

\* One entry of a path below another one.
LEMMA PathStep ==
    ASSUME NEW s \in States, NEW i \in 1 .. Depth(s), NEW l \in 1 .. Depth(s), l < i
    PROVE  /\ Path[s][i] \in States \ {Root}
           /\ Parent[Path[s][i]] = Path[s][i - 1]
           /\ Depth(Path[s][i]) = i
           /\ Above(Path[s][i], s)
           /\ Inside(Path[s][i], Path[s][l])
<1>1. /\ Path[s][i] \in States /\ Path[s][l] \in States /\ DOMAIN Path[s] = 1 .. Depth(s)
      /\ Depth(s) \in Nat
  BY PathEnd
<1>2. /\ Depth(Path[s][i]) = i /\ Above(Path[s][i], s)
      /\ Depth(Path[s][l]) = l /\ Above(Path[s][l], s)
  BY PathIndex
<1>3. Path[s][i] # Root
  BY <1>1, <1>2, RootPath
<1>4. \A j \in DOMAIN Path[s] : j > 1 => Parent[Path[s][j]] = Path[s][j - 1]
  BY ChartPaths
<1>5. i \in DOMAIN Path[s] /\ i > 1
  BY <1>1
<1>6. Parent[Path[s][i]] = Path[s][i - 1]
  BY <1>4, <1>5
<1>7. l <= i /\ l # i
  BY <1>1
<1>8. Above(Path[s][l], Path[s][i]) /\ Path[s][i] # Path[s][l]
  BY <1>2, <1>7, AboveChain
<1> QED BY <1>1, <1>2, <1>3, <1>6, <1>8 DEF Inside

LEMMA Connected ==
    ASSUME NEW t \in Trans, BetweenOrStates(t)
    PROVE  \E ctx \in States : Connects(t, ctx)
<1> DEFINE src == Source[t]
           from == Path[src]
           D == Deactivates[t]
           A == Activates[t]
<1>1. src \in States /\ D \in Seq(States \ {Root}) /\ A \in Seq(States \ {Root})
  BY ChartAssumption
<1>2. PICK goal \in States, l \in DOMAIN from :
        LET to == Path[goal] IN
        /\ l < Len(from) /\ l < Len(to) /\ from[l] = to[l] /\ OrState(from[l])
        /\ Len(D) = Len(from) - l
        /\ \A i \in DOMAIN D : D[i] = from[Len(from) + 1 - i]
        /\ \A i \in l + 1 .. Len(from) - 1 : Kind[from[i]] = "Hierarchical"
        /\ Len(A) = Len(to) - l
        /\ \A i \in DOMAIN A : A[i] = to[l + i]
        /\ \A i \in l + 1 .. Len(to) - 1 : Kind[to[i]] = "Hierarchical"
  BY DEF BetweenOrStates
<1> DEFINE to == Path[goal]
           ctx == from[l]
<1>3. /\ DOMAIN from = 1 .. Depth(src) /\ Len(from) = Depth(src) /\ Depth(src) \in Nat \ {0}
      /\ DOMAIN to = 1 .. Depth(goal) /\ Len(to) = Depth(goal) /\ Depth(goal) \in Nat \ {0}
      /\ from[Depth(src)] = src
      /\ DOMAIN D = 1 .. Len(D) /\ DOMAIN A = 1 .. Len(A)
      /\ Len(D) \in Nat /\ Len(A) \in Nat
  BY <1>1, PathEnd DEF Depth
<1>4. /\ l \in 1 .. Depth(src) /\ l \in 1 .. Depth(goal) /\ l < Depth(src) /\ l < Depth(goal)
      /\ Len(D) = Depth(src) - l /\ Len(A) = Depth(goal) - l
  BY <1>2, <1>3
<1>5. ctx \in States /\ Depth(ctx) = l /\ Above(ctx, src) /\ OrState(ctx)
  BY <1>1, <1>2, <1>4, PathEnd, PathIndex
<1>6. Inside(src, ctx)
  <2>1. Depth(src) # l
    BY <1>4
  <2> QED BY <1>5, <2>1 DEF Inside
<1>7. ASSUME NEW c \in States, Kind[c] = "Concurrent", Inside(src, c)
      PROVE  Above(c, ctx)
  <2>1. Above(c, src) /\ Depth(c) \in 1 .. Depth(src) /\ from[Depth(c)] = c /\ Depth(c) # Depth(src)
    BY <1>1, <1>7, AboveDepth DEF Inside
  <2>2. Depth(c) \notin l + 1 .. Depth(src) - 1
    BY <1>2, <1>3, <1>7, <2>1
  <2>3. Depth(c) <= l
    BY <1>3, <1>4, <2>1, <2>2
  <2> QED BY <1>1, <1>5, <2>1, <2>3, AboveChain
<1>8. ASSUME NEW i \in 1 .. Len(D)
      PROVE  /\ Depth(D[i]) = Depth(ctx) + Len(D) + 1 - i /\ Inside(D[i], ctx)
             /\ Above(D[i], src)
             /\ i < Len(D) => Parent[D[i]] = D[i + 1]
             /\ i = Len(D) => Parent[D[i]] = ctx
             /\ i > 1 => Kind[D[i]] = "Hierarchical"
  <2> DEFINE n == Depth(src) + 1 - i
  <2>1. n \in 1 .. Depth(src) /\ l < n /\ D[i] = from[n]
    <3>1. i \in DOMAIN D /\ i <= Depth(src) - l /\ i >= 1 /\ i \in Nat
      BY <1>3, <1>4
    <3>2. D[i] = from[n]
      BY <1>2, <1>3, <3>1
    <3>3. n \in 1 .. Depth(src) /\ l < n
      BY <1>3, <1>4, <3>1
    <3> QED BY <3>2, <3>3
  <2>2. /\ Depth(D[i]) = n /\ Above(D[i], src) /\ Inside(D[i], ctx)
        /\ Parent[D[i]] = from[n - 1]
    BY <1>1, <1>4, <2>1, PathStep
  <2>3. n = Depth(ctx) + Len(D) + 1 - i
    BY <1>3, <1>4, <1>5
  <2>4. i < Len(D) => D[i + 1] = from[n - 1]
    <3>1. ASSUME i < Len(D) PROVE i + 1 \in DOMAIN D /\ Len(from) + 1 - (i + 1) = n - 1
      BY <1>3, <3>1
    <3> QED BY <1>2, <3>1
  <2>5. i = Len(D) => n - 1 = l
    BY <1>3, <1>4
  <2>6. i > 1 => n \in l + 1 .. Len(from) - 1
    BY <1>3, <2>1
  <2>7. i > 1 => Kind[D[i]] = "Hierarchical"
    BY <1>2, <2>1, <2>6
  <2> QED BY <2>2, <2>3, <2>4, <2>5, <2>7
<1>9. ASSUME NEW i \in 1 .. Len(A)
      PROVE  /\ Depth(A[i]) = Depth(ctx) + i /\ Inside(A[i], ctx)
             /\ i > 1 => Parent[A[i]] = A[i - 1]
             /\ i = 1 => Parent[A[i]] = ctx
             /\ i < Len(A) => Kind[A[i]] = "Hierarchical"
  <2> DEFINE n == l + i
  <2>1. n \in 1 .. Depth(goal) /\ l < n /\ A[i] = to[n]
    <3>1. i \in DOMAIN A /\ i <= Depth(goal) - l /\ i >= 1 /\ i \in Nat
      BY <1>3, <1>4
    <3>2. A[i] = to[n]
      BY <1>2, <3>1
    <3>3. n \in 1 .. Depth(goal) /\ l < n
      BY <1>3, <1>4, <3>1
    <3> QED BY <3>2, <3>3
  <2>2. /\ Depth(A[i]) = n /\ Inside(A[i], to[l]) /\ Parent[A[i]] = to[n - 1]
    BY <1>4, <2>1, PathStep
  <2>3. i > 1 => A[i - 1] = to[n - 1]
    <3>1. ASSUME i > 1 PROVE i - 1 \in DOMAIN A /\ l + (i - 1) = n - 1
      BY <1>3, <1>4, <3>1
    <3> QED BY <1>2, <3>1
  <2>4. i = 1 => n - 1 = l
    BY <1>3, <1>4
  <2>5. i < Len(A) => n \in l + 1 .. Len(to) - 1
    BY <1>3, <1>4
  <2>6. i < Len(A) => Kind[A[i]] = "Hierarchical"
    BY <1>2, <2>1, <2>5
  <2> QED BY <1>2, <1>5, <2>2, <2>3, <2>4, <2>6
<1>10. /\ Len(D) \in Nat \ {0} /\ Len(A) \in Nat \ {0} /\ Len(D) \in 1 .. Len(D)
       /\ 1 \in 1 .. Len(A) /\ 1 \in 1 .. Len(D)
  BY <1>3, <1>4
<1>11. D[1] = src
  <2>1. D[1] = from[Len(from) + 1 - 1]
    BY <1>2, <1>3, <1>10
  <2> QED BY <1>3, <2>1
<1>12. Parent[D[Len(D)]] = ctx /\ Parent[A[1]] = ctx
  BY <1>8, <1>9, <1>10
<1>13. \A i \in 1 .. Len(D) :
         /\ Depth(D[i]) = Depth(ctx) + Len(D) + 1 - i /\ Inside(D[i], ctx)
         /\ Above(D[i], src)
         /\ i < Len(D) => Parent[D[i]] = D[i + 1]
         /\ i > 1 => Kind[D[i]] = "Hierarchical"
  BY <1>8
<1>14. \A i \in 1 .. Len(A) :
         /\ Depth(A[i]) = Depth(ctx) + i /\ Inside(A[i], ctx)
         /\ i > 1 => Parent[A[i]] = A[i - 1]
         /\ i < Len(A) => Kind[A[i]] = "Hierarchical"
  BY <1>9
<1> HIDE DEF from, to, ctx
<1> QED BY <1>1, <1>5, <1>6, <1>7, <1>10, <1>11, <1>12, <1>13, <1>14 DEF Connects

(***************************************************************************)
(* Replacing the top call: what it promised must be taken over by the      *)
(* calls that replace it.                                                  *)
(***************************************************************************)
LEMMA PushFrames ==
    ASSUME NEW S, NEW q \in Seq(S), q # <<>>, NEW s \in Seq(S)
    PROVE  /\ ElementsOf(q) = {Head(q)} \cup ElementsOf(Tail(q))
           /\ ElementsOf(s \o Tail(q)) = ElementsOf(s) \cup ElementsOf(Tail(q))
           /\ ElementsOf(q) \subseteq S /\ ElementsOf(s) \subseteq S
           /\ s \o Tail(q) \in Seq(S)
<1> DEFINE r == s \o Tail(q)
<1>1. /\ r \in Seq(S) /\ Len(r) = Len(s) + Len(q) - 1
      /\ \A i \in 1 .. Len(r) : r[i] = IF i <= Len(s) THEN s[i] ELSE q[i - Len(s) + 1]
  BY PushElements
<1>2. /\ Tail(q) \in Seq(S) /\ Len(Tail(q)) = Len(q) - 1 /\ Len(q) \in Nat /\ Len(q) >= 1
      /\ \A i \in 1 .. Len(q) - 1 : Tail(q)[i] = q[i + 1]
      /\ DOMAIN Tail(q) = 1 .. Len(q) - 1 /\ DOMAIN q = 1 .. Len(q)
      /\ DOMAIN s = 1 .. Len(s) /\ Len(s) \in Nat /\ DOMAIN r = 1 .. Len(r)
  BY <1>1
<1> HIDE DEF r
<1>3. ElementsOf(q) = {Head(q)} \cup ElementsOf(Tail(q))
  <2>1. ASSUME NEW i \in DOMAIN q PROVE q[i] \in {Head(q)} \cup ElementsOf(Tail(q))
    <3>1. CASE i = 1
      BY <3>1
    <3>2. CASE i > 1
      <4>1. i - 1 \in DOMAIN Tail(q) /\ Tail(q)[i - 1] = q[i]
        BY <1>2, <3>2
      <4> QED BY <4>1 DEF ElementsOf
    <3> QED BY <1>2, <3>1, <3>2
  <2>2. ASSUME NEW i \in DOMAIN Tail(q) PROVE Tail(q)[i] \in ElementsOf(q)
    <3>1. i + 1 \in DOMAIN q /\ Tail(q)[i] = q[i + 1]
      BY <1>2
    <3> QED BY <3>1 DEF ElementsOf
  <2>3. Head(q) \in ElementsOf(q)
    <3>1. 1 \in DOMAIN q /\ q[1] = Head(q)
      BY <1>2
    <3> QED BY <3>1 DEF ElementsOf
  <2> QED BY <2>1, <2>2, <2>3 DEF ElementsOf
<1>4. ElementsOf(r) = ElementsOf(s) \cup ElementsOf(Tail(q))
  <2>1. ASSUME NEW i \in DOMAIN r PROVE r[i] \in ElementsOf(s) \cup ElementsOf(Tail(q))
    <3>1. CASE i <= Len(s)
      <4>1. i \in DOMAIN s /\ r[i] = s[i]
        BY <1>1, <1>2, <3>1
      <4> QED BY <4>1 DEF ElementsOf
    <3>2. CASE i > Len(s)
      <4>1. i - Len(s) \in DOMAIN Tail(q) /\ r[i] = Tail(q)[i - Len(s)]
        BY <1>1, <1>2, <3>2
      <4> QED BY <4>1 DEF ElementsOf
    <3> QED BY <1>2, <3>1, <3>2
  <2>2. ASSUME NEW i \in DOMAIN s PROVE s[i] \in ElementsOf(r)
    <3>1. i \in DOMAIN r /\ r[i] = s[i]
      BY <1>1, <1>2
    <3> QED BY <3>1 DEF ElementsOf
  <2>3. ASSUME NEW i \in DOMAIN Tail(q) PROVE Tail(q)[i] \in ElementsOf(r)
    <3>1. PICK j \in 1 .. Len(r) : j = i + Len(s)
      BY <1>1, <1>2
    <3>2. ~(j <= Len(s)) /\ j - Len(s) + 1 = i + 1 /\ Tail(q)[i] = q[i + 1]
      BY <1>2, <3>1
    <3>3. r[j] = q[j - Len(s) + 1]
      BY <1>1, <3>2
    <3> QED BY <1>2, <3>1, <3>2, <3>3 DEF ElementsOf
  <2> QED BY <2>1, <2>2, <2>3 DEF ElementsOf
<1>5. ElementsOf(q) \subseteq S /\ ElementsOf(s) \subseteq S
  BY DEF ElementsOf
<1> QED BY <1>1, <1>3, <1>4, <1>5 DEF r

LEMMA OrderedTop ==
    ASSUME NEW m, NEW q \in Seq(Task), q # <<>>, Ordered(m, q),
           NEW g \in ElementsOf(Tail(q))
    PROVE  MayRunAbove(m, Head(q), g)
<1>1. /\ DOMAIN q = 1 .. Len(q) /\ Len(q) \in Nat /\ Len(q) >= 1
      /\ DOMAIN Tail(q) = 1 .. Len(q) - 1
      /\ \A i \in 1 .. Len(q) - 1 : Tail(q)[i] = q[i + 1]
  OBVIOUS
<1>2. PICK i \in DOMAIN Tail(q) : g = Tail(q)[i]
  BY DEF ElementsOf
<1>3. 1 \in DOMAIN q /\ i + 1 \in DOMAIN q /\ 1 < i + 1 /\ g = q[i + 1] /\ Head(q) = q[1]
  BY <1>1, <1>2
<1> QED BY <1>3 DEF Ordered

LEMMA OrderedPush ==
    ASSUME NEW m, NEW n, NEW q \in Seq(Task), q # <<>>, NEW s \in Seq(Task),
           Ordered(m, q), Ordered(n, s),
           \A f, g \in ElementsOf(Tail(q)) : MayRunAbove(m, f, g) => MayRunAbove(n, f, g),
           \A f \in ElementsOf(s), g \in ElementsOf(Tail(q)) : MayRunAbove(n, f, g)
    PROVE  Ordered(n, s \o Tail(q))
<1> DEFINE r == s \o Tail(q)
<1>1. /\ r \in Seq(Task) /\ Len(r) = Len(s) + Len(q) - 1
      /\ \A i \in 1 .. Len(r) : r[i] = IF i <= Len(s) THEN s[i] ELSE q[i - Len(s) + 1]
  BY PushElements
<1>2. /\ Len(q) \in Nat /\ Len(q) >= 1 /\ Len(s) \in Nat /\ DOMAIN s = 1 .. Len(s)
      /\ DOMAIN q = 1 .. Len(q) /\ DOMAIN r = 1 .. Len(r)
      /\ DOMAIN Tail(q) = 1 .. Len(q) - 1
      /\ \A i \in 1 .. Len(q) - 1 : Tail(q)[i] = q[i + 1]
  BY <1>1
<1> HIDE DEF r
<1>3. SUFFICES ASSUME NEW i \in DOMAIN r, NEW j \in DOMAIN r, i < j
               PROVE  MayRunAbove(n, r[i], r[j])
  BY DEF Ordered, r
<1>4. CASE j <= Len(s)
  <2>1. i \in DOMAIN s /\ j \in DOMAIN s /\ r[i] = s[i] /\ r[j] = s[j]
    BY <1>1, <1>2, <1>3, <1>4
  <2> QED BY <1>3, <2>1 DEF Ordered
<1>5. CASE j > Len(s)
  <2>1. /\ j - Len(s) \in DOMAIN Tail(q) /\ r[j] = Tail(q)[j - Len(s)]
        /\ j - Len(s) + 1 \in DOMAIN q /\ r[j] = q[j - Len(s) + 1]
    BY <1>1, <1>2, <1>5
  <2>2. CASE i <= Len(s)
    <3>1. i \in DOMAIN s /\ r[i] = s[i]
      BY <1>1, <1>2, <2>2
    <3> QED BY <2>1, <3>1 DEF ElementsOf
  <2>3. CASE i > Len(s)
    <3>1. /\ i - Len(s) \in DOMAIN Tail(q) /\ r[i] = Tail(q)[i - Len(s)]
          /\ i - Len(s) + 1 \in DOMAIN q /\ r[i] = q[i - Len(s) + 1]
      BY <1>1, <1>2, <2>3
    <3>2. i - Len(s) + 1 < j - Len(s) + 1
      BY <1>2, <1>3
    <3>3. MayRunAbove(m, r[i], r[j])
      BY <2>1, <3>1, <3>2 DEF Ordered
    <3> QED BY <2>1, <3>1, <3>3 DEF ElementsOf
  <2> QED BY <1>2, <2>2, <2>3
<1> QED BY <1>2, <1>4, <1>5

\* The calls in H do whatever f was going to do to the configuration.
Covers(m, f, H) ==
    /\ f.op \in {"deactivate", "leave"} => \E h \in H : Exits(h, f.x)
    /\ \A s \in Enters(m, f) : \E h \in H : s \in Enters(m, h)
    /\ f.op = "activate" => \E h \in H : h.op = "activate" /\ h.x = f.x
    /\ \A c \in States : Kind[c] = "Concurrent" =>
          \A k \in DOMAIN Regions[c] :
              StartsRegion(f, c, k) => \E h \in H : StartsRegion(h, c, k)

\* f does nothing more to it.
Idle(m, f) ==
    /\ f.op \notin {"deactivate", "leave", "activate"}
    /\ Enters(m, f) = {}
    /\ f.op = "entered" /\ Kind[f.x] = "Concurrent" => f.k \notin DOMAIN Regions[f.x]

LEMMA IdleCovered ==
    ASSUME NEW m, NEW f \in Task, Idle(m, f), NEW H, f.op = "entered" => f.k # 0
    PROVE  Covers(m, f, H)
<1>1. ASSUME NEW c \in States, Kind[c] = "Concurrent", NEW k \in DOMAIN Regions[c],
             StartsRegion(f, c, k)
      PROVE  FALSE
  <2>1. f.op = "entered" /\ f.x = c /\ f.k <= k
    BY <1>1 DEF StartsRegion, Idle
  <2>2. Regions[c] \in Seq(States)
    BY ChartAssumption
  <2>3. DOMAIN Regions[c] = 1 .. Len(Regions[c]) /\ Len(Regions[c]) \in Nat /\ f.k \in Nat
    BY <2>2 DEF Task
  <2>4. f.k \in DOMAIN Regions[c]
    BY <2>1, <2>3
  <2> QED BY <1>1, <2>1, <2>4 DEF Idle
<1> QED BY <1>1 DEF Covers, Idle

LEMMA CoverRepairs ==
    ASSUME NEW m, NEW G, NEW H, NEW f, G \subseteq H \cup {f}, Covers(m, f, H)
    PROVE  /\ \A c : (\E g \in G : Exits(g, c)) => \E g \in H : Exits(g, c)
           /\ \A c : (\E g \in G : Repairs(m, g, c)) => \E g \in H : Repairs(m, g, c)
           /\ \A c : (\E g \in G : g.op = "activate" /\ g.x = c) =>
                 \E g \in H : g.op = "activate" /\ g.x = c
<1>1. ASSUME NEW c, NEW g \in G, Exits(g, c) PROVE \E h \in H : Exits(h, c)
  BY <1>1 DEF Covers, Exits
<1>2. ASSUME NEW c, NEW g \in G, EntersChild(m, g, c)
      PROVE  \E h \in H : EntersChild(m, h, c)
  BY <1>2 DEF Covers, EntersChild
<1>3. ASSUME NEW c, NEW g \in G, Repairs(m, g, c)
      PROVE  \E h \in H : Repairs(m, h, c)
  BY <1>1, <1>2, <1>3 DEF Repairs
<1>4. ASSUME NEW c, NEW g \in G, g.op = "activate", g.x = c
      PROVE  \E h \in H : h.op = "activate" /\ h.x = c
  BY <1>4 DEF Covers
<1> QED BY <1>1, <1>3, <1>4

LEMMA CoverMap ==
    ASSUME NEW m, NEW G, NEW H, NEW f, G \subseteq H \cup {f}, Covers(m, f, H),
           MapCond(m, G), m.active \subseteq States
    PROVE  MapCond(m, H)
<1>1. CurrentActive(m, H)
  BY CoverRepairs DEF MapCond, CurrentActive
<1>2. RegionsActive(m, H)
  <2>1. SUFFICES ASSUME NEW c \in m.active, Kind[c] = "Concurrent",
                        NEW k \in DOMAIN Regions[c], Regions[c][k] \notin m.active
                 PROVE  \E h \in H : StartsRegion(h, c, k) \/ Exits(h, c)
    BY DEF RegionsActive
  <2>2. PICK g \in G : StartsRegion(g, c, k) \/ Exits(g, c)
    BY <2>1 DEF MapCond, RegionsActive
  <2>3. CASE Exits(g, c)
    BY <2>3, CoverRepairs
  <2>4. CASE StartsRegion(g, c, k)
    BY <2>1, <2>4 DEF Covers
  <2> QED BY <2>2, <2>3, <2>4
<1> QED BY <1>1, <1>2 DEF MapCond

LEMMA CoverFrame ==
    ASSUME NEW m, NEW G, NEW H, NEW f, G \subseteq H \cup {f}, Covers(m, f, H),
           NEW g, FrameCond(m, G, g)
    PROVE  FrameCond(m, H, g)
<1>1. LeavingOK(m, H, g)
  <2>1. SUFFICES ASSUME g.op \in {"deactivate", "leave"}
                 PROVE  \E h \in H : \/ Exits(h, Parent[g.x])
                                     \/ OrState(Parent[g.x]) /\ Repairs(m, h, Parent[g.x])
    BY DEF LeavingOK
  <2>2. PICK h \in G : \/ Exits(h, Parent[g.x])
                       \/ OrState(Parent[g.x]) /\ Repairs(m, h, Parent[g.x])
    BY <2>1 DEF FrameCond, LeavingOK
  <2> QED BY <2>2, CoverRepairs
<1>2. SubstatesFirst(m, H, g)
  BY CoverRepairs DEF FrameCond, SubstatesFirst
<1>3. EnteringOK(m, H, g)
  <2>1. SUFFICES ASSUME NEW s \in Enters(m, g) \ {Root}
                 PROVE  /\ \/ Parent[s] \in m.active
                           \/ \E h \in H : h.op = "activate" /\ h.x = Parent[s]
                        /\ OrState(Parent[s]) =>
                              \A c \in m.active :
                                 (Solid(c) /\ c # Root /\ Parent[c] = Parent[s]) =>
                                     \/ c = s /\ IsPseudo(s)
                                     \/ \E h \in H : Exits(h, c)
    BY DEF EnteringOK
  <2>2. \/ Parent[s] \in m.active
        \/ \E h \in G : h.op = "activate" /\ h.x = Parent[s]
    BY <2>1 DEF FrameCond, EnteringOK
  <2>3. OrState(Parent[s]) =>
           \A c \in m.active :
              (Solid(c) /\ c # Root /\ Parent[c] = Parent[s]) =>
                  \/ c = s /\ IsPseudo(s)
                  \/ \E h \in G : Exits(h, c)
    BY <2>1 DEF FrameCond, EnteringOK
  <2>4. \/ Parent[s] \in m.active
        \/ \E h \in H : h.op = "activate" /\ h.x = Parent[s]
    <3>1. \A c : (\E h \in G : h.op = "activate" /\ h.x = c) =>
                    \E h \in H : h.op = "activate" /\ h.x = c
      BY DEF Covers
    <3> QED BY <2>2, <3>1, Zenon
  <2>5. \A c : (\E h \in G : Exits(h, c)) => \E h \in H : Exits(h, c)
    BY CoverRepairs
  <2> QED BY <2>3, <2>4, <2>5
<1> QED BY <1>1, <1>2, <1>3 DEF FrameCond

\* A step that leaves the runtime map alone.
LEMMA CoverStep ==
    ASSUME NEW m, m.active \subseteq States, NEW q \in Seq(Task), q # <<>>,
           NEW s \in Seq(Task), Configured(m, q),
           Covers(m, Head(q), ElementsOf(s) \cup ElementsOf(Tail(q))),
           \A f \in ElementsOf(s) :
               FrameCond(m, ElementsOf(s) \cup ElementsOf(Tail(q)), f),
           Ordered(m, s),
           \A f \in ElementsOf(s), g \in ElementsOf(Tail(q)) : MayRunAbove(m, f, g)
    PROVE  Configured(m, s \o Tail(q))
<1> DEFINE G == ElementsOf(q)
           H == ElementsOf(s) \cup ElementsOf(Tail(q))
<1>1. G \subseteq H \cup {Head(q)} /\ ElementsOf(s \o Tail(q)) = H
      /\ ElementsOf(Tail(q)) \subseteq G
  BY PushFrames
<1>2. /\ MapCond(m, G) /\ Ordered(m, q)
      /\ \A f \in G : FrameCond(m, G, f)
  BY DEF Configured
<1>3. Covers(m, Head(q), H)
  OBVIOUS
<1> HIDE DEF G, H
<1>4. MapCond(m, H)
  BY <1>1, <1>2, <1>3, CoverMap
<1>5. \A f \in ElementsOf(Tail(q)) : FrameCond(m, H, f)
  BY <1>1, <1>2, <1>3, CoverFrame
<1>6. Ordered(m, s \o Tail(q))
  BY <1>2, OrderedPush
<1>7. \A f \in H : FrameCond(m, H, f)
  BY <1>5 DEF H
<1> QED BY <1>1, <1>4, <1>6, <1>7 DEF Configured

\* The top call is over, or goes on with calls that inherit its place.
LEMMA IdlePop ==
    ASSUME NEW m, m.active \subseteq States, NEW q \in Seq(Task), q # <<>>,
           Configured(m, q), Idle(m, Head(q))
    PROVE  Configured(m, Tail(q))
<1>1. <<>> \in Seq(Task) /\ <<>> \o Tail(q) = Tail(q) /\ ElementsOf(<<>>) = {}
      /\ Ordered(m, <<>>)
  BY DEF ElementsOf, Ordered
<1>2. Head(q) \in Task /\ (Head(q).op = "entered" => Head(q).k # 0)
  <2>1. Head(q) \in ElementsOf(q) /\ Head(q) \in Task
    BY PushFrames, <1>1
  <2> QED BY <2>1 DEF Configured, FrameCond, CallOK
<1>3. Covers(m, Head(q), ElementsOf(<<>>) \cup ElementsOf(Tail(q)))
  BY <1>2, IdleCovered
<1>4. Configured(m, <<>> \o Tail(q))
  BY <1>1, <1>3, CoverStep
<1> QED BY <1>1, <1>4

(***************************************************************************)
(* Calls that neither leave nor enter a state themselves.                  *)
(***************************************************************************)
NeutralOps == {"chart", "loop", "restored", "dispatch", "substate", "bubble",
               "regions", "runRegion"}
CompositeCall(f) ==
    f.op \in CompositeOps => Kind[f.x] \in {"Hierarchical", "Concurrent"}

LEMMA NeutralFacts ==
    ASSUME NEW f, f.op \in NeutralOps \cup {"call", "exit"}, NEW m
    PROVE  /\ Enters(m, f) = {} /\ Idle(m, f)
           /\ CompositeCall(f) => \A F : FrameCond(m, F, f)
           /\ \A g : MayRunAbove(m, g, f)
<1>1. f.op \notin {"deactivate", "leave", "activate", "enter", "entered", "forkEach"}
  BY DEF NeutralOps
<1>2. Enters(m, f) = {}
  BY <1>1 DEF Enters
<1>3. Idle(m, f)
  BY <1>1, <1>2 DEF Idle
<1>4. CompositeCall(f) => \A F : FrameCond(m, F, f)
  BY <1>1, <1>2 DEF FrameCond, LeavingOK, SubstatesFirst, EnteringOK, CallOK,
                    CompositeCall
<1>5. \A g : MayRunAbove(m, g, f)
  BY <1>1, <1>2 DEF MayRunAbove, AboveLeaving, AboveEntering, AboveEntered
<1> QED BY <1>2, <1>3, <1>4, <1>5

\* What waits below a neutral call or the loop of Transition::execute stays
\* clear of it; it may also run below any call inside the same and-states.
LEMMA Inherits ==
    ASSUME NEW m, NEW f, f.op \in NeutralOps \cup {"enter"},
           NEW g \in Task, FrameOK(g), MayRunAbove(m, f, g)
    PROVE  /\ g.op \notin {"deactivate", "leave"}
           /\ Enters(m, g) = {}
           /\ \A h : (\A c \in States :
                         (Kind[c] = "Concurrent" /\ RunsInside(f, c)) => RunsInside(h, c))
                     => MayRunAbove(m, h, g)
<1>1. f.op \notin {"deactivate", "leave", "activate", "entered", "call", "exit"}
  BY DEF NeutralOps
<1>2. g.op \notin {"deactivate", "leave"}
  BY <1>1 DEF MayRunAbove, AboveLeaving
<1>3. Enters(m, g) = {}
  BY <1>1 DEF MayRunAbove, AboveEntering
<1>4. ASSUME NEW h, \A c \in States :
                       (Kind[c] = "Concurrent" /\ RunsInside(f, c)) => RunsInside(h, c)
      PROVE  MayRunAbove(m, h, g)
  <2>1. AboveEntered(h, g)
    <3>1. SUFFICES ASSUME g.op = "entered" PROVE AboveEntered(h, g)
      BY DEF AboveEntered
    <3>2. g.x \in States
      BY <3>1 DEF FrameOK
    <3>3. Kind[g.x] = "Concurrent" => RunsInside(h, g.x)
      BY <1>4, <3>1, <3>2 DEF MayRunAbove, AboveEntered
    <3>4. IsHistory(g.x) => \E c \in States : /\ Kind[c] = "Concurrent"
                                             /\ Inside(c, Parent[g.x]) /\ RunsInside(f, c)
      BY <1>1, <3>1 DEF MayRunAbove, AboveEntered
    <3> QED BY <1>4, <3>3, <3>4 DEF AboveEntered
  <2> QED BY <1>2, <1>3, <2>1 DEF MayRunAbove, AboveLeaving, AboveEntering
<1> QED BY <1>2, <1>3, <1>4

\* While a neutral call runs, the configuration is complete: nothing below it
\* has been left half done, but regions not started yet.
LEMMA NeutralTop ==
    ASSUME NEW m, NEW q \in Seq(Task), q # <<>>, StackOK(q), Configured(m, q),
           Head(q).op \in NeutralOps \cup {"enter"}
    PROVE  \A g \in ElementsOf(Tail(q)) :
              /\ g \in Task /\ FrameOK(g)
              /\ g.op \notin {"deactivate", "leave"} /\ Enters(m, g) = {}
              /\ \A h : (\A c \in States : (Kind[c] = "Concurrent" /\ RunsInside(Head(q), c))
                                               => RunsInside(h, c))
                        => MayRunAbove(m, h, g)
<1> SUFFICES ASSUME NEW g \in ElementsOf(Tail(q))
             PROVE  /\ g \in Task /\ FrameOK(g)
                    /\ g.op \notin {"deactivate", "leave"} /\ Enters(m, g) = {}
                    /\ \A h : (\A c \in States :
                                  (Kind[c] = "Concurrent" /\ RunsInside(Head(q), c))
                                      => RunsInside(h, c))
                              => MayRunAbove(m, h, g)
  OBVIOUS
<1>1. MayRunAbove(m, Head(q), g)
  BY OrderedTop DEF Configured
<1>2. g \in ElementsOf(q)
  BY PushFrames
<1>3. g \in Task /\ FrameOK(g)
  BY <1>2 DEF ElementsOf, StackOK
<1> QED BY <1>1, <1>3, Inherits

LEMMA CompleteMap ==
    ASSUME NEW m, m.active \subseteq States, NEW q \in Seq(Task), q # <<>>, StackOK(q),
           Configured(m, q), Head(q).op \in NeutralOps,
           NEW h \in States, OrState(h), m.current[h] # Null
    PROVE  m.current[h] \in m.active
<1>1. \A g \in ElementsOf(q) : g.op \notin {"deactivate", "leave"} /\ Enters(m, g) = {}
  <2>1. /\ Head(q).op \notin {"deactivate", "leave"} /\ Enters(m, Head(q)) = {}
    BY NeutralFacts DEF NeutralOps
  <2>2. ElementsOf(q) = {Head(q)} \cup ElementsOf(Tail(q))
    BY PushFrames
  <2> QED BY <2>1, <2>2, NeutralTop
<1>2. \A g \in ElementsOf(q) : ~Repairs(m, g, h)
  BY <1>1 DEF Repairs, Exits, EntersChild
<1> QED BY <1>2 DEF Configured, MapCond, CurrentActive

\* A neutral call replaced by neutral calls on states at or below its own.
LEMMA NeutralPush ==
    ASSUME NEW m, m.active \subseteq States, NEW q \in Seq(Task), q # <<>>, StackOK(q),
           Configured(m, q), Head(q).op \in NeutralOps, Head(q).x \in States,
           NEW s \in Seq(Task),
           \A i \in DOMAIN s : /\ s[i].op \in NeutralOps /\ s[i].x \in States
                               /\ Above(Head(q).x, s[i].x) /\ CompositeCall(s[i])
    PROVE  Configured(m, s \o Tail(q))
<1>1. \A f \in ElementsOf(s) : /\ f.op \in NeutralOps /\ f.x \in States
                               /\ Above(Head(q).x, f.x) /\ CompositeCall(f)
  BY DEF ElementsOf
<1>2. Covers(m, Head(q), ElementsOf(s) \cup ElementsOf(Tail(q)))
  <2>1. Head(q) \in Task /\ Head(q).op # "entered"
    BY DEF NeutralOps
  <2> QED BY <2>1, NeutralFacts, IdleCovered
<1>3. \A f \in ElementsOf(s) :
         FrameCond(m, ElementsOf(s) \cup ElementsOf(Tail(q)), f)
  BY <1>1, NeutralFacts
<1>4. Ordered(m, s)
  BY NeutralFacts DEF Ordered
<1>5. ASSUME NEW f \in ElementsOf(s), NEW g \in ElementsOf(Tail(q))
      PROVE  MayRunAbove(m, f, g)
  <2>1. \A c \in States : RunsInside(Head(q), c) => RunsInside(f, c)
    <3>1. Head(q).op \notin {"call", "enter"} /\ f.op \notin {"call", "enter"}
      BY <1>1 DEF NeutralOps
    <3> QED BY <1>1, <3>1, InsideOrder DEF RunsInside
  <2> QED BY <2>1, NeutralTop
<1> QED BY <1>2, <1>3, <1>4, <1>5, CoverStep

\* A stack of neutral calls on a complete configuration.
LEMMA NeutralStack ==
    ASSUME NEW m, MapCond(m, {}), m.active \subseteq States, NEW s \in Seq(Task),
           \A i \in DOMAIN s : s[i].op \in NeutralOps /\ CompositeCall(s[i])
    PROVE  Configured(m, s)
<1>1. MapCond(m, ElementsOf(s))
  BY DEF MapCond, CurrentActive, RegionsActive
<1>2. \A f \in ElementsOf(s) : FrameCond(m, ElementsOf(s), f)
  BY NeutralFacts DEF ElementsOf
<1>3. Ordered(m, s)
  BY NeutralFacts DEF Ordered
<1> QED BY <1>1, <1>2, <1>3 DEF Configured

\* Once the last call is over nothing is left half done.
LEMMA LastPop ==
    ASSUME NEW m, m.active \subseteq States, NEW q \in Seq(Task), q # <<>>,
           Configured(m, q), Head(q).op \in NeutralOps, Tail(q) = <<>>
    PROVE  MapCond(m, {})
<1>1. Configured(m, Tail(q))
  BY NeutralFacts, IdlePop
<1>2. ElementsOf(<<>>) = {}
  BY DEF ElementsOf
<1> QED BY <1>1, <1>2 DEF Configured

(***************************************************************************)
(* Transition::execute.                                                    *)
(***************************************************************************)
\* The calls Execute puts on the stack.
ExecuteCalls(t) ==
    CallEach("deactivate", Deactivates[t])
        \o <<Call("call", t), Call("enter", t)>> \o <<>>

LEMMA ExecutePushes ==
    ASSUME NEW t \in Trans
    PROVE  /\ ExecuteCalls(t) \in Seq(Task)
           /\ Len(Deactivates[t]) \in Nat
           /\ DOMAIN ExecuteCalls(t) = 1 .. Len(Deactivates[t]) + 2
           /\ \A i \in 1 .. Len(Deactivates[t]) :
                 /\ ExecuteCalls(t)[i].op = "deactivate"
                 /\ ExecuteCalls(t)[i].x = Deactivates[t][i]
           /\ ExecuteCalls(t)[Len(Deactivates[t]) + 1].op = "call"
           /\ ExecuteCalls(t)[Len(Deactivates[t]) + 2].op = "enter"
           /\ ExecuteCalls(t)[Len(Deactivates[t]) + 2].x = t
           /\ ExecuteCalls(t)[Len(Deactivates[t]) + 2].k = 1
<1> DEFINE D == Deactivates[t]
           exits == CallEach("deactivate", D)
           middle == <<Call("call", t), Call("enter", t)>>
           q == ExecuteCalls(t)
<1>1. D \in Seq(States \ {Root}) /\ D \in Seq(States \cup Trans) /\ Len(D) \in Nat
  <2>1. D \in Seq(States \ {Root})
    BY ChartAssumption
  <2> QED BY <2>1
<1>2. "deactivate" \in Ops /\ "call" \in Ops /\ "enter" \in Ops
  BY DEF Ops
<1>3. /\ exits \in Seq(Task) /\ Len(exits) = Len(D)
      /\ \A i \in 1 .. Len(D) : exits[i] = Call("deactivate", D[i])
  BY <1>1, <1>2, CallEachOK
<1>4. /\ Call("call", t) \in Task /\ Call("call", t).op = "call"
      /\ Call("call", t).x = t /\ Call("call", t).k = 1
      /\ Call("enter", t) \in Task /\ Call("enter", t).op = "enter"
      /\ Call("enter", t).x = t /\ Call("enter", t).k = 1
  <2>1. /\ t \in States \cup Trans /\ Null \in OrNull(Events) /\ 1 \in Nat
        /\ FALSE \in BOOLEAN
    BY DEF OrNull
  <2>2. ASSUME NEW op \in Ops
        PROVE  /\ Do(op, t, Null, 1, FALSE) \in Task
               /\ Do(op, t, Null, 1, FALSE).op = op
               /\ Do(op, t, Null, 1, FALSE).x = t
               /\ Do(op, t, Null, 1, FALSE).k = 1
    BY <2>1 DEF Do, Task
  <2> QED BY <1>2, <2>2 DEF Call
<1>5. \A i \in 1 .. Len(D) : /\ Call("deactivate", D[i]).op = "deactivate"
                            /\ Call("deactivate", D[i]).x = D[i]
  BY DEF Call, Do
<1> HIDE DEF exits
<1>6. middle \in Seq(Task) /\ Len(middle) = 2 /\ middle[1] = Call("call", t)
      /\ middle[2] = Call("enter", t)
  BY <1>4
<1> HIDE DEF middle, q
<1>7. q = exits \o middle
  <2>1. exits \o middle \in Seq(Task)
    BY <1>3, <1>6
  <2>2. q = (exits \o middle) \o <<>>
    BY DEF exits, middle, q, ExecuteCalls
  <2>3. (exits \o middle) \o <<>> = exits \o middle
    BY <2>1, ConcatEmptySeq
  <2> QED BY <2>2, <2>3
<1>8. /\ q \in Seq(Task) /\ Len(q) = Len(D) + 2
      /\ \A i \in 1 .. Len(D) + 2 : q[i] = IF i <= Len(D) THEN exits[i]
                                           ELSE middle[i - Len(D)]
  <2> HIDE DEF D
  <2>1. /\ exits \o middle \in Seq(Task)
        /\ Len(exits \o middle) = Len(exits) + Len(middle)
        /\ \A i \in 1 .. Len(exits) + Len(middle) :
              (exits \o middle)[i] = IF i <= Len(exits) THEN exits[i]
                                     ELSE middle[i - Len(exits)]
    BY <1>3, <1>6, ConcatProperties
  <2> QED BY <1>3, <1>6, <1>7, <2>1
<1>9. /\ DOMAIN q = 1 .. Len(D) + 2
      /\ \A i \in 1 .. Len(D) : q[i] = Call("deactivate", D[i])
  BY <1>1, <1>3, <1>8
<1>10. q[Len(D) + 1] = middle[1]
  <2>1. PICK i \in 1 .. Len(D) + 2 : i = Len(D) + 1
    BY <1>1
  <2>2. ~(i <= Len(D)) /\ i - Len(D) = 1
    BY <1>1, <2>1
  <2> QED BY <1>8, <2>1, <2>2
<1>11. q[Len(D) + 2] = middle[2]
  <2>1. PICK i \in 1 .. Len(D) + 2 : i = Len(D) + 2
    BY <1>1
  <2>2. ~(i <= Len(D)) /\ i - Len(D) = 2
    BY <1>1, <2>1
  <2> QED BY <1>8, <2>1, <2>2
<1>12. /\ \A i \in 1 .. Len(D) : q[i].op = "deactivate" /\ q[i].x = D[i]
       /\ q[Len(D) + 1].op = "call"
       /\ q[Len(D) + 2].op = "enter" /\ q[Len(D) + 2].x = t /\ q[Len(D) + 2].k = 1
  BY <1>4, <1>5, <1>6, <1>9, <1>10, <1>11
<1> QED BY <1>1, <1>8, <1>9, <1>12 DEF q

\* A frame is entered concurrent or history only if it has that op.
LEMMA PlainBelow ==
    ASSUME NEW m, NEW f, NEW g, g.op \notin {"deactivate", "leave", "entered"},
           AboveEntering(m, f, g)
    PROVE  MayRunAbove(m, f, g)
BY DEF MayRunAbove, AboveLeaving, AboveEntered

LEMMA ExecuteInternal ==
    ASSUME Inv, Configured(md, agenda), agenda # <<>>, Top.op \in NeutralOps,
           NEW t \in Trans, Internal(t), Source[t] = Top.x, Top.x \in States,
           Execute(t, <<>>)
    PROVE  Configured(md', agenda')
<1> DEFINE D == Deactivates[t]
           q == ExecuteCalls(t)
<1>1. md \in RuntimeMap /\ md.active \subseteq States /\ agenda \in Seq(Task)
      /\ StackOK(agenda)
  BY DEF Inv, DataOK, ControlOK, CallStack, RuntimeMap
<1>2. md' = md /\ agenda' = q \o Tail(agenda)
  BY DEF Execute, Push, ExecuteCalls
<1>3. Len(D) = 0 /\ Len(Activates[t]) = 0
  BY DEF Internal
<1>4. /\ q \in Seq(Task) /\ DOMAIN q = 1 .. 2
      /\ q[1].op = "call" /\ q[2].op = "enter" /\ q[2].x = t
  <2>1. /\ q \in Seq(Task) /\ DOMAIN q = 1 .. Len(D) + 2
        /\ q[Len(D) + 1].op = "call" /\ q[Len(D) + 2].op = "enter"
        /\ q[Len(D) + 2].x = t
    BY ExecutePushes
  <2> HIDE DEF q, D
  <2>2. Len(D) + 1 = 1 /\ Len(D) + 2 = 2
    BY <1>3
  <2> QED BY <2>1, <2>2
<1> HIDE DEF q
<1>5. Enters(md, q[2]) = {}
  BY <1>4 DEF Enters, Internal
<1>6. /\ ElementsOf(q) = {q[1], q[2]}
  BY <1>4 DEF ElementsOf
<1>7. \A F : FrameCond(md, F, q[1]) /\ FrameCond(md, F, q[2])
  <2>1. \A F : FrameCond(md, F, q[1])
    BY <1>4, NeutralFacts DEF CompositeCall, CompositeOps
  <2>2. \A F : FrameCond(md, F, q[2])
    BY <1>4, <1>5 DEF FrameCond, LeavingOK, SubstatesFirst, EnteringOK, CallOK, CompositeOps
  <2> QED BY <2>1, <2>2
<1>8. Ordered(md, q)
  <2>1. MayRunAbove(md, q[1], q[2])
    BY <1>4, <1>5, PlainBelow DEF AboveEntering
  <2> QED BY <1>4, <2>1 DEF Ordered
<1>9. ASSUME NEW f \in ElementsOf(q), NEW g \in ElementsOf(Tail(agenda))
      PROVE  MayRunAbove(md, f, g)
  <2>1. \A c \in States : RunsInside(Top, c) => RunsInside(f, c)
    <3>1. Top.op \notin {"call", "enter"}
      BY DEF NeutralOps
    <3> QED BY <1>4, <1>6, <3>1 DEF RunsInside
  <2> QED BY <1>1, <2>1, NeutralTop DEF Top
<1>10. Covers(md, Top, ElementsOf(q) \cup ElementsOf(Tail(agenda)))
  <2>1. Top \in Task /\ Top.op # "entered"
    BY TopFrame DEF Inv, NeutralOps
  <2> QED BY <2>1, NeutralFacts, IdleCovered
<1>11. Configured(md, q \o Tail(agenda))
  BY <1>1, <1>4, <1>6, <1>7, <1>8, <1>9, <1>10, CoverStep DEF Top
<1> QED BY <1>2, <1>11

LEMMA ExecuteExternal ==
    ASSUME StructuredChart, Inv, Configured(md, agenda), agenda # <<>>,
           Top.op \in NeutralOps, NEW t \in Trans, BetweenOrStates(t),
           Source[t] = Top.x, Top.x \in States \ {Root},
           \A a : Inside(Top.x, a) => a \in md.active, Top.x \in md.active,
           IsHistory(Top.x) => md.current[Parent[Top.x]] = Top.x,
           Execute(t, <<>>)
    PROVE  Configured(md', agenda')
<1> DEFINE D == Deactivates[t]
           A == Activates[t]
           q == ExecuteCalls(t)
           rest == ElementsOf(Tail(agenda))
           H == ElementsOf(q) \cup rest
<1>1. md \in RuntimeMap /\ md.active \subseteq States /\ agenda \in Seq(Task)
      /\ StackOK(agenda)
  BY DEF Inv, DataOK, ControlOK, CallStack, RuntimeMap
<1>2. md' = md /\ agenda' = q \o Tail(agenda)
  BY DEF Execute, Push, ExecuteCalls
<1>3. PICK ctx \in States : Connects(t, ctx)
  BY Connected
<1>4. /\ q \in Seq(Task) /\ DOMAIN q = 1 .. Len(D) + 2
      /\ \A i \in 1 .. Len(D) : q[i].op = "deactivate" /\ q[i].x = D[i]
      /\ q[Len(D) + 1].op = "call"
      /\ q[Len(D) + 2].op = "enter" /\ q[Len(D) + 2].x = t /\ q[Len(D) + 2].k = 1
  BY ExecutePushes
<1>5. /\ OrState(ctx) /\ Inside(Top.x, ctx)
      /\ \A c \in States : (Kind[c] = "Concurrent" /\ Inside(Top.x, c)) => Above(c, ctx)
  BY <1>3 DEF Connects
<1>6. /\ D \in Seq(States \ {Root}) /\ Len(D) \in Nat \ {0} /\ D[1] = Top.x
      /\ Parent[D[Len(D)]] = ctx
      /\ \A i \in 1 .. Len(D) :
            /\ Depth(D[i]) = Depth(ctx) + Len(D) + 1 - i /\ Inside(D[i], ctx)
            /\ Above(D[i], Top.x)
            /\ i < Len(D) => Parent[D[i]] = D[i + 1]
            /\ i > 1 => Kind[D[i]] = "Hierarchical"
            /\ D[i] \in States \ {Root}
  BY <1>3 DEF Connects
<1>7. /\ A \in Seq(States \ {Root}) /\ Len(A) \in Nat \ {0} /\ A[1] \in States \ {Root}
      /\ Parent[A[1]] = ctx /\ Depth(A[1]) = Depth(ctx) + 1
  BY <1>3 DEF Connects
<1> DEFINE exits(i) == q[i]
           callT == q[Len(D) + 1]
           enterT == q[Len(D) + 2]
<1> HIDE DEF q
<1>8. /\ Len(D) + 1 \in DOMAIN q /\ Len(D) + 2 \in DOMAIN q
      /\ \A i \in 1 .. Len(D) : i \in DOMAIN q
      /\ \A i \in DOMAIN q : i \in 1 .. Len(D) \/ i = Len(D) + 1 \/ i = Len(D) + 2
  BY <1>4, <1>6
<1>9. /\ \A i \in 1 .. Len(D) : q[i] \in H
      /\ callT \in H /\ enterT \in H
      /\ \A f \in ElementsOf(q) :
            (\E i \in 1 .. Len(D) : f = q[i]) \/ f = callT \/ f = enterT
  BY <1>8 DEF ElementsOf
<1>10. Enters(md, enterT) = {A[1]}
  <2>1. 1 \in DOMAIN A
    BY <1>7
  <2> QED BY <1>4, <2>1 DEF Enters
<1> HIDE DEF callT, enterT, H
<1>11. \A f \in ElementsOf(q) : FrameCond(md, H, f)
  <2>1. ASSUME NEW i \in 1 .. Len(D) PROVE FrameCond(md, H, q[i])
    <3>1. CASE i < Len(D)
      <4>1. i + 1 \in 1 .. Len(D) /\ Parent[D[i]] = D[i + 1]
        BY <1>6, <3>1
      <4>2. q[i + 1] \in H /\ Exits(q[i + 1], Parent[D[i]])
        BY <1>4, <1>9, <4>1 DEF Exits
      <4>3. LeavingOK(md, H, q[i])
        BY <1>4, <4>2 DEF LeavingOK
      <4> QED BY <1>4, <4>3 DEF FrameCond, SubstatesFirst, EnteringOK, CallOK, CompositeOps, Enters
    <3>2. CASE i = Len(D)
      <4>1. Parent[D[i]] = ctx
        BY <1>6, <3>2
      <4>2. Repairs(md, enterT, ctx)
        BY <1>7, <1>10 DEF Repairs, EntersChild
      <4>3. LeavingOK(md, H, q[i])
        BY <1>4, <1>5, <1>9, <4>1, <4>2 DEF LeavingOK
      <4> QED BY <1>4, <4>3 DEF FrameCond, SubstatesFirst, EnteringOK, CallOK, CompositeOps, Enters
    <3> QED BY <1>6, <3>1, <3>2
  <2>2. FrameCond(md, H, callT)
    BY <1>4, NeutralFacts DEF callT, CompositeCall, CompositeOps
  <2>3. EnteringOK(md, H, enterT)
    <3>1. ctx \in md.active
      BY <1>5
    <3>2. ASSUME NEW c \in md.active, Solid(c), c # Root, Parent[c] = ctx
          PROVE  \E g \in H : Exits(g, c)
      <4>1. Len(D) \in 1 .. Len(D)
        BY <1>6
      <4>2. md.current[ctx] = c
        BY <1>5, <3>2 DEF Configured, MapCond, CurrentOK
      <4>3. md.current[ctx] = D[Len(D)]
        <5>1. CASE IsHistory(Top.x) /\ Len(D) = 1
          BY <1>6, <5>1
        <5>2. CASE ~IsHistory(Top.x) \/ Len(D) > 1
          <6>1. Solid(D[Len(D)])
            <7>1. CASE Len(D) > 1
              BY <1>6, <4>1, <7>1 DEF Solid, IsHistory, HistoryKinds
            <7>2. CASE Len(D) = 1 /\ ~IsHistory(Top.x)
              BY <1>6, <7>2 DEF Solid
            <7>3. Len(D) > 1 \/ Len(D) = 1
              <8>1. Len(D) \in Nat /\ Len(D) # 0
                BY <1>6
              <8>2. PICK n \in Nat : n = Len(D)
                BY <8>1
              <8>3. n # 0 => (n > 1 \/ n = 1)
                OBVIOUS
              <8> QED BY <8>1, <8>2, <8>3
            <7> QED BY <5>2, <7>1, <7>2, <7>3
          <6>2. D[Len(D)] \in md.active
            <7>1. Above(D[Len(D)], Top.x)
              BY <1>6, <4>1
            <7> QED BY <7>1 DEF Inside
          <6>3. D[Len(D)] # Root
            BY <1>6, <4>1
          <6> QED BY <1>5, <1>6, <6>1, <6>2, <6>3 DEF Configured, MapCond, CurrentOK
        <5> QED BY <1>6, <5>1, <5>2
      <4> QED BY <1>4, <1>9, <4>1, <4>2, <4>3 DEF Exits
    <3> QED BY <1>7, <1>10, <3>1, <3>2 DEF EnteringOK
  <2>4. FrameCond(md, H, enterT)
    BY <1>4, <2>3 DEF FrameCond, LeavingOK, SubstatesFirst, CallOK, CompositeOps, enterT
  <2> QED BY <1>9, <2>1, <2>2, <2>4
<1>12. Ordered(md, q)
  <2>1. SUFFICES ASSUME NEW i \in DOMAIN q, NEW j \in DOMAIN q, i < j
                 PROVE  MayRunAbove(md, q[i], q[j])
    BY DEF Ordered
  <2>2. CASE i \in 1 .. Len(D) /\ j \in 1 .. Len(D)
    <3>1. Depth(D[j]) < Depth(D[i])
      <4>1. Depth(ctx) \in Nat
        BY PathEnd
      <4>2. /\ Depth(D[i]) = Depth(ctx) + Len(D) + 1 - i
            /\ Depth(D[j]) = Depth(ctx) + Len(D) + 1 - j
        BY <1>6, <2>2
      <4> QED BY <1>6, <2>1, <2>2, <4>1, <4>2
    <3>2. D[i] \in States /\ D[j] \in States /\ Depth(D[i]) \in Nat /\ Depth(D[j]) \in Nat
      BY <1>6, <2>2, PathEnd
    <3>3. ~Inside(D[j], D[i])
      BY <3>1, <3>2, InsideOrder
    <3> QED BY <1>4, <2>2, <3>3
            DEF MayRunAbove, AboveLeaving, AboveEntering, AboveEntered, Enters
  <2>3. CASE j = Len(D) + 1
    BY <1>4, <2>3, NeutralFacts
  <2>4. CASE j = Len(D) + 2 /\ i \in 1 .. Len(D)
    <3>1. Depth(D[i]) >= Depth(A[1])
      <4>1. Depth(ctx) \in Nat
        BY PathEnd
      <4>2. Depth(D[i]) = Depth(ctx) + Len(D) + 1 - i
        BY <1>6, <2>4
      <4> QED BY <1>6, <1>7, <2>4, <4>1, <4>2
    <3>2. AboveEntering(md, q[i], enterT)
      BY <1>4, <1>10, <2>4, <3>1 DEF AboveEntering
    <3> QED BY <1>4, <2>4, <3>2, PlainBelow DEF enterT
  <2>5. CASE j = Len(D) + 2 /\ i = Len(D) + 1
    <3>1. AboveEntering(md, q[i], enterT)
      BY <1>4, <2>5 DEF AboveEntering
    <3> QED BY <1>4, <2>5, <3>1, PlainBelow DEF enterT
  <2> QED BY <1>6, <1>8, <2>1, <2>2, <2>3, <2>4, <2>5
<1>13. ASSUME NEW f \in ElementsOf(q), NEW g \in rest
       PROVE  MayRunAbove(md, f, g)
  <2>1. ASSUME NEW c \in States, Kind[c] = "Concurrent", RunsInside(Top, c)
        PROVE  RunsInside(f, c)
    <3>1. Inside(Top.x, c)
      BY <2>1 DEF RunsInside, NeutralOps
    <3>2. Above(c, ctx)
      BY <1>5, <2>1, <3>1
    <3>3. ASSUME NEW i \in 1 .. Len(D), f = q[i] PROVE RunsInside(f, c)
      <4>1. D[i] \in States /\ Inside(D[i], ctx)
        BY <1>6
      <4>2. Inside(D[i], c)
        BY <3>2, <4>1, InsideOrder
      <4> QED BY <1>4, <3>3, <4>2 DEF RunsInside
    <3>4. ASSUME f = callT PROVE RunsInside(f, c)
      BY <1>4, <3>4 DEF RunsInside, callT
    <3>5. ASSUME f = enterT PROVE RunsInside(f, c)
      BY <1>4, <3>1, <3>5 DEF RunsInside, enterT
    <3> QED BY <1>9, <3>3, <3>4, <3>5
  <2> QED BY <1>1, <2>1, NeutralTop DEF Top
<1>14. Covers(md, Top, H)
  <2>1. Top \in Task /\ Top.op # "entered"
    BY TopFrame DEF Inv, NeutralOps
  <2> QED BY <2>1, NeutralFacts, IdleCovered
<1>15. Configured(md, q \o Tail(agenda))
  BY <1>1, <1>4, <1>11, <1>12, <1>13, <1>14, CoverStep DEF Top, H
<1> QED BY <1>2, <1>15
=============================================================================
