----------------------------- MODULE ChartGraph -----------------------------
(***************************************************************************)
(* The static structure a Statechart owns once it has been built: states,  *)
(* transitions, and the containers their constructors fill in (the regions *)
(* of a ConcurrentState, the start and history pseudo-states of a Context, *)
(* the ordered m_transitions of a State, m_deactivate and m_activate of a  *)
(* Transition).  Nothing here changes while events are dispatched, so the  *)
(* whole structure is one CONSTANT record.  ChartBuilder computes such a   *)
(* record from a list of declarations.                                     *)
(***************************************************************************)
EXTENDS Naturals, Sequences

CONSTANTS
    Chart,      \* the record described by ChartAssumption
    Events,     \* ids of the events the environment may dispatch
    Null        \* nullptr: no parent, event, guard, action or current state

States == Chart.states
Root == Chart.root                  \* the Statechart object itself
Trans == Chart.trans
Data == Chart.data                  \* values the user's Parameter can have
Initial == Chart.initial            \* those the program begins with
Vary == Chart.vary                  \* those it may set between two calls

Kind == Chart.kind
Parent == Chart.parent              \* State::context()
Path == Chart.path                  \* a state's contexts, from the Root to itself
Regions == Chart.regions            \* ConcurrentState::m_regions
StartState == Chart.start           \* Context::m_startState
HistoryState == Chart.history       \* HierarchicalState::m_history
Outgoing == Chart.outgoing          \* State::m_transitions
Incoming == Chart.incoming          \* PseudoState::m_incoming (join states)

Source == Chart.source
Trigger == Chart.trigger            \* Transition::m_event
Guard == Chart.guard                \* Transition::m_guard: where it holds
Effect == Chart.effect              \* what a transition's action, or a state's
                                    \* entry and do action, make of the Parameter
ExitEffect == Chart.exitEffect      \* what a state's exit action makes of it
Deactivates == Chart.deactivates    \* Transition::m_deactivate
Activates == Chart.activates        \* Transition::m_activate

HistoryKinds == {"History", "DeepHistory"}
PseudoKinds == {"Start", "Junction", "Fork", "Join"} \cup HistoryKinds
Kinds == {"Statechart", "State", "Final", "Hierarchical", "Concurrent"}
            \cup PseudoKinds

OrNull(S) == S \cup {Null}
IsKind(s, kind) == s # Null /\ Kind[s] = kind
IsPseudo(s) == s # Null /\ Kind[s] \in PseudoKinds
IsHistory(s) == s # Null /\ Kind[s] \in HistoryKinds
RealStates == {s \in States : Kind[s] \notin PseudoKinds \cup {"Statechart"}}
ChildrenOf(s) == {c \in States : Parent[c] = s}
ElementsOf(seq) == {seq[i] : i \in DOMAIN seq}

(***************************************************************************)
(* The shape every chart built through Statechart::create has: one root    *)
(* without a context, start and history pseudo-states and regions that are *)
(* children of their owner, and no transition that exits or enters the     *)
(* Statechart object (Transition::calculateStateSet stops below it).       *)
(***************************************************************************)
ASSUME ChartAssumption ==
    /\ Null \notin States \cup Trans \cup Events
    /\ Root \in States
    /\ Kind \in [States -> Kinds]
    /\ Kind[Root] = "Statechart"
    /\ Parent \in [States -> OrNull(States)]
    /\ Parent[Root] = Null
    /\ Path \in [States -> Seq(States)]
    /\ Regions \in [States -> Seq(States)]
    /\ StartState \in [States -> OrNull(States)]
    /\ HistoryState \in [States -> OrNull(States)]
    /\ Outgoing \in [States -> Seq(Trans)]
    /\ Incoming \in [States -> Seq(Trans)]
    /\ Source \in [Trans -> States]
    /\ Trigger \in [Trans -> OrNull(Events)]
    /\ Initial \subseteq Data
    /\ \A d \in Data : Vary[d] \subseteq Data
    /\ \A x \in States \cup Trans :
          Effect[x] # Null => Effect[x] \in [Data -> Data]
    /\ \A s \in States :
          ExitEffect[s] # Null => ExitEffect[s] \in [Data -> Data]
    /\ Deactivates \in [Trans -> Seq(States \ {Root})]
    /\ Activates \in [Trans -> Seq(States \ {Root})]

ASSUME ChartStructure ==
    /\ \A s \in States : \A r \in ElementsOf(Regions[s]) :
          r \in ChildrenOf(s) /\ Kind[r] = "Hierarchical"
    /\ \A s \in States : StartState[s] # Null => StartState[s] \in ChildrenOf(s)
    /\ \A s \in States :
          HistoryState[s] # Null =>
            /\ HistoryState[s] \in ChildrenOf(s)
            /\ IsHistory(HistoryState[s])

(***************************************************************************)
(* What the constructors guarantee of the tree of contexts: only a Context *)
(* has children and the Statechart is the only one without a context       *)
(* (State.cpp:47), State::addTransition is called on the source of the     *)
(* transition (Transition.cpp:190), and m_startState is a start state      *)
(* (PseudoState.cpp:86).                                                   *)
(***************************************************************************)
ASSUME ChartPaths ==
    /\ \A s \in States :
          /\ Path[s] # <<>> /\ Path[s][1] = Root /\ Path[s][Len(Path[s])] = s
          /\ \A i \in DOMAIN Path[s] :
                /\ Path[Path[s][i]] = SubSeq(Path[s], 1, i)
                /\ i > 1 => Parent[Path[s][i]] = Path[s][i - 1]
    /\ \A s \in States \ {Root} :
          Kind[Parent[s]] \in {"Statechart", "Hierarchical", "Concurrent"}
    /\ \A s \in States : Kind[s] = "Statechart" => s = Root
    /\ \A s \in States : StartState[s] # Null => Kind[StartState[s]] = "Start"
    /\ \A s \in States : \A t \in ElementsOf(Outgoing[s]) : Source[t] = s

(***************************************************************************)
(* What they guarantee of the containers: only a ConcurrentState has       *)
(* regions and each is added once, by its own constructor                  *)
(* (HierarchicalState.cpp:49), and every transition is one of those of its *)
(* source (Transition.cpp:190).                                            *)
(***************************************************************************)
ASSUME ChartContainers ==
    /\ \A c \in States : Regions[c] # <<>> => Kind[c] = "Concurrent"
    /\ \A c \in States : \A i, j \in DOMAIN Regions[c] :
          Regions[c][i] = Regions[c][j] => i = j
    /\ \A t \in Trans : t \in ElementsOf(Outgoing[Source[t]])

(***************************************************************************)
(* The charts whose configurations are proved to be legal: no fork, every  *)
(* child of an and-state is one of its regions, and no transition crosses  *)
(* the border of an and-state, or leads from a state to one of its own     *)
(* contexts or substates.  MCFindings shows what the others come to.       *)
(***************************************************************************)
Depth(s) == Len(Path[s])
Above(a, s) == a \in ElementsOf(Path[s])            \* s itself or a context
Inside(s, c) == Above(c, s) /\ s # c
OrState(s) == Kind[s] \in {"Statechart", "Hierarchical"}

Internal(t) == Deactivates[t] = <<>> /\ Activates[t] = <<>>

\* Transition::calculateStateSet between two states whose innermost common
\* context is from[l]; what is left and entered on the way are or-states.
BetweenOrStates(t) ==
    LET from == Path[Source[t]] IN
    \E goal \in States : \E l \in DOMAIN from :
        LET to == Path[goal] IN
        /\ l < Len(from) /\ l < Len(to) /\ from[l] = to[l] /\ OrState(from[l])
        /\ Len(Deactivates[t]) = Len(from) - l
        /\ \A i \in DOMAIN Deactivates[t] :
              Deactivates[t][i] = from[Len(from) + 1 - i]
        /\ \A i \in l + 1 .. Len(from) - 1 : Kind[from[i]] = "Hierarchical"
        /\ Len(Activates[t]) = Len(to) - l
        /\ \A i \in DOMAIN Activates[t] : Activates[t][i] = to[l + i]
        /\ \A i \in l + 1 .. Len(to) - 1 : Kind[to[i]] = "Hierarchical"

StructuredChart ==
    /\ \A s \in States : Kind[s] # "Fork"
    /\ \A s \in States \ {Root} :
          Kind[Parent[s]] = "Concurrent" => s \in ElementsOf(Regions[Parent[s]])
    /\ \A t \in Trans : Internal(t) \/ BetweenOrStates(t)

\* A composite without a start state is entered only on the way to one of its
\* substates: it is no region, no transition and no history pseudo-state ends
\* in it.
OnlyCrossed(h) ==
    /\ h # Root /\ Kind[Parent[h]] # "Concurrent"
    /\ \A t \in Trans : Activates[t] # <<>> => Activates[t][Len(Activates[t])] # h
    /\ \A q \in States : IsHistory(q) => ~Inside(h, Parent[q])

Enterable == \A h \in States : OrState(h) => StartState[h] # Null \/ OnlyCrossed(h)

\* No outgoing transition of a fork waits for an event.
ForksSilent ==
    \A s \in States : Kind[s] = "Fork" =>
        \A t \in ElementsOf(Outgoing[s]) : Trigger[t] = Null
=============================================================================
