---------------------------- MODULE Interpreter ----------------------------
(***************************************************************************)
(* The synchronous interpreter: Statechart::start, dispatch and            *)
(* restoreState with everything they call (State, HierarchicalState,       *)
(* ConcurrentState, PseudoState, Transition) on one Metadata object.       *)
(*                                                                         *)
(* The C++ call stack is explicit: `agenda' is the sequence of calls (and  *)
(* of the remainders of calls) still to be made, its head first, and `ret' *)
(* is the value of the last call that returned.  Each action is one call   *)
(* up to the next call it makes, so a user action that throws, a guard     *)
(* that an action changes, or another thread that reads the Metadata sees  *)
(* exactly the intermediate states the code goes through.                  *)
(***************************************************************************)
EXTENDS Metadata, FiniteSets

CONSTANTS
    Threshold,  \* m_infiniteLoopThreshold
    Throwing,   \* states and transitions whose user action may throw
    Restorable  \* states the user passes to restoreState

ASSUME ThresholdAssumption == Threshold \in Nat \ {0}
ASSUME ThrowingAssumption == Throwing \subseteq States \cup Trans
ASSUME RestorableAssumption == Restorable \subseteq RealStates

VARIABLES
    md,         \* the Metadata of the run
    param,      \* the user's Parameter: what guards read and actions write
    agenda,     \* pending calls
    ret,        \* result of the last call that returned
    outcome,    \* how the last call of the user ended
    tainted,    \* ghost: a call ended with an exception since start()
    fired,      \* ghost: the triggered transitions the last event has fired
    before      \* ghost: md when the last transition began to execute

vars == <<md, param, agenda, ret, outcome, tainted, fired, before>>

Ops == {"chart", "loop", "restored", "dispatch", "substate", "bubble",
        "regions", "forkEach", "enter", "activate", "entered", "runRegion",
        "deactivate", "leave", "call", "exit"}

Task == [op : Ops, x : States \cup Trans, e : OrNull(Events),
         k : Nat, b : BOOLEAN]

\* A call of op on x, with event e; k and b are local variables.
Do(op, x, e, k, b) == [op |-> op, x |-> x, e |-> e, k |-> k, b |-> b]
Call(op, x) == Do(op, x, Null, 1, FALSE)
CallEach(op, seq) == [i \in 1 .. Len(seq) |-> Call(op, seq[i])]

Outcomes == {"idle", "running", "done", "restored", "InfiniteLoop", "Threw"}

TypeOK ==
    /\ md \in RuntimeMap
    /\ param \in Data
    /\ agenda \in Seq(Task)
    /\ ret \in BOOLEAN
    /\ outcome \in Outcomes
    /\ tainted \in BOOLEAN
    /\ fired \in Seq(Trans)
    /\ before \in RuntimeMap

(***************************************************************************)
(* Control.  Next(op) is true when op is the call to make; Push replaces   *)
(* it by further calls, Return by its result.                              *)
(***************************************************************************)
Running(op) == agenda # <<>> /\ Head(agenda).op = op
Top == Head(agenda)
Push(tasks) == agenda' = tasks \o Tail(agenda)
Return(value) == agenda' = Tail(agenda) /\ ret' = value

control == <<param, outcome, tainted>>     \* untouched by ordinary calls

(***************************************************************************)
(* Transition::allowed and PseudoState::lookup, which call each other      *)
(* along a path of pseudo-states.  The depth is bounded by the number of   *)
(* transitions: a longer path visits a transition twice, where the code    *)
(* would recurse without end.                                              *)
(***************************************************************************)
GuardHolds(t) == Guard[t] # Null => param \in Guard[t]

JoinReady(join) ==
    \A i \in DOMAIN Incoming[join] :
        LET t == Incoming[join][i] IN
        /\ Deactivates[t] # <<>>
        /\ Deactivates[t][1] \in md.active
        /\ GuardHolds(t)

Open[n \in Nat, t \in Trans] ==
    LET target == Activates[t][Len(Activates[t])] IN
    /\ GuardHolds(t)
    /\ (Activates[t] # <<>> /\ IsPseudo(target)) =>
         /\ n > 0
         /\ IsKind(target, "Join") => JoinReady(target)
         /\ \E i \in DOMAIN Outgoing[target] : Open[n - 1, Outgoing[target][i]]

Allowed(t) == Open[Cardinality(Trans), t]

\* Mutant: the path behind a pseudo-state is not looked up.
EnabledIgnoringPath(t, e) == /\ Trigger[t] # Null => Trigger[t] = e
                             /\ GuardHolds(t)

\* Mutant: nullptr matches every trigger.
EnabledByNull(t, e) == /\ (Trigger[t] # Null /\ e # Null) => Trigger[t] = e
                       /\ Allowed(t)

\* The conditions under which Transition::execute does not return false.
\* Event::equals compares ids; a trigger never equals the null event.
Enabled(t, e) == /\ Trigger[t] # Null => Trigger[t] = e
                 /\ Allowed(t)

\* Positions of m_transitions whose transition would execute on e.
Ready(s, e) == {i \in DOMAIN Outgoing[s] : Enabled(Outgoing[s][i], e)}

\* Transition::execute past its early returns: deactivate every state of
\* m_deactivate, run the action, activate the states of m_activate, return
\* true; then come the calls in more.
Execute(t, more) ==
    /\ Push(CallEach("deactivate", Deactivates[t])
               \o <<Call("call", t), Call("enter", t)>> \o more)
    /\ before' = md
    /\ fired' = IF Trigger[t] = Null THEN fired ELSE Append(fired, t)
    /\ UNCHANGED <<md, ret, control>>

\* The loop over m_transitions: the first position of ready executes, and
\* if there is none the call returns false.
FireFirst(s, ready) ==
    \/ \E i \in ready : /\ \A j \in ready : i <= j
                        /\ Execute(Outgoing[s][i], <<>>)
    \/ /\ ready = {}
       /\ Return(FALSE)
       /\ UNCHANGED <<md, fired, before, control>>

\* Steps that only move the control.
Quiet == UNCHANGED <<md, control, fired, before>>

(***************************************************************************)
(* dispatch(event) on a state, by the class of the state.                  *)
(***************************************************************************)
\* State::dispatch, for simple and final states and for every pseudo-state but
\* a fork.  PseudoState::dispatch forwards to the restored state when the
\* history it is called on is not its parent's current state; it never is
\* called then (HistoryDispatchedAsCurrent), so that branch has no action.
DispatchState ==
    /\ Running("dispatch")
    /\ Kind[Top.x] \notin {"Statechart", "Hierarchical", "Concurrent", "Fork"}
    /\ FireFirst(Top.x, Ready(Top.x, Top.e))

\* A fork executes every outgoing transition it can and reports success.
DispatchFork ==
    /\ \/ Running("dispatch") /\ Kind[Top.x] = "Fork"
       \/ Running("forkEach")
    /\ LET out == Outgoing[Top.x]
           k == Top.k
           more == <<Do("forkEach", Top.x, Top.e, k + 1, FALSE)>>
       IN \/ /\ k > Len(out)
             /\ Return(TRUE) /\ Quiet
          \/ /\ k \in DOMAIN out
             /\ Enabled(out[k], Top.e)
             /\ Execute(out[k], more)
          \/ /\ k \in DOMAIN out
             /\ ~Enabled(out[k], Top.e)
             /\ Push(more) /\ UNCHANGED ret /\ Quiet

\* HierarchicalState::dispatch up to the dispatch on the substate: the start
\* state is entered when there is no current substate yet.
DispatchHierarchical ==
    /\ Running("dispatch") /\ Kind[Top.x] = "Hierarchical"
    /\ LET h == Top.x
           substate == Do("substate", h, Top.e, 1, FALSE)
       IN \/ /\ h \notin md.active
             /\ Return(FALSE) /\ Quiet
          \/ /\ h \in md.active
             /\ md.current[h] = Null /\ StartState[h] # Null
             /\ md' = MdActivate(md, StartState[h])
             /\ Push(<<Call("activate", StartState[h]), substate>>)
             /\ UNCHANGED <<ret, fired, before, control>>
          \/ /\ h \in md.active
             /\ md.current[h] # Null \/ StartState[h] = Null
             /\ Push(<<substate>>) /\ UNCHANGED ret /\ Quiet

\* Mutant: the event goes to a history pseudo-state that is still active.
DispatchSubstateToHistory ==
    /\ Running("substate")
    /\ LET current == IF HistoryState[Top.x] \in md.active
                      THEN HistoryState[Top.x] ELSE md.current[Top.x]
       IN Push(<<Do("dispatch", current, Top.e, 1, FALSE),
                 Do("bubble", Top.x, Top.e, 1, FALSE)>>)
    /\ UNCHANGED ret /\ Quiet

DispatchSubstate ==
    /\ Running("substate")
    /\ LET current == md.current[Top.x]
           bubble == Do("bubble", Top.x, Top.e, 1, FALSE)
       IN IF current # Null
          THEN /\ Push(<<Do("dispatch", current, Top.e, 1, FALSE), bubble>>)
               /\ UNCHANGED ret
          ELSE Push(<<bubble>>) /\ ret' = FALSE
    /\ Quiet

\* The rest of HierarchicalState::dispatch: what the substate handled is not
\* offered to the composite's own transitions, unless the substate is now a
\* final state; transitions without a trigger wait for a final state.
MayBubble(h, e) ==
    {i \in Ready(h, e) :
        Trigger[Outgoing[h][i]] # Null \/ IsKind(md.current[h], "Final")}

\* Mutant: the composite always gets the event too.
HandledBelowNever(h) == FALSE

HandledBelow(h) == ret /\ ~IsKind(md.current[h], "Final")

Bubble ==
    /\ Running("bubble")
    /\ LET h == Top.x IN
       \/ /\ h \notin md.active \/ HandledBelow(h)
          /\ Return(ret) /\ Quiet
       \/ /\ h \in md.active /\ ~HandledBelow(h)
          /\ FireFirst(h, MayBubble(h, Top.e))

\* ConcurrentState::dispatch: every region gets the event while the state is
\* active; its own transitions only if no region reported to have handled it.
DispatchConcurrent ==
    /\ Running("dispatch") /\ Kind[Top.x] = "Concurrent"
    /\ Push(<<Do("regions", Top.x, Top.e, 1, FALSE)>>)
    /\ ret' = FALSE /\ Quiet

\* Mutant: a completed concurrent state waits for an event.
MayCompleteNever(c, e) ==
    {i \in Ready(c, e) : Trigger[Outgoing[c][i]] # Null}

MayComplete(c, e) ==
    {i \in Ready(c, e) : Trigger[Outgoing[c][i]] # Null \/ Finished(md, c)}

DispatchRegions ==
    /\ Running("regions")
    /\ LET c == Top.x
           k == Top.k
           dispatched == Top.b \/ ret
       IN \/ /\ k \in DOMAIN Regions[c] /\ c \in md.active
             /\ Push(<<Do("dispatch", Regions[c][k], Top.e, 1, FALSE),
                       Do("regions", c, Top.e, k + 1, dispatched)>>)
             /\ UNCHANGED ret /\ Quiet
          \/ /\ k \notin DOMAIN Regions[c] \/ c \notin md.active
             /\ dispatched \/ c \notin md.active
             /\ Return(dispatched) /\ Quiet
          \/ /\ k \notin DOMAIN Regions[c] /\ c \in md.active
             /\ ~dispatched
             /\ FireFirst(c, MayComplete(c, Top.e))

(***************************************************************************)
(* Entering states.                                                        *)
(***************************************************************************)
\* The activation loop of Transition::execute.  A concurrent state entered
\* below its border has the region on the path registered first.
Enter ==
    /\ Running("enter")
    /\ LET path == Activates[Top.x]
           k == Top.k
       IN \/ /\ k > Len(path)
             /\ Return(TRUE) /\ Quiet
          \/ /\ k \in DOMAIN path
             /\ md' = IF Kind[path[k]] = "Concurrent" /\ k < Len(path)
                      THEN RegisterRegion(md, path[k], path[k + 1]) ELSE md
             /\ Push(<<Call("activate", path[k]),
                       Do("enter", Top.x, Null, k + 1, FALSE)>>)
             /\ UNCHANGED <<ret, fired, before, control>>

\* State::activate and the head of PseudoState::activate, up to the entry
\* and do actions.  Only a real state that is already active is left alone.
Activate ==
    /\ Running("activate")
    /\ LET s == Top.x IN
       \/ /\ ~IsPseudo(s) /\ s \in md.active
          /\ Return(FALSE) /\ Quiet
       \/ /\ IsPseudo(s) \/ s \notin md.active
          /\ md' = MdActivate(md, s)
          /\ Push(<<Call("call", s), Call("entered", s)>>)
          /\ UNCHANGED <<ret, fired, before, control>>

\* PseudoState::activate of a fork: the regions its outgoing transitions
\* lead into, as far as the guards hold now, are registered.
ForkTargets(fork) ==
    {t \in ElementsOf(Outgoing[fork]) : GuardHolds(t)}

ForkEnters(fork, c) ==
    {r \in States : \E t \in ForkTargets(fork) :
        \E i \in 1 .. Len(Activates[t]) - 1 :
            Activates[t][i] = c /\ Activates[t][i + 1] = r}

RegisterForkRegions(m, fork) ==
    LET composites == {c \in States :
                         Kind[c] = "Concurrent" /\ ForkEnters(fork, c) # {}}
    IN [m EXCEPT !.present = @ \cup composites,
                 !.stateset = [c \in States |->
                     IF c \in composites THEN @[c] \cup ForkEnters(fork, c)
                     ELSE @[c]]]

\* Mutant: the recorded states are activated from the leaf up.
RecordedFromLeaf(history, k) ==
    {s \in md.stateset[history] : Len(Path[s]) =
        Len(Path[history]) + Cardinality(md.stateset[history]) - k}

\* The k-th state a history pseudo-state has recorded: one per level.
Recorded(history, k) ==
    {s \in md.stateset[history] : Len(Path[s]) = Len(Path[history]) + k - 1}

\* What follows the entry action.
Entered ==
    /\ Running("entered")
    /\ LET s == Top.x
           k == Top.k
           next == Do("entered", s, Null, k + 1, FALSE)
       IN \/ /\ Kind[s] = "Concurrent" /\ k \in DOMAIN Regions[s]
             /\ Regions[s][k] \notin md.stateset[s]
             /\ Push(<<Call("activate", Regions[s][k]),
                       Call("runRegion", Regions[s][k]), next>>)
             /\ UNCHANGED ret /\ Quiet
          \/ \* `statedata' dangles once a region's first step has left the
             \* concurrent state: the set it is searched in is then arbitrary.
             /\ Kind[s] = "Concurrent" /\ k \in DOMAIN Regions[s]
             /\ Regions[s][k] \in md.stateset[s] \/ s \notin md.present
             /\ Push(<<next>>)
             /\ UNCHANGED ret /\ Quiet
          \/ /\ IsHistory(s)
             /\ \E r \in Recorded(s, k) : Push(<<Call("activate", r), next>>)
             /\ UNCHANGED ret /\ Quiet
          \/ /\ Kind[s] = "Fork"
             /\ md' = RegisterForkRegions(md, s)
             /\ Return(TRUE)
             /\ UNCHANGED <<fired, before, control>>
          \/ /\ Kind[s] = "Concurrent" => k > Len(Regions[s])
             /\ IsHistory(s) => Recorded(s, k) = {}
             /\ Kind[s] # "Fork"
             /\ Return(TRUE) /\ Quiet

\* ConcurrentState::activate dispatches nullptr to a region it has started.
RunRegion ==
    /\ Running("runRegion")
    /\ Push(IF ret THEN <<Call("dispatch", Top.x)>> ELSE <<>>)
    /\ UNCHANGED ret /\ Quiet

(***************************************************************************)
(* Leaving states.                                                         *)
(***************************************************************************)
StoresHistory(h) ==
    /\ HistoryState[h] # Null
    /\ md.current[h] \notin {StartState[h], HistoryState[h]}
    /\ ~IsKind(md.current[h], "Final")

DeactivateHierarchical ==
    /\ Running("deactivate") /\ Kind[Top.x] = "Hierarchical"
    /\ LET h == Top.x IN
       \/ /\ h \notin md.active
          /\ Push(<<>>) /\ UNCHANGED ret /\ Quiet
       \/ /\ h \in md.active
          /\ md' = IF StoresHistory(h) THEN StoreHistory(md, HistoryState[h])
                   ELSE md
          /\ Push(IF md.current[h] = Null THEN <<Call("leave", h)>>
                  ELSE <<Call("deactivate", md.current[h]), Call("leave", h)>>)
          /\ UNCHANGED <<ret, fired, before, control>>

DeactivateConcurrent ==
    /\ Running("deactivate") /\ Kind[Top.x] = "Concurrent"
    /\ md' = [md EXCEPT !.stateset[Top.x] = {}]
    /\ Push(CallEach("deactivate", Regions[Top.x]) \o <<Call("leave", Top.x)>>)
    /\ UNCHANGED <<ret, fired, before, control>>

\* State::deactivate, where the overriding methods end up too.
Leave ==
    /\ \/ Running("leave")
       \/ /\ Running("deactivate")
          /\ Kind[Top.x] \notin {"Hierarchical", "Concurrent"}
    /\ \/ /\ Top.x \notin md.active
          /\ Push(<<>>) /\ UNCHANGED <<md, ret>>
       \/ /\ Top.x \in md.active
          /\ md' = MdDeactivate(md, Top.x)
          /\ Push(<<Call("exit", Top.x)>>) /\ UNCHANGED ret
    /\ UNCHANGED <<fired, before, control>>

(***************************************************************************)
(* User actions: entry, do and exit actions of a state, the action of a    *)
(* transition.  An action may change the Parameter, or throw, which        *)
(* unwinds every pending call up to the user.                              *)
(***************************************************************************)
Written(action) == IF action = Null THEN param ELSE action[param]

RunAction ==
    /\ \/ Running("call") /\ param' = Written(Effect[Top.x])
       \/ Running("exit") /\ param' = Written(ExitEffect[Top.x])
    /\ Push(<<>>)
    /\ UNCHANGED <<md, ret, outcome, tainted, fired, before>>

ThrowAction ==
    /\ Running("call") \/ Running("exit")
    /\ Top.x \in Throwing
    /\ agenda' = <<>>
    /\ outcome' = "Threw"
    /\ tainted' = TRUE
    /\ UNCHANGED <<md, param, ret, fired, before>>

(***************************************************************************)
(* Statechart::dispatch: the event, then nullptr until nothing fires.      *)
(***************************************************************************)
\* Mutant: currentState is used unchecked.
DispatchChartUnchecked ==
    /\ Running("chart")
    /\ Push(<<Do("dispatch", md.current[Root], Top.e, 1, FALSE),
              Do("loop", Root, Null, 0, FALSE)>>)
    /\ UNCHANGED ret /\ Quiet

DispatchChart ==
    /\ Running("chart")
    /\ LET loop == Do("loop", Root, Null, 0, FALSE)
           current == md.current[Root]
       IN IF current # Null
          THEN /\ Push(<<Do("dispatch", current, Top.e, 1, FALSE), loop>>)
               /\ UNCHANGED ret
          ELSE Push(<<loop>>) /\ ret' = FALSE
    /\ Quiet

\* k dispatches of nullptr have been made, b is the result for the user.
TooManyStepsEarly(k) == 2 * k >= Threshold  \* mutant: limit too low
TooManyStepsLate(k) == k > Threshold    \* mutant: off by one
TooManySteps(k) == k >= Threshold

CountedPerStep(k) == 1                  \* mutant: the counter restarts
Counted(k) == k + 1

ResultOfLastStep(k) == ret              \* mutant: rc is overwritten
ResultOfEvent(k) == IF k = 0 THEN ret ELSE Top.b

Loop ==
    /\ Running("loop")
    /\ LET k == Top.k
           rc == ResultOfEvent(k)
           current == md.current[Root]
           progress == k = 0 \/ ret
       IN \/ /\ progress /\ k > 0 /\ TooManySteps(k)
             /\ agenda' = <<>> /\ outcome' = "InfiniteLoop" /\ tainted' = TRUE
             /\ UNCHANGED ret
          \/ /\ progress /\ ~(k > 0 /\ TooManySteps(k)) /\ current # Null
             /\ Push(<<Call("dispatch", current),
                       Do("loop", Root, Null, Counted(k), rc)>>)
             /\ UNCHANGED <<ret, outcome, tainted>>
          \/ /\ ~progress \/ (~(k > 0 /\ TooManySteps(k)) /\ current = Null)
             /\ Return(rc)
             /\ outcome' = "done" /\ UNCHANGED tainted
    /\ UNCHANGED <<md, param, fired, before>>

Restored ==
    /\ Running("restored")
    /\ Return(TRUE)
    /\ outcome' = "restored"
    /\ UNCHANGED <<md, param, tainted, fired, before>>

(***************************************************************************)
(* The calls a user makes, one at a time: Metadata carries a mutex.  Every *)
(* call may bring another Parameter.                                       *)
(***************************************************************************)
\* Mutant: start() does not reset the Metadata.
StartedMapKeeping ==
    LET started == MdActivate(md, Root) IN
    IF StartState[Root] = Null THEN started
    ELSE MdActivate(started, StartState[Root])

StartedMap ==
    LET started == MdActivate(EmptyMap, Root) IN
    IF StartState[Root] = Null THEN started
    ELSE MdActivate(started, StartState[Root])

BeginCall(tasks) ==
    /\ agenda = <<>>
    /\ agenda' = tasks
    /\ param' \in Vary[param]
    /\ outcome' = "running"
    /\ fired' = <<>>
    /\ before' = EmptyMap
    /\ UNCHANGED ret

StartChart ==
    /\ BeginCall(<<Call("chart", Root)>>)
    /\ md' = StartedMap
    /\ tainted' = FALSE

DispatchEvent(e) ==
    /\ Root \in md.present
    /\ BeginCall(<<Do("chart", Root, e, 1, FALSE)>>)
    /\ UNCHANGED <<md, tainted>>

\* Mutant: a running Metadata is overwritten.
RestoreStateAlways(s) ==
    /\ BeginCall(CallEach("activate", Path[s]) \o <<Call("restored", Root)>>)
    /\ md' = EmptyMap
    /\ tainted' = FALSE

\* Only on a Metadata that is not running: the contexts of the state and the
\* state itself are activated, from the root down.
RestoreState(s) ==
    /\ Root \notin md.active
    /\ BeginCall(CallEach("activate", Path[s]) \o <<Call("restored", Root)>>)
    /\ md' = EmptyMap
    /\ tainted' = FALSE

UserCall == \/ StartChart
            \/ \E e \in Events : DispatchEvent(e)
            \/ \E s \in Restorable : RestoreState(s)

Step == \/ DispatchState \/ DispatchFork
        \/ DispatchHierarchical \/ DispatchSubstate \/ Bubble
        \/ DispatchConcurrent \/ DispatchRegions
        \/ Enter \/ Activate \/ Entered \/ RunRegion
        \/ DeactivateHierarchical \/ DeactivateConcurrent \/ Leave
        \/ RunAction \/ ThrowAction
        \/ DispatchChart \/ Loop \/ Restored

Next == UserCall \/ Step

Init ==
    /\ md = EmptyMap
    /\ param \in Initial
    /\ agenda = <<>>
    /\ ret = FALSE
    /\ outcome = "idle"
    /\ tainted = FALSE
    /\ fired = <<>>
    /\ before = EmptyMap

Spec == Init /\ [][Next]_vars

\* The thread that made a call keeps executing it; users call when they like.
FairSpec == Spec /\ WF_vars(Step)

(***************************************************************************)
(* What a configuration must look like between two calls.                  *)
(***************************************************************************)
\* A dispatch or a start has ended, and no call has thrown since start().
AtRest == outcome = "done" /\ ~tainted

\* Every active state lies in an active context.
ContextsActive ==
    \A s \in md.active \cap RealStates : Parent[s] \in md.active

\* doc/statecharts.md, Hierarchical states: exactly one substate of an
\* active or-state is active at a time, and it is the one currentState names.
OneSubstate ==
    \A h \in md.active :
        Kind[h] \in {"Statechart", "Hierarchical"} =>
            ChildrenOf(h) \cap RealStates \cap md.active = {md.current[h]}

\* doc/statecharts.md, Concurrent states: all regions are active as soon as
\* the and-state is, and none is without the others.
RegionsTogether ==
    \A c \in md.active :
        Kind[c] = "Concurrent" => ElementsOf(Regions[c]) \subseteq md.active

\* doc/statecharts.md, States and Actions: the statechart must not stay in a
\* pseudo-state.  (A history pseudo-state is the exception, see README.)
NoPseudoState ==
    \A s \in md.active : IsPseudo(s) => IsHistory(s)

\* A pseudo-state that is dispatched to has a transition to take, whatever the
\* actions before it made of the Parameter.  A chart without it asks the code
\* to stay in the pseudo-state: State::dispatch (State.cpp:160) returns false.
WayOn == (Running("dispatch") /\ IsPseudo(Top.x)) => Ready(Top.x, Top.e) # {}

\* A dispatch has come back from the current substate of a composite with
\* true, and that substate is now a final state (HierarchicalState.cpp:109-116).
JustFinished ==
    /\ Running("bubble") /\ Top.x \in md.active
    /\ ret /\ IsKind(md.current[Top.x], "Final")

\* The composite then has a transition to take on an event of E.  A chart
\* without it has HierarchicalState::dispatch answer false although a
\* transition has fired.
FinishGoesOn(E) ==
    (JustFinished /\ Top.e \in E) => MayBubble(Top.x, Top.e) # {}

\* The one it takes waits for no event: it completes the composite.
FinishCompletes ==
    (JustFinished /\ Top.e # Null) =>
        \A i \in MayBubble(Top.x, Top.e) :
            (\A j \in MayBubble(Top.x, Top.e) : i <= j) =>
                Trigger[Outgoing[Top.x][i]] = Null

\* Between two dispatches the active states form a configuration of the
\* chart, whatever sequence of events, guard values and restarts led there.
LegalConfiguration ==
    AtRest => ContextsActive /\ OneSubstate /\ RegionsTogether /\ NoPseudoState

\* A transition without a trigger that the interpreter would take if it
\* were dispatched nullptr now.
Pending(t) ==
    LET s == Source[t] IN
    /\ Trigger[t] = Null
    /\ s \in md.active \cap RealStates
    /\ Kind[s] = "Hierarchical" => IsKind(md.current[s], "Final")
    /\ Kind[s] = "Concurrent" => Finished(md, s)
    /\ Allowed(t)

\* A dispatch of nullptr has brought a composite to its final state, and the
\* composite, having nothing to take, answers false, so that the loop of
\* Statechart::dispatch may stop here (HierarchicalState.cpp:124-141).  What
\* that dispatch does not come to any more, the final state and the regions
\* that have answered false before, has nothing to take then either.
NothingOverlooked ==
    (JustFinished /\ Top.e = Null /\ MayBubble(Top.x, Null) = {}) =>
        \A t \in Trans : Pending(t) =>
            /\ Source[t] # md.current[Top.x]
            /\ \A i \in DOMAIN agenda : (agenda[i].op = "regions" /\ ~agenda[i].b) =>
                  LET c == agenda[i].x IN
                  \A j \in DOMAIN Regions[c] :
                      j < agenda[i].k - 1 => ~Above(Regions[c][j], Source[t])

\* Statechart::dispatch feeds nullptr "until no transition fires anymore"
\* (Statechart.cpp:168): nothing without a trigger is left to fire.
RunToCompletion == AtRest => \A t \in Trans : ~Pending(t)

\* Sources in different regions of one concurrent state.
Orthogonal(s, t) ==
    \E k \in DOMAIN Path[s] \cap DOMAIN Path[t] :
        /\ k + 1 \in DOMAIN Path[s] \cap DOMAIN Path[t]
        /\ Path[s][k] = Path[t][k]
        /\ Kind[Path[s][k]] = "Concurrent"
        /\ Path[s][k + 1] # Path[t][k + 1]

\* doc/statecharts.md, State transitions: of nested transitions on the same
\* event only the innermost fires; one event fires more than one transition
\* only in different regions.
EventConsumedOnce ==
    \A i, j \in DOMAIN fired :
        i # j => Orthogonal(Source[fired[i]], Source[fired[j]])

\* State::dispatch returns "true if a transition fired, false otherwise"
\* (State.hpp:148), and Statechart::dispatch hands that result on.
ResultReportsFiring == (AtRest /\ fired # <<>>) => ret

\* doc/statecharts.md, Events: an event is only handled by a state that is
\* active when it is handled.
OnlyActiveStatesReact ==
    [][Len(fired') > Len(fired) => Source[fired'[Len(fired')]] \in md.active]_vars

\* The substates of h a history must remember when a transition that began
\* in map m leaves h: the direct one, or all of them down to the leaf.
ToRemember(m, h) ==
    LET below == {s \in RealStates \cap m.active :
                    s # h /\ h \in ElementsOf(Path[s])}
    IN IF Kind[HistoryState[h]] = "History"
       THEN below \cap ChildrenOf(h) ELSE below

\* doc/statecharts.md, History states: when a composite is left while one of
\* its substates (not the final state) is active, its history pseudo-state
\* has recorded what was active when the transition began, as long as no
\* exception has cut a transition short.
HistoryRemembers ==
    [][\A h \in md.active \ md'.active :
          /\ agenda # <<>> /\ ~tainted
          /\ HistoryState[h] # Null
          /\ ToRemember(before, h) # {}
          /\ \A s \in ToRemember(before, h) : Kind[s] # "Final"
          => md'.stateset[HistoryState[h]] = ToRemember(before, h)]_vars

\* Statechart.hpp:229: the loop exception signals a cycle of trigger-less
\* transitions, so it is not thrown when nothing is left to fire.
LoopReportJustified ==
    outcome = "InfiniteLoop" => \E t \in Trans : Pending(t)

\* Every call of the user returns or throws: no chart hangs the interpreter.
DispatchReturns == (outcome = "running") ~> (outcome # "running")

(***************************************************************************)
(* The structure every reachable state has, on every chart and also after  *)
(* user actions have thrown; Interpreter_proofs proves it.                 *)
(***************************************************************************)
\* Every active state owns a record and every currentState is a child of the
\* state whose record holds it (Metadata.cpp:67-135).
CurrentIsChild == MapOK(md)

\* The shape of the call stack: the user's call is at its bottom and nowhere
\* else, dispatch is called last thing before it runs, the Statechart itself
\* is neither left nor dispatched to, and the loop has made at most
\* Threshold dispatches of nullptr.
BottomOps == {"chart", "loop", "restored"}
FrameOK(f) ==
    /\ f.op \in {"deactivate", "leave"} => f.x \in States \ {Root}
    /\ f.op \in {"dispatch", "substate", "bubble", "regions", "forkEach",
                 "activate", "entered", "exit"} => f.x \in States
    /\ f.op = "enter" => f.x \in Trans
    /\ f.op = "runRegion" => f.x \in States /\ Kind[f.x] = "Hierarchical"
    /\ f.op = "loop" => f.k <= Threshold

StackOK(stack) ==
    \A i \in DOMAIN stack :
        /\ FrameOK(stack[i])
        /\ stack[i].op \in BottomOps <=> i = Len(stack)
        /\ stack[i].op = "dispatch" => i = 1

CallStack ==
    /\ (agenda # <<>>) <=> (outcome = "running")
    /\ StackOK(agenda)

\* Any state but a region gets an event only as its parent's current state.
DispatchTarget ==
    Running("dispatch") =>
        \/ Kind[Top.x] = "Hierarchical"
        \/ md.current[Parent[Top.x]] = Top.x

\* PseudoState.cpp:227-237: a history pseudo-state is only ever dispatched to
\* as its parent's current state.
HistoryDispatchedAsCurrent ==
    (Running("dispatch") /\ IsHistory(Top.x)) => md.current[Parent[Top.x]] = Top.x

\* start() makes the Statechart active and nothing but another start() or a
\* restoreState() on a fresh Metadata deactivates it, not even an exception:
\* dispatch stays possible (Statechart.cpp:157) and restoreState refuses
\* (Statechart.cpp:126).
RootStaysActive == [][(Root \in md.active) => (Root \in (md').active)]_vars
=============================================================================
