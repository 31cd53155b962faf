---------------------------- MODULE ChartBuilder ----------------------------
(***************************************************************************)
(* How Statechart::create, createTransition and createInternalTransition   *)
(* turn a list of declarations, in program order, into the structure the   *)
(* interpreter walks.  A declaration is a record:                          *)
(*   state       name, kind, parent (the statechart itself is ChartName),  *)
(*               entry, exit                                               *)
(*   transition  name, source, target, trigger, guard, effect, internal    *)
(*   parameter   data, initial, vary: its values, the first ones, and what *)
(*               the program may set between two calls                     *)
(* A guard is the set of values on which it holds, an action a function on *)
(* the values.                                                             *)
(***************************************************************************)
EXTENDS Naturals, Sequences, SequencesExt

CONSTANT Nothing    \* nullptr
ChartName == "chart"

(***************************************************************************)
(* Declarations: create<T>, the constructors of Transition, the two of     *)
(* InternalTransition, and Condition, which is a junction together with    *)
(* its two ways out.                                                       *)
(***************************************************************************)
St(name, kind, parent) ==
    [name |-> name, kind |-> kind, parent |-> parent,
     entry |-> Nothing, exit |-> Nothing]
Entering(state, action) == [state EXCEPT !.entry = action]

Tr(name, source, target, trigger, guard) ==
    [name |-> name, source |-> source, target |-> target, trigger |-> trigger,
     guard |-> guard, effect |-> Nothing, internal |-> FALSE]
Go(name, source, target) == Tr(name, source, target, Nothing, Nothing)
On(name, source, target, event) == Tr(name, source, target, event, Nothing)
When(name, source, target, guard) == Tr(name, source, target, Nothing, guard)
Doing(transition, action) == [transition EXCEPT !.effect = action]
Within(transition) == [transition EXCEPT !.internal = TRUE]

Condition(name, guard, whenTrue, otherwise) ==
    << When(name \o "?", name, whenTrue, guard),
       Go(name \o ":", name, otherwise) >>

(***************************************************************************)
(* Transition::calculateStateSet on the two root-to-state paths, both      *)
(* without the statechart: what to exit, innermost first, and what to      *)
(* enter, outermost first.                                                 *)
(***************************************************************************)
SharedLength(from, to) ==
    LET shorter == IF Len(from) < Len(to) THEN Len(from) ELSE Len(to)
        agree == {n \in 0 .. shorter : \A i \in 1 .. n : from[i] = to[i]}
    IN IF from = to THEN shorter - 1
       ELSE CHOOSE n \in agree : \A k \in agree : k <= n

Below(path, depth) == SubSeq(path, depth + 1, Len(path))

ExitList(from, to) == Reverse(Below(from, SharedLength(from, to)))
EntryList(from, to) == Below(to, SharedLength(from, to))

\* State::addTransition: a guarded transition goes to the front.
TransitionOrder(declared) ==
    LET guarded(t) == t.guard # Nothing
        unguarded(t) == t.guard = Nothing
    IN Reverse(SelectSeq(declared, guarded)) \o SelectSeq(declared, unguarded)

NamesOf(declared) == [i \in DOMAIN declared |-> declared[i].name]

(***************************************************************************)
(* The record ChartGraph expects.  `states' lists contexts before their    *)
(* children, as the constructors need them.                                *)
(***************************************************************************)
BuildChart(states, transitions, parameter) ==
    LET names == {ChartName} \cup ToSet(NamesOf(states))
        trans == ToSet(NamesOf(transitions))
        stateOf(n) == CHOOSE d \in ToSet(states) : d.name = n
        transOf(n) == CHOOSE d \in ToSet(transitions) : d.name = n
        kind == [n \in names |->
                   IF n = ChartName THEN "Statechart" ELSE stateOf(n).kind]
        parent == [n \in names |->
                     IF n = ChartName THEN Nothing ELSE stateOf(n).parent]
        path[n \in names] == IF n = ChartName THEN <<n>>
                             ELSE Append(path[parent[n]], n)
        below(n) == Tail(path[n])
        \* ConcurrentState::addRegion, from the HierarchicalState constructor
        regions == [n \in names |->
            IF kind[n] # "Concurrent" THEN <<>>
            ELSE NamesOf(SelectSeq(states, LAMBDA d :
                     d.parent = n /\ d.kind = "Hierarchical"))]
        \* PseudoState constructor; a second one of a kind throws
        childOf(n, kinds) ==
            LET found == {d \in ToSet(states) : d.parent = n /\ d.kind \in kinds}
            IN IF found = {} THEN Nothing ELSE (CHOOSE d \in found : TRUE).name
        internal(t) == transOf(t).internal
    IN [states   |-> names,
        root     |-> ChartName,
        trans    |-> trans,
        data     |-> parameter.data,
        initial  |-> parameter.initial,
        vary     |-> parameter.vary,
        kind     |-> kind,
        parent   |-> parent,
        path     |-> path,
        regions  |-> regions,
        start    |-> [n \in names |-> childOf(n, {"Start"})],
        history  |-> [n \in names |-> childOf(n, {"History", "DeepHistory"})],
        outgoing |-> [n \in names |->
            NamesOf(TransitionOrder(
                SelectSeq(transitions, LAMBDA d : d.source = n)))],
        incoming |-> [n \in names |->
            IF kind[n] # "Join" THEN <<>>
            ELSE NamesOf(SelectSeq(transitions, LAMBDA d : d.target = n))],
        source   |-> [t \in trans |-> transOf(t).source],
        trigger  |-> [t \in trans |-> transOf(t).trigger],
        guard    |-> [t \in trans |-> transOf(t).guard],
        effect   |-> [x \in names \cup trans |->
            IF x = ChartName THEN Nothing
            ELSE IF x \in trans THEN transOf(x).effect ELSE stateOf(x).entry],
        exitEffect |-> [n \in names |->
            IF n = ChartName THEN Nothing ELSE stateOf(n).exit],
        \* InternalTransition clears both lists
        deactivates |-> [t \in trans |->
            IF internal(t) THEN <<>>
            ELSE ExitList(below(transOf(t).source), below(transOf(t).target))],
        activates |-> [t \in trans |->
            IF internal(t) THEN <<>>
            ELSE EntryList(below(transOf(t).source), below(transOf(t).target))]]
=============================================================================
