------------------------------ MODULE Metadata ------------------------------
(***************************************************************************)
(* class Metadata: the run-time side of a statechart, a map from states to *)
(* StateRuntimedata records.  A value m of RuntimeMap stands for           *)
(* m_activeStates:                                                         *)
(*   m.present    the keys of the map (states that own a record)           *)
(*   m.active     those whose record has active = true                     *)
(*   m.current    currentState of each record                              *)
(*   m.stateset   stateset of each record: the regions a concurrent state  *)
(*                must not start by itself, or the states a history        *)
(*                pseudo-state recorded                                    *)
(* A state without a record has the field values of a fresh one, which is  *)
(* what emplace() gives it when it is created.                             *)
(***************************************************************************)
EXTENDS ChartGraph

RuntimeMap ==
    [present : SUBSET States, active : SUBSET States,
     current : [States -> OrNull(States)], stateset : [States -> SUBSET States]]

EmptyMap ==
    [present  |-> {},
     active   |-> {},
     current  |-> [s \in States |-> Null],
     stateset |-> [s \in States |-> {}]]

\* Mutants: the parent learns of its first current state only; every context
\* learns of the new one.
MdActivateFirstOnly(m, s) ==
    [m EXCEPT !.present = @ \cup {s}, !.active = @ \cup {s},
              !.current = [x \in States |->
                  IF x = s THEN Null
                  ELSE IF x = Parent[s] /\ @[x] = Null THEN s ELSE @[x]]]
MdActivateEverywhere(m, s) ==
    [m EXCEPT !.present = @ \cup {s}, !.active = @ \cup {s},
              !.current = [x \in States |->
                  IF x = s THEN Null
                  ELSE IF x \in ElementsOf(Path[s]) THEN s ELSE @[x]]]

\* Metadata::activate: the parent's current state moves only if the parent
\* owns a record.
MdActivate(m, s) ==
    [m EXCEPT !.present = @ \cup {s},
              !.active = @ \cup {s},
              !.current = [x \in States |->
                  IF x = s THEN Null
                  ELSE IF x = Parent[s] /\ x \in m.present THEN s ELSE @[x]]]

\* Metadata::deactivate: a history pseudo-state keeps its record, any other
\* record is erased.  The parent's currentState is not touched.
MdDeactivate(m, s) ==
    IF s \notin m.present THEN m
    ELSE IF IsHistory(s) THEN [m EXCEPT !.active = @ \ {s}]
    ELSE [m EXCEPT !.present = @ \ {s},
                   !.active = @ \ {s},
                   !.current[s] = Null,
                   !.stateset[s] = {}]

\* Mutant: the record is created but the region is not registered.
RegisterNoRegion(m, concurrent, region) ==
    [m EXCEPT !.present = @ \cup {concurrent}]

\* The block Transition::execute and a fork's activate share: create the
\* record of a concurrent state that is about to be entered below its border
\* and register the region that is entered explicitly.
RegisterRegion(m, concurrent, region) ==
    [m EXCEPT !.present = @ \cup {concurrent},
              !.stateset[concurrent] = @ \cup {region}]

\* calculateHistoryChain: p_state itself and, for a deep history, the states
\* below it that the currentState pointers of hierarchical states lead to.
\* The recursion visits one state per level, so the vector it fills is the
\* set of visited states in the order of their depth.
HistoryChain(m, state, kind) ==
    IF state = Null THEN {}
    ELSE IF kind = "History" THEN {state}
    ELSE LET top == Len(Path[state]) IN
         {d \in States :
            /\ top \in DOMAIN Path[d]
            /\ Path[d][top] = state
            /\ \A i \in top .. Len(Path[d]) - 1 :
                 /\ IsKind(Path[d][i], "Hierarchical")
                 /\ m.current[Path[d][i]] = Path[d][i + 1]}

\* Mutant: the new chain is appended to the recorded one.
StoreHistoryWithoutClear(m, history) ==
    IF history \notin m.present THEN m
    ELSE [m EXCEPT !.stateset[history] =
             @ \cup HistoryChain(m, m.current[Parent[history]], Kind[history])]

\* PseudoState::storeHistory: returns early when the history pseudo-state has
\* never been activated and so owns no record.
StoreHistory(m, history) ==
    IF history \notin m.present THEN m
    ELSE [m EXCEPT !.stateset[history] =
             HistoryChain(m, m.current[Parent[history]], Kind[history])]

\* ConcurrentState::finished
Finished(m, concurrent) ==
    \A i \in DOMAIN Regions[concurrent] :
        IsKind(m.current[Regions[concurrent][i]], "Final")

\* The structure of the map: active states own a record, and currentState of
\* a record names a child of the state that owns it.
MapOK(m) ==
    /\ m.active \subseteq m.present
    /\ \A p \in States : m.current[p] # Null => Parent[m.current[p]] = p
=============================================================================
