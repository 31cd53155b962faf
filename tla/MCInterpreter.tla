--------------------------- MODULE MCInterpreter ---------------------------
(***************************************************************************)
(* Charts for TLC.  Each is built by the program order of its declarations *)
(* and keeps the shape of the test chart named at its head, with the       *)
(* triggers shared so that few events reach every state.                   *)
(***************************************************************************)
EXTENDS Interpreter, ChartBuilder

Setting(t, flag, value) == [t EXCEPT !.effect = <<flag, value>>]

\* A chart whose Parameter is one flag per guard, which the user may set to
\* anything between two calls.
FlagChart(states, transitions) ==
    LET flags == {d.guard : d \in ToSet(transitions)} \ {Nothing}
        values == [flags -> BOOLEAN]
        declared(d) ==
            [d EXCEPT !.guard = IF @ = Nothing THEN Nothing
                                ELSE {v \in values : v[d.guard]},
                      !.effect = IF @ = Nothing THEN Nothing
                                 ELSE [v \in values |->
                                         [v EXCEPT ![d.effect[1]] = d.effect[2]]]]
    IN BuildChart(states, [i \in DOMAIN transitions |-> declared(transitions[i])],
                  [data |-> values, initial |-> values,
                   vary |-> [v \in values |-> values]])

\* Two regions entered at the border, by a fork or below the border; left
\* by a join, by completion, from a substate or by an inherited transition
\* (tests/TestCharts.cpp c1, c2, c3, c7, c8).
ParallelChart == FlagChart(
    << St("start", "Start", "chart"), St("off", "State", "chart"),
       St("p", "Concurrent", "chart"),
       St("r1", "Hierarchical", "p"), St("r2", "Hierarchical", "p"),
       St("s1", "Start", "r1"), St("a", "State", "r1"), St("b", "State", "r1"),
       St("f1", "Final", "r1"),
       St("s2", "Start", "r2"), St("c", "State", "r2"), St("d", "State", "r2"),
       St("f2", "Final", "r2"),
       St("fork", "Fork", "chart"), St("join", "Join", "chart") >>,
    << Go("start>off", "start", "off"),
       On("off>p", "off", "p", "x"), On("off>fork", "off", "fork", "y"),
       On("off>b", "off", "b", "z"),
       Go("fork>b", "fork", "b"), When("fork>d", "fork", "d", "g"),
       Go("s1>a", "s1", "a"), Go("s2>c", "s2", "c"),
       On("a>b", "a", "b", "x"), On("c>d", "c", "d", "x"),
       On("d>c", "d", "c", "y"),
       On("b>f1", "b", "f1", "y"), On("d>f2", "d", "f2", "x"),
       Tr("b>join", "b", "join", "x", "g"), Go("d>join", "d", "join"),
       Go("join>off", "join", "off"),
       Go("p>off", "p", "off"), On("p>off/z", "p", "off", "z"),
       On("c>off", "c", "off", "z"),
       Within(On("r2/y", "r2", "r2", "y")) >>)

\* A composite with a deep history around one with a shallow history, entered
\* through their start states (tests/TestCharts.cpp h4, h5, c10).
HistoryChart == FlagChart(
    << St("start", "Start", "chart"), St("off", "State", "chart"),
       St("p", "Hierarchical", "chart"), St("sp", "Start", "p"),
       St("H*", "DeepHistory", "p"), St("fp", "Final", "p"),
       St("a", "State", "p"), St("q", "Hierarchical", "p"),
       St("sq", "Start", "q"), St("H", "History", "q"),
       St("b", "State", "q"), St("c", "State", "q") >>,
    << Go("start>p", "start", "p"), Go("sp>H*", "sp", "H*"),
       Go("H*>a", "H*", "a"), Go("sq>H", "sq", "H"), Go("H>b", "H", "b"),
       On("p>p", "p", "p", "out"), On("p>off", "p", "off", "off"),
       Go("p>done", "p", "off"), On("off>p", "off", "p", "out"),
       On("a>q", "a", "q", "in"), On("q>a", "q", "a", "in"),
       On("b>c", "b", "c", "step"), Tr("c>b", "c", "b", "step", "g"),
       On("c>fp", "q", "fp", "end") >>)

\* Composites that complete, a junction with guarded ways out, nested handlers
\* of one event (tests/TestCharts.cpp t3, h1, h3; Condition.cpp), and, behind
\* them, a guarded cycle of transitions without a trigger, as in
\* tests/InfiniteLoopTest.cpp, with states to recover in.
NestedChart == FlagChart(
    << St("start", "Start", "chart"), St("end", "Final", "chart"),
       St("u", "State", "chart"), St("v", "State", "chart"),
       St("w", "State", "chart"),
       St("p", "Hierarchical", "chart"), St("sp", "Start", "p"),
       St("fp", "Final", "p"), St("a", "State", "p"),
       St("if", "Junction", "p"), St("q", "Hierarchical", "p"),
       St("sq", "Start", "q"), St("b", "State", "q"), St("fq", "Final", "q") >>,
    << Go("start>p", "start", "p"), Go("p>u", "p", "u"),
       On("p>p", "p", "p", "x"), Go("sp>a", "sp", "a"),
       On("a>if", "a", "if", "x"), When("if>q", "if", "q", "g"),
       When("if>fp", "if", "fp", "h"), Go("sq>b", "sq", "b"),
       Tr("b>a", "b", "a", "x", "h"), Tr("b>b", "b", "b", "y", "g"),
       On("b>fq", "b", "fq", "z"), Go("q>a", "q", "a"),
       Setting(Within(On("a/y", "a", "a", "y")), "g", TRUE),
       When("u>v", "u", "v", "h"), When("v>w", "v", "w", "h"),
       When("w>u", "w", "u", "g"), On("w>v", "w", "v", "x"),
       On("u>w", "u", "w", "x"), On("u>p", "u", "p", "y"),
       On("w>end", "w", "end", "z") >>)

\* These two are in the class Configuration_proofs and Settled_proofs are about;
\* ParallelChart, with its fork, its join and its ways across the border of an
\* and-state, is not.
ASSUME ChartsStructured ==
    Chart \in {HistoryChart, NestedChart} => StructuredChart /\ Enterable
=============================================================================
