----------------------------- MODULE MCFindings -----------------------------
(***************************************************************************)
(* Small charts on which the interpreter does something a comment or the   *)
(* manual rules out.  Each is used by one run that checks one property.    *)
(***************************************************************************)
EXTENDS MCInterpreter

\* tests/TestCharts.cpp h5 with its event 5: c leaves the composite p, which
\* has a deep history, from two levels down.
DeepExitChart == FlagChart(
    << St("start", "Start", "chart"), St("d", "State", "chart"),
       St("p", "Hierarchical", "chart"), St("sp", "Start", "p"),
       St("H*", "DeepHistory", "p"), St("a", "State", "p"),
       St("q", "Hierarchical", "p"), St("sq", "Start", "q"),
       St("b", "State", "q"), St("c", "State", "q") >>,
    << Go("start>p", "start", "p"), Go("sp>H*", "sp", "H*"),
       Go("H*>a", "H*", "a"), On("a>q", "a", "q", "in"),
       Go("sq>b", "sq", "b"), On("b>c", "b", "c", "step"),
       On("c>d", "c", "d", "out"), On("d>p", "d", "p", "in") >>)

\* A composite with a transition to one of its own substates.
ToSubstateChart == FlagChart(
    << St("start", "Start", "chart"), St("p", "Hierarchical", "chart"),
       St("sp", "Start", "p"), St("a", "State", "p"), St("b", "State", "p") >>,
    << Go("start>p", "start", "p"), Go("sp>a", "sp", "a"),
       On("a>b", "a", "b", "step"), On("p>a", "p", "a", "reset") >>)

\* A substate with a transition to the composite around it.
ToContextChart == FlagChart(
    << St("start", "Start", "chart"), St("p", "Hierarchical", "chart"),
       St("sp", "Start", "p"), St("a", "State", "p"), St("b", "State", "p") >>,
    << Go("start>p", "start", "p"), Go("sp>a", "sp", "a"),
       On("a>b", "a", "b", "step"), On("b>p", "b", "p", "reset") >>)

\* The first region of a concurrent state leaves it with its first step.
EarlyExitChart == FlagChart(
    << St("start", "Start", "chart"), St("off", "State", "chart"),
       St("p", "Concurrent", "chart"),
       St("r1", "Hierarchical", "p"), St("r2", "Hierarchical", "p"),
       St("s1", "Start", "r1"), St("a", "State", "r1"),
       St("s2", "Start", "r2"), St("b", "State", "r2") >>,
    << Go("start>off", "start", "off"), On("off>p", "off", "p", "in"),
       Go("s1>a", "s1", "a"), When("s1>off", "s1", "off", "g"),
       Go("s2>b", "s2", "b"), On("p>off", "p", "off", "off") >>)

\* The second region reaches its final state by a step that lets the first
\* one continue.
LostStepChart == FlagChart(
    << St("start", "Start", "chart"), St("p", "Concurrent", "chart"),
       St("r1", "Hierarchical", "p"), St("r2", "Hierarchical", "p"),
       St("s1", "Start", "r1"), St("a", "State", "r1"), St("b", "State", "r1"),
       St("s2", "Start", "r2"), St("c", "State", "r2"),
       St("d", "State", "r2"), St("f2", "Final", "r2") >>,
    << Go("start>p", "start", "p"), Go("s1>a", "s1", "a"), Go("s2>c", "s2", "c"),
       When("a>b", "a", "b", "ready"), On("c>d", "c", "d", "go"),
       Setting(Go("d>f2", "d", "f2"), "ready", TRUE) >>)

(***************************************************************************)
(* The parts of LegalConfiguration by themselves, and what Statechart.hpp  *)
(* says of restoreState.                                                   *)
(***************************************************************************)
\* HierarchicalState.hpp:33: an or-state has at most one active substate (and
\* currentState names it), between any two calls.
OneSubstateAtRest == AtRest => OneSubstate

\* doc/statecharts.md, Concurrent states: once the and-state has been left
\* none of its regions is active.
ContextsActiveAtRest == AtRest => ContextsActive

\* Statechart.hpp:175: restoreState makes the given state the active one.
RestoredConfiguration == (outcome = "restored") => OneSubstate
=============================================================================
