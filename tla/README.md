# A TLA+ model of CppStatecharts

CppStatecharts interprets UML statecharts: a chart is built once from states and
transitions, and any number of `Metadata` objects then run it, each holding the
states that are active in one run. This directory models the interpreter, the
asynchronous interface with its thread pool, delay queue and timeouts, and the
charts of the example programs; it checks them with TLC and proves with TLAPS
the main invariants of the interpreter, the thread pool and the asynchronous
engine, and that the delay queue implements its abstract specification.

## Inventory

| Component | State | Operations | Modules |
|---|---|---|---|
| Chart construction (`Statechart::create*`, constructors of states and transitions) | `m_regions`, `m_startState`, `m_history`, `m_transitions`, `m_incoming`, `m_deactivate`, `m_activate` | `create`, `createTransition`, `createInternalTransition`, `addTransition`, `addRegion`, `calculateStateSet` | `ChartGraph`, `ChartBuilder` |
| `Metadata`, `StateRuntimedata` | map from states to (active, currentState, stateset, timeoutEvents) | `activate`, `deactivate`, `createRuntimedata`, `reset`, observers | `Metadata` |
| Interpreter (`State`, `HierarchicalState`, `ConcurrentState`, `PseudoState`, `Transition`, `InternalTransition`) | none of its own: works on a `Metadata` | `activate`, `deactivate`, `dispatch`, `execute`, `allowed`, `lookup`, `storeHistory` | `Interpreter` |
| `Statechart`, synchronous | the limit of the run-to-completion loop | `start`, `dispatch`, `restoreState` | `Interpreter` |
| `ThreadPool` | task queue, shutdown flag, workers | `execute`, `shutdown`, `awaitTermination`, destructor | `ThreadPool` |
| `DelayQueue` | sorted vector, stop flag | `add`, `remove`, `clear`, `take`, `stop`, `resume` | `TimedQueue`, `DelayQueue` |
| `Statechart`, asynchronous; `EventQueueEntry`, `TimeoutEvent` | `m_pendingEntries`, `m_timeoutQueue`, `m_running`, validity of entries | `startAsynchron`, `dispatchAsynchron`, `enqueueTimeout`, `cancelTimeout`, `timeoutLoop`, `shutdown`, `run` | `AsyncEngine` |
| `Action`, `Guard`, `Parameter`, `Event`, exceptions | none | called by the interpreter | see *Abstractions* |
| The programs of `doc/examples` | a chart and a `Parameter` each | the charts' guards and actions | `Examples` |

How they interact. The user calls `start`/`dispatch`; the statechart walks the
state tree by virtual calls that read and write the `Metadata` (one map, looked
up again and again, whose records are freed by `deactivate`). User code runs in
the middle of that walk: guards while transitions are looked up, actions between
the exits and entries of a transition. The asynchronous calls put entries into a
one-thread `ThreadPool`; states with a `TimeoutEvent` put entries into the
`DelayQueue` when they are entered and cancel them when they are left; a thread
moves due entries from the queue to the pool.

What is hard, and what makes each part correct:

- *Interpreter*: recursion over a tree that changes under it. Correct when the
  active states always form a legal configuration, an event is consumed once,
  at the innermost level, by active states only, histories restore what was
  left, the loop runs to completion and ends, and the caller is told whether
  something fired.
- *Metadata*: raw pointers between records that are freed. Correct when
  `currentState` names a child of its owner and active states own a record,
  also after a user action has thrown.
- *ThreadPool*: one condition variable for workers and awaiter, notifications
  after the unlock. Correct when tasks are taken in order, none is lost or left
  lying, workers drain the queue before they exit, and whoever waits for the end
  is told the truth and is not left waiting.
- *DelayQueue*: a taker sleeps until the deadline of the element it saw, while
  others add, remove and stop. Correct when no taker sleeps past the first
  deadline, `stop` reaches every taker, and elements leave in time, in order and
  once.
- *Asynchronous dispatch and timeouts*: marks and states are tested under one
  mutex, or none, and used under another; raw pointers lead from records to
  entries; `shutdown` may come at any moment. Correct when a timeout fires only
  in the activation that scheduled it, none is lost, entries and Parameters
  exist while they are used, and `shutdown` returns with nothing left running.

`PROJECT.json` lists the hazards with the lines where they bite.

## Modules

- `ChartGraph` declares the chart as one CONSTANT record, with the assumptions
  that every chart built by the library satisfies. Each operator stands for one
  field of the C++ objects. `StructuredChart` and `Enterable` give the class of
  charts the theorems about configurations are about, `ForksSilent` (no transition
  out of a fork waits for an event) a further condition of the one about events.
- `ChartBuilder` computes that record from declarations in program order:
  guarded transitions go to the front (`TransitionOrder`), exit and entry lists
  come from the least common ancestor (`ExitList`, `EntryList`), an internal
  transition has neither, regions and start/history slots are filled by the
  constructors. `St`, `Entering`, `Go`, `On`, `When`, `Doing`, `Within` and
  `Condition` are the constructors of the C++ classes, so that a chart in TLA+
  reads like the program that builds it.
- `Metadata` is the map of `StateRuntimedata` records, as a record of four
  functions and sets, with one operator per method.
- `Interpreter` is the state machine. The C++ call stack is explicit: `agenda`
  holds the calls still to be made, `ret` the value of the last one that
  returned. Each action is one call up to the next call it makes:
  `DispatchHierarchical`, `DispatchSubstate` and `Bubble` are the three pieces of
  `HierarchicalState::dispatch` between the calls it makes, `DispatchConcurrent`
  and `DispatchRegions` those of `ConcurrentState::dispatch`, `Activate` and
  `Entered` those of the `activate` methods, `DeactivateHierarchical`,
  `DeactivateConcurrent` and `Leave` those of `deactivate`, `Enter` the second
  half of `Transition::execute`, `RunAction`/`ThrowAction` the user's actions,
  `DispatchChart` and `Loop` `Statechart::dispatch`, and `StartChart`,
  `DispatchEvent`, `RestoreState` the calls of the user. `Enabled` is the series
  of early returns of `execute`; the recursion between `allowed` and `lookup` is
  the function `Open`.
- `ThreadPool` is the pool. A block under the mutex is one step (waiting for the
  condition variable releases it atomically), a notification after the block is
  another. `waiting` is the set of threads in the condition variable, which
  workers and the awaiter share; wake-ups may be spurious.
- `TimedQueue` is the abstract specification of a delay queue: a set of pending
  elements, of which a taker gets the earliest once its deadline has passed.
  `DelayQueue` is the code: a vector sorted by deadline, a mutex and a condition
  variable. `Add` inserts at `Slot`, the position `lower_bound` finds; a taker is
  at `loop`, in `wait` or in `waitUntil` with the deadline it was given; only
  `Add` and `Stop` are followed by `NotifyAll`. `ImplementsTimedQueue` is the
  refinement: the pending set is the set of the vector's elements, the asking
  takers are those inside `take`.
- `AsyncEngine` composes the pieces as `Statechart` does: clients that start and
  dispatch, the timeout thread (`TimerLoop`, `TimerTake`, `TimerCheck`,
  `TimerExecute` are `timeoutLoop`), the worker (`WorkerTake`, `WorkerValid`,
  `WorkerBound` are `EventQueueEntry::run` up to its `dispatch`), and an owner in
  `shutdown` (`QueueClear` to `Release`). `SendCheck`, `SendPush`, `SendSubmit`
  are the three blocks of `dispatchAsynchron`; `Lock` to `Finish` is `dispatch`
  under the Metadata's mutex, with `CancelNext`/`Leave` for
  `State::deactivate` and `EnterState`/`Schedule`/`Arm` for `State::activate`
  and `enqueueTimeout`. The pool is the FIFO that `ThreadPool` is shown to be, the
  delay queue the set that `DelayQueue` is shown to be.
- `Examples` holds the fifteen programs of `doc/examples`, each a chart in the
  order of its declarations and the values its `Parameter` can take.
  `MCExamples` runs `Interpreter` on all of them, one program per behaviour.
- `Interpreter_proofs`, `Agenda_proofs`, `Configuration_proofs`, `Settled_proofs`,
  `ThreadPool_proofs`, `DelayQueue_proofs`, `AsyncEngine_proofs` and
  `AsyncTimeouts_proofs` hold the theorems.
- `MCInterpreter`, `MCFindings`, `MCThreadPool`, `MCDelayQueue` and `MCAsync` give
  the constants values for TLC.

Ghost variables: `fired`, `before` and `tainted` in `Interpreter` (transitions
with a trigger fired by the last event; the `Metadata` when the last transition
began; an exception since `start`), `submitted`, `started`, `finished` and `late`
in `ThreadPool`; `ran`, and the activation an entry was made in, in `AsyncEngine`.

## Abstractions

- A `Parameter` is a value; a guard is the set of values it holds on, an action a
  function on them. Between two calls the user may replace the value by any the
  chart's `vary` gives for it. Guards do not throw and change nothing.
- Events are compared by id, as `Event::equals` does.
- Entry and do action of a state run one after the other with nothing in
  between: they are one step, which may throw if the state is in `Throwing`.
- Looking up a path behind a pseudo-state is one step: nothing but guards runs in
  it. A cycle of pseudo-states would recurse without end in the code; `Open`
  stops at the number of transitions, and no chart of the runs has one.
- `ConcurrentState::activate` keeps a pointer to its record while regions run;
  when a region's first step leaves the state the record is freed, and what the
  loop then reads is arbitrary: `Entered` chooses either outcome.
- In `Interpreter` a timeout is an event like any other, which may come at any
  time; what `State::activate` schedules and `deactivate` cancels is in
  `AsyncEngine`. A `dispatch` made by an action on the same `Metadata` (the
  recursive mutex would allow it) is not modelled.
- In the pool a task is its rank of acceptance; it may call `execute` and
  `shutdown` any number of times and then ends or throws. Only one caller at a
  time is in `awaitTermination` (two would join the same thread, which is
  undefined), and tasks do not wait for their own pool. The destructor runs when
  no other caller uses the pool.
- `DelayQueue`: an element is added once, as every entry is a new object. The
  clock moves by units, up to `MaxTime`.
- `AsyncEngine`: the chart is flat (`Moves`), since what one dispatch does inside
  a deeper chart is the subject of `Interpreter`. Any queued timeout may be the
  next one due: the lengths of the delays are not compared, which only adds
  behaviours. Marking an entry and removing it from the queue is one step: the
  timeout thread gives up the entry in either order. `isActive` reads the
  map without the mutex; it may miss or find a record only while another thread
  takes a record out or puts one in. A `Metadata` is started while no thread and
  no entry uses it, as `start` holds no lock. `shutdown` is called by a thread of
  the user's own, not by an action. The 60 s limit of `awaitTermination` is left
  out.
- `Examples`: what an action tells a device, and only prints in the program, is one
  more field of the `Parameter`. Counters without a bound saturate at a last
  value. `main()` is replaced by every sequence of the events the chart knows, a
  timeout among them.

## Runs

| Run | Chart or pool | What it shows |
|---|---|---|
| `MCParallel` | an and-state with two regions; fork, join, completion, exits from a substate and by inheritance, internal transition, guard | `LegalConfiguration`, `RunToCompletion`, `OnlyActiveStatesReact` |
| `MCNested` | three levels, a junction with guarded ways out, a guarded cycle of transitions without a trigger, two places that throw, one restorable state | `LegalConfiguration`, `EventConsumedOnce`, `ResultReportsFiring`, `LoopReportJustified`, `DispatchReturns`, `CallStack`, `CurrentIsChild`, `RootStaysActive`, `TypeOK` |
| `MCHistory` | a deep history around a shallow one, four places that throw | `LegalConfiguration`, `HistoryRemembers`, `HistoryDispatchedAsCurrent` |
| `MCPool` | two workers, two callers, three tasks | `FirstInFirstOut`, `DrainedBeforeExit`, `TerminatedMeansDone`, `NoTaskForgotten`, `TypeOK` |
| `MCPoolSingle` | the pool of a `Statechart`: 0 workers requested, one made | `SubmissionOrder`, `EveryTaskEnds`, `AwaitReturns` |
| `MCDelayQueue` | two takers, two clients, three elements, two of them with one deadline | `OrderedByDeadline`, `SleepsNoLongerThanHead`, `ImplementsTimedQueue`, `EveryItemLeaves`, `StopReleasesTakers` |
| `MCAsync` | a state with two timeouts and one without; a client, a worker whose actions dispatch, the timeout thread, a shutdown at any time | `TimeoutOfThisActivation`, `NoTimeoutLost`, `ParameterAlive`, `AlarmsAlive`, `QuietAfterShutdown`, `AcceptedIsHandled`, `TimeoutsSettle`, `ShutdownReturns` |
| `MCExamples` | the fifteen example programs | `LegalPrograms`, `NoneStranded`, `DevicesFollow`, `LoopReported` |

What they show beyond the names. `MCParallel`, `MCNested`, `MCHistory`: on charts
without the constructs of the findings below, every configuration at rest is
legal whatever the history of events, exceptions and restarts. `MCPool`,
`MCPoolSingle`: nothing accepted is lost, and whoever waits is released.
`MCDelayQueue`: the notifications of `add` and `stop` suffice although `remove`,
`clear` and `resume` send none; a taker may sleep too short, never too long.
`MCAsync`: a program that uses a `Statechart` through its asynchronous calls
alone meets none of the races that the findings show for synchronous ones. The
configuration `MCAsyncSync.cfg` (not among the runs) adds synchronous dispatches
beside the worker; `NoTimeoutLost`, `ParameterAlive` and `QuietAfterShutdown`
hold there too. `MCExamples`: the
guards behind every transient state of the examples are exhaustive for all
values their Parameters reach, and the pump, lamp and flags follow the state.

Bounds. The charts are finite and the runs explore *every* sequence of starts,
events and guard values on them, of any length: nothing is cut off. They keep
the shape of the test charts they name, with few events shared by many
transitions so that each event meets every state. `Threshold` is small (4 to 8)
so that the limit is reached; it exceeds the longest acyclic chain of the chart.
In the pool two workers and two callers are the least with which a wake-up can
reach the wrong worker and two submissions can race with a shutdown; `MaxTasks`
= 3 lets one task be running, one queued and one submitted by a task. Two takers
are the least with which one notification must wake both; three elements let one
go before, between or behind what is queued, and `MaxTime` = 3 lies beyond the
last deadline. In `MCAsync` two calls of the user (`MaxCalls`) let a state be
entered, left by an event or one of its timeouts and entered again while an entry
of the first activation is on its way; each call can in turn leave two timeouts
that dispatch without counting. With three calls the invariants hold as well
(ten million states). Deadlock is checked for the interpreter, the delay queue
and the examples; a pool stops for good after its destructor, and so does the
engine, so their runs say `CHECK_DEADLOCK FALSE`.

Fairness. `Interpreter!FairSpec` is weak fairness of `Step`: a call that was made
is executed by its thread; users need not call. `ThreadPool!FairSpec` is weak
fairness of every worker (threads run, tasks end), of pending notifications and
of the thread in `awaitTermination`. No wake-up is assumed but those the code
sends, the clock need never reach a deadline, and callers need not call: the
60-second limit of the destructor therefore cannot be what makes `AwaitReturns`
true. `DelayQueue!FairSpec`: takers that are not blocked go on and, as
`timeoutLoop` does, ask again; notifications are sent; time passes. Clients need
not call, and no spurious wake-up is assumed. `AsyncEngine!FairSpec`: weak fairness
of the timeout thread, the worker, each call of a client that has begun and each
`shutdown` that has begun. Holding a Metadata's mutex is never for ever, as user
actions end; a thread blocked at `Lock` needs no more than weak fairness in this
instance because calls are bounded.

## Findings

Each run below checks one property that a comment or the manual states, and TLC
finds a behaviour of the code that violates it.

| Run | Property | What happens |
|---|---|---|
| `F_DeepExit` | `HistoryRemembers` | a deep history records its path after the inner states were left, and forgets them |
| `F_LateTimeout` | `TimeoutOfThisActivation` | a timeout that is cancelled after `run` has looked at its mark fires in a later activation of its state |
| `F_DanglingParam` | `ParameterAlive` | `start()` and `dispatch(event)` without a Parameter lend one on their stack to the entry of a timeout |
| `F_FreedEntry` | `AlarmsAlive` | a synchronous dispatch follows the pointer to an entry that `shutdown` has released |

Further configurations reproduce other disagreements in the same way, with
`tlc -config <name>.cfg <module>`:

| Configuration | Module, property | What happens |
|---|---|---|
| `F_StaleTimeout` | `MCAsync`, `TimeoutOfThisActivation` | a restart resets the Metadata without cancelling; a timeout of the previous run fires |
| `F_ToSubstate` | `MCFindings`, `OneSubstateAtRest` | a transition from a composite to its own substate leaves the old substate active |
| `F_ToContext` | `MCFindings`, `OnlyActiveStatesReact` | a transition from a substate to its composite leaves `currentState` on the substate, which goes on reacting |
| `F_EarlyExit` | `MCFindings`, `ContextsActiveAtRest` | a region that leaves the and-state with its first step does not keep the next region from being started |
| `F_LostStep` | `MCFindings`, `RunToCompletion` | a step into a final state counts as none and ends the loop too early |
| `F_Restore` | `MCFindings`, `RestoredConfiguration` | restoring a state inside a region starts that region as well |
| `F_Timeout` | `MCThreadPool`, `TrueMeansInTime` | `awaitTermination` answers true long after its deadline |

The passing runs avoid the constructs of these; the properties are stated for
all charts and all uses. Further places where the code and its documentation
part, met while modelling and not kept as configurations:

- *Interpreter*: a composite left for the first time without having been entered
  through its history records nothing (`PseudoState.cpp:251`); an inner transition
  into a final state lets the composite react to the same event
  (`HierarchicalState.cpp:124`), or makes `dispatch` return false (`:148`); an
  action that changes a guard between lookup and execution strands a junction or
  half of a fork; a history pseudo-state stays active after it restored, and
  `Metadata::getActiveStates` lists it; `restoreState` runs the entry actions of
  contexts (`Statechart.cpp:141`), which `Statechart.hpp:175-176` denies; the limit
  throws at `p_max` steps (`Statechart.cpp:190`), `Statechart.hpp:231` says at more
  than those; a transition with a guard goes to the front of the list, while the
  comment at `triggers.cpp:88` has the first one registered checked first.
- *ThreadPool*, with `EagerAwait = TRUE`: `awaitTermination` called before
  `shutdown` can take the one wake-up of `execute` and leave a task queued.
- *DelayQueue*: elements with equal deadlines leave in the reverse order of their
  addition (`DelayQueue.hpp:90`); the ids that `EventQueueEntry.hpp:97` offers for
  comparison are not used. A `resume()` soon after `stop()` may leave a taker
  blocked.
- *Asynchronous dispatch*: `m_pendingEntries` keeps every dispatched entry until
  `shutdown`.
- *Examples*: the chart at the head of `pompe.cpp` says that the pump stops
  (`pompe.cpp:49`), but `PumpStopped` is reached without `stopPump()`; the chart of
  the motor has a guard on `setSpeed` in `Spinning` (`motor.cpp:25`), the internal
  transition at `motor.cpp:146` has none; `WifiConnected` of the Ethernet box does
  not react when the power goes off.

## Theorems

All hold for every value of the constants that meets the assumptions: every chart
that satisfies `ChartAssumption`, `ChartStructure`, `ChartPaths` and
`ChartContainers`, every threshold of at least
one and every set of throwing actions; every number of workers, callers and
tasks; every set of elements, deadlines, takers and clients (takers are not
clients); every flat chart, number of Metadata objects, clients, owners and calls
(`AsyncAssumption`: the threads are different ones, `Null` and `Root` are no states
and `Null` no event).

`Interpreter_proofs` (`Spec => []Inv`). `TypeOK` is not inductive by itself: that a
call is made on a state at all depends on the null tests before it and on what
kind of call lies where on the stack. The invariant joins `TypeOK` with `CallStack`
(the user's call is at the bottom and nowhere else, `dispatch` frames are only on
top, the root is never left or dispatched to, the loop counter stays within the
threshold), `CurrentIsChild` (the shape of the `Metadata`) and `DispatchTarget` (a
state other than a region is dispatched to only as its parent's current state).
From it follow `TypeCorrect`, `StackShape`, `CurrentIsAlwaysChild`, `RootNeverLeft`
and `HistoryIsCurrent`; the last shows that the forwarding branch at
`PseudoState.cpp:230-236` can never be taken, which is why it has no action.

`Agenda_proofs` and `Configuration_proofs` (`Spec => []ConfigInv`) are about the
active states, in the middle of a transition as well as between calls. They hold
for a `StructuredChart`: no fork, every child of an and-state is one of its
regions, and no transition crosses the border of an and-state or joins a state to
one of its own contexts or substates; and for a user that restores states whose
contexts are or-states (`RestorableInOrStates`). `F_ToSubstate`, `F_ToContext`,
`F_EarlyExit` and `F_Restore` show what becomes of the others. The class is no
narrow one: TLC evaluates `ChartsStructured` and `ExamplesStructured`, by which the
charts of `MCHistory` and `MCNested` and all fifteen examples are in it (the chart
of `MCParallel` is not, its fork and its exits out of regions are what it is for).
Nearly every step of a transition leaves a configuration that is legal only
because of calls that are still pending, so `Configured` relates the map to the
whole stack of calls. Of the map (`MapCond`): contexts of active states are active
at all times, but the current state of an or-state may be gone while a call is
pending that leaves the or-state or activates another substate, and a region of an
active and-state may be missing while the call that starts it is pending. Of each
call (`FrameCond`): a state is left because its context is or to make room for a
sibling, a context after its substates; a state is entered below a context that
is active or about to be, when no sibling is, or is about to leave. Of each two
calls (`MayRunAbove`): whatever is still to happen before a call leaves intact what
that call relies on. `Agenda_proofs` states this and how pushing, popping and
changing the map preserve it; `Configuration_proofs` goes through the actions. From
it follow `ContextsStayActive` (every active state lies in active contexts, and at most one substate of an or-state is active, the one
`currentState` names), `NothingLeftHalfDone` (between calls all regions of an
active and-state are active, and every current state is) and
`HandledByActiveStates`, the property `OnlyActiveStatesReact`, which asks that no
user action throws: an exception between two of the calls of
`Transition::execute` leaves a half-done configuration behind.

`Settled_proofs` (`Spec /\ []WayOn => []FlowInv`) adds what a call leaves behind, and
with it proves `LegalConfiguration` (`LegalAtRest`): when a call has ended, every
active or-state is in exactly one substate, every active and-state in all its
regions, and no pseudo-state is left but history. The loop of
`Statechart::dispatch` stops at the first dispatch that returns false, so the
question is what *false* promises. `Settled(m, s)` says that every active or-state
from `s` downwards is in a substate that is no pseudo-state; the claim is that a
dispatch to `s` that returned false left `s` settled. It cannot be read off one call,
for an and-state dispatches to its regions one after the other, a composite hands
its event on to its own transitions, and each of these may enter or leave states
in the middle. `FlowOK` therefore relates the results to the stack of calls:
`Adjacent` and `TopOK` say which call waits for the result of the one above it and
what it may conclude from *false*; `Focused`, that while one region runs nothing
pending touches its siblings, so that the regions already served stay settled
(`WaitsOK`); `SubstatesKnown`, that an or-state without a start state has a
substate or is about to get one. Steps that pop a call, push calls or change the
map in one place are lemmas; each action is then one of them.

The theorem is about a `StructuredChart` restored as above, with three further
conditions. `Enterable`: an or-state without a start state is only passed on the
way into one of its substates; otherwise entering it leaves it without a substate
(nothing in the code objects). Two examples have such a composite, `GettingStarted`
and `Pompe`; TLC finds all the charts named above to be `Enterable`.
`RestorableEnterable`: nor is such a composite restored. `[]WayOn`: a pseudo-state
that is dispatched to has a transition to take at that moment. It cannot be had
from the structure of the chart alone, because guards behind a pseudo-state are
evaluated once before the first segment's action and again behind it, and the
action may have changed the `Parameter` (`Transition.cpp:112`); a chart that then
has no way on does stay in its pseudo-state. `LegalPrograms` includes it: TLC finds
it true in every reachable state of all fifteen examples.

The second half of `Settled_proofs` is about the result of a dispatch and what
one event, or the lack of any, makes happen. All of it meets one obstacle, the
finding `F_LostStep`: `HierarchicalState::dispatch` ignores that its substate has
answered true when the substate is now final, and answers false if it has no
transition to take itself. `JustFinished` is that moment. The hypotheses say that
it does no harm, each no more than its theorem needs:

- `FiringReported` (`Spec /\ []FinishGoesOn(Events) => []ResultReportsFiring`): the
  composite has a transition to take on the event (`FinishGoesOn`). That a
  transition with a trigger fired is known at first only to the call that fired
  it, and has to come down through every call that waits for a result. `LinksOK`
  relates each two calls of the stack: a call that hands the event on has below it
  either the call it answers to, or one whose own answer will be true whatever it
  is told (`Guarded`: the entering of a transition, the next transition of a fork,
  an and-state with a region that has answered). Hence the answer the loop waits
  for is sure to be true as soon as something has fired (`Assured`), and every step
  of a call keeps that (`Goes`). No structure of the chart is asked for: this holds
  with forks and with transitions across the borders of and-states.
- `EventFiresApart` (`... /\ []FinishCompletes => []EventConsumedOnce`, for charts
  that are `ForksSilent`): moreover the transition that composite takes has no
  trigger. While no transition with a trigger has fired, every call that still has
  the event to hand on or to use is for a state orthogonal to the sources of those
  that have (`ServedOK`, `Apart`): regions are served one by one, and a composite or
  and-state is told when something in it has fired. `MCParallel`'s chart is where
  the hypothesis fails, and its run does not state the property.
- `RunsToCompletion` (`Spec /\ []WayOn /\ []NothingOverlooked => []RunToCompletion`, on
  the charts of `LegalAtRest`): when the loop stops, no transition without a trigger
  could fire. The loop believes the first *false*. `RunInv` says that while it waits
  for an answer to a `nullptr`, one of two things is so. Either a call on the stack
  is bound to answer true, and below it are only calls that pass its answer on
  (`Answers`, `OnWay`): a transition is entering its targets, a pseudo-state is
  being dispatched to or is about to be, a region has answered true. Or nothing has
  changed since the loop asked (`Calm`), and no transition that could fire starts in
  a state, or a region, that has already been asked. A transition that fires in the
  calm state leads to the first, an answer *false* widens what has been asked by
  the state that gives it, up to the whole chart. `NothingOverlooked` is the exact
  gap: when nullptr brings a composite to its final state and the composite answers
  false, that has not enabled anything in a region already asked. `F_LostStep` is a
  chart on which it fails, and `RunToCompletion` with it.

These hypotheses depend on what guards and actions compute, so they are
assumptions on behaviours and not on charts. `LegalPrograms` includes all of
them: TLC finds them true in every reachable state of the fifteen examples, as it
does `NothingOverlooked` and `WayOn` for the charts of `MCParallel`, `MCNested` and
`MCHistory`, and the other two for the latter two of these.

`ThreadPool_proofs` (`Spec => []Inv`). The invariant says that what was taken and
what is queued are consecutive (`QueueOK`), that every task taken is with one
worker or over (`TasksOK`), where each thread can be and that one caller at most
is waiting for the end (`ThreadsOK`), and that what `awaitTermination` has passed
in its loop has exited (`JoinOK`). From it follow `FifoAlways`, `DrainedFirst` and
`TerminationMeansDone`, the last by going from *all workers exited* to *no task in
their hands* and *nothing queued*. A second invariant, `WakeInv`, compares the
queue with the notifications under way: while a task is queued and every worker
sleeps, `execute` still owes its `notify_one`, or `shutdown` its `notify_all`
(`TasksAreNoticed`, for a program that awaits only after `shutdown`; the other case
is the finding at `EagerAwait`), and an awaiter never sleeps when all workers have
exited (`AwaitersAreNoticed`, in either case). A third, `PlaceInv`, says where every
accepted task is: no task is in two hands or ends twice (`EveryTaskRunsOnce`), and
on one worker tasks end in the order of their submission
(`SingleWorkerKeepsOrder`).

`DelayQueue_proofs` (`Spec => []Inv`, `Spec => ImplementsTimedQueue`). The invariant
joins `TypeOK`, `OrderedByDeadline` and `SleepsNoLongerThanHead` with `Distinct` (no
element is twice in the vector), without which taking the head would not
withdraw one element of the set. That `Slot` exists and keeps the order follows
from the least position outside the prefix of earlier deadlines. The refinement
goes step by step: `BeginTake` is `Ask`, `TakeStopped` `Refuse`, `TakeDue` `Deliver`,
`Add` `Offer`, `Remove` and `Clear` `Withdraw`, `Stop` and `Resume` `SetStopped`;
waits, wake-ups and notifications stutter.

`AsyncEngine_proofs` (`Spec => []Inv`). The invariant types every variable in parts
(`StoreType`, `MdType`, `EngineType`, `ThreadType`), says what each thread has in hand
at each place of its code and that whoever holds a Metadata's mutex is in a call on
it (`ThreadsOK`), and what each step of `shutdown` has achieved (`ShutdownOK`). A step
moves one thread, so `OneThread` reduces `ThreadsOK` to that thread: the others only
need that no entry is forgotten and no mutex but their own changes hands.
`TypeCorrect` and `Quiet` follow, the latter with no restriction on what clients call.

`AsyncTimeouts_proofs` turns each action into its effect on the threads
(`SendCheckEffect` to `OwnerEffect`) and builds on that, one upon the other:

- `Held`: entries of `dispatchAsynchron` are in `m_pendingEntries` until `shutdown`
  releases them; a timeout is while its Metadata remembers it. Cancelling cannot
  hit another thread's entry, as an entry in the making belongs to a Metadata whose
  mutex its maker holds.
- `ParamsOK`, if the user keeps what it lends (`Lent = {User}`): every Parameter is
  the user's or that of an entry of `dispatchAsynchron`; hence `ParametersAlive`.
- `Alone`, without synchronous calls (`Direct = {}`): no client works on a Metadata;
  with `Held`, `AlarmPointersAlive`.
- `Activations`, if no Metadata is restarted (`Restart = FALSE`): a timeout that is not
  cancelled carries the activation and the state its Metadata is in.
- `WorkerOK`, with both: the timeout the worker runs is valid until a transition it
  made fire has cancelled it; hence `TimeoutsInTime`.
- `RunningOK`, `Where`, `Scheduled`, until shutdown begins: a valid timeout is in the
  queue, the pool or a thread's hand, and each timeout of the current state is
  remembered; hence `TimeoutsKept`. It asks that the start state has no timeouts:
  starting a Metadata schedules none.

The three conditions are those of `MCAsync`, and each is needed: `F_DanglingParam`,
`F_FreedEntry`, `F_LateTimeout` and `F_StaleTimeout` drop one of them.

Only model-checked: `LegalConfiguration` and `RunToCompletion` on charts outside the
class above (the fork, the join and the exits out of regions of `MCParallel`); that
`WayOn`, `FinishGoesOn`, `FinishCompletes` and `NothingOverlooked` hold of a chart,
which depends on what its actions and guards compute; `HistoryRemembers` and
`LoopReportJustified`, which hold of the charts they are checked on and not of every
chart (`F_DeepExit` loses part of a history; a chart may come to rest with the very
step at which the threshold is reached); the examples; `NoTaskForgotten` with an
awaiter before `shutdown`; and every liveness property (out of reach of the proof
system, as is induction over the structure of charts and over the depth of
`Open`).

## Not modelled

- A dispatch by an action on the `Metadata` it runs on, `shutdown` called by an
  action (the worker would join itself), and a `Metadata` that is started while
  another thread uses it.
- A cycle of pseudo-states, on which `lookup` and `allowed` recurse without end.
- The observers and read-only queries of `Metadata`, entry times, `empty()` and
  `size()`.
- The exceptions of chart construction and the setters; building a chart while
  it runs.
- Events with an `equals` of their own, what programs print, and the tests, which
  are programs that call the library; charts of the runs keep the shape of theirs.

## Plan

1. Done: chart, metadata, interpreter, thread pool, their runs and theorems.
2. Done: the delay queue and the abstract one it implements.
3. Done: the asynchronous engine; the example programs.
4. Done: theorems about the delay queue, with its refinement, and about the
   asynchronous engine.
5. A reference semantics that takes a whole event in one step, which the
   interpreter is shown to implement; re-entrant dispatch.
6. Done: `NoTaskForgotten` when nobody awaits before `shutdown`; the
   configurations of structured charts.
7. Done: a call leaves a real substate in every composite, given that every
   pseudo-state that is reached has a way on.
8. Done: what a call answers, what one event fires, and that nothing is left to
   fire when a call has ended.
9. The same for charts whose transitions leave or enter an and-state from within,
   with forks and joins; what histories remember.
