----------------------------- MODULE MCExamples -----------------------------
(***************************************************************************)
(* The example programs on the interpreter: each starts its chart once and *)
(* dispatches the events its transitions wait for, in any order and any    *)
(* number, a TimeoutEvent like any other (it does nothing unless the state *)
(* that schedules it is active).  SelfParking dispatches nullptr as well.  *)
(***************************************************************************)
EXTENDS Examples

Programs == DOMAIN ProgramOf

VARIABLES program, md, param, agenda, ret, outcome, tainted, fired, before
vars == <<program, md, param, agenda, ret, outcome, tainted, fired, before>>

P(p) == INSTANCE Interpreter WITH
            Chart <- ProgramOf[p].chart, Events <- ProgramOf[p].events,
            Threshold <- ProgramOf[p].threshold, Null <- Nothing,
            Throwing <- {}, Restorable <- {}

Sent(p) == ProgramOf[p].events
              \cup (IF p = "SelfParking" THEN {Nothing} ELSE {})

Init == \E p \in Programs : program = p /\ P(p)!Init

Main(p) ==
    \/ outcome = "idle" /\ P(p)!StartChart
    \/ \E e \in Sent(p) : P(p)!DispatchEvent(e)

\* The programs without events end after start().
Return(p) == /\ Sent(p) = {} /\ outcome \notin {"idle", "running"}
             /\ UNCHANGED vars

Next == \E p \in Programs :
            /\ program = p /\ program' = p
            /\ Main(p) \/ P(p)!Step \/ Return(p)

Spec == Init /\ [][Next]_vars

(***************************************************************************)
(* Properties                                                              *)
(***************************************************************************)
In(state) == state \in md.active
AtRest == outcome = "done"

\* doc/statecharts.md: on the chart of every example the active states form a
\* configuration between two calls, and no completion step is left over.
\* Meanwhile no pseudo-state is without a way on, a composite that an event
\* has brought to its final state completes, and one that nullptr has brought
\* there hides nothing, as the theorems of Settled_proofs suppose.
LegalPrograms ==
    \A p \in Programs : program = p =>
        /\ P(p)!LegalConfiguration /\ P(p)!RunToCompletion /\ P(p)!WayOn
        /\ P(p)!FinishGoesOn(ProgramOf[p].events) /\ P(p)!FinishCompletes
        /\ P(p)!NothingOverlooked

\* States every way into which is followed by a step without a trigger.
PassedThrough ==
    CASE program = "GettingStarted" -> {"b", "a_final"}
      [] program = "Pompe" -> {"StartPump", "ReturnToService"}
      [] program = "Gumball" -> {"GumballSold"}
      [] program = "RichMan" -> {"CountQuarter", "Yeah"}
      [] program = "Motor" -> {"Stop"}
      [] program = "SelfParking" -> {"COMPUTE_ENTERING_TRAJECTORY",
                                     "COMPUTE_LEAVING_TRAJECTORY",
                                     "TRAJECTORY_DONE"}
      [] program = "SimpleOrthogonal" -> {"EnableSystem", "State1", "State2"}
      [] OTHER -> {}

\* The guards out of a transient state cover every value of the Parameter, so
\* no sequence of events and values leaves a program waiting in one
\* (richman.cpp:130, self_parking.cpp:182-205).
NoneStranded == AtRest => PassedThrough \cap md.active = {}

\* What the actions have told the devices, over any history of events, agrees
\* with the state the chart is in; stocks are neither overdrawn nor overfilled
\* (the charts at the heads of pompe.cpp, ethernet_box.cpp, lane_keeping.cpp,
\* motor.cpp, gumball.cpp and richman.cpp).
DevicesFollow ==
    AtRest =>
        CASE program = "Pompe" ->
                /\ In("PumpRunning") => param.pump
                /\ In("Default") => ~param.pump
          [] program = "EthernetBox" ->
                /\ In("EthernetBoxOff") => param.led = "off"
                /\ In("WifiDiscoverable") => param.led = "blinking"
                /\ In("WifiConnected") => param.led = "constant"
                /\ In("WifiDisconnected") => param.led = "glow"
          [] program = "LaneKeeping" ->
                /\ param.LKS = ~In("LKSModeOff")
                /\ param.lane = (In("DetectLane") \/ In("FollowLane"))
                /\ param.steering = In("FollowLane")
                /\ param.servoing = In("FollowLane")
          [] program = "Motor" ->
                In("Start") => param.m_reference_speed > 0
          [] program = "Gumball" ->
                /\ param.gumballs >= 0
                /\ In("OutOfGumballs") <=> param.gumballs = 0
          [] program = "RichMan" -> param.quarters <= 10
          [] OTHER -> TRUE

\* infinite_loop.cpp:23-26 and :78: start() ends with InfiniteLoopException on
\* the chart that loops, and no call does on any other.
LoopReported ==
    agenda = <<>> /\ outcome # "idle" =>
        (outcome = "InfiniteLoop" <=> program = "InfiniteLoop")

\* The chart of every example is in the class Configuration_proofs and
\* Settled_proofs are about.
ASSUME ExamplesStructured ==
    {p \in Programs :
        ~ (P(p)!StructuredChart /\ P(p)!Enterable /\ P(p)!ForksSilent)} = {}
=============================================================================
