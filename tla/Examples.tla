------------------------------ MODULE Examples ------------------------------
(***************************************************************************)
(* The programs of doc/examples: the chart each main() builds, in the      *)
(* order of its declarations, and the values its Parameter can have.  What *)
(* an action tells a device (a pump, a lamp) and only prints in the        *)
(* program is one more field of the Parameter here.  A field that counts   *)
(* without a bound stops at a last value that stands for all beyond it.    *)
(* A TimeoutEvent is named by its delay.                                   *)
(***************************************************************************)
EXTENDS Integers, ChartBuilder

Named(from, to, by) == from \o ">" \o to \o by
Step(from, to) == Go(Named(from, to, ""), from, to)
Upon(from, event, to) == On(Named(from, to, "/" \o event), from, to, event)
If(from, guard, to) == When(Named(from, to, "?"), from, to, guard)
UponIf(from, event, guard, to) == [Upon(from, event, to) EXCEPT !.guard = guard]
Internal(state, event) == Within(Upon(state, event, state))

Inside(parent, kind, names) == [i \in DOMAIN names |-> St(names[i], kind, parent)]
States(names) == Inside(ChartName, "State", names)
StartOf(name, parent) == St(name, "Start", parent)
Start == StartOf("start", ChartName)

\* An action on a field of the Parameter, and the values with such a field.
Setting(data, field, value) == [d \in data |-> [d EXCEPT ![field] = value]]
Having(data, field, values) == {d \in data : d[field] \in values}

\* Parameters: those the program leaves to its actions, and those it sets
\* between two calls in every field but the given ones.
Kept(data, first) ==
    [data |-> data, initial |-> {first}, vary |-> [d \in data |-> {d}]]
SetByUser(data, first, except) ==
    [data |-> data, initial |-> {first},
     vary |-> [d \in data |-> {u \in data : \A f \in except : u[f] = d[f]}]]
NoParameter == Kept({<<>>}, <<>>)

Program(states, transitions, parameter) ==
    [chart     |-> BuildChart(<<Start>> \o states, transitions, parameter),
     events    |-> {t.trigger : t \in ToSet(transitions)} \ {Nothing},
     threshold |-> 1000]

(***************************************************************************)
(* GettingStarted: an or-state with a junction and an and-state.           *)
(***************************************************************************)
GettingStartedData == [value : -1 .. 10]
setValue(n) == Setting(GettingStartedData, "value", n)
decrementValue ==
    [d \in GettingStartedData |-> IF d.value = -1 THEN d
                                  ELSE [d EXCEPT !.value = @ - 1]]
valueEquals(n) == Having(GettingStartedData, "value", {n})

GettingStarted == Program(
    << St("final", "Final", ChartName),
       Entering(St("a", "Hierarchical", ChartName), setValue(10)),
       St("b", "State", "a"), St("j", "Junction", "a"),
       St("a_final", "Final", "a"), St("c", "Concurrent", "a"),
       St("c_r1", "Hierarchical", "c"), StartOf("c_r1_start", "c_r1"),
       St("d", "State", "c_r1"),
       St("c_r2", "Hierarchical", "c"), StartOf("c_r2_start", "c_r2"),
       St("e", "State", "c_r2"),
       Entering(St("f", "State", "c_r2"), decrementValue) >>,
    << Step("start", "b"), Step("b", "c"), Step("c_r1_start", "d"),
       Step("c_r2_start", "e"), Upon("e", "1000ms", "f"),
       Upon("f", "AnotherEvent", "e"), Upon("c", "AnEvent", "j"),
       If("j", valueEquals(0), "b"), Step("j", "a_final"), Step("a", "final") >>,
    Kept(GettingStartedData, [value |-> 0]))

(***************************************************************************)
(* Pompe: the dead-man controller of a pump.  main() sets HM.              *)
(***************************************************************************)
PompeData == [HM : BOOLEAN, AU : BOOLEAN, DHM : BOOLEAN, DPP : BOOLEAN,
              pump : BOOLEAN]
startPump == Setting(PompeData, "pump", TRUE)
stopPump == Setting(PompeData, "pump", FALSE)
canStart == {d \in PompeData : d.HM /\ ~d.AU /\ ~d.DHM /\ ~d.DPP}

Pompe == Program(
    << St("PumpStopped", "State", ChartName),
       Entering(St("Default", "State", ChartName), stopPump),
       St("ReturnToService", "State", ChartName),
       St("PumpRunning", "Hierarchical", ChartName),
       St("WaitForHMRelease", "Hierarchical", "PumpRunning"),
       StartOf("whmrStart", "WaitForHMRelease"),
       Entering(St("StartPump", "State", "WaitForHMRelease"), startPump),
       St("Wait40Seconds", "State", "WaitForHMRelease"),
       St("Wait20Seconds", "State", "WaitForHMRelease"),
       St("WaitForHM", "State", "PumpRunning") >>,
    << Step("start", "PumpStopped"),
       UponIf("PumpStopped", "BPM", canStart, "StartPump"),
       Step("whmrStart", "StartPump"), Step("StartPump", "Wait40Seconds"),
       Upon("Wait40Seconds", "4000ms", "Wait20Seconds"),
       Upon("Wait20Seconds", "2000ms", "Default"),
       Upon("WaitForHMRelease", "falling_HM", "WaitForHM"),
       Upon("WaitForHM", "rising_HM", "Wait40Seconds"),
       Upon("WaitForHM", "500ms", "Default"),
       Upon("PumpRunning", "AU", "PumpStopped"),
       Upon("PumpRunning", "BPA", "PumpStopped"),
       Upon("PumpRunning", "DPP", "PumpStopped"),
       Upon("Default", "Acq", "ReturnToService"),
       Step("ReturnToService", "PumpStopped") >>,
    SetByUser(PompeData, [HM |-> TRUE, AU |-> FALSE, DHM |-> FALSE,
                          DPP |-> FALSE, pump |-> FALSE],
              {"AU", "DHM", "DPP", "pump"}))

(***************************************************************************)
(* Gumball: a distributor, filled with three.                              *)
(***************************************************************************)
GumballData == [gumballs : -1 .. 3]
decrementGumballs ==
    [d \in GumballData |-> IF d.gumballs = -1 THEN d
                           ELSE [d EXCEPT !.gumballs = @ - 1]]

hasGumballs == {d \in GumballData : d.gumballs > 0}

Gumball == Program(
    States(<<"NoQuarter", "HasQuarter", "GumballSold", "OutOfGumballs">>)
        \o Inside(ChartName, "Junction", <<"initJunction", "soldJunction">>),
    Condition("initJunction", hasGumballs, "NoQuarter", "OutOfGumballs")
        \o Condition("soldJunction", hasGumballs, "NoQuarter", "OutOfGumballs")
        \o << Step("start", "initJunction"),
              Upon("NoQuarter", "insertQuarter", "HasQuarter"),
              Upon("HasQuarter", "ejectQuarter", "NoQuarter"),
              Doing(Upon("HasQuarter", "turnCrank", "GumballSold"),
                    decrementGumballs),
              Step("GumballSold", "soldJunction") >>,
    Kept(GumballData, [gumballs |-> 3]))

(***************************************************************************)
(* RichMan: a punk collects up to ten quarters.                            *)
(***************************************************************************)
RichManData == [quarters : 0 .. 12]
incrementQuarters ==
    [d \in RichManData |-> IF d.quarters = 12 THEN d
                           ELSE [d EXCEPT !.quarters = @ + 1]]
resetQuarters == Setting(RichManData, "quarters", 0)
quartersLessThan(n) == {d \in RichManData : d.quarters < n}
quartersEqualsTo(n) == Having(RichManData, "quarters", {n})

\* Mutant: one quarter too many is needed.
quartersGreaterThanNext(n) == {d \in RichManData : d.quarters > n + 1}
quartersGreaterThan(n) == {d \in RichManData : d.quarters > n}

RichMan == Program(
    States(<<"FindQuarter", "CountQuarter", "Yeah">>),
    << Doing(Step("start", "FindQuarter"), resetQuarters),
       Doing(UponIf("FindQuarter", "getQuarter", quartersLessThan(10),
                    "CountQuarter"), incrementQuarters),
       If("CountQuarter", quartersEqualsTo(1), "Yeah"),
       If("CountQuarter", quartersGreaterThan(1), "FindQuarter"),
       Step("Yeah", "FindQuarter") >>,
    Kept(RichManData, [quarters |-> 0]))

(***************************************************************************)
(* DigitalWatch: two counters that wrap.                                   *)
(***************************************************************************)
WatchData == [hours : 0 .. 23, minutes : 0 .. 59]
incrementHours ==
    [d \in WatchData |-> [d EXCEPT !.hours = (@ + 1) % 24]]
incrementMinutes ==
    [d \in WatchData |-> [d EXCEPT !.minutes = (@ + 1) % 60]]
timeIsZero == {d \in WatchData : d.hours = 0 /\ d.minutes = 0}

DigitalWatch == Program(
    States(<<"Idle", "SettingHours", "SettingMinutes">>)
        \o << St("initJunction", "Junction", ChartName) >>,
    Condition("initJunction", timeIsZero, "SettingHours", "Idle")
        \o << Step("start", "initJunction"),
              Upon("Idle", "set", "SettingHours"),
              Upon("SettingHours", "set", "SettingMinutes"),
              Upon("SettingMinutes", "set", "Idle"),
              Doing(Internal("SettingHours", "incr"), incrementHours),
              Doing(Internal("SettingMinutes", "incr"), incrementMinutes) >>,
    Kept(WatchData, [hours |-> 0, minutes |-> 0]))

(***************************************************************************)
(* EthernetBox: a lamp shows the state of the connection.                  *)
(***************************************************************************)
EthernetBoxData == [led : {"unlit", "off", "blinking", "glow", "constant"}]
ledShows(light) == Setting(EthernetBoxData, "led", light)

EthernetBox == Program(
    << Entering(St("EthernetBoxOff", "State", ChartName), ledShows("off")),
       Entering(St("WifiDiscoverable", "State", ChartName), ledShows("blinking")),
       Entering(St("WifiConnected", "State", ChartName), ledShows("constant")),
       Entering(St("WifiDisconnected", "State", ChartName), ledShows("glow")) >>,
    << Step("start", "EthernetBoxOff"),
       Upon("EthernetBoxOff", "wifi_powered_on", "WifiDiscoverable"),
       Upon("WifiDiscoverable", "wifi_powered_off", "EthernetBoxOff"),
       Upon("WifiDisconnected", "wifi_powered_off", "EthernetBoxOff"),
       Upon("WifiDiscoverable", "pairing_successful", "WifiConnected"),
       Upon("WifiConnected", "long_button_press", "WifiDiscoverable"),
       Upon("WifiDiscoverable", "wifi_failure", "WifiDisconnected"),
       Upon("WifiDisconnected", "long_button_press", "WifiDiscoverable"),
       Upon("WifiConnected", "phone_disconnected", "WifiDisconnected"),
       Internal("WifiConnected", "short_button_press") >>,
    Kept(EthernetBoxData, [led |-> "unlit"]))

(***************************************************************************)
(* LaneKeeping: every transition sets all four flags.                      *)
(***************************************************************************)
LksData == [LKS : BOOLEAN, lane : BOOLEAN, steering : BOOLEAN,
            servoing : BOOLEAN]
Flags(lks, lane, steering, servoing) ==
    [LKS |-> lks, lane |-> lane, steering |-> steering, servoing |-> servoing]

\* Mutant: a transition that does not mention servoing leaves it on.
setFlagsKeepingServoing(lks, lane, steering, servoing) ==
    [d \in LksData |-> Flags(lks, lane, steering, servoing \/ d.servoing)]
setFlags(lks, lane, steering, servoing) ==
    [d \in LksData |-> Flags(lks, lane, steering, servoing)]

LaneKeeping == Program(
    States(<<"LKSModeOff", "LKSModeOn", "DetectLane", "FollowLane",
             "WaitDetect">>),
    LET off == setFlags(FALSE, FALSE, FALSE, FALSE)
        on == setFlags(TRUE, FALSE, FALSE, FALSE)
        seen == setFlags(TRUE, TRUE, FALSE, FALSE)
        steered == setFlags(TRUE, TRUE, TRUE, TRUE)
    IN << Step("start", "LKSModeOff"),
          Doing(Upon("LKSModeOff", "btn_LKS", "LKSModeOn"), on),
          Doing(Upon("LKSModeOn", "btn_LKS", "LKSModeOff"), off),
          Doing(Upon("LKSModeOn", "detect", "DetectLane"), seen),
          Doing(Upon("DetectLane", "btn_LKS", "LKSModeOff"), off),
          Doing(Upon("DetectLane", "not_detect", "WaitDetect"), on),
          Doing(Upon("DetectLane", "set", "FollowLane"), steered),
          Doing(Upon("FollowLane", "not_detect", "WaitDetect"), on),
          Doing(Upon("FollowLane", "btn_LKS", "LKSModeOff"), off),
          Doing(Upon("FollowLane", "cancel", "DetectLane"), seen),
          Doing(Upon("WaitDetect", "detect", "DetectLane"), seen),
          Doing(Upon("WaitDetect", "btn_LKS", "LKSModeOff"), off) >>,
    Kept(LksData, Flags(FALSE, FALSE, FALSE, FALSE)))

(***************************************************************************)
(* Motor: main() sets reference_speed, an action latches it.               *)
(***************************************************************************)
MotorData == [reference_speed : -1 .. 2, m_reference_speed : -1 .. 2]
saveReferenceSpeed ==
    [d \in MotorData |-> [d EXCEPT !.m_reference_speed = d.reference_speed]]
refSpeedPositive == {d \in MotorData : d.reference_speed > 0}

Motor == Program(
    States(<<"Idle", "Start", "Spinning", "Stop">>),
    << Step("start", "Idle"),
       Doing(UponIf("Idle", "setSpeed", refSpeedPositive, "Start"),
             saveReferenceSpeed),
       Upon("Start", "halt", "Stop"),
       Doing(UponIf("Start", "setSpeed", refSpeedPositive, "Spinning"),
             saveReferenceSpeed),
       Doing(Internal("Spinning", "setSpeed"), saveReferenceSpeed),
       Upon("Spinning", "halt", "Stop"), Step("Stop", "Idle") >>,
    SetByUser(MotorData, [reference_speed |-> 0, m_reference_speed |-> 0],
              {"m_reference_speed"}))

(***************************************************************************)
(* SelfParking: guards on a world that main() changes.                     *)
(***************************************************************************)
ParkData == [isParked : BOOLEAN, hasTrajectory : BOOLEAN, canPark : BOOLEAN,
             canDrive : BOOLEAN,
             scanStatus : {"SEARCHING", "SLOT_FOUND", "SLOT_NOT_FOUND"}]
isTrue(field) == Having(ParkData, field, {TRUE})
isFalse(field) == Having(ParkData, field, {FALSE})
scanned(status) == Having(ParkData, "scanStatus", {status})

SelfParking == Program(
    States(<<"IDLE", "SCAN_PARKING_SPOTS", "COMPUTE_ENTERING_TRAJECTORY",
             "COMPUTE_LEAVING_TRAJECTORY", "DRIVE_ALONG_TRAJECTORY",
             "TRAJECTORY_DONE">>),
    << Step("start", "IDLE"),
       UponIf("IDLE", "turning_indicator", isFalse("isParked"),
              "SCAN_PARKING_SPOTS"),
       UponIf("IDLE", "turning_indicator", isTrue("isParked"),
              "COMPUTE_LEAVING_TRAJECTORY"),
       If("SCAN_PARKING_SPOTS", scanned("SLOT_FOUND"),
          "COMPUTE_ENTERING_TRAJECTORY"),
       If("SCAN_PARKING_SPOTS", scanned("SLOT_NOT_FOUND"), "TRAJECTORY_DONE"),
       If("COMPUTE_ENTERING_TRAJECTORY", isTrue("hasTrajectory"),
          "DRIVE_ALONG_TRAJECTORY"),
       If("COMPUTE_ENTERING_TRAJECTORY", isFalse("canPark"), "IDLE"),
       If("COMPUTE_ENTERING_TRAJECTORY", isFalse("hasTrajectory"),
          "TRAJECTORY_DONE"),
       If("COMPUTE_LEAVING_TRAJECTORY", isTrue("hasTrajectory"),
          "DRIVE_ALONG_TRAJECTORY"),
       If("COMPUTE_LEAVING_TRAJECTORY", isFalse("hasTrajectory"),
          "TRAJECTORY_DONE"),
       UponIf("DRIVE_ALONG_TRAJECTORY", "update", isFalse("canDrive"),
              "TRAJECTORY_DONE"),
       Step("TRAJECTORY_DONE", "IDLE") >>,
    SetByUser(ParkData, [isParked |-> FALSE, hasTrajectory |-> TRUE,
                         canPark |-> TRUE, canDrive |-> TRUE,
                         scanStatus |-> "SEARCHING"], {}))

(***************************************************************************)
(* Triggers: one event, a guard on it, and a guard without an event.       *)
(***************************************************************************)
TriggersData == [x : {0, 10, 20}]
xEqualsTo(n) == Having(TriggersData, "x", {n})
xGreaterThan(n) == {d \in TriggersData : d.x > n}

Triggers == Program(
    States(<<"A", "B", "C", "D">>),
    << Step("start", "A"), UponIf("A", "e", xEqualsTo(10), "B"),
       Upon("A", "e", "C"), If("A", xGreaterThan(10), "D") >>,
    SetByUser(TriggersData, [x |-> 0], {}))

(***************************************************************************)
(* The programs that show one construct each.                              *)
(***************************************************************************)
SimpleFSMData == [guard1 : BOOLEAN, guard3 : BOOLEAN]
SimpleFSM == Program(
    << St("final", "Final", ChartName) >> \o States(<<"State1", "State2">>),
    << Step("start", "State1"),
       UponIf("State1", "event1", Having(SimpleFSMData, "guard1", {TRUE}),
              "State2"),
       Upon("State2", "event2", "State1"), Upon("State2", "event6", "final"),
       [Internal("State1", "event3") EXCEPT
           !.guard = Having(SimpleFSMData, "guard3", {TRUE})],
       Internal("State2", "event5") >>,
    SetByUser(SimpleFSMData, [guard1 |-> TRUE, guard3 |-> TRUE], {}))

SimpleComposite == Program(
    << St("EnableSystem", "Hierarchical", ChartName),
       StartOf("enableStart", "EnableSystem"),
       St("ON", "State", "EnableSystem"), St("OFF", "State", "EnableSystem"),
       St("DisableSystem", "State", ChartName) >>,
    << Step("start", "EnableSystem"), Step("enableStart", "ON"),
       Upon("ON", "off", "OFF"), Upon("OFF", "on", "ON"),
       Upon("EnableSystem", "disable", "DisableSystem"),
       Upon("DisableSystem", "enable", "EnableSystem") >>,
    NoParameter)

ComplexComposite == Program(
    << St("State0", "Hierarchical", ChartName), StartOf("s0Start", "State0"),
       St("State1", "Hierarchical", "State0"), StartOf("s1Start", "State1"),
       St("State11", "State", "State1"),
       St("State2", "Hierarchical", "State0"), StartOf("s2Start", "State2"),
       St("State21", "Hierarchical", "State2"), StartOf("s21Start", "State21"),
       St("State211", "State", "State21") >>,
    << Step("start", "State0"), Step("s0Start", "State1"),
       Step("s1Start", "State11"), Step("s2Start", "State21"),
       Step("s21Start", "State211"), Upon("State1", "f", "State211") >>,
    NoParameter)

SimpleOrthogonal == Program(
    << St("EnableSystem", "Concurrent", ChartName),
       St("Region1", "Hierarchical", "EnableSystem"),
       StartOf("r1Start", "Region1"), St("State1", "State", "Region1"),
       St("r1Final", "Final", "Region1"),
       St("Region2", "Hierarchical", "EnableSystem"),
       StartOf("r2Start", "Region2"), St("State2", "State", "Region2"),
       St("r2Final", "Final", "Region2"),
       St("DisableSystem", "State", ChartName) >>,
    << Step("start", "EnableSystem"), Step("r1Start", "State1"),
       Step("State1", "r1Final"), Step("r2Start", "State2"),
       Step("State2", "r2Final"), Step("EnableSystem", "DisableSystem") >>,
    NoParameter)

InfiniteLoop == [Program(
    States(<<"State1", "State2", "State3">>),
    << Step("start", "State1"), Step("State1", "State2"),
       Step("State2", "State3"), Step("State3", "State1") >>,
    NoParameter) EXCEPT !.threshold = 10]

ProgramOf ==
    [GettingStarted |-> GettingStarted, Pompe |-> Pompe, Gumball |-> Gumball,
     RichMan |-> RichMan, DigitalWatch |-> DigitalWatch,
     EthernetBox |-> EthernetBox, LaneKeeping |-> LaneKeeping, Motor |-> Motor,
     SelfParking |-> SelfParking, Triggers |-> Triggers,
     SimpleFSM |-> SimpleFSM, SimpleComposite |-> SimpleComposite,
     ComplexComposite |-> ComplexComposite,
     SimpleOrthogonal |-> SimpleOrthogonal, InfiniteLoop |-> InfiniteLoop]
=============================================================================
