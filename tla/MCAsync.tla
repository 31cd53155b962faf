------------------------------ MODULE MCAsync ------------------------------
(***************************************************************************)
(* An engine for TLC: one state with two timeouts, one without, an event   *)
(* that moves between them, so that a timeout is cancelled by an event, by *)
(* the other timeout or not at all, and its state entered again.           *)
(***************************************************************************)
EXTENDS AsyncEngine, TLC

CONSTANTS m1, c1, c2

Move(from, on, to) == [from |-> from, on |-> on, to |-> to]
TwoTimeouts == {Move("start", Null, "armed"), Move("armed", "short", "calm"),
                Move("armed", "long", "calm"), Move("armed", "toggle", "calm"),
                Move("calm", "toggle", "armed")}
=============================================================================
