------------------------------- MODULE WifiSm -------------------------------
(***************************************************************************)
(* The platform-independent WiFi state machine of src/wifi_sm.rs: given a  *)
(* number of credentials it walks through them, backs off after every full *)
(* rotation, and asks for the captive portal after MaxRotations of them.   *)
(* Every operator takes a state machine and returns a record with the next *)
(* one and the action it asks the platform for.                            *)
(***************************************************************************)
EXTENDS Naturals

CONSTANT MaxRotations  \* WifiSmConfig::max_rotations

ASSUME MaxRotationsAssumption == MaxRotations \in Nat \ {0}

\* A machine is its state (Unconfigured, Connecting, Connected, Backoff, Portal),
\* the number of credentials, the index of the one tried, counted from 1, and the
\* rotations made, which matter only up to MaxRotations and saturate there.

Idle == [type |-> "Idle"]
StartPortal == [type |-> "StartPortal"]
StopPortal == [type |-> "StopPortal"]
WaitBackoff == [type |-> "WaitBackoff"]
TryConnect(i) == [type |-> "TryConnect", index |-> i]

Into(sm, state) == [sm EXCEPT !.state = state, !.index = 0]
Outcome(sm, action) == [sm |-> sm, action |-> action]
Trying(sm, i) ==
  Outcome([sm EXCEPT !.state = "Connecting", !.index = i], TryConnect(i))

New(num) ==
  [state |-> IF num = 0 THEN "Unconfigured" ELSE "Connecting",
   index |-> IF num = 0 THEN 0 ELSE 1,
   num |-> num, rotation |-> 0]

InitialAction(sm) ==
  CASE sm.state = "Unconfigured" -> StartPortal
    [] sm.state = "Connecting" -> TryConnect(sm.index)
    [] OTHER -> Idle

StartBackoffOrPortal(sm) ==
  LET next == [sm EXCEPT !.rotation =
                 IF sm.rotation < MaxRotations THEN sm.rotation + 1
                                               ELSE MaxRotations]
  IN IF next.rotation >= MaxRotations
     THEN Outcome(Into(next, "Portal"), StartPortal)
     ELSE Outcome(Into(next, "Backoff"), WaitBackoff)

ConnectSuccess(sm) ==
  IF sm.state = "Connecting" THEN Outcome(Into(sm, "Connected"), Idle)
                             ELSE Outcome(sm, Idle)

\* Mutant: off by one, the last credential of a rotation is not tried.
ConnectFailedSkipsLast(sm) ==
  CASE sm.state # "Connecting" -> Outcome(sm, Idle)
    [] sm.state = "Connecting" /\ sm.index + 1 < sm.num -> Trying(sm, sm.index + 1)
    [] OTHER -> StartBackoffOrPortal(sm)

\* The next credential of the rotation, or its end.
ConnectFailed(sm) ==
  CASE sm.state # "Connecting" -> Outcome(sm, Idle)
    [] sm.state = "Connecting" /\ sm.index < sm.num -> Trying(sm, sm.index + 1)
    [] OTHER -> StartBackoffOrPortal(sm)

ConnectionLost(sm) ==
  IF sm.state = "Connected" THEN Trying([sm EXCEPT !.rotation = 0], 1)
                            ELSE Outcome(sm, Idle)

BackoffComplete(sm) ==
  IF sm.state = "Backoff" THEN Trying(sm, 1) ELSE Outcome(sm, Idle)

SavedSsidFound(sm, i) ==
  IF sm.state \in {"Portal", "Unconfigured"} THEN Trying(sm, i)
                                             ELSE Outcome(sm, Idle)

\* New credentials from the portal restart the sequence at the given index,
\* which is clamped to the last one there is.
CredentialsUpdated(sm, num, start) ==
  LET fresh == [sm EXCEPT !.num = num, !.rotation = 0]
  IN IF num = 0 THEN Outcome(Into(fresh, "Unconfigured"), StartPortal)
     ELSE Trying(fresh, IF start < num THEN start ELSE num)

PortalConnectSucceeded(sm) == Outcome(Into(sm, "Connected"), StopPortal)
=============================================================================
