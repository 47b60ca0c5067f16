------------------------------ MODULE OnboardSm ------------------------------
(* The joiner's state machine of src/wsop/onboard_sm.rs as a value: an event  *)
(* gives the next machine and the action the driver has to perform.           *)
EXTENDS Naturals

CONSTANTS MaxPollAttempts, MaxScanRetries

ASSUME OnboardAssumption == {MaxPollAttempts, MaxScanRetries} \subseteq Nat \ {0}

States == {"Scanning", "Connecting", "Requesting", "Polling", "Decrypting",
           "Succeeded", "Failed"}
Reasons == {"none", "Denied", "Timeout", "DecryptionError", "ConnectionFailed",
            "NonceMismatch"}
Actions == {"StartScan", "Connect", "SendRequest", "WaitPoll", "Decrypt", "Idle"}

Machine == [state : States, reason : Reasons, scans : Nat, polls : Nat]

New == [state |-> "Scanning", reason |-> "none", scans |-> 0, polls |-> 0]

Goto(sm, state, action) == [sm |-> [sm EXCEPT !.state = state], action |-> action]
Fail(sm, reason) ==
  [sm |-> [sm EXCEPT !.state = "Failed", !.reason = reason], action |-> "Idle"]

ScanMissed(sm) ==
  LET next == [sm EXCEPT !.scans = @ + 1]
  IN IF next.scans >= MaxScanRetries THEN Fail(next, "Timeout")
     ELSE [sm |-> next, action |-> "StartScan"]

PollMissed(sm) ==
  LET next == [sm EXCEPT !.polls = @ + 1]
  IN IF next.polls >= MaxPollAttempts THEN Fail(next, "Timeout")
     ELSE [sm |-> next, action |-> "WaitPoll"]

\* handle_event; an event that does not fit the state is ignored, and the
\* action is Idle although the machine has not ended.
Handle(sm, event) ==
  CASE sm.state = "Scanning" /\ event = "ApFound" -> Goto(sm, "Connecting", "Connect")
    [] sm.state = "Scanning" /\ event = "ApNotFound" -> ScanMissed(sm)
    [] sm.state = "Connecting" /\ event = "Connected" -> Goto(sm, "Requesting", "SendRequest")
    [] sm.state = "Connecting" /\ event = "ConnectFailed" -> Fail(sm, "ConnectionFailed")
    [] sm.state = "Requesting" /\ event = "RequestSent" -> Goto(sm, "Polling", "WaitPoll")
    [] sm.state = "Polling" /\ event = "NoResponse" -> PollMissed(sm)
    [] sm.state = "Polling" /\ event = "ResponseApproved" -> Goto(sm, "Decrypting", "Decrypt")
    [] sm.state = "Polling" /\ event = "ResponseDenied" -> Fail(sm, "Denied")
    [] sm.state = "Polling" /\ event = "NonceMismatch" -> Fail(sm, "NonceMismatch")
    [] sm.state = "Decrypting" /\ event = "DecryptFailed" -> Fail(sm, "DecryptionError")
    [] OTHER -> [sm |-> sm, action |-> "Idle"]
=============================================================================
