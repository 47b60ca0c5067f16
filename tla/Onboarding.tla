----------------------------- MODULE Onboarding -----------------------------
(***************************************************************************)
(* Secure onboarding: devices without credentials (src/wsop/joiner.rs)     *)
(* write join requests to a gateway (src/wsop/gateway.rs and the gateway's *)
(* part of the main loop), an owner approves or denies what the gateway    *)
(* lists, and the joiners poll for an answer.                              *)
(*                                                                         *)
(* Everything passes through InfoItems of which only the newest value is   *)
(* read, and which nothing empties: JoinRequest and Approval are looked at *)
(* again in every tick. An attempt is a device and the number of its retry;*)
(* it stands for the attempt's key pair and nonce. Time is counted in      *)
(* ticks, and kept as ages up to the point where they stop to matter.      *)
(***************************************************************************)
EXTENDS OnboardSm, Sequences, SequencesExt

CONSTANTS
  Device,
  MAX_PENDING,        \* requests the gateway keeps
  Window,             \* approval timeout, in ticks
  Drift,              \* how old a request's timestamp may be, in ticks
  Skew,               \* how far a joiner's clock is behind when it joins
  ServesJoiner,       \* whether the gateway answers the URLs joiners use
  MaxRetryAttempts

ASSUME OnboardingAssumption ==
  /\ {MAX_PENDING, Window, MaxRetryAttempts} \subseteq Nat \ {0}
  /\ {Drift, Skew} \subseteq Nat /\ ServesJoiner \in BOOLEAN

VARIABLES
  joiner,     \* per device: [sm, action, retry, at]
  request,    \* newest JoinRequest: [from, no, age]
  approval,   \* newest Approval: [mac, approve]
  response,   \* newest JoinResponse: [to, approved]
  pending,    \* GatewayState::pending: [mac, no, age]
  board,      \* newest PendingRequests: what the owner sees
  gw,         \* the gateway's place in its tick
  consented,  \* history: devices the owner has approved
  denied      \* history: attempts the gateway has denied

joinerVars == <<joiner, request>>
gatewayVars == <<response, pending, board, gw, denied>>
ownerVars == <<approval, consented>>
vars == <<joinerVars, gatewayVars, ownerVars>>

NoRequest == [from |-> "none"]
NoApproval == [mac |-> "none", approve |-> FALSE]
NoResponse == [to |-> <<>>, approved |-> FALSE]

-----------------------------------------------------------------------------
(* The joiner.                                                             *)

Fresh(retry) == [sm |-> New, action |-> "StartScan", retry |-> retry, at |-> "onboarding"]

Attempted(d) == <<d, joiner[d].retry>>

Performs(d, action) == joiner[d].at = "onboarding" /\ joiner[d].action = action

Feed(d, event) ==
  LET next == Handle(joiner[d].sm, event)
  IN joiner' = [joiner EXCEPT ![d].sm = next.sm, ![d].action = next.action]

StartScan(d) ==
  /\ Performs(d, "StartScan")
  /\ \E event \in {"ApFound", "ApNotFound"} : Feed(d, event)
  /\ UNCHANGED <<request, gatewayVars, ownerVars>>

Connect(d) ==
  /\ Performs(d, "Connect")
  /\ \E event \in {"Connected", "ConnectFailed"} : Feed(d, event)
  /\ UNCHANGED <<request, gatewayVars, ownerVars>>

\* A failure is reported as ConnectFailed, which the machine ignores here.
SendRequest(d) ==
  /\ Performs(d, "SendRequest")
  /\ \/ /\ ServesJoiner /\ Feed(d, "RequestSent")
        /\ request' = [from |-> d, no |-> joiner[d].retry, age |-> Skew]
     \/ Feed(d, "ConnectFailed") /\ UNCHANGED request
  /\ UNCHANGED <<gatewayVars, ownerVars>>

\* Mutant: answers to others are not told apart.
EventOfUnfiltered(d) ==
  CASE response = NoResponse -> "NoResponse"
    [] response # NoResponse /\ response.to # Attempted(d) -> "NonceMismatch"
    [] OTHER -> IF response.approved THEN "ResponseApproved" ELSE "ResponseDenied"

\* poll_join_response passes over answers to others; a failed poll is none.
EventOf(d) ==
  CASE response.to # Attempted(d) -> "NoResponse"
    [] OTHER -> IF response.approved THEN "ResponseApproved" ELSE "ResponseDenied"

WaitPoll(d) ==
  /\ Performs(d, "WaitPoll")
  /\ \E event \in {EventOf(d), "NoResponse"} : Feed(d, event)
  /\ UNCHANGED <<request, gatewayVars, ownerVars>>

\* The credentials are decrypted with the attempt's key, stored, and used.
Decrypt(d) ==
  /\ Performs(d, "Decrypt")
  /\ joiner' = [joiner EXCEPT ![d].at = "provisioned"]
  /\ UNCHANGED <<request, gatewayVars, ownerVars>>

\* Mutant: attempts are not counted.
RetryUncounted(d) == Fresh(joiner[d].retry)

\* The machine has stopped: try again with a fresh key, or open the portal.
Retry(d) ==
  IF joiner[d].retry + 1 >= MaxRetryAttempts THEN [joiner[d] EXCEPT !.at = "portal"]
  ELSE Fresh(joiner[d].retry + 1)

Conclude(d) ==
  /\ Performs(d, "Idle")
  /\ joiner' = [joiner EXCEPT ![d] =
       IF @.sm.reason \in {"Denied", "DecryptionError", "NonceMismatch"}
       THEN Retry(d) ELSE [@ EXCEPT !.at = "portal"]]
  /\ UNCHANGED <<request, gatewayVars, ownerVars>>

-----------------------------------------------------------------------------
(* The owner, with any client: decides on what the gateway lists.          *)

Decide ==
  /\ \E i \in DOMAIN board, approve \in BOOLEAN :
       /\ approval' = [mac |-> board[i].mac, approve |-> approve]
       /\ consented' = IF approve THEN consented \cup {board[i].mac} ELSE consented
  /\ UNCHANGED <<joinerVars, gatewayVars>>

-----------------------------------------------------------------------------
(* The gateway's tick. Clients write between its steps.                    *)

\* process_join_request: the limit counts an older entry of the same device.
Queueable ==
  /\ request # NoRequest /\ request.age <= Drift
  /\ Len(pending) < MAX_PENDING

Entry == [mac |-> request.from, no |-> request.no, age |-> 0]
Queued == Append(SelectSeq(pending, LAMBDA p : p.mac # request.from), Entry)

GatewayJoin ==
  /\ gw = "join" /\ gw' = "approve"
  /\ pending' = IF Queueable THEN Queued ELSE pending
  /\ UNCHANGED <<joinerVars, ownerVars, response, board, denied>>

Addressee(p) == <<p.mac, p.no>>

\* Mutant: the owner's action is not looked at.
AnswerYes(p) == [to |-> Addressee(p), approved |-> TRUE]

\* process_approval takes the first request of the device off the queue, and
\* answers it.
Answer(p) == [to |-> Addressee(p), approved |-> approval.approve]

ApprovalOf == {i \in DOMAIN pending : pending[i].mac = approval.mac}

GatewayApprove ==
  /\ gw = "approve" /\ gw' = "expire"
  /\ \/ ApprovalOf = {} /\ UNCHANGED <<pending, response, denied>>
     \/ \E i \in ApprovalOf :
          /\ \A j \in ApprovalOf : i <= j
          /\ pending' = RemoveAt(pending, i)
          /\ response' = Answer(pending[i])
          /\ denied' = IF response'.approved THEN denied ELSE denied \cup {response'.to}
  /\ UNCHANGED <<joinerVars, ownerVars, board>>

\* tick_timeouts: all the denials are written, the last one is read.
Expired(p) == p.age >= Window
Remaining == SelectSeq(pending, LAMBDA p : ~Expired(p))
Overdue == {i \in DOMAIN pending : Expired(pending[i])}

GatewayExpire ==
  /\ gw = "expire" /\ gw' = "list"
  /\ \/ Overdue = {} /\ UNCHANGED response
     \/ \E i \in Overdue :
          /\ \A j \in Overdue : j <= i
          /\ response' = [to |-> Addressee(pending[i]), approved |-> FALSE]
  /\ denied' = denied \cup {Addressee(pending[i]) : i \in Overdue}
  /\ pending' = Remaining
  /\ UNCHANGED <<joinerVars, ownerVars, board>>

GatewayList ==
  /\ gw = "list" /\ gw' = "rest"
  /\ board' = pending
  /\ UNCHANGED <<joinerVars, ownerVars, response, pending, denied>>

\* Time until the next tick.
Older(age, most) == IF age < most THEN age + 1 ELSE age
Rest ==
  /\ gw = "rest" /\ gw' = "join"
  /\ pending' = [i \in DOMAIN pending |-> [pending[i] EXCEPT !.age = Older(@, Window)]]
  /\ request' = IF request = NoRequest THEN request
                ELSE [request EXCEPT !.age = Older(@, Drift + 1)]
  /\ UNCHANGED <<joiner, ownerVars, response, board, denied>>

-----------------------------------------------------------------------------
Init ==
  /\ joiner = [d \in Device |-> Fresh(0)]
  /\ request = NoRequest /\ approval = NoApproval /\ response = NoResponse
  /\ pending = <<>> /\ board = <<>> /\ gw = "join"
  /\ consented = {} /\ denied = {}

Joins(d) == StartScan(d) \/ Connect(d) \/ SendRequest(d) \/ WaitPoll(d)
            \/ Decrypt(d) \/ Conclude(d)
Gateway == GatewayJoin \/ GatewayApprove \/ GatewayExpire \/ GatewayList \/ Rest

Next == (\E d \in Device : Joins(d)) \/ Decide \/ Gateway

\* Each device runs, and nobody has to decide.
Spec == Init /\ [][Next]_vars /\ (\A d \in Device : WF_vars(Joins(d))) /\ WF_vars(Gateway)

-----------------------------------------------------------------------------
(* Properties.                                                             *)

\* However requests are queued again, replaced and answered late, no device
\* is provisioned that the owner has not approved (gateway.rs:240).
OnlyApprovedGetIn ==
  \A d \in Device : joiner[d].at = "provisioned" => d \in consented

\* FR-114: JoinResponse is shared by all joiners; the answers to others and to
\* earlier attempts never make a joiner fail, only a denial of this attempt does.
FailuresAreOwn ==
  \A d \in Device :
    joiner[d].sm.reason \in {"Denied", "NonceMismatch", "DecryptionError"} =>
      joiner[d].sm.reason = "Denied" /\ Attempted(d) \in denied

\* Scan, poll and retry limits together: every joiner ends provisioned or with
\* its portal open, whatever gateway and owner do (US4), although an approval
\* that nobody takes back denies its retries too.
JoinersEnd == \A d \in Device : <>(joiner[d].at # "onboarding")

=============================================================================
