----------------------------- MODULE WifiProofs -----------------------------
(***************************************************************************)
(* Theorems about WifiLifecycle, for every number of rotations, every set   *)
(* of networks and forms and any number of faults and restarts: how the     *)
(* captive DNS responder and the radio follow the state machine, although   *)
(* seven places of src/main.rs switch them, and what has been tried when    *)
(* the portal opens.                                                        *)
(***************************************************************************)
EXTENDS WifiLifecycle, FiniteSetTheorems, WellFoundedInduction, TLAPS

States == {"Unconfigured", "Connecting", "Connected", "Backoff", "Portal"}

\* Nothing is said of the index and the number of credentials.
Fields(Any) == [state : States, index : Any, num : Any, rotation : 0 .. MaxRotations]
Machine(m) == \E Any : m \in Fields(Any)

Types == Machine(sm) /\ dns \in BOOLEAN /\ deadline \in BOOLEAN

\* The responder is off with a connection, while a backoff is timed, during the
\* boot, and as long as a reconnection has not ended in the portal.
DnsOK ==
  /\ sm.state = "Connected" => ~dns
  /\ deadline => ~dns
  /\ pc \in {"boot", "driving", "reconnect", "relink"} => ~dns

\* A backoff is timed only by machines that make more than one rotation, and a
\* lost connection begins a first one, which does not end in the portal then.
DeadlineOK ==
  /\ deadline => MaxRotations # 1
  /\ pc \in {"boot", "driving", "reconnect"} => ~deadline
  /\ pc \in {"reconnect", "relink"} /\ attempt.type = "WaitBackoff" => MaxRotations # 1
  /\ pc = "relink" /\ MaxRotations # 1 =>
       /\ attempt.type # "StartPortal"
       /\ attempt.type = "TryConnect" => sm.rotation = 0

\* The action handle_reconnect_action carries out fits the machine's state.
AttemptOK ==
  /\ pc \in {"reconnect", "relink"} =>
       /\ attempt.type = "StartPortal" => sm.state = "Portal"
       /\ attempt.type = "TryConnect" => sm.state = "Connecting"
       /\ attempt.type = "WaitBackoff" => sm.state = "Backoff"
  /\ pc = "relink" /\ attempt.type = "Idle" => sm.state = "Connected"

\* Between two rounds of the loop, a machine that is not at rest and whose
\* backoff nobody times has stopped beside the access point.
RadioOK ==
  /\ pc \in {"loop", "tick"} /\ sm.state = "Connecting" => radio = "mixed"
  /\ pc \in {"loop", "tick"} /\ sm.state = "Backoff" /\ ~deadline => radio = "mixed"
  /\ pc = "reconnect" /\ attempt.type = "Idle" /\ sm.state \in {"Connecting", "Backoff"}
       => radio = "mixed"

Inv == Types /\ DnsOK /\ DeadlineOK /\ AttemptOK /\ RadioOK
-----------------------------------------------------------------------------
(* The state machine: what each of its operations may return.              *)

LEMMA MovedMachine ==
  ASSUME NEW m, Machine(m), NEW state \in States, NEW index
  PROVE  LET e == [m EXCEPT !.state = state, !.index = index]
         IN Machine(e) /\ e.state = state /\ e.rotation = m.rotation
<1>1. PICK Any : m \in Fields(Any)
  BY DEF Machine
<1>. DEFINE e == [m EXCEPT !.state = state, !.index = index]
<1>2. e \in Fields(Any \cup {index}) /\ e.state = state /\ e.rotation = m.rotation
  BY <1>1 DEF Fields
<1>. QED
  BY <1>2 DEF Machine

LEMMA IntoMachine ==
  ASSUME NEW m, Machine(m), NEW state \in States
  PROVE  Machine(Into(m, state)) /\ Into(m, state).state = state
<1>1. PICK Any : m \in Fields(Any)
  BY DEF Machine
<1>2. Into(m, state) \in Fields(Any \cup {0}) /\ Into(m, state).state = state
  BY <1>1 DEF Into, Fields
<1>. QED
  BY <1>2 DEF Machine

LEMMA RotatedMachine ==
  ASSUME NEW m, Machine(m), NEW rotation \in 0 .. MaxRotations
  PROVE  LET e == [m EXCEPT !.rotation = rotation]
         IN Machine(e) /\ e.state = m.state /\ e.rotation = rotation
<1>1. PICK Any : m \in Fields(Any)
  BY DEF Machine
<1>. DEFINE e == [m EXCEPT !.rotation = rotation]
<1>2. e \in Fields(Any) /\ e.state = m.state /\ e.rotation = rotation
  BY <1>1 DEF Fields
<1>. QED
  BY <1>2 DEF Machine

LEMMA RenumberedMachine ==
  ASSUME NEW m, Machine(m), NEW num
  PROVE  Machine([m EXCEPT !.num = num, !.rotation = 0])
<1>1. PICK Any : m \in Fields(Any)
  BY DEF Machine
<1>2. 0 \in 0 .. MaxRotations
  BY MaxRotationsAssumption
<1>3. [m EXCEPT !.num = num, !.rotation = 0] \in Fields(Any \cup {num})
  BY <1>1, <1>2 DEF Fields
<1>. QED
  BY <1>3 DEF Machine

LEMMA MachineParts ==
  ASSUME NEW m, Machine(m)
  PROVE  m.state \in States /\ m.rotation \in 0 .. MaxRotations
BY DEF Machine, Fields

LEMMA TryingOutcome ==
  ASSUME NEW m, Machine(m), NEW i
  PROVE  LET o == Trying(m, i)
         IN /\ Machine(o.sm) /\ o.sm.state = "Connecting" /\ o.sm.rotation = m.rotation
            /\ o.action.type = "TryConnect"
<1>. DEFINE e == [m EXCEPT !.state = "Connecting", !.index = i]
<1>1. PICK Any : m \in Fields(Any)
  BY DEF Machine
<1>2. Machine(e) /\ e.state = "Connecting" /\ e.rotation = m.rotation
  <2>1. e \in Fields(Any \cup {i}) /\ e.state = "Connecting" /\ e.rotation = m.rotation
    BY <1>1 DEF Fields, States
  <2>. HIDE DEF e
  <2>. QED
    BY <2>1 DEF Machine
<1>3. Trying(m, i) = Outcome(e, TryConnect(i))
  BY DEF Trying
<1>. HIDE DEF e
<1>. QED
  BY <1>2, <1>3 DEF Outcome, TryConnect

LEMMA NewMachine ==
  ASSUME NEW n
  PROVE  Machine(New(n)) /\ New(n).state \in {"Unconfigured", "Connecting"}
<1>1. New(n) \in Fields({0, 1, n})
  BY MaxRotationsAssumption DEF New, Fields, States
<1>. QED
  BY <1>1 DEF Machine, New

LEMMA SuccessOutcome ==
  ASSUME NEW m, Machine(m)
  PROVE  /\ Machine(ConnectSuccess(m).sm) /\ ConnectSuccess(m).action.type = "Idle"
         /\ m.state = "Connecting" => ConnectSuccess(m).sm.state = "Connected"
<1>1. "Connected" \in States
  BY DEF States
<1>. QED
  BY <1>1, IntoMachine DEF ConnectSuccess, Outcome, Idle

LEMMA RotationOutcome ==
  ASSUME NEW m, Machine(m)
  PROVE  LET o == StartBackoffOrPortal(m)
         IN /\ Machine(o.sm)
            /\ \/ o.sm.state = "Portal" /\ o.action.type = "StartPortal"
                  /\ (m.rotation = 0 => MaxRotations = 1)
               \/ o.sm.state = "Backoff" /\ o.action.type = "WaitBackoff" /\ MaxRotations # 1
<1>. DEFINE r == IF m.rotation < MaxRotations THEN m.rotation + 1 ELSE MaxRotations
            next == [m EXCEPT !.rotation = r]
<1>1. /\ r \in 0 .. MaxRotations
      /\ r >= MaxRotations => (m.rotation = 0 => MaxRotations = 1)
      /\ ~(r >= MaxRotations) => MaxRotations # 1
  BY MaxRotationsAssumption, MachineParts
<1>. HIDE DEF r
<1>2. Machine(next) /\ next.rotation = r
  BY <1>1, RotatedMachine
<1>3. StartBackoffOrPortal(m) =
        IF next.rotation >= MaxRotations THEN Outcome(Into(next, "Portal"), StartPortal)
        ELSE Outcome(Into(next, "Backoff"), WaitBackoff)
  BY DEF StartBackoffOrPortal, r
<1>. HIDE DEF next
<1>4. \A state \in States : Machine(Into(next, state)) /\ Into(next, state).state = state
  BY <1>2, IntoMachine
<1>5. "Portal" \in States /\ "Backoff" \in States
  BY DEF States
<1>. QED
  BY <1>1, <1>2, <1>3, <1>4, <1>5 DEF Outcome, StartPortal, WaitBackoff

LEMMA FailureOutcome ==
  ASSUME NEW m, Machine(m)
  PROVE  LET o == ConnectFailed(m)
         IN /\ Machine(o.sm)
            /\ \/ m.state # "Connecting" /\ o.sm = m /\ o.action.type = "Idle"
               \/ m.state = "Connecting" /\ o.sm.state = "Connecting"
                  /\ o.action.type = "TryConnect" /\ o.sm.rotation = m.rotation
               \/ m.state = "Connecting" /\ o.sm.state = "Portal"
                  /\ o.action.type = "StartPortal" /\ (m.rotation = 0 => MaxRotations = 1)
               \/ m.state = "Connecting" /\ o.sm.state = "Backoff"
                  /\ o.action.type = "WaitBackoff" /\ MaxRotations # 1
<1>1. CASE m.state # "Connecting"
  BY <1>1 DEF ConnectFailed, Outcome, Idle
<1>2. CASE m.state = "Connecting" /\ m.index < m.num
  <2>1. ConnectFailed(m) = Trying(m, m.index + 1)
    BY <1>2 DEF ConnectFailed
  <2>. QED
    BY <1>2, <2>1, TryingOutcome
<1>3. CASE m.state = "Connecting" /\ ~(m.index < m.num)
  <2>1. ConnectFailed(m) = StartBackoffOrPortal(m)
    BY <1>3 DEF ConnectFailed
  <2>. DEFINE o == StartBackoffOrPortal(m)
  <2>2. /\ Machine(o.sm)
        /\ \/ o.sm.state = "Portal" /\ o.action.type = "StartPortal"
              /\ (m.rotation = 0 => MaxRotations = 1)
           \/ o.sm.state = "Backoff" /\ o.action.type = "WaitBackoff" /\ MaxRotations # 1
    BY RotationOutcome
  <2>. HIDE DEF o
  <2>3. ConnectFailed(m) = o
    BY <2>1 DEF o
  <2>. QED
    BY <1>3, <2>2, <2>3
<1>. QED
  BY <1>1, <1>2, <1>3

LEMMA LostOutcome ==
  ASSUME NEW m, Machine(m), m.state = "Connected"
  PROVE  LET o == ConnectionLost(m)
         IN /\ Machine(o.sm) /\ o.sm.state = "Connecting" /\ o.sm.rotation = 0
            /\ o.action.type = "TryConnect"
<1>. DEFINE fresh == [m EXCEPT !.rotation = 0]
<1>1. Machine(fresh) /\ fresh.rotation = 0
  BY RotatedMachine, MaxRotationsAssumption
<1>2. ConnectionLost(m) = Trying(fresh, 1)
  BY DEF ConnectionLost
<1>. HIDE DEF fresh
<1>. QED
  BY <1>1, <1>2, TryingOutcome

LEMMA BackoffOutcome ==
  ASSUME NEW m, Machine(m)
  PROVE  LET o == BackoffComplete(m)
         IN /\ Machine(o.sm)
            /\ \/ /\ m.state = "Backoff" /\ o.sm.state = "Connecting"
                  /\ o.action.type = "TryConnect"
               \/ m.state # "Backoff" /\ o.sm = m /\ o.action.type = "Idle"
BY TryingOutcome DEF BackoffComplete, Outcome, Idle

LEMMA UpdatedOutcome ==
  ASSUME NEW m, Machine(m), NEW num, NEW start
  PROVE  /\ Machine(CredentialsUpdated(m, num, start).sm)
         /\ CredentialsUpdated(m, num, start).sm.state \in {"Unconfigured", "Connecting"}
<1>. DEFINE fresh == [m EXCEPT !.num = num, !.rotation = 0]
            first == IF start < num THEN start ELSE num
<1>1. Machine(fresh)
  BY RenumberedMachine
<1>2. CredentialsUpdated(m, num, start) =
        IF num = 0 THEN Outcome(Into(fresh, "Unconfigured"), StartPortal) ELSE Trying(fresh, first)
  BY DEF CredentialsUpdated
<1>. HIDE DEF fresh, first
<1>3. "Unconfigured" \in States
  BY DEF States
<1>4. Machine(Into(fresh, "Unconfigured")) /\ Into(fresh, "Unconfigured").state = "Unconfigured"
  BY <1>1, <1>3, IntoMachine
<1>. QED
  BY <1>1, <1>2, <1>4, TryingOutcome DEF Outcome

LEMMA FoundOutcome ==
  ASSUME NEW m, Machine(m), NEW i
  PROVE  Machine(SavedSsidFound(m, i).sm)
         /\ (m.state \in {"Portal", "Unconfigured"} => SavedSsidFound(m, i).sm.state = "Connecting")
BY TryingOutcome DEF SavedSsidFound, Outcome

LEMMA JoinedOutcome ==
  ASSUME NEW m, Machine(m)
  PROVE  Machine(PortalConnectSucceeded(m).sm) /\ PortalConnectSucceeded(m).sm.state = "Connected"
<1>1. "Connected" \in States
  BY DEF States
<1>. QED
  BY <1>1, IntoMachine DEF PortalConnectSucceeded, Outcome
-----------------------------------------------------------------------------
(* The steps one by one.                                                   *)

USE DEF Inv, Types, DnsOK, DeadlineOK, AttemptOK, RadioOK

LEMMA InvInit == Init => Inv
BY NewMachine DEF Init

LEMMA RestartKeepsInv == ASSUME Restarted PROVE Inv'
BY NewMachine DEF Restarted

\* Boot leaves the responder off, or the machine in Unconfigured.
LEMMA BootKeepsInv == ASSUME Inv, Boot PROVE Inv'
<1>1. PICK cs : \E dnsFails \in BOOLEAN :
        /\ sm' = New(Len(cs)) /\ deadline' = deadline
        /\ \/ pc' = "loop" /\ dns' = ~dnsFails /\ New(Len(cs)).state # "Connecting"
           \/ pc' = "driving" /\ dns' = dns
  <2>1. PICK failing \in SUBSET {"config", "flag", "dns"} :
          LET fails(call) == call \in failing
              cs == IF force THEN <<>> ELSE Known(LoadedSsids(fails("config")))
          IN /\ sm' = New(Len(cs))
             /\ IF InitialAction(New(Len(cs))) = StartPortal
                THEN pc' = "loop" /\ dns' = ~fails("dns")
                ELSE pc' = "driving" /\ dns' = dns
    BY DEF Boot, ServerStarted
  <2>. DEFINE cs == IF force THEN <<>> ELSE Known(LoadedSsids("config" \in failing))
  <2>2. InitialAction(New(Len(cs))) = StartPortal => New(Len(cs)).state # "Connecting"
    <3>1. \A i : TryConnect(i) # StartPortal
      BY DEF TryConnect, StartPortal
    <3>. QED
      BY <3>1 DEF InitialAction
  <2>3. deadline' = deadline
    BY DEF Boot
  <2>. QED
    BY <2>1, <2>2, <2>3
<1>2. Machine(sm') /\ sm'.state \in {"Unconfigured", "Connecting"}
  BY <1>1, NewMachine
<1>3. dns = FALSE /\ deadline = FALSE
  BY DEF Boot
<1>4. CASE pc' = "loop"
  <2>1. sm'.state = "Unconfigured" /\ dns' \in BOOLEAN /\ deadline' = FALSE
    BY <1>1, <1>2, <1>3, <1>4
  <2>. QED
    BY <1>2, <1>4, <2>1
<1>5. CASE pc' = "driving"
  <2>1. dns' = FALSE /\ deadline' = FALSE
    BY <1>1, <1>3, <1>5
  <2>. QED
    BY <1>2, <1>5, <2>1
<1>. QED
  BY <1>1, <1>4, <1>5

LEMMA DriveKeepsInv ==
  ASSUME Inv, DriveTry \/ DriveBackoff \/ DrivePortal \/ DriveDone
  PROVE  Inv'
<1>1. CASE DriveTry
  <2>1. pc = "driving" /\ pc' = "driving" /\ UNCHANGED <<dns, deadline>>
    BY <1>1 DEF DriveTry
  <2>2. Machine(sm')
    BY <1>1, SuccessOutcome, FailureOutcome DEF DriveTry
  <2>. QED
    BY <2>1, <2>2
<1>2. CASE DriveBackoff
  <2>1. pc = "driving" /\ pc' = "driving" /\ UNCHANGED <<dns, deadline>> /\ Machine(sm')
    BY <1>2, BackoffOutcome DEF DriveBackoff
  <2>. QED
    BY <2>1
<1>3. CASE DrivePortal
  <2>1. /\ pc = "driving" /\ pc' = "loop" /\ sm.state = "Portal" /\ dns' \in BOOLEAN
        /\ UNCHANGED <<sm, deadline>>
    BY <1>3 DEF DrivePortal, ServerStarted
  <2>. QED
    BY <2>1
<1>4. CASE DriveDone
  <2>1. /\ pc = "driving" /\ pc' = "loop" /\ sm.state = "Connected"
        /\ UNCHANGED <<sm, dns, deadline>>
    BY <1>4 DEF DriveDone, ServerStarted
  <2>. QED
    BY <2>1
<1>. QED
  BY <1>1, <1>2, <1>3, <1>4

LEMMA TakeProvisionKeepsInv == ASSUME Inv, TakeProvision PROVE Inv'
<1>1. /\ pc = "loop" /\ pc' = "provision" /\ UNCHANGED <<dns, deadline>>
      /\ Machine(sm') /\ sm'.state # "Connected"
  BY UpdatedOutcome DEF TakeProvision
<1>. QED
  BY <1>1

\* A form that leads nowhere leaves the station beside the access point.
LEMMA ProvisionKeepsInv == ASSUME Inv, Provision PROVE Inv'
<1>1. pc = "provision" /\ pc' = "loop" /\ radio' = "mixed" /\ UNCHANGED deadline
  BY DEF Provision, StationBesidePortal
<1>2. CASE Provisioned
  <2>1. Machine(sm') /\ dns' = FALSE
    BY <1>2, SuccessOutcome DEF Provisioned
  <2>. QED
    BY <1>1, <2>1
<1>3. CASE NotProvisioned
  <2>1. /\ Machine(sm') /\ dns' = dns
        /\ sm'.state = "Connected" => sm.state = "Connected"
    BY <1>3, FailureOutcome DEF NotProvisioned
  <2>. QED
    BY <1>1, <2>1
<1>. QED
  BY <1>2, <1>3 DEF Provision

LEMMA BackoffOverKeepsInv == ASSUME Inv, BackoffOver PROVE Inv'
<1>1. /\ pc = "loop" /\ pc' = "reconnect" /\ deadline /\ deadline' = FALSE
      /\ UNCHANGED <<dns, radio>>
  BY DEF BackoffOver, radioVars
<1>2. /\ Machine(sm')
      /\ \/ sm'.state = "Connecting" /\ attempt'.type = "TryConnect"
         \/ sm' = sm /\ sm.state # "Backoff" /\ attempt'.type = "Idle"
  BY BackoffOutcome DEF BackoffOver
<1>. QED
  BY <1>1, <1>2

LEMMA ScanKeepsInv == ASSUME Inv, Scan PROVE Inv'
<1>1. /\ pc = "loop" /\ pc' = "rejoin" /\ UNCHANGED <<dns, deadline>>
      /\ Machine(sm') /\ sm'.state = "Connecting"
  BY FoundOutcome DEF Scan
<1>. QED
  BY <1>1

LEMMA RejoinKeepsInv == ASSUME Inv, Rejoin PROVE Inv'
<1>1. pc = "rejoin" /\ pc' = "loop" /\ UNCHANGED deadline
  BY DEF Rejoin
<1>2. CASE Works(creds[attempt.index])
  <2>1. dns' = FALSE /\ Machine(sm') /\ sm'.state = "Connected"
    BY <1>2, JoinedOutcome DEF Rejoin
  <2>. QED
    BY <1>1, <2>1
<1>3. CASE ~Works(creds[attempt.index])
  <2>1. /\ dns' = dns /\ radio' = "mixed" /\ Machine(sm')
        /\ sm'.state = "Connected" => sm.state = "Connected"
    BY <1>3, FailureOutcome DEF Rejoin, StationBesidePortal
  <2>. QED
    BY <1>1, <2>1
<1>. QED
  BY <1>2, <1>3

LEMMA TickLostKeepsInv == ASSUME Inv, TickLost PROVE Inv'
<1>1. /\ pc = "loop" /\ pc' = "relink" /\ sm.state = "Connected"
      /\ UNCHANGED <<dns, deadline>>
  BY DEF TickLost, LinkLost
<1>2. /\ Machine(sm') /\ sm'.state = "Connecting" /\ sm'.rotation = 0
      /\ attempt'.type = "TryConnect"
  BY <1>1, LostOutcome DEF TickLost
<1>. QED
  BY <1>1, <1>2

LEMMA TickEndKeepsInv == ASSUME Inv, TickEnd PROVE Inv'
<1>1. pc \in {"loop", "tick"} /\ pc' = "loop" /\ UNCHANGED <<sm, dns, deadline, radio>>
  BY DEF TickEnd, radioVars
<1>. QED
  BY <1>1

LEMMA ReconnectTryKeepsInv == ASSUME Inv, ReconnectTry PROVE Inv'
<1>1. /\ pc \in {"reconnect", "relink"} /\ pc' = pc /\ UNCHANGED <<dns, deadline>>
      /\ sm.state = "Connecting" /\ ~dns
      /\ attempt.type = "TryConnect"
  BY DEF ReconnectTry
<1>2. CASE Works(creds[attempt.index])
  <2>1. Machine(sm') /\ sm'.state = "Connected" /\ attempt'.type = "Idle"
    BY <1>1, <1>2, SuccessOutcome DEF ReconnectTry
  <2>. QED
    BY <1>1, <2>1
<1>3. CASE ~Works(creds[attempt.index])
  <2>1. /\ Machine(sm')
        /\ \/ sm'.state = "Connecting" /\ attempt'.type = "TryConnect"
              /\ sm'.rotation = sm.rotation
           \/ sm'.state = "Portal" /\ attempt'.type = "StartPortal"
              /\ (sm.rotation = 0 => MaxRotations = 1)
           \/ sm'.state = "Backoff" /\ attempt'.type = "WaitBackoff" /\ MaxRotations # 1
    BY <1>1, <1>3, FailureOutcome DEF ReconnectTry
  <2>. QED
    BY <1>1, <2>1
<1>. QED
  BY <1>2, <1>3

LEMMA ReconnectPortalKeepsInv == ASSUME Inv, ReconnectPortal PROVE Inv'
<1>1. /\ pc \in {"reconnect", "relink"} /\ pc' \in {"loop", "tick"}
      /\ attempt.type = "StartPortal" /\ UNCHANGED <<sm, deadline>>
      /\ dns' \in BOOLEAN
  BY DEF ReconnectPortal, Returns, DnsStarted, StartPortal
<1>2. sm.state = "Portal" /\ ~deadline
  BY <1>1
<1>. QED
  BY <1>1, <1>2

LEMMA ReconnectEndKeepsInv == ASSUME Inv, ReconnectEnd PROVE Inv'
<1>1. /\ pc \in {"reconnect", "relink"}
      /\ pc' = IF pc = "relink" THEN "tick" ELSE "loop"
      /\ UNCHANGED <<sm, dns, radio>> /\ ~dns
  BY DEF ReconnectEnd, Returns, radioVars
<1>2. CASE attempt = WaitBackoff
  <2>1. attempt.type = "WaitBackoff" /\ deadline' = TRUE
    BY <1>2 DEF ReconnectEnd, TimerSet, WaitBackoff
  <2>2. sm.state # "Connecting"
    BY <1>1, <2>1
  <2>. QED
    BY <1>1, <2>1, <2>2
<1>3. CASE attempt = Idle
  <2>1. attempt.type = "Idle" /\ deadline' = deadline
    BY <1>3 DEF ReconnectEnd, TimerSet, WaitBackoff, Idle
  <2>. QED
    BY <1>1, <2>1
<1>. QED
  BY <1>2, <1>3 DEF ReconnectEnd

HIDE DEF Inv, Types, DnsOK, DeadlineOK, AttemptOK, RadioOK

LEMMA InvStep == Inv /\ [Next]_vars => Inv'
<1>. SUFFICES ASSUME Inv, [Next]_vars PROVE Inv'
  OBVIOUS
<1>1. CASE Drive
  BY <1>1, BootKeepsInv, DriveKeepsInv DEF Drive
<1>2. CASE Reconnect
  BY <1>2, ReconnectTryKeepsInv, ReconnectPortalKeepsInv, ReconnectEndKeepsInv DEF Reconnect
<1>3. CASE Loop
  <2>1. CASE FactoryReset
    BY <2>1, RestartKeepsInv DEF FactoryReset
  <2>. QED
    BY <1>3, <2>1, TakeProvisionKeepsInv, ProvisionKeepsInv, BackoffOverKeepsInv, ScanKeepsInv,
       RejoinKeepsInv, TickLostKeepsInv, TickEndKeepsInv DEF Loop
<1>4. CASE PowerFailure
  BY <1>4, RestartKeepsInv DEF PowerFailure
<1>5. CASE Http \/ AirChanges \/ LinkDrops \/ UNCHANGED vars
  <2>1. UNCHANGED <<mainVars, radio>>
    BY <1>5 DEF Http, Submit, Queue, RequestReset, AirChanges, LinkDrops, vars, radioVars
  <2>. QED
    BY <2>1 DEF mainVars, Inv, Types, DnsOK, DeadlineOK, AttemptOK, RadioOK
<1>. QED
  BY <1>1, <1>2, <1>3, <1>4, <1>5 DEF Next, Environment

\* Machine, responder, deadline and radio agree in every state, for every number
\* of networks and rotations (wifi_sm.rs and its drivers in main.rs).
THEOREM Invariance == Spec => []Inv
<1>. QED
  BY InvInit, InvStep, PTL DEF Spec

-----------------------------------------------------------------------------
\* The responder that answers every name with the device's own address is off
\* whenever the device has joined a network, on each of the ways there: boot,
\* backoff, lost connection, form and scan (main.rs, wifi_sm.rs).
THEOREM DnsOffWhenConnected == Spec => []CaptiveDnsOff
<1>1. Inv => CaptiveDnsOff
  BY DEF CaptiveDnsOff, Inv, DnsOK
<1>. QED
  BY <1>1, Invariance, PTL

\* When a driver drops the action of a failed attempt, so that neither an attempt
\* nor a timer is left, the radio still has the access point up (main.rs,
\* handle_provision and handle_portal_reconnect).
THEOREM ReachableWhenGivenUp == Spec => []GaveUpIsReachable
<1>1. Inv => GaveUpIsReachable
  BY DEF GaveUpIsReachable, Inv, RadioOK
<1>. QED
  BY <1>1, Invariance, PTL
-----------------------------------------------------------------------------
(* The credentials in memory, whose number the machine goes by.            *)

\* A non-empty set of naturals has a least element.
LEMMA LeastNatural ==
  ASSUME NEW S \in SUBSET Nat, S # {}
  PROVE  \E m \in S : \A x \in S : m <= x
<1>. DEFINE below(x) == 1 .. x
            T == {below(x) : x \in S}
<1>1. T \subseteq FiniteSubsetsOf(Nat)
  BY FS_Interval DEF FiniteSubsetsOf
<1>2. PICK t \in T : \A u \in T : ~(<<u, t>> \in StrictSubsetOrdering(Nat))
  <2>1. IsWellFoundedOn(StrictSubsetOrdering(Nat), FiniteSubsetsOf(Nat))
    BY FS_StrictSubsetOrderingWellFounded
  <2>2. T # {}
    OBVIOUS
  <2>. HIDE DEF T
  <2>. QED
    BY <1>1, <2>1, <2>2, WFMin, Zenon
<1>3. PICK m \in S : t = below(m)
  OBVIOUS
<1>4. \A x \in S : m <= x
  <2>. SUFFICES ASSUME NEW x \in S, x < m
                PROVE  FALSE
    OBVIOUS
  <2>1. below(x) \subseteq below(m) /\ m \in below(m) /\ m \notin below(x)
    OBVIOUS
  <2>2. <<below(x), below(m)>> \in StrictSubsetOrdering(Nat)
    BY <2>1 DEF StrictSubsetOrdering
  <2>. QED
    BY <1>2, <1>3, <2>2
<1>. QED
  BY <1>4

\* Adding a network keeps a list of credentials one.
LEMMA AddedSeq ==
  ASSUME NEW cs \in Seq(Credentials), NEW c \in Credentials, NEW renew \in BOOLEAN
  PROVE  Added(cs, c, renew) \in Seq(Credentials)
<1>1. CASE ~Knows(cs, c.ssid)
  BY <1>1 DEF Added
<1>2. CASE Knows(cs, c.ssid)
  <2>. DEFINE renewed == [i \in 1 .. Len(cs) |->
                IF renew /\ cs[i].ssid = c.ssid /\ c.pass # "empty" THEN c ELSE cs[i]]
  <2>1. Len(cs) \in Nat /\ \A i \in 1 .. Len(cs) : cs[i] \in Credentials
    OBVIOUS
  <2>2. renewed \in [1 .. Len(cs) -> Credentials]
    BY <2>1
  <2>3. Added(cs, c, renew) = renewed
    BY <1>2 DEF Added, Indices
  <2>. HIDE DEF renewed
  <2>. QED
    BY <2>1, <2>2, <2>3
<1>. QED
  BY <1>1, <1>2

\* So does adding several: the recursion has a value at every place, and that
\* value is a list of credentials.
LEMMA AddedAllSeq ==
  ASSUME NEW cs \in Seq(Credentials), NEW new \in Seq(Credentials), NEW renew \in BOOLEAN
  PROVE  AddedAll(cs, new, renew) \in Seq(Credentials)
<1>. DEFINE L == Len(new)
            body(g, n) == IF n = 0 THEN cs ELSE Added(g[n - 1], new[n], renew)
            part(g, n) == /\ g \in [0 .. n -> Seq(Credentials)]
                          /\ \A k \in 0 .. n : g[k] = body(g, k)
<1>1. L \in Nat /\ \A n \in 1 .. L : new[n] \in Credentials
  OBVIOUS
<1>2. \A n \in 0 .. L : \E g : part(g, n)
  <2>. DEFINE S == {n \in 0 .. L : ~\E g : part(g, n)}
  <2>. SUFFICES ASSUME S # {} PROVE FALSE
    OBVIOUS
  <2>0. S \in SUBSET Nat
    BY <1>1
  <2>1. PICK m \in S : \A x \in S : m <= x
    <3>. HIDE DEF S
    <3>. QED
      BY <2>0, LeastNatural
  <2>2. m # 0
    <3>1. part([k \in 0 .. 0 |-> cs], 0)
      OBVIOUS
    <3>. QED
      BY <3>1
  <2>3. m - 1 \in 0 .. L /\ m \in 1 .. L /\ m - 1 \notin S
    <3>1. m \in 0 .. L
      OBVIOUS
    <3>2. m - 1 \in 0 .. L /\ m \in 1 .. L
      BY <1>1, <2>2, <3>1
    <3>. HIDE DEF S
    <3>. QED
      BY <1>1, <2>1, <3>2
  <2>4. PICK g : part(g, m - 1)
    BY <2>3
  <2>5. PICK next : next = Added(g[m - 1], new[m], renew)
    OBVIOUS
  <2>6. next \in Seq(Credentials)
    <3>1. g[m - 1] \in Seq(Credentials) /\ new[m] \in Credentials
      BY <1>1, <2>3, <2>4
    <3>. QED
      BY <2>5, <3>1, AddedSeq
  <2>. DEFINE h == [k \in 0 .. m |-> IF k = m THEN next ELSE g[k]]
  <2>7. h \in [0 .. m -> Seq(Credentials)]
    BY <2>3, <2>4, <2>6
  <2>8. \A k \in 0 .. m : h[k] = body(h, k)
    <3>. SUFFICES ASSUME NEW k \in 0 .. m PROVE h[k] = body(h, k)
      OBVIOUS
    <3>1. CASE k = m
      BY <2>2, <2>3, <2>5, <3>1
    <3>2. CASE k # m /\ k # 0
      <4>1. k \in 0 .. m - 1 /\ k - 1 \in 0 .. m - 1 /\ k - 1 # m
        BY <2>3, <3>2
      <4>2. h[k] = g[k] /\ h[k - 1] = g[k - 1] /\ g[k] = body(g, k)
        BY <2>3, <2>4, <3>2, <4>1
      <4>. QED
        BY <4>2
    <3>3. CASE k = 0 /\ k # m
      <4>1. k \in 0 .. m - 1
        BY <2>3, <3>3
      <4>2. h[k] = g[k] /\ g[k] = cs
        BY <2>3, <2>4, <3>3, <4>1
      <4>. QED
        BY <3>3, <4>2
    <3>. QED
      BY <3>1, <3>2, <3>3
  <2>9. part(h, m)
    BY <2>7, <2>8
  <2>. QED
    BY <2>1, <2>9
<1>3. PICK g : part(g, L)
  <2>1. L \in 0 .. L
    BY <1>1
  <2>. HIDE DEF part
  <2>. QED
    BY <1>2, <2>1
<1>4. g = [n \in 0 .. L |-> body(g, n)]
  BY <1>3
<1>. DEFINE f == CHOOSE f : f = [n \in 0 .. L |-> body(f, n)]
<1>5. f = [n \in 0 .. L |-> body(f, n)]
  BY <1>4
<1>6. AddedAll(cs, new, renew) = f[L]
  BY DEF AddedAll
<1>. HIDE DEF f
<1>7. \A n \in 0 .. L : f[n] \in Seq(Credentials)
  <2>. DEFINE S == {n \in 0 .. L : f[n] \notin Seq(Credentials)}
  <2>. SUFFICES ASSUME S # {} PROVE FALSE
    OBVIOUS
  <2>0. S \in SUBSET Nat
    BY <1>1
  <2>1. PICK m \in S : \A x \in S : m <= x
    <3>. HIDE DEF S
    <3>. QED
      BY <2>0, LeastNatural
  <2>2. f[m] = body(f, m)
    BY <1>5, <2>1
  <2>3. m # 0
    BY <2>1, <2>2
  <2>4. m - 1 \in 0 .. L /\ m \in 1 .. L /\ m - 1 \notin S
    BY <1>1, <2>1, <2>3
  <2>5. f[m - 1] \in Seq(Credentials) /\ new[m] \in Credentials
    BY <1>1, <2>4
  <2>6. f[m] = Added(f[m - 1], new[m], renew)
    BY <2>2, <2>3
  <2>. QED
    BY <2>1, <2>5, <2>6, AddedSeq
<1>. QED
  BY <1>1, <1>6, <1>7
-----------------------------------------------------------------------------
(* Which networks have been tried when the portal opens.                   *)

\* A machine that counts its credentials and goes through them: in the portal it
\* has tried all, and in every rotation but the first those before the present one.
GoesThrough(m, t) ==
  /\ m \in Fields(Nat)
  /\ m.state = "Unconfigured" <=> m.num = 0
  /\ m.state = "Connecting" => m.index \in 1 .. m.num
  /\ m.state # "Unconfigured" => t \subseteq 1 .. m.num
  /\ m.state = "Portal" => t = 1 .. m.num
  /\ m.state = "Connecting" /\ m.rotation >= 1 => 1 .. m.index - 1 \subseteq t

\* The machine goes through the credentials in memory.
CountsCreds ==
  /\ creds \in Seq(Credentials) /\ saved \in Seq(Credentials)
  /\ pending.creds \in Seq(Credentials) /\ arriving.creds \in Seq(Credentials)
  /\ sm.num = Len(creds)

\* The attempt a driver is about to make is the machine's.
AtHand ==
  /\ pc \in {"reconnect", "relink", "rejoin"} /\ attempt.type = "TryConnect"
       => sm.state = "Connecting" /\ attempt.index = sm.index
  /\ pc = "rejoin" => attempt.type = "TryConnect"
  /\ pc = "provision" => sm.state \in {"Connecting", "Unconfigured"}
  /\ pc = "boot" => tried = {}

Rounds == GoesThrough(sm, tried) /\ CountsCreds /\ AtHand

LEMMA NewGoes ==
  ASSUME NEW n \in Nat
  PROVE  GoesThrough(New(n), {}) /\ New(n).num = n
BY MaxRotationsAssumption DEF New, GoesThrough, Fields, States

\* A machine that moves on to try its i-th credential, with the earlier ones tried.
LEMMA TryingGoes ==
  ASSUME NEW m \in Fields(Nat), NEW i \in 1 .. m.num, NEW t \in SUBSET (1 .. m.num),
         m.rotation >= 1 => 1 .. i - 1 \subseteq t
  PROVE  LET o == Trying(m, i)
         IN /\ GoesThrough(o.sm, t) /\ o.sm.num = m.num
            /\ o.sm.state = "Connecting" /\ o.action.index = o.sm.index
<1>. DEFINE e == [m EXCEPT !.state = "Connecting", !.index = i]
<1>1. m.num \in Nat /\ m.rotation \in 0 .. MaxRotations /\ i \in Nat
  BY DEF Fields
<1>2. /\ e \in Fields(Nat) /\ e.state = "Connecting" /\ e.index = i
      /\ e.num = m.num /\ e.rotation = m.rotation
  BY <1>1 DEF Fields, States
<1>3. Trying(m, i).sm = e /\ Trying(m, i).action.index = i
  BY DEF Trying, Outcome, TryConnect
<1>. HIDE DEF e
<1>4. m.num # 0
  BY <1>1
<1>. QED
  BY <1>1, <1>2, <1>3, <1>4 DEF GoesThrough

\* A machine that stops trying.
LEMMA IntoGoes ==
  ASSUME NEW m \in Fields(Nat), m.num # 0, NEW t \in SUBSET (1 .. m.num),
         NEW state \in {"Connected", "Backoff", "Portal"},
         state = "Portal" => t = 1 .. m.num
  PROVE  GoesThrough(Into(m, state), t) /\ Into(m, state).num = m.num
         /\ Into(m, state).state = state
<1>1. /\ Into(m, state) \in Fields(Nat) /\ Into(m, state).state = state
      /\ Into(m, state).num = m.num
  BY DEF Into, Fields, States
<1>. QED
  BY <1>1 DEF GoesThrough

LEMMA SuccessGoes ==
  ASSUME NEW m, NEW t, GoesThrough(m, t), m.state = "Connecting"
  PROVE  /\ GoesThrough(ConnectSuccess(m).sm, {}) /\ ConnectSuccess(m).sm.num = m.num
         /\ ConnectSuccess(m).sm.state = "Connected" /\ ConnectSuccess(m).action = Idle
<1>1. ConnectSuccess(m) = Outcome(Into(m, "Connected"), Idle)
  BY DEF ConnectSuccess
<1>2. m \in Fields(Nat) /\ m.num # 0
  BY DEF GoesThrough
<1>3. \A t1 \in SUBSET (1 .. m.num) :
        GoesThrough(Into(m, "Connected"), t1) /\ Into(m, "Connected").num = m.num
        /\ Into(m, "Connected").state = "Connected"
  BY <1>2, IntoGoes
<1>. QED
  BY <1>1, <1>3 DEF Outcome

\* After a failure the next credential is at hand, or the rotation is over; it is
\* not the first one when the portal opens, so every credential has been tried.
LEMMA FailureGoes ==
  ASSUME MaxRotations # 1, NEW m, NEW t, GoesThrough(m, t), m.state = "Connecting"
  PROVE  LET o == ConnectFailed(m)
         IN /\ GoesThrough(o.sm, t \cup {m.index}) /\ o.sm.num = m.num
            /\ o.action.type = "TryConnect" =>
                 o.sm.state = "Connecting" /\ o.action.index = o.sm.index
<1>1. /\ m \in Fields(Nat) /\ m.num \in Nat \ {0} /\ m.index \in 1 .. m.num
      /\ m.rotation \in 0 .. MaxRotations /\ t \cup {m.index} \subseteq 1 .. m.num
      /\ m.rotation >= 1 => 1 .. m.index - 1 \subseteq t
  BY DEF GoesThrough, Fields
<1>2. m.rotation >= 1 => 1 .. m.index \subseteq t \cup {m.index}
  BY <1>1
<1>3. PICK t1 \in SUBSET (1 .. m.num) : t1 = t \cup {m.index}
  BY <1>1
<1>4. CASE m.index < m.num
  <2>1. ConnectFailed(m) = Trying(m, m.index + 1)
    BY <1>4 DEF ConnectFailed
  <2>2. PICK i \in 1 .. m.num : i = m.index + 1
    BY <1>1, <1>4
  <2>3. m.rotation >= 1 => 1 .. i - 1 \subseteq t1
    BY <1>1, <1>2, <1>3, <2>2
  <2>4. /\ GoesThrough(Trying(m, i).sm, t1) /\ Trying(m, i).sm.num = m.num
        /\ Trying(m, i).sm.state = "Connecting"
        /\ Trying(m, i).action.index = Trying(m, i).sm.index
    BY <1>1, <2>3, TryingGoes
  <2>. QED
    BY <1>3, <2>1, <2>2, <2>4
<1>5. CASE ~(m.index < m.num)
  <2>1. ConnectFailed(m) = StartBackoffOrPortal(m) /\ m.index = m.num
    BY <1>1, <1>5 DEF ConnectFailed
  <2>. DEFINE r == IF m.rotation < MaxRotations THEN m.rotation + 1 ELSE MaxRotations
              next == [m EXCEPT !.rotation = r]
  <2>2. r \in 0 .. MaxRotations /\ (r >= MaxRotations => m.rotation >= 1)
    BY <1>1, MaxRotationsAssumption
  <2>. HIDE DEF r
  <2>3. next \in Fields(Nat) /\ next.num = m.num /\ next.rotation = r
    BY <1>1, <2>2 DEF Fields
  <2>4. StartBackoffOrPortal(m) =
          IF next.rotation >= MaxRotations THEN Outcome(Into(next, "Portal"), StartPortal)
          ELSE Outcome(Into(next, "Backoff"), WaitBackoff)
    BY DEF StartBackoffOrPortal, r
  <2>. HIDE DEF next
  <2>5. CASE r >= MaxRotations
    <3>1. t1 = 1 .. m.num
      BY <1>1, <1>2, <1>3, <2>1, <2>2, <2>5
    <3>2. GoesThrough(Into(next, "Portal"), t1) /\ Into(next, "Portal").num = m.num
      BY <1>1, <2>3, <3>1, IntoGoes
    <3>. QED
      BY <1>3, <2>1, <2>3, <2>4, <2>5, <3>2 DEF Outcome, StartPortal
  <2>6. CASE ~(r >= MaxRotations)
    <3>1. GoesThrough(Into(next, "Backoff"), t1) /\ Into(next, "Backoff").num = m.num
      BY <1>1, <2>3, IntoGoes
    <3>. QED
      BY <1>3, <2>1, <2>3, <2>4, <2>6, <3>1 DEF Outcome, WaitBackoff
  <2>. QED
    BY <2>5, <2>6
<1>. QED
  BY <1>4, <1>5

LEMMA LostGoes ==
  ASSUME NEW m, NEW t, GoesThrough(m, t), m.state = "Connected"
  PROVE  LET o == ConnectionLost(m)
         IN /\ GoesThrough(o.sm, t) /\ o.sm.num = m.num
            /\ o.sm.state = "Connecting" /\ o.action.index = o.sm.index
<1>. DEFINE fresh == [m EXCEPT !.rotation = 0]
<1>1. m \in Fields(Nat) /\ m.num \in Nat \ {0} /\ t \in SUBSET (1 .. m.num)
  BY DEF GoesThrough, Fields
<1>2. fresh \in Fields(Nat) /\ fresh.rotation = 0 /\ fresh.num = m.num
  BY <1>1, MaxRotationsAssumption DEF Fields
<1>3. ConnectionLost(m) = Trying(fresh, 1)
  BY DEF ConnectionLost
<1>. HIDE DEF fresh
<1>4. 1 \in 1 .. fresh.num /\ ~(fresh.rotation >= 1)
  BY <1>1, <1>2
<1>. QED
  BY <1>1, <1>2, <1>3, <1>4, TryingGoes

LEMMA BackoffGoes ==
  ASSUME NEW m, NEW t, GoesThrough(m, t)
  PROVE  LET o == BackoffComplete(m)
         IN /\ GoesThrough(o.sm, t) /\ o.sm.num = m.num
            /\ o.sm.state = "Portal" => m.state = "Portal"
            /\ o.action.type = "TryConnect" =>
                 o.sm.state = "Connecting" /\ o.action.index = o.sm.index
<1>1. CASE m.state = "Backoff"
  <2>1. /\ m \in Fields(Nat) /\ t \in SUBSET (1 .. m.num)
        /\ 1 \in 1 .. m.num /\ 1 .. 1 - 1 \subseteq t
    BY <1>1 DEF GoesThrough, Fields
  <2>. QED
    BY <1>1, <2>1, TryingGoes DEF BackoffComplete
<1>2. CASE m.state # "Backoff"
  BY <1>2 DEF BackoffComplete, Outcome, Idle
<1>. QED
  BY <1>1, <1>2

LEMMA FoundGoes ==
  ASSUME NEW m, NEW t, GoesThrough(m, t), m.state \in {"Portal", "Unconfigured"},
         NEW i \in 1 .. m.num
  PROVE  LET o == SavedSsidFound(m, i)
         IN /\ GoesThrough(o.sm, t) /\ o.sm.num = m.num /\ o.sm.state = "Connecting"
            /\ o.action.index = o.sm.index /\ o.action.type = "TryConnect"
<1>1. m \in Fields(Nat) /\ m.num \in Nat /\ m.num # 0
  BY DEF GoesThrough, Fields
<1>2. m.state = "Portal" /\ t = 1 .. m.num
  BY <1>1 DEF GoesThrough
<1>3. t \in SUBSET (1 .. m.num) /\ 1 .. i - 1 \subseteq t
  BY <1>1, <1>2
<1>4. SavedSsidFound(m, i) = Trying(m, i)
  BY <1>2 DEF SavedSsidFound
<1>5. Trying(m, i).action.type = "TryConnect"
  BY DEF Trying, Outcome, TryConnect
<1>. QED
  BY <1>1, <1>3, <1>4, <1>5, TryingGoes

\* A form starts a first rotation at the credential it names.
LEMMA UpdatedGoes ==
  ASSUME NEW m \in Fields(Nat), NEW num \in Nat, NEW start \in Nat \ {0}
  PROVE  LET o == CredentialsUpdated(m, num, start)
         IN /\ GoesThrough(o.sm, {}) /\ o.sm.num = num
            /\ o.sm.state \in {"Connecting", "Unconfigured"}
<1>. DEFINE fresh == [m EXCEPT !.num = num, !.rotation = 0]
            first == IF start < num THEN start ELSE num
<1>1. fresh \in Fields(Nat) /\ fresh.num = num /\ fresh.rotation = 0
  <2>1. 0 \in 0 .. MaxRotations
    BY MaxRotationsAssumption
  <2>. QED
    BY <2>1 DEF Fields
<1>2. CredentialsUpdated(m, num, start) =
        IF num = 0 THEN Outcome(Into(fresh, "Unconfigured"), StartPortal) ELSE Trying(fresh, first)
  BY DEF CredentialsUpdated
<1>3. num # 0 => first \in 1 .. num
  OBVIOUS
<1>. HIDE DEF fresh, first
<1>4. CASE num = 0
  <2>1. /\ Into(fresh, "Unconfigured") \in Fields(Nat)
        /\ Into(fresh, "Unconfigured").state = "Unconfigured"
        /\ Into(fresh, "Unconfigured").num = num
    BY <1>1 DEF Into, Fields, States
  <2>2. GoesThrough(Into(fresh, "Unconfigured"), {})
    BY <1>4, <2>1 DEF GoesThrough
  <2>. QED
    BY <1>2, <1>4, <2>1, <2>2 DEF Outcome
<1>5. CASE num # 0
  <2>1. first \in 1 .. fresh.num /\ {} \in SUBSET (1 .. fresh.num) /\ ~(fresh.rotation >= 1)
    BY <1>1, <1>3, <1>5
  <2>. QED
    BY <1>1, <1>2, <1>5, <2>1, TryingGoes
<1>. QED
  BY <1>4, <1>5

LEMMA JoinedGoes ==
  ASSUME NEW m, NEW t, GoesThrough(m, t), m.state = "Connecting"
  PROVE  /\ GoesThrough(PortalConnectSucceeded(m).sm, {})
         /\ PortalConnectSucceeded(m).sm.num = m.num
         /\ PortalConnectSucceeded(m).sm.state = "Connected"
<1>1. PortalConnectSucceeded(m) = Outcome(Into(m, "Connected"), StopPortal)
  BY DEF PortalConnectSucceeded
<1>2. m \in Fields(Nat) /\ m.num # 0
  BY DEF GoesThrough
<1>3. \A t1 \in SUBSET (1 .. m.num) :
        GoesThrough(Into(m, "Connected"), t1) /\ Into(m, "Connected").num = m.num
        /\ Into(m, "Connected").state = "Connected"
  BY <1>2, IntoGoes
<1>. QED
  BY <1>1, <1>3 DEF Outcome

LEMMA VisibleIndex ==
  ASSUME NEW cs \in Seq(Credentials), FirstVisible(cs) # 0
  PROVE  FirstVisible(cs) \in 1 .. Len(cs)
<1>. DEFINE seen == {i \in Indices(cs) : cs[i].ssid \in Scanned}
<1>1. Len(cs) \in Nat
  OBVIOUS
<1>2. seen \in SUBSET (1 .. Len(cs)) /\ seen \in SUBSET Nat
  BY <1>1 DEF Indices
<1>3. FirstVisible(cs) = IF seen = {} THEN 0 ELSE CHOOSE i \in seen : \A j \in seen : i <= j
  BY DEF FirstVisible
<1>. HIDE DEF seen
<1>4. seen # {}
  BY <1>3
<1>5. \E i \in seen : \A j \in seen : i <= j
  BY <1>2, <1>4, LeastNatural
<1>6. FirstVisible(cs) \in seen
  BY <1>3, <1>4, <1>5
<1>. QED
  BY <1>2, <1>6

LEMMA RoundsInit == Init => Rounds
<1>. SUFFICES ASSUME Init PROVE Rounds
  OBVIOUS
<1>1. sm = New(0) /\ tried = {} /\ pc = "boot"
  BY DEF Init
<1>2. GoesThrough(sm, tried) /\ sm.num = 0
  BY <1>1, NewGoes
<1>3. creds = <<>> /\ saved = <<>> /\ pending.creds = <<>> /\ arriving.creds = <<>>
  BY DEF Init, NoForm
<1>4. CountsCreds
  BY <1>2, <1>3 DEF CountsCreds
<1>. QED
  BY <1>1, <1>2, <1>4 DEF Rounds, AtHand

\* The credentials stay as they are, with all that counts them.
Stays == UNCHANGED <<creds, saved, pending, arriving>> /\ sm'.num = sm.num

LEMMA StaysCounted == ASSUME Rounds, Stays PROVE CountsCreds'
BY DEF Rounds, CountsCreds, Stays

\* An attempt with the credential the machine is at.
LEMMA AttemptGoes ==
  ASSUME MaxRotations # 1, Rounds, sm.state = "Connecting", Try(sm.index),
         NEW next, next = IF Works(creds[sm.index]) THEN ConnectSuccess(sm) ELSE ConnectFailed(sm),
         sm' = next.sm
  PROVE  /\ GoesThrough(sm', tried') /\ sm'.num = sm.num
         /\ next.action.type = "TryConnect" =>
              sm'.state = "Connecting" /\ next.action.index = sm'.index
<1>1. GoesThrough(sm, tried)
  BY DEF Rounds
<1>2. CASE Works(creds[sm.index])
  <2>1. tried' = {} /\ next = ConnectSuccess(sm)
    BY <1>2 DEF Try
  <2>. QED
    BY <1>1, <2>1, SuccessGoes DEF Idle
<1>3. CASE ~Works(creds[sm.index])
  <2>1. tried' = tried \cup {sm.index} /\ next = ConnectFailed(sm)
    BY <1>3 DEF Try
  <2>. QED
    BY <1>1, <2>1, FailureGoes
<1>. QED
  BY <1>2, <1>3

LEMMA RestartKeepsRounds == ASSUME Rounds, Restarted, saved' = saved PROVE Rounds'
<1>1. sm' = New(0) /\ tried' = {} /\ pc' = "boot"
  BY DEF Restarted
<1>2. GoesThrough(sm', tried') /\ sm'.num = 0
  BY <1>1, NewGoes
<1>3. creds' = <<>> /\ pending'.creds = <<>> /\ arriving'.creds = <<>>
  BY DEF Restarted, NoForm
<1>4. CountsCreds'
  BY <1>2, <1>3 DEF CountsCreds, Rounds
<1>. QED
  BY <1>1, <1>2, <1>4 DEF Rounds, AtHand

LEMMA BootKeepsRounds == ASSUME Rounds, Boot PROVE Rounds'
<1>1. PICK failing \in SUBSET {"config", "flag", "dns"} :
        LET fails(call) == call \in failing
            cs == IF force THEN <<>> ELSE Known(LoadedSsids(fails("config")))
        IN /\ creds' = cs /\ sm' = New(Len(cs))
           /\ IF InitialAction(New(Len(cs))) = StartPortal
              THEN ServerStarted("Unconfigured", TRUE, cs, keyHeld')
              ELSE pc' = "driving" /\ UNCHANGED sharedVars
  BY DEF Boot
<1>. DEFINE cs == IF force THEN <<>> ELSE Known(LoadedSsids("config" \in failing))
<1>2. cs \in Seq(Credentials)
  <2>1. LoadedSsids("config" \in failing) \in Seq(Credentials)
    BY DEF LoadedSsids, Rounds, CountsCreds
  <2>2. Known(LoadedSsids("config" \in failing)) \in Seq(Credentials)
    BY <2>1, AddedAllSeq, CredentialsAssumption DEF Known
  <2>. QED
    BY <2>2
<1>3. creds' = cs /\ sm' = New(Len(cs))
  BY <1>1
<1>4. pc' \in {"loop", "driving"}
  BY <1>1 DEF ServerStarted
<1>5. pending' \in {pending, NoForm} /\ arriving' \in {arriving, NoForm}
  BY <1>1 DEF ServerStarted, sharedVars
<1>. HIDE DEF cs
<1>6. tried = {} /\ tried' = tried /\ saved' = saved
  BY DEF Boot, Rounds, AtHand
<1>7. GoesThrough(sm', tried') /\ sm'.num = Len(creds')
  BY <1>2, <1>3, <1>6, NewGoes
<1>8. CountsCreds'
  <2>1. NoForm.creds \in Seq(Credentials)
    BY DEF NoForm
  <2>. QED
    BY <1>2, <1>3, <1>5, <1>6, <1>7, <2>1 DEF CountsCreds, Rounds
<1>. QED
  BY <1>4, <1>7, <1>8 DEF Rounds, AtHand

LEMMA DriveKeepsRounds ==
  ASSUME MaxRotations # 1, Rounds, DriveTry \/ DriveBackoff \/ DrivePortal \/ DriveDone
  PROVE  Rounds'
<1>1. CASE DriveTry
  <2>. DEFINE next == IF Works(creds[sm.index]) THEN ConnectSuccess(sm) ELSE ConnectFailed(sm)
  <2>1. /\ pc' = "driving" /\ sm.state = "Connecting" /\ Try(sm.index) /\ sm' = next.sm
        /\ UNCHANGED <<creds, saved, pending, arriving>>
    BY <1>1 DEF DriveTry, sharedVars, flashVars
  <2>. HIDE DEF next
  <2>2. GoesThrough(sm', tried') /\ Stays
    BY <2>1, AttemptGoes DEF Stays, next
  <2>. QED
    BY <2>1, <2>2, StaysCounted DEF Rounds, AtHand
<1>2. CASE DriveBackoff
  <2>1. /\ pc' = "driving" /\ sm' = BackoffComplete(sm).sm /\ tried' = tried
        /\ UNCHANGED <<creds, saved, pending, arriving>>
    BY <1>2 DEF DriveBackoff, sharedVars, flashVars
  <2>2. GoesThrough(sm', tried') /\ Stays
    BY <2>1, BackoffGoes DEF Stays, Rounds
  <2>. QED
    BY <2>1, <2>2, StaysCounted DEF Rounds, AtHand
<1>3. CASE DrivePortal \/ DriveDone
  <2>1. /\ pc' = "loop" /\ UNCHANGED <<sm, creds, saved, tried>>
        /\ pending' = NoForm /\ arriving' = NoForm
    BY <1>3 DEF DrivePortal, DriveDone, ServerStarted, flashVars
  <2>2. CountsCreds'
    <3>1. NoForm.creds \in Seq(Credentials)
      BY DEF NoForm
    <3>. QED
      BY <2>1, <3>1 DEF CountsCreds, Rounds
  <2>. QED
    BY <2>1, <2>2 DEF Rounds, AtHand
<1>. QED
  BY <1>1, <1>2, <1>3

LEMMA TakeProvisionKeepsRounds == ASSUME Rounds, TakeProvision PROVE Rounds'
<1>1. /\ pc' = "provision" /\ tried' = {} /\ pending' = NoForm /\ arriving' = arriving
      /\ creds' = AddedAll(creds, pending.creds, TRUE) /\ saved' \in {saved, creds'}
      /\ sm' = CredentialsUpdated(sm, Len(creds'), Len(creds) + 1).sm
  BY DEF TakeProvision, SaveConfig
<1>2. creds' \in Seq(Credentials) /\ NoForm.creds \in Seq(Credentials)
  <2>1. creds \in Seq(Credentials) /\ pending.creds \in Seq(Credentials)
    BY DEF Rounds, CountsCreds
  <2>2. NoForm.creds \in Seq(Credentials)
    BY DEF NoForm
  <2>3. AddedAll(creds, pending.creds, TRUE) \in Seq(Credentials)
    BY <2>1, AddedAllSeq
  <2>. QED
    BY <1>1, <2>2, <2>3
<1>3. Len(creds') \in Nat /\ Len(creds) + 1 \in Nat \ {0}
  BY <1>2 DEF Rounds, CountsCreds
<1>4. /\ GoesThrough(sm', {}) /\ sm'.num = Len(creds')
      /\ sm'.state \in {"Connecting", "Unconfigured"}
  <2>1. PICK num, start : num = Len(creds') /\ start = Len(creds) + 1
    OBVIOUS
  <2>2. sm \in Fields(Nat) /\ num \in Nat /\ start \in Nat \ {0}
    BY <1>3, <2>1 DEF Rounds, GoesThrough
  <2>3. sm' = CredentialsUpdated(sm, num, start).sm
    BY <1>1, <2>1
  <2>. QED
    BY <2>1, <2>2, <2>3, UpdatedGoes
<1>5. CountsCreds'
  BY <1>1, <1>2, <1>4 DEF CountsCreds, Rounds
<1>. QED
  BY <1>1, <1>4, <1>5 DEF Rounds, AtHand

\* With no credentials at all the machine ignores the outcome.
LEMMA ProvisionKeepsRounds == ASSUME MaxRotations # 1, Rounds, Provision PROVE Rounds'
<1>. DEFINE next == IF Works(creds[sm.index]) THEN ConnectSuccess(sm) ELSE ConnectFailed(sm)
<1>1. /\ pc' = "loop" /\ sm.state \in {"Connecting", "Unconfigured"}
      /\ Try(sm.index) /\ sm' = next.sm /\ UNCHANGED <<creds, saved, pending, arriving>>
  BY DEF Provision, Provisioned, NotProvisioned, flashVars, Rounds, AtHand
<1>. HIDE DEF next
<1>2. GoesThrough(sm', tried') /\ Stays
  <2>1. CASE sm.state = "Connecting"
    BY <1>1, <2>1, AttemptGoes DEF Stays, next
  <2>2. CASE sm.state = "Unconfigured"
    <3>1. sm' = sm
      BY <1>1, <2>2 DEF next, ConnectSuccess, ConnectFailed, Outcome
    <3>. QED
      BY <1>1, <2>2, <3>1 DEF GoesThrough, Rounds, Stays
  <2>. QED
    BY <1>1, <2>1, <2>2
<1>. QED
  BY <1>1, <1>2, StaysCounted DEF Rounds, AtHand

LEMMA BackoffOverKeepsRounds == ASSUME Rounds, BackoffOver PROVE Rounds'
<1>1. /\ pc' = "reconnect" /\ sm' = BackoffComplete(sm).sm
      /\ attempt' = BackoffComplete(sm).action
      /\ UNCHANGED <<creds, saved, pending, arriving, tried>>
  BY DEF BackoffOver, sharedVars, flashVars
<1>2. /\ GoesThrough(sm', tried') /\ Stays
      /\ attempt'.type = "TryConnect" =>
           sm'.state = "Connecting" /\ attempt'.index = sm'.index
  BY <1>1, BackoffGoes DEF Stays, Rounds
<1>. QED
  BY <1>1, <1>2, StaysCounted DEF Rounds, AtHand

LEMMA ScanKeepsRounds == ASSUME Rounds, Scan PROVE Rounds'
<1>1. PICK i : i = FirstVisible(creds)
  OBVIOUS
<1>2. /\ pc' = "rejoin" /\ sm.state \in {"Portal", "Unconfigured"} /\ i # 0
      /\ sm' = SavedSsidFound(sm, i).sm /\ attempt' = SavedSsidFound(sm, i).action
      /\ UNCHANGED <<creds, saved, pending, arriving, tried>>
  BY <1>1 DEF Scan, sharedVars, flashVars
<1>3. i \in 1 .. sm.num
  BY <1>1, <1>2, VisibleIndex DEF Rounds, CountsCreds
<1>4. /\ GoesThrough(sm', tried') /\ Stays /\ sm'.state = "Connecting"
      /\ attempt'.type = "TryConnect" /\ attempt'.index = sm'.index
  BY <1>2, <1>3, FoundGoes DEF Stays, Rounds
<1>. QED
  BY <1>2, <1>4, StaysCounted DEF Rounds, AtHand

LEMMA RejoinKeepsRounds == ASSUME MaxRotations # 1, Rounds, Rejoin PROVE Rounds'
<1>1. /\ pc = "rejoin" /\ pc' = "loop" /\ Try(attempt.index)
      /\ UNCHANGED <<creds, saved, pending, arriving>>
      /\ sm' = IF Works(creds[attempt.index]) THEN PortalConnectSucceeded(sm).sm
               ELSE ConnectFailed(sm).sm
  BY DEF Rejoin, flashVars
<1>2. sm.state = "Connecting" /\ attempt.index = sm.index
  BY <1>1 DEF Rounds, AtHand
<1>3. GoesThrough(sm', tried') /\ Stays
  <2>1. CASE Works(creds[sm.index])
    <3>1. tried' = {} /\ sm' = PortalConnectSucceeded(sm).sm
      BY <1>1, <1>2, <2>1 DEF Try
    <3>. QED
      BY <1>1, <1>2, <3>1, JoinedGoes DEF Rounds, Stays
  <2>2. CASE ~Works(creds[sm.index])
    <3>1. tried' = tried \cup {sm.index} /\ sm' = ConnectFailed(sm).sm
      BY <1>1, <1>2, <2>2 DEF Try
    <3>. QED
      BY <1>1, <1>2, <3>1, FailureGoes DEF Rounds, Stays
  <2>. QED
    BY <2>1, <2>2
<1>. QED
  BY <1>1, <1>3, StaysCounted DEF Rounds, AtHand

LEMMA TickLostKeepsRounds == ASSUME Rounds, TickLost PROVE Rounds'
<1>1. /\ pc' = "relink" /\ sm.state = "Connected"
      /\ sm' = ConnectionLost(sm).sm /\ attempt' = ConnectionLost(sm).action
      /\ UNCHANGED <<creds, saved, pending, arriving, tried>>
  BY DEF TickLost, LinkLost, sharedVars, flashVars
<1>2. /\ GoesThrough(sm', tried') /\ Stays
      /\ sm'.state = "Connecting" /\ attempt'.index = sm'.index
  BY <1>1, LostGoes DEF Stays, Rounds
<1>. QED
  BY <1>1, <1>2, StaysCounted DEF Rounds, AtHand

LEMMA TickEndKeepsRounds == ASSUME Rounds, TickEnd PROVE Rounds'
<1>1. pc' = "loop" /\ UNCHANGED <<sm, creds, saved, pending, arriving, tried>>
  BY DEF TickEnd, flashVars
<1>. QED
  BY <1>1 DEF Rounds, CountsCreds, AtHand

LEMMA ReconnectKeepsRounds == ASSUME MaxRotations # 1, Rounds, Reconnect PROVE Rounds'
<1>1. CASE ReconnectTry
  <2>1. PICK next : next = IF Works(creds[sm.index]) THEN ConnectSuccess(sm) ELSE ConnectFailed(sm)
    OBVIOUS
  <2>2. /\ pc \in {"reconnect", "relink"} /\ pc' = pc /\ attempt.type = "TryConnect"
        /\ sm.state = "Connecting" /\ attempt.index = sm.index
    BY <1>1 DEF ReconnectTry, Rounds, AtHand
  <2>3. /\ Try(sm.index) /\ sm' = next.sm /\ attempt' = next.action
        /\ UNCHANGED <<creds, saved, pending, arriving>>
    BY <1>1, <2>1, <2>2 DEF ReconnectTry, sharedVars, flashVars
  <2>4. /\ GoesThrough(sm', tried') /\ Stays
        /\ attempt'.type = "TryConnect" =>
             sm'.state = "Connecting" /\ attempt'.index = sm'.index
    BY <2>1, <2>2, <2>3, AttemptGoes DEF Stays
  <2>. QED
    BY <2>2, <2>4, StaysCounted DEF Rounds, AtHand
<1>2. CASE ReconnectPortal \/ ReconnectEnd
  <2>1. /\ pc' \in {"loop", "tick"}
        /\ UNCHANGED <<sm, creds, saved, pending, arriving, tried>>
    BY <1>2 DEF ReconnectPortal, ReconnectEnd, Returns, sharedVars, flashVars
  <2>. QED
    BY <2>1 DEF Rounds, CountsCreds, AtHand
<1>. QED
  BY <1>1, <1>2 DEF Reconnect

\* The HTTP task and the environment leave the machine and its credentials alone.
LEMMA OthersKeepRounds ==
  ASSUME Rounds, Http \/ AirChanges \/ LinkDrops \/ UNCHANGED vars
  PROVE  Rounds'
<1>1. UNCHANGED <<pc, sm, creds, attempt, saved, tried>>
  BY DEF Http, Submit, Queue, RequestReset, AirChanges, LinkDrops, vars, mainVars, flashVars
<1>2. pending'.creds \in Seq(Credentials) /\ arriving'.creds \in Seq(Credentials)
  <2>1. NoForm.creds \in Seq(Credentials)
    BY DEF NoForm
  <2>2. \/ UNCHANGED <<pending, arriving>>
        \/ pending' = pending /\ arriving' \in Forms
        \/ pending' = arriving /\ arriving' = NoForm
    BY DEF Http, Submit, Queue, RequestReset, AirChanges, LinkDrops, vars, sharedVars
  <2>. QED
    BY <2>1, <2>2, CredentialsAssumption DEF Rounds, CountsCreds
<1>. QED
  BY <1>1, <1>2 DEF Rounds, CountsCreds, AtHand

LEMMA RoundsStep == MaxRotations # 1 /\ Rounds /\ [Next]_vars => Rounds'
<1>. SUFFICES ASSUME MaxRotations # 1, Rounds, [Next]_vars PROVE Rounds'
  OBVIOUS
<1>1. CASE Drive
  BY <1>1, BootKeepsRounds, DriveKeepsRounds DEF Drive
<1>2. CASE Reconnect
  BY <1>2, ReconnectKeepsRounds
<1>3. CASE Loop
  <2>1. CASE FactoryReset
    BY <2>1, RestartKeepsRounds DEF FactoryReset
  <2>. QED
    BY <1>3, <2>1, TakeProvisionKeepsRounds, ProvisionKeepsRounds, BackoffOverKeepsRounds,
       ScanKeepsRounds, RejoinKeepsRounds, TickLostKeepsRounds, TickEndKeepsRounds DEF Loop
<1>4. CASE PowerFailure
  BY <1>4, RestartKeepsRounds DEF PowerFailure, flashVars
<1>. QED
  BY <1>1, <1>2, <1>3, <1>4, OthersKeepRounds DEF Next, Environment

\* Where the credentials change, the portal does not open.
LEMMA CredsChange ==
  ASSUME Rounds, [Next]_vars
  PROVE  creds' = creds \/ sm'.state # "Portal"
<1>1. CASE Restarted
  BY <1>1, NewMachine DEF Restarted
<1>2. CASE Boot
  <2>1. PICK n : sm' = New(n)
    BY <1>2 DEF Boot
  <2>. QED
    BY <2>1, NewMachine
<1>3. CASE TakeProvision
  <2>1. Machine(sm)
    BY DEF Rounds, GoesThrough, Machine
  <2>. QED
    BY <1>3, <2>1, UpdatedOutcome DEF TakeProvision
<1>4. CASE DriveTry \/ DriveBackoff \/ DrivePortal \/ DriveDone \/ Reconnect
  BY <1>4 DEF DriveTry, DriveBackoff, DrivePortal, DriveDone, Reconnect, ReconnectTry,
              ReconnectPortal, ReconnectEnd
<1>5. CASE Http \/ AirChanges \/ LinkDrops \/ UNCHANGED vars
  BY <1>5 DEF Http, Submit, Queue, RequestReset, AirChanges, LinkDrops, vars, mainVars
<1>6. CASE Provision \/ BackoffOver \/ Scan \/ Rejoin \/ TickLost \/ TickEnd
  BY <1>6 DEF Provision, BackoffOver, Scan, Rejoin, TickLost, TickEnd
<1>. QED
  BY <1>1, <1>2, <1>3, <1>4, <1>5, <1>6
  DEF Next, Drive, Loop, Environment, FactoryReset, PowerFailure

\* The portal opens only after every credential in memory has been tried in vain,
\* whatever mixture of boot, reconnections, forms and scans led there (wifi_sm.rs,
\* start_backoff_or_portal). That needs a second rotation: the first one after a
\* form begins at its first new credential. main.rs makes five of them.
THEOREM PortalIsLastResort == ASSUME MaxRotations # 1 PROVE Spec => PortalAfterAllTried
<1>1. Rounds /\ [Next]_vars =>
        [sm.state # "Portal" /\ sm'.state = "Portal" => tried' = Indices(creds)]_vars
  <2>. SUFFICES ASSUME Rounds, [Next]_vars, sm'.state = "Portal" PROVE tried' = Indices(creds)
    OBVIOUS
  <2>1. GoesThrough(sm', tried') /\ sm'.num = Len(creds')
    BY RoundsStep DEF Rounds, CountsCreds
  <2>2. creds' = creds
    BY CredsChange
  <2>. QED
    BY <2>1, <2>2 DEF GoesThrough, Indices
<1>2. Rounds /\ [Next]_vars => Rounds'
  BY RoundsStep
<1>. QED
  BY <1>1, <1>2, RoundsInit, PTL DEF Spec, PortalAfterAllTried
=============================================================================
