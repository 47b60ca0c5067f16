---------------------------- MODULE WifiLifecycle ----------------------------
(***************************************************************************)
(* What src/main.rs does with the state machine of WifiSm: the boot that   *)
(* tries the known networks, the reconnection of the main loop, the scan   *)
(* that looks for a saved network while the captive portal is open, and    *)
(* the provisioning forms that the HTTP task queues for the main thread.   *)
(* The main thread takes seconds for an attempt to connect; each attempt   *)
(* is a step of its own, so networks come and go and forms arrive between  *)
(* any two. Timers may run out in any order.                               *)
(***************************************************************************)
EXTENDS WifiSm, Sequences, FiniteSets

CONSTANTS
  Networks,      \* SSIDs
  BuildTime,     \* sequence of the credentials built in, at most one
  Forms,         \* the forms users may send: [creds, setsKey]
  MaxForms,      \* bound: forms sent
  MaxRestarts,   \* bound: factory resets and power failures
  MaxFaults      \* bound: failures of the access point, DNS or NVS

VARIABLES
  \* main thread
  pc,            \* what it is doing, see Phases
  sm,            \* the state machine
  creds,         \* creds: credentials in memory
  attempt,       \* action that handle_reconnect_action is about to carry out
  form,          \* provisioning request being handled, or NoForm
  apActive,      \* ap_active: whether main believes the access point is up
  dns,           \* dns_server is running
  deadline,      \* backoff_deadline is set
  announced,     \* mdns_responder and time_sync are running
  keyHeld,       \* wifi_cfg.api_key_hash in memory is set
  \* shared with the HTTP task
  mode, status, pending, firstSetup, resetRequested,
  arriving,      \* a request the HTTP task has announced but not queued yet
  \* flash
  saved,         \* wifi_cfg.ssids in NVS
  keyStored,     \* wifi_cfg.api_key_hash in NVS is set
  force,         \* the force_portal flag
  \* radio and environment
  radio,         \* "off", "station" or "mixed": station with access point
  link,          \* the station is associated
  air,           \* networks in reach
  left,          \* how often each bounded event may still happen
  tried          \* credentials tried since the last success or form

mainVars ==
  <<pc, sm, creds, attempt, form, apActive, dns, deadline, announced, keyHeld>>
sharedVars == <<mode, status, pending, firstSetup, resetRequested, arriving>>
flashVars == <<saved, keyStored, force>>
radioVars == <<radio, link>>
vars == <<mainVars, sharedVars, flashVars, radioVars, air, left, tried>>

NoForm == [creds |-> <<>>, setsKey |-> FALSE]
Phases == {"boot", "driving", "loop", "provision", "reconnect", "rejoin"}

\* An empty password in a form leaves the one of a known network as it is.
Credentials == [ssid : Networks, pass : {"right", "wrong", "empty"}]

ASSUME CredentialsAssumption ==
  /\ BuildTime \in Seq(Credentials)
  /\ \A f \in Forms : f.creds \in Seq(Credentials)

Indices(cs) == 1 .. Len(cs)
Knows(cs, ssid) == \E i \in Indices(cs) : cs[i].ssid = ssid

\* What try_connect and try_connect_sta find out.
Works(c) == c.ssid \in air /\ c.pass = "right"

\* A network that is not known yet is appended; a known one gets the new
\* password, with renew, unless that is empty.
Added(cs, c, renew) ==
  IF ~Knows(cs, c.ssid) THEN Append(cs, c)
  ELSE [i \in Indices(cs) |->
          IF renew /\ cs[i].ssid = c.ssid /\ c.pass # "empty" THEN c ELSE cs[i]]

AddedAll(cs, new, renew) ==
  LET f[n \in 0 .. Len(new)] ==
        IF n = 0 THEN cs ELSE Added(f[n - 1], new[n], renew)
  IN f[Len(new)]

\* Credentials at boot: the built-in ones, then the stored ones they lack.
Known(stored) == AddedAll(BuildTime, stored, FALSE)

\* scan_networks, and find_saved_ssid_in_scan.
Scanned == air
FirstVisible(cs) ==
  LET seen == {i \in Indices(cs) : cs[i].ssid \in Scanned}
  IN IF seen = {} THEN 0 ELSE CHOOSE i \in seen : \A j \in seen : i <= j

Spend(kind) == left[kind] > 0 /\ left' = [left EXCEPT ![kind] = @ - 1]

\* The calls in failing go wrong, in one step.
Failing(failing) ==
  /\ Cardinality(failing) <= left["fault"]
  /\ left' = [left EXCEPT !["fault"] = @ - Cardinality(failing)]

-----------------------------------------------------------------------------
(* NVS: configuration and flag each fail on their own.                     *)

\* load_wifi_config_or_default: what cannot be read is the default.
LoadedSsids(fails) == IF fails THEN <<>> ELSE saved
LoadedKey(fails) == keyStored /\ ~fails

\* save_wifi_config: a failure is logged and otherwise ignored.
SaveConfig(cs, key) ==
  \/ saved' = cs /\ keyStored' = key /\ UNCHANGED left
  \/ Spend("fault") /\ UNCHANGED <<saved, keyStored>>

\* take_force_portal reports the flag also when it fails to remove it.
TakeForcePortal(fails) == force' = (force /\ fails)

\* set_force_portal; main restarts whether or not the flag was set.
SetForcePortal == \/ force' = TRUE /\ Spend("restart")
                  \/ /\ UNCHANGED force
                     /\ left["restart"] > 0 /\ left["fault"] > 0
                     /\ left' = [left EXCEPT !.restart = @ - 1, !.fault = @ - 1]

-----------------------------------------------------------------------------
(* Starting and stopping the access point and the DNS responder.           *)

\* start_ap sets the mixed configuration: no station, access point up.
ApStarted == radio' = "mixed" /\ link' = FALSE
ApStartFails == Spend("fault") /\ UNCHANGED radioVars

\* start_dns returns None when the port cannot be bound.
DnsStarted == \/ dns' = TRUE /\ UNCHANGED left
              \/ dns' = FALSE /\ Spend("fault")

Station(i) ==  \* try_connect: station only, which drops the access point
  radio' = "station" /\ link' = Works(creds[i])
\* Mutant: attempts beside the portal take the access point down.
StationInsteadOfPortal(i) ==
  radio' = "station" /\ link' = Works(creds[i])

StationBesidePortal(i) ==  \* try_connect_sta: station beside the access point
  radio' = "mixed" /\ link' = Works(creds[i])

Try(i) == tried' = IF Works(creds[i]) THEN {} ELSE tried \cup {i}

-----------------------------------------------------------------------------
(* Boot.                                                                   *)

ServerMode(state, active, initial) ==
  IF active /\ state # "Connected" THEN "Portal" ELSE initial

\* PortalState::new and the start of the HTTP server, then the main loop.
ServerStarted(state, active, cs, key) ==
  /\ pc' = "loop"
  /\ mode' = ServerMode(state, active, IF cs = <<>> THEN "Portal" ELSE "Normal")
  /\ status' = "idle" /\ pending' = NoForm /\ arriving' = NoForm
  /\ firstSetup' = ~key
  /\ resetRequested' = FALSE
  /\ announced' = (state = "Connected")

\* The force_portal flag is consumed, and hides all credentials once. What
\* may fail are the read of the configuration, the removal of the flag and,
\* with no credentials, the start of the DNS responder.
Boot ==
  /\ pc = "boot"
  /\ \E failing \in SUBSET {"config", "flag", "dns"} :
       LET fails(call) == call \in failing
           cs == IF force THEN <<>> ELSE Known(LoadedSsids(fails("config")))
       IN /\ fails("flag") => force
          /\ fails("dns") => cs = <<>>
          /\ Failing(failing)
          /\ keyHeld' = LoadedKey(fails("config"))
          /\ TakeForcePortal(fails("flag"))
          /\ creds' = cs
          /\ sm' = New(Len(cs))
          /\ IF InitialAction(New(Len(cs))) = StartPortal
             THEN /\ ApStarted /\ apActive' = TRUE /\ dns' = ~fails("dns")
                  /\ ServerStarted("Unconfigured", TRUE, cs, keyHeld')
             ELSE /\ pc' = "driving"
                  /\ UNCHANGED <<apActive, dns, announced, radioVars,
                                 sharedVars>>
  /\ UNCHANGED <<attempt, form, deadline, saved, keyStored, air, tried>>

\* drive_initial_connect, one attempt.
DriveTry ==
  /\ pc = "driving" /\ sm.state = "Connecting"
  /\ Station(sm.index) /\ Try(sm.index)
  /\ sm' = (IF Works(creds[sm.index]) THEN ConnectSuccess(sm)
                                      ELSE ConnectFailed(sm)).sm
  /\ UNCHANGED <<pc, creds, attempt, form, apActive, dns, deadline, announced,
                 sharedVars, keyHeld, flashVars, air, left>>

DriveBackoff ==
  /\ pc = "driving" /\ sm.state = "Backoff"
  /\ sm' = BackoffComplete(sm).sm
  /\ UNCHANGED <<pc, creds, attempt, form, apActive, dns, deadline, announced,
                 sharedVars, keyHeld, flashVars, radioVars, air, left, tried>>

\* All failed: the access point is started here, and when that fails once
\* more after the drive, with the DNS responder. The second failure restarts.
DrivePortal ==
  /\ pc = "driving" /\ sm.state = "Portal"
  /\ apActive' = TRUE
  /\ ApStarted
  /\ \/ dns' = FALSE /\ UNCHANGED left
     \/ dns' = TRUE /\ Spend("fault")  \* the first start failed
  /\ ServerStarted("Portal", TRUE, creds, keyHeld)
  /\ UNCHANGED <<sm, creds, attempt, form, deadline, keyHeld, flashVars, air,
                 tried>>

DriveDone ==
  /\ pc = "driving" /\ sm.state = "Connected"
  /\ ServerStarted("Connected", apActive, creds, keyHeld)
  /\ UNCHANGED <<sm, creds, attempt, form, apActive, dns, deadline, keyHeld,
                 flashVars, radioVars, air, left, tried>>

-----------------------------------------------------------------------------
(* The HTTP task. It is reached through the access point or the station.   *)

Reachable == pc \notin {"boot", "driving"} /\ (radio = "mixed" \/ link)

\* POST /provision: a form that parse_provision_form accepts sets the status
\* under one lock and is queued under another, replacing one still queued.
Submit(f) ==
  /\ Reachable /\ arriving = NoForm
  /\ firstSetup => f.setsKey
  /\ Spend("form")
  /\ status' = "connecting"
  /\ arriving' = f
  /\ UNCHANGED <<mainVars, mode, pending, firstSetup, resetRequested,
                 flashVars, radioVars, air, tried>>

Queue ==
  /\ arriving # NoForm
  /\ pending' = arriving /\ arriving' = NoForm
  /\ UNCHANGED <<mainVars, mode, status, firstSetup, resetRequested, flashVars,
                 radioVars, air, left, tried>>

\* POST /api/factory-reset
RequestReset ==
  /\ Reachable /\ left["restart"] > 0 /\ ~resetRequested
  /\ resetRequested' = TRUE
  /\ UNCHANGED <<mainVars, mode, status, pending, firstSetup, arriving,
                 flashVars, radioVars, air, left, tried>>

-----------------------------------------------------------------------------
(* The main loop.                                                          *)

\* handle_provision up to the attempt: credentials and key go to flash, the
\* portal's form is updated, the state machine restarts at the first new
\* credential, or at the last one when the form brought none.
TakeProvision ==
  /\ pc = "loop" /\ pending # NoForm
  /\ pc' = "provision" /\ form' = pending /\ pending' = NoForm
  /\ creds' = AddedAll(creds, pending.creds, TRUE)
  /\ keyHeld' = (keyHeld \/ pending.setsKey)
  /\ SaveConfig(creds', keyHeld')
  /\ firstSetup' = FALSE
  /\ sm' = CredentialsUpdated(sm, Len(creds'), Len(creds) + 1).sm
  /\ tried' = {}
  /\ UNCHANGED <<attempt, apActive, dns, deadline, announced, mode, status,
                 resetRequested, arriving, force, radioVars, air>>

\* Mutant: the DNS responder is not stopped after a successful form.
ProvisionedKeepsDns ==
  /\ sm' = ConnectSuccess(sm).sm
  /\ status' = "connected" /\ mode' = "Normal" /\ UNCHANGED dns

\* The attempt. When it fails the next action of the state machine is dropped.
Provisioned ==
  /\ sm' = ConnectSuccess(sm).sm
  /\ status' = "connected" /\ mode' = "Normal" /\ dns' = FALSE
\* Mutant: a failed form leaves connection_status as it is.
NotProvisionedSilent ==
  /\ sm' = ConnectFailed(sm).sm
  /\ UNCHANGED <<status, dns, mode>>

NotProvisioned ==
  /\ sm' = ConnectFailed(sm).sm
  /\ status' = "failed" /\ UNCHANGED <<dns, mode>>

Provision ==
  /\ pc = "provision" /\ pc' = "loop" /\ form' = NoForm
  /\ StationBesidePortal(sm.index) /\ Try(sm.index)
  /\ IF Works(creds[sm.index]) THEN Provisioned ELSE NotProvisioned
  /\ UNCHANGED <<creds, attempt, apActive, deadline, announced, pending,
                 firstSetup, resetRequested, arriving, keyHeld, flashVars, air,
                 left>>

BackoffOver ==
  /\ pc = "loop" /\ deadline
  /\ deadline' = FALSE
  /\ sm' = BackoffComplete(sm).sm
  /\ attempt' = BackoffComplete(sm).action
  /\ pc' = "reconnect"
  /\ UNCHANGED <<creds, form, apActive, dns, announced, sharedVars, keyHeld,
                 flashVars, radioVars, air, left, tried>>

\* The scan, every 15 s while the access point is thought to be up.
Scan ==
  /\ pc = "loop" /\ apActive
  /\ sm.state \in {"Portal", "Unconfigured"} /\ FirstVisible(creds) # 0
  /\ LET found == SavedSsidFound(sm, FirstVisible(creds))
     IN sm' = found.sm /\ attempt' = found.action
  /\ pc' = "rejoin"
  /\ UNCHANGED <<creds, form, apActive, dns, deadline, announced, sharedVars,
                 keyHeld, flashVars, radioVars, air, left, tried>>

\* stop_ap gives the station an empty configuration; whether the connection
\* survives that is up to the driver.
ApStopped == /\ apActive' = FALSE /\ radio' = "station"
             /\ \/ link' = TRUE
                \/ link' = FALSE

\* handle_portal_reconnect. Again the action after a failure is dropped.
Rejoin ==
  /\ pc = "rejoin" /\ pc' = "loop" /\ attempt' = Idle
  /\ Try(attempt.index)
  /\ IF Works(creds[attempt.index])
     THEN /\ sm' = PortalConnectSucceeded(sm).sm
          /\ dns' = FALSE /\ mode' = "Normal"
          /\ \/ apActive /\ ApStopped /\ UNCHANGED left
             \/ apActive /\ Spend("fault") /\ radio' = "mixed" /\ link' = TRUE
                /\ UNCHANGED apActive
     ELSE /\ StationBesidePortal(attempt.index)
          /\ sm' = ConnectFailed(sm).sm
          /\ UNCHANGED <<dns, mode, apActive, left>>
  /\ UNCHANGED <<creds, form, deadline, announced, status, pending, firstSetup,
                 resetRequested, arriving, keyHeld, flashVars, air>>

\* The five-second tick notices a lost connection, ...
LinkLost == sm.state = "Connected" /\ ~link

TickLost ==
  /\ pc = "loop" /\ LinkLost
  /\ sm' = ConnectionLost(sm).sm
  /\ attempt' = ConnectionLost(sm).action
  /\ pc' = "relink"
  /\ UNCHANGED <<creds, form, apActive, dns, deadline, announced, sharedVars,
                 keyHeld, flashVars, radioVars, air, left, tried>>

\* ... brings the server mode in line with the state, and starts or stops
\* the mDNS responder and SNTP.
TickEnd ==
  /\ \/ pc = "loop" /\ ~LinkLost
     \/ pc = "tick"
  /\ pc' = "loop"
  /\ mode' = CASE sm.state = "Connected" -> "Normal"
               [] sm.state \in {"Portal", "Unconfigured"} -> "Portal"
               [] OTHER -> mode
  /\ announced' = (sm.state = "Connected")
  /\ UNCHANGED <<sm, creds, attempt, form, apActive, dns, deadline, status,
                 pending, firstSetup, resetRequested, arriving, keyHeld,
                 flashVars, radioVars, air, left, tried>>

\* handle_reconnect_action, one round of its loop: called at the end of the
\* backoff ("reconnect") and from the tick ("relink").
Returns == pc' = IF pc = "relink" THEN "tick" ELSE "loop"

ReconnectTry ==
  /\ pc \in {"reconnect", "relink"} /\ attempt.type = "TryConnect"
  /\ Station(attempt.index) /\ Try(attempt.index)
  /\ LET next == IF Works(creds[attempt.index]) THEN ConnectSuccess(sm)
                                                ELSE ConnectFailed(sm)
     IN sm' = next.sm /\ attempt' = next.action
  /\ UNCHANGED <<pc, creds, form, apActive, dns, deadline, announced,
                 sharedVars, keyHeld, flashVars, air, left>>

\* StartPortal does nothing when the access point is thought to be up.
ReconnectPortal ==
  /\ pc \in {"reconnect", "relink"} /\ attempt = StartPortal
  /\ Returns /\ attempt' = Idle
  /\ \/ /\ apActive
        /\ UNCHANGED <<apActive, dns, mode, radioVars, left>>
     \/ /\ ~apActive /\ apActive' = TRUE /\ ApStarted /\ DnsStarted
        /\ mode' = "Portal"
     \/ /\ ~apActive /\ ApStartFails /\ UNCHANGED <<apActive, dns, mode>>
  /\ UNCHANGED <<sm, creds, form, deadline, announced, status, pending,
                 firstSetup, resetRequested, arriving, keyHeld, flashVars, air,
                 tried>>

\* Mutant: WaitBackoff sets no deadline.
TimerNotSet == deadline' = deadline

TimerSet == deadline' = (deadline \/ attempt = WaitBackoff)

ReconnectEnd ==
  /\ pc \in {"reconnect", "relink"} /\ attempt \in {WaitBackoff, Idle}
  /\ Returns /\ attempt' = Idle
  /\ TimerSet
  /\ UNCHANGED <<sm, creds, form, apActive, dns, announced, sharedVars,
                 keyHeld, flashVars, radioVars, air, left, tried>>

\* What a restart leaves: the flash.
Restarted ==
  /\ pc' = "boot" /\ sm' = New(0) /\ creds' = <<>>
  /\ attempt' = Idle /\ form' = NoForm
  /\ apActive' = FALSE /\ dns' = FALSE /\ deadline' = FALSE
  /\ announced' = FALSE /\ keyHeld' = FALSE
  /\ mode' = "Normal" /\ status' = "idle" /\ pending' = NoForm
  /\ firstSetup' = FALSE /\ resetRequested' = FALSE /\ arriving' = NoForm
  /\ radio' = "off" /\ link' = FALSE /\ tried' = {}

FactoryReset ==
  /\ pc = "loop" /\ resetRequested
  /\ SetForcePortal /\ Restarted
  /\ UNCHANGED <<saved, keyStored, air>>

PowerFailure ==
  /\ Spend("restart") /\ Restarted
  /\ UNCHANGED <<flashVars, air>>

-----------------------------------------------------------------------------
(* The environment, and the specification.                                 *)

AirChanges ==
  /\ \E n \in Networks : air' = (air \cup {n}) \ (air \cap {n})
  /\ UNCHANGED <<mainVars, sharedVars, flashVars, radioVars, left, tried>>

LinkDrops ==
  /\ link /\ link' = FALSE
  /\ UNCHANGED <<mainVars, sharedVars, flashVars, radio, air, left, tried>>

Init ==
  /\ pc = "boot" /\ sm = New(0) /\ creds = <<>>
  /\ attempt = Idle /\ form = NoForm
  /\ apActive = FALSE /\ dns = FALSE /\ deadline = FALSE /\ announced = FALSE
  /\ keyHeld = FALSE
  /\ mode = "Normal" /\ status = "idle" /\ pending = NoForm
  /\ firstSetup = FALSE /\ resetRequested = FALSE /\ arriving = NoForm
  /\ saved = <<>> /\ keyStored = FALSE /\ force = FALSE
  /\ radio = "off" /\ link = FALSE
  /\ air \in SUBSET Networks
  /\ left = [form |-> MaxForms, restart |-> MaxRestarts, fault |-> MaxFaults]
  /\ tried = {}

Drive == Boot \/ DriveTry \/ DriveBackoff \/ DrivePortal \/ DriveDone
Reconnect == ReconnectTry \/ ReconnectPortal \/ ReconnectEnd
Http == (\E f \in Forms : Submit(f)) \/ Queue \/ RequestReset
Loop == TakeProvision \/ Provision \/ BackoffOver \/ Scan \/ Rejoin
        \/ TickLost \/ TickEnd \/ FactoryReset
Environment == AirChanges \/ LinkDrops \/ PowerFailure

Next == Drive \/ Reconnect \/ Http \/ Loop \/ Environment

\* The main thread runs on, and every round of its loop makes every check;
\* the HTTP task finishes the handler it is in.
Fairness ==
  /\ WF_vars(Drive) /\ WF_vars(Reconnect)
  /\ WF_vars(Provision) /\ WF_vars(Rejoin) /\ WF_vars(TickEnd) /\ WF_vars(Queue)
  /\ SF_vars(TakeProvision) /\ SF_vars(BackoffOver) /\ SF_vars(Scan)
  /\ SF_vars(TickLost)

Spec == Init /\ [][Next]_vars /\ Fairness

-----------------------------------------------------------------------------
(* Properties.                                                             *)

\* The DNS responder that answers every name with the device's own address
\* never runs on a device that has joined a network (main.rs drops dns_server
\* on each of the ways to Connected).
CaptiveDnsOff == pc = "loop" /\ sm.state = "Connected" => ~dns

\* specs/002 US3.2: the portal is opened only after every saved network has
\* been tried without success (rotation and index of the state machine, over
\* boot, reconnections, forms and scans).
PortalAfterAllTried ==
  [][sm.state # "Portal" /\ sm'.state = "Portal" => tried' = Indices(creds)]_vars

\* When the drivers drop an action, so that no attempt and no timer is left,
\* the device keeps its access point: a user can still send another form.
GaveUpIsReachable ==
  pc = "loop" /\ sm.state \in {"Connecting", "Backoff"} /\ ~deadline
    => radio = "mixed"

\* FR-016: every form is answered with success or failure (connection_status),
\* unless the device restarts.
FormsAnswered == status = "connecting" ~> status # "connecting"

\* The device never hunts for networks for ever: again and again it is
\* connected, or has given up and opened its access point or portal.
RetriesEnd ==
  []<>(sm.state \in {"Connected", "Portal", "Unconfigured"} \/ radio = "mixed")

\* US2.1: a device that has given up on all networks has its portal open.
PortalReopens == pc = "loop" /\ sm.state = "Portal" /\ left.fault = MaxFaults
                   => radio = "mixed"
=============================================================================
