----------------------------- MODULE Peripherals -----------------------------
(***************************************************************************)
(* Pins and buses (src/gpio, src/board.rs, src/boards) and the part of the *)
(* main loop that serves them: it polls inputs, drains the interrupt flags *)
(* of edge pins, drives outputs and a bus from the newest values of their  *)
(* InfoItems. It takes the engine lock anew for each; clients and scripts  *)
(* write in between, and interrupts come at any time.                      *)
(***************************************************************************)
EXTENDS Integers, SequencesExt, FiniteSets

CONSTANTS
  Board,         \* the board's pins: [pin, mode, name], pins and names distinct
  BusConfig,     \* its buses: [protocol, wired], whether both pins are named
  Restored,      \* what may have been saved before the restart: [path, v], a value a path
  Typed,         \* writes by clients and scripts: [path, v, t, enc]
  Deletable,     \* items that clients may delete
  HexText,       \* what strings stand for as hexadecimal digits
  Absent,        \* no item, no value
  MaxWrites, MaxEdges, MaxFaults, MaxLevels  \* bounds

ASSUME PeripheralsAssumption ==
  /\ {MaxWrites, MaxEdges, MaxFaults, MaxLevels} \subseteq Nat
  /\ Board \in Seq(ToSet(Board))

VARIABLES
  item,      \* the newest value of each item: [v, t, enc, id, meant], or Absent
  line,      \* levels that inputs are at
  pin,       \* levels that outputs are driven to
  last,      \* last_level, last_duty
  fired,     \* the flags that the interrupt handlers set
  armed,     \* whose interrupts are enabled
  deaf,      \* those that could not be enabled again
  at,        \* where the main loop is
  queue,     \* places of the edge pins that drain_edge_events has yet to look at
  serving,   \* what it has yet to do to the first of them
  events,    \* the events it has found
  captured,  \* edges that set a flag
  recorded,  \* edge values written
  lastTx,    \* last_tx of the bus
  wire,      \* what it was asked to send, Absent for what did not decode
  left       \* how often each bounded event may still happen

edgeVars == <<fired, armed, deaf, queue, serving, events, captured, recorded>>
busVars == <<lastTx, wire>>
pinVars == <<item, line, pin, last, edgeVars, at, busVars, left>>

\* OmiValue: n is the number that a value is or parses to, if any.
Number(n) == [kind |-> "num", n |-> n, s |-> "digits"]
Text(s) == [kind |-> "str", n |-> 0, s |-> s]
Bool(b) == [kind |-> "bool", n |-> 0, s |-> IF b THEN "1" ELSE "0"]

Spend(event) == left[event] > 0 /\ left' = [left EXCEPT ![event] = @ - 1]

-----------------------------------------------------------------------------
(* What the board has.                                                      *)

MaxPwm == 4
AdcPins == 1 .. 10
ADC_MAX_RAW == 4095  \* stands for any reading

OfMode(mode) == SelectSeq(Board, LAMBDA cfg : cfg.mode = mode)
Names(cfgs) == [i \in DOMAIN cfgs |-> cfgs[i].name]

Inputs == ToSet(Names(OfMode("digital_in")))
DigitalOuts == ToSet(Names(OfMode("digital_out")))
PwmOuts == LET pwm == Names(OfMode("pwm")) IN {pwm[i] : i \in {j \in DOMAIN pwm : j <= MaxPwm}}
Outputs == DigitalOuts \cup PwmOuts
AdcIns == ToSet(Names(SelectSeq(OfMode("analog_in"), LAMBDA cfg : cfg.pin \in AdcPins)))

IsEdge(mode) == mode \in {"low_edge_trigger", "high_edge_trigger"}
EdgePins == {i \in DOMAIN Board : IsEdge(Board[i].mode)}
Edges == {Board[i].name : i \in EdgePins}
EdgeValue(e) ==
  LET i == CHOOSE i \in EdgePins : Board[i].name = e
  IN Number(IF Board[i].mode = "low_edge_trigger" THEN 0 ELSE 1)

\* init_peripherals leaves its loop at the first bus that is no SPI bus; when its
\* pins are named it is the bus there is.
BusNames == {"I2C", "UART"}
Candidates == SelectSeq(BusConfig, LAMBDA b : b.protocol \in BusNames)
Bus == IF Candidates # <<>> /\ Head(Candidates).wired THEN {Head(Candidates).protocol} ELSE {}
Tx(b) == b \o "_TX"
Rx(b) == b \o "_RX"

Path == Inputs \cup Outputs \cup AdcIns \cup Edges \cup {Tx(b) : b \in Bus} \cup {Rx(b) : b \in Bus}

\* A pin is not named like an item of a bus.
ASSUME NamesAssumption ==
  \A b \in Bus : Tx(b) \notin Inputs \cup Outputs \cup AdcIns \cup Edges \cup {Rx(b)}

\* What a new item's newest value is; meant is what its writer wants on the wire.
Stored(v, t, enc, id, meant) == [v |-> v, t |-> t, enc |-> enc, id |-> id, meant |-> meant]
Plain(v, t, id) == Stored(v, t, "string", id, v)

Registered(p) == Plain(IF p \in Path \ (Inputs \cup Outputs \cup AdcIns \cup Edges) THEN Text("") ELSE Number(0),
                       Absent, 0)

PinsInit ==
  /\ \E saved \in SUBSET Restored :
       item = [p \in Path |-> IF \E s \in saved : s.path = p
                               THEN Plain((CHOOSE s \in saved : s.path = p).v, 1, 0) ELSE Registered(p)]
  /\ line \in [Inputs -> 0 .. 1]
  /\ pin = [p \in Outputs |-> 0]
  /\ last = [p \in Inputs \cup Outputs |-> IF p \in Inputs THEN Absent ELSE 0]
  /\ fired = [e \in Edges |-> FALSE] /\ armed = [e \in Edges |-> TRUE] /\ deaf = {}
  /\ at = "inputs" /\ queue = {} /\ serving = <<>> /\ events = <<>>
  /\ captured = [e \in Edges |-> 0] /\ recorded = [e \in Edges |-> 0]
  /\ lastTx = Absent /\ wire = <<>>
  /\ left = [writes |-> MaxWrites, edges |-> MaxEdges, faults |-> MaxFaults, levels |-> MaxLevels]

-----------------------------------------------------------------------------
(* The world outside, and those who write items.                            *)

\* The interrupt handler. ESP-IDF disables the interrupt when it triggers.
Edge(e) ==
  /\ armed[e] /\ Spend("edges")
  /\ fired' = [fired EXCEPT ![e] = TRUE]
  /\ armed' = [armed EXCEPT ![e] = FALSE]
  /\ captured' = [captured EXCEPT ![e] = @ + 1]
  /\ UNCHANGED <<item, line, pin, last, at, deaf, queue, serving, events, recorded, busVars>>

Level(p) ==
  /\ Spend("levels")
  /\ line' = [line EXCEPT ![p] = 1 - @]
  /\ UNCHANGED <<item, pin, last, edgeVars, at, busVars>>

\* DataEncoding::decode; Absent when it fails.
Decoded(s, enc) ==
  IF enc = "string" THEN s ELSE IF s \in DOMAIN HexText THEN HexText[s] ELSE Absent

\* A script's typed write is decoded before it is stored, and leaves its type in the
\* item's metadata, where later writes find it; other writes are stored as they are.
Write(w) ==
  LET id == MaxWrites - left.writes + 1
      bytes == IF w.enc = Absent THEN Absent ELSE Decoded(w.v.s, w.enc)
      v == IF bytes = Absent THEN w.v ELSE Text(bytes)
      before == IF item[w.path] = Absent THEN "string" ELSE item[w.path].enc
  IN /\ w.path \in Path
     /\ Spend("writes")
     /\ item' = [item EXCEPT ![w.path] =
                   Stored(v, w.t, IF w.enc = Absent THEN before ELSE w.enc, id, v)]
     /\ UNCHANGED <<line, pin, last, edgeVars, at, busVars>>

Delete(p) ==
  /\ p \in Path /\ item[p] # Absent
  /\ Spend("writes")
  /\ item' = [item EXCEPT ![p] = Absent]
  /\ UNCHANGED <<line, pin, last, edgeVars, at, busVars>>

-----------------------------------------------------------------------------
(* The main loop.                                                           *)

\* DigitalInputPin::poll tells of a level that has changed, and of the first.
Changed(p) == p \in Inputs /\ last[p] # line[p]

PollInputs ==
  /\ at = "inputs" /\ at' = "drain"
  /\ item' = [p \in Path |->
       IF Changed(p) THEN Plain(Number(line[p]), 1, 0) ELSE item[p]]
  /\ last' = [p \in DOMAIN last |-> IF p \in Inputs THEN line[p] ELSE last[p]]
  /\ queue' = EdgePins
  /\ UNCHANGED <<line, pin, fired, armed, deaf, serving, events, captured, recorded, busVars, left>>

\* Mutant: the flag is cleared after the interrupt has been enabled again.
ServiceArmedFirst == <<"enable", "swap">>

\* The pin that drain_edge_events looks at, and what it does if it has fired.
Looked == Board[Min(queue)].name
Service == <<"swap", "enable">>

Serve(step, e) ==
  \/ /\ step = "swap"
     /\ fired' = [fired EXCEPT ![e] = FALSE]
     /\ UNCHANGED <<armed, deaf, left>>
  \/ /\ step = "enable"
     /\ \/ armed' = [armed EXCEPT ![e] = TRUE] /\ UNCHANGED <<deaf, left>>
        \/ deaf' = deaf \cup {e} /\ Spend("faults") /\ UNCHANGED armed
     /\ UNCHANGED fired

DrainPin ==
  /\ at = "drain" /\ queue # {} /\ serving = <<>>
  /\ IF fired[Looked]
     THEN /\ Serve(Head(Service), Looked) /\ serving' = Tail(Service)
          /\ events' = Append(events, Looked)
          /\ UNCHANGED queue
     ELSE /\ queue' = queue \ {Min(queue)}
          /\ UNCHANGED <<serving, events, fired, armed, deaf, left>>
  /\ UNCHANGED <<item, line, pin, last, at, captured, recorded, busVars>>

DrainOn ==
  /\ at = "drain" /\ serving # <<>>
  /\ Serve(Head(serving), Looked) /\ serving' = Tail(serving)
  /\ queue' = IF Len(serving) = 1 THEN queue \ {Min(queue)} ELSE queue
  /\ UNCHANGED <<item, line, pin, last, at, events, captured, recorded, busVars>>

Found(e) == {i \in DOMAIN events : events[i] = e}

RecordEdges ==
  /\ at = "drain" /\ queue = {} /\ at' = "pwm"
  /\ item' = [p \in Path |-> IF p \in ToSet(events) THEN Plain(EdgeValue(p), 1, 0) ELSE item[p]]
  /\ recorded' = [e \in Edges |-> recorded[e] + Cardinality(Found(e))]
  /\ events' = <<>>
  /\ UNCHANGED <<line, pin, last, fired, armed, deaf, queue, serving, captured, busVars, left>>

Clamp(n) == IF n < 0 THEN 0 ELSE IF n > 255 THEN 255 ELSE n

parse_duty(v) == Clamp(v.n)
parse_digital(v) ==
  IF (v.kind = "num" /\ v.n # 0) \/ v.s \in {"1", "true", "high", "on"} THEN 1 ELSE 0

\* The level an output's newest value asks for.
Wanted(p) == IF p \in PwmOuts THEN parse_duty(item[p].v) ELSE parse_digital(item[p].v)

Due(p) == item[p] # Absent /\ Wanted(p) # last[p]

\* Mutant: the value is remembered though the pin has not taken it.
DriveRemembersFirst(due, failing) ==
  /\ pin' = [p \in Outputs |-> IF p \in due \ failing THEN Wanted(p) ELSE pin[p]]
  /\ last' = [p \in DOMAIN last |-> IF p \in due THEN Wanted(p) ELSE last[p]]

\* set_duty and DigitalOutputPin::write: what fails is tried again in the next pass.
Drive(due, failing) ==
  /\ pin' = [p \in Outputs |-> IF p \in due \ failing THEN Wanted(p) ELSE pin[p]]
  /\ last' = [p \in DOMAIN last |-> IF p \in due \ failing THEN Wanted(p) ELSE last[p]]

Sync(outs) ==
  LET due == {p \in outs : Due(p)}
  IN \/ Drive(due, {}) /\ UNCHANGED left
     \/ \E p \in due : Drive(due, {p}) /\ Spend("faults")

sync_from_tree ==
  /\ at = "pwm" /\ at' = "outputs"
  /\ Sync(PwmOuts)
  /\ UNCHANGED <<item, line, edgeVars, busVars>>

sync_digital_outputs ==
  /\ at = "outputs" /\ at' = "bus"
  /\ Sync(DigitalOuts)
  /\ UNCHANGED <<item, line, edgeVars, busVars>>

\* poll_rx. Nothing scans the I2C bus for devices (scan_i2c), so it has none.
Receive(b, heard) ==
  IF b = "UART" /\ heard THEN [item EXCEPT ![Rx(b)] = Plain(Text("heard"), 1, 0)] ELSE item

\* decode_tx_data.
TxBytes(value) == IF value.v.kind = "str" THEN Decoded(value.v.s, value.enc) ELSE value.v.s

\* What a value stands for by the time it was sent, or not.
Sent(b, value) ==
  LET bytes == TxBytes(value)
  IN IF b = "I2C" \/ bytes = "" THEN <<>>
     ELSE <<[id |-> value.id, bytes |-> bytes, meant |-> value.meant.s]>>

\* Mutant: only the value is remembered.
RememberedUnstamped(value) == <<value.v, Absent>>

Remembered(value) == <<value.v, value.t>>

\* sync_tx: every outcome, errors too, is remembered and not tried again.
Transmit(b) ==
  LET value == item[Tx(b)]
  IN IF value = Absent \/ lastTx = <<value.v, value.t>> THEN UNCHANGED busVars
     ELSE lastTx' = Remembered(value) /\ wire' = wire \o Sent(b, value)

\* A driver that fails to write is not asked again.
TransmitFails(b) ==
  /\ item[Tx(b)] # Absent /\ Sent(b, item[Tx(b)]) # <<>>
  /\ lastTx # <<item[Tx(b)].v, item[Tx(b)].t>>
  /\ Spend("faults")
  /\ lastTx' = Remembered(item[Tx(b)]) /\ UNCHANGED wire

PollBus ==
  /\ at = "bus" /\ at' \in (IF AdcIns = {} THEN {"inputs"} ELSE {"inputs", "adc"})
  /\ \/ Bus = {} /\ UNCHANGED <<item, busVars, left>>
     \/ \E b \in Bus, heard \in BOOLEAN :
          /\ item' = Receive(b, heard)
          /\ (Transmit(b) /\ UNCHANGED left) \/ TransmitFails(b)
  /\ UNCHANGED <<line, pin, last, edgeVars>>

\* When its time has come; a reading that fails is passed over.
sample_adc ==
  /\ at = "adc" /\ at' = "inputs"
  /\ \E read \in SUBSET AdcIns :
       item' = [p \in Path |-> IF p \in read THEN Plain(Number(ADC_MAX_RAW), 1, 0) ELSE item[p]]
  /\ UNCHANGED <<line, pin, last, edgeVars, busVars, left>>

-----------------------------------------------------------------------------
Loop ==
  \/ PollInputs \/ DrainPin \/ DrainOn \/ RecordEdges
  \/ sync_from_tree \/ sync_digital_outputs \/ PollBus \/ sample_adc

Outside ==
  \/ \E e \in Edges : Edge(e)
  \/ \E p \in Inputs : Level(p)
  \/ \E w \in Typed : Write(w)
  \/ \E p \in Deletable : Delete(p)

PinsNext == Loop \/ Outside

\* The loop goes round for ever.
PinsSpec == PinsInit /\ [][PinsNext]_pinVars /\ WF_pinVars(Loop)

-----------------------------------------------------------------------------
\* An edge that set its pin's flag is written to its item, once, and a pin that
\* hears nothing is about to be served, unless its interrupt could not be enabled
\* again (drain_edge_events, the interrupt handler).
EdgesAreKept ==
  \A e \in Edges :
    /\ captured[e] = recorded[e] + Cardinality(Found(e)) + (IF fired[e] THEN 1 ELSE 0)
    /\ armed[e] \/ fired[e] \/ e \in deaf \/ (serving # <<>> /\ Looked = e)

\* Outputs come to what their items say, whatever was written, deleted or refused
\* by the hardware before, and inputs' items to the levels of their pins; the bus
\* has dealt with the newest value (sync_from_tree, sync_digital_outputs, sync_tx).
PinsSettle ==
  <>[](/\ \A p \in Outputs : item[p] # Absent => pin[p] = Wanted(p)
       /\ \A p \in Inputs : item[p] # Absent => item[p].v = Number(line[p])
       /\ \A b \in Bus : item[Tx(b)] # Absent => lastTx = <<item[Tx(b)].v, item[Tx(b)].t>>)

\* A value is sent once for each time it is written, at most, and in the order of
\* the writes, however often the loop sees it (sync_tx).
SentOnce == \A i, j \in DOMAIN wire : i < j => wire[i].id < wire[j].id

\* A script's typed write reaches the wire as the bytes it stands for.
\* specs/005-gpio-peripheral-system/spec.md:72, "Then the decoded bytes are
\* transmitted."
TypedAsMeant == \A i \in DOMAIN wire : wire[i].bytes = wire[i].meant
=============================================================================
