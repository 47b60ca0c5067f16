---------------------------- MODULE MCPeripherals ----------------------------
(***************************************************************************)
(* The board of boards/esp32-s2-wrover.toml with an edge pin besides, and   *)
(* its buses the other way round, so that the UART is the one in use.       *)
(***************************************************************************)
EXTENDS Peripherals, TLC

Cfg(n, mode, name) == [pin |-> n, mode |-> mode, name |-> name]

WroverBoard ==
  <<Cfg(2, "digital_out", "LED"), Cfg(5, "digital_in", "GPIO5"),
    Cfg(4, "low_edge_trigger", "GPIO4"),
    Cfg(3, "analog_in", "GPIO3"), Cfg(18, "pwm", "GPIO18")>>

WroverBuses == <<[protocol |-> "UART", wired |-> TRUE], [protocol |-> "I2C", wired |-> TRUE]>>

Digits == ("48" :> "H") @@ ("" :> "")

W(path, v, t, enc) == [path |-> path, v |-> v, t |-> t, enc |-> enc]

PinWrites ==
  {W("LED", v, Absent, Absent) : v \in {Bool(FALSE), Text("on")}}
    \cup {W("GPIO18", v, Absent, Absent) : v \in {Number(-1), [Text("300") EXCEPT !.n = 300]}}

PlainWrites == {W("UART_TX", Text("H"), t, Absent) : t \in {1, Absent}}
TypedWrites == {W("UART_TX", Text("48"), Absent, "hex")}

SomeRestored == {[path |-> "UART_TX", v |-> Text("H")]}
SomeDeletable == {"LED", "UART_TX"}
AllTyped == PinWrites \cup PlainWrites \cup TypedWrites
=============================================================================
