------------------------------- MODULE Blobs -------------------------------
(***************************************************************************)
(* The binary formats: saved items (src/device.rs), the WiFi configuration *)
(* (src/wifi_cfg.rs) and the messages of the onboarding protocol           *)
(* (src/wsop/protocol.rs). A string is the sequence of its UTF-8 bytes, an *)
(* f64 the eight bytes of its representation.                              *)
(***************************************************************************)
EXTENDS Integers, SequencesExt

CONSTANTS
  MAX_NVS_BLOB, MAX_WIFI_CFG_BLOB,    \* bytes that may be stored
  Refused                             \* what is not written, or not read

ASSUME BlobAssumption == {MAX_NVS_BLOB, MAX_WIFI_CFG_BLOB} \subseteq Nat

Byte == 0 .. 255
Parsed(x) == [parsed |-> x]

-----------------------------------------------------------------------------
(* UTF-8: the length a first byte announces, and the range of the second.   *)

Continuation == 128 .. 191

Announced(b) ==
  CASE b < 128 -> 1
    [] b \in 194 .. 223 -> 2
    [] b \in 224 .. 239 -> 3
    [] b \in 240 .. 244 -> 4
    [] OTHER -> 0

SecondByte(b) ==
  CASE b = 224 -> 160 .. 191
    [] b = 237 -> 128 .. 159
    [] b = 240 -> 144 .. 191
    [] b = 244 -> 128 .. 143
    [] OTHER -> Continuation

Begins(s, i) ==
  LET n == Announced(s[i])
  IN /\ n > 0 /\ i + n - 1 <= Len(s)
     /\ n > 1 => s[i + 1] \in SecondByte(s[i])
     /\ \A k \in 2 .. n - 1 : s[i + k] \in Continuation

Continues(s, i) ==
  \E k \in 1 .. 3 :
    k < i /\ k < Announced(s[i - k]) /\ \A m \in 1 .. k - 1 : s[i - m] \in Continuation

IsUtf8(s) ==
  \A i \in DOMAIN s : IF s[i] \in Continuation THEN Continues(s, i) ELSE Begins(s, i)

-----------------------------------------------------------------------------
(* Writing. A number that does not fit its width refuses the whole.         *)

Small(n, width) == [i \in 1 .. width |-> (n \div 256 ^ (i - 1)) % 256]
Big(n, width) == Reverse(Small(n, width))

Joined(parts) ==
  IF \E i \in DOMAIN parts : parts[i] = Refused THEN Refused
  ELSE FlattenSeq(parts)

\* Mutant: the length is cut off, as by a cast, where it should be converted.
SizedCast(bytes, width) == Small(Len(bytes), width) \o bytes

Sized(bytes, width) ==
  IF Len(bytes) < 256 ^ width THEN Small(Len(bytes), width) \o bytes ELSE Refused

Counted(parts, width) ==
  IF Len(parts) < 256 ^ width THEN Joined(<<Small(Len(parts), width)>> \o parts) ELSE Refused

Limited(bytes, limit) ==
  IF bytes = Refused \/ Len(bytes) > limit THEN Refused ELSE bytes

-----------------------------------------------------------------------------
(* Reading: a cursor with what has been read so far, the newest last.       *)

Cursor(data) == [data |-> data, pos |-> 0, got |-> <<>>, ok |-> TRUE]

Fail(c) == [c EXCEPT !.ok = FALSE]

Got(c) == Last(c.got)
Put(c, x) == [c EXCEPT !.got = Append(@, x)]
Dropped(c) == [c EXCEPT !.got = Front(@)]

\* Mutant: a field that is cut short is taken as far as it goes.
RawAsFarAsItGoes(c, n) ==
  LET end == Min({c.pos + n, Len(c.data)})
  IN IF c.ok THEN [Put(c, SubSeq(c.data, c.pos + 1, end)) EXCEPT !.pos = end] ELSE c

Raw(c, n) ==
  IF ~c.ok THEN c
  ELSE IF c.pos + n > Len(c.data) THEN Fail(c)
  ELSE [Put(c, SubSeq(c.data, c.pos + 1, c.pos + n)) EXCEPT !.pos = @ + n]

Unsigned(c, width) ==
  LET b == Raw(c, width)
  IN IF b.ok THEN Put(Dropped(b), FoldRight(LAMBDA d, n : 256 * n + d, Got(b), 0)) ELSE b

\* The last number read is a length, or a count, of what follows.
RawSized(c, width) ==
  LET n == Unsigned(c, width) IN IF n.ok THEN Raw(Dropped(n), Got(n)) ELSE n
Text(c, width) ==
  LET s == RawSized(c, width) IN IF s.ok /\ ~IsUtf8(Got(s)) THEN Fail(s) ELSE s

\* The last n things that were read become one.
Grouped(c, n) ==
  IF ~c.ok THEN c
  ELSE [c EXCEPT !.got = Append(SubSeq(@, 1, Len(@) - n), SubSeq(@, Len(@) - n + 1, Len(@)))]

Repeated(c, width, Read(_)) ==
  LET n == Unsigned(c, width)
  IN IF ~n.ok THEN n
     ELSE Grouped(FoldLeft(LAMBDA d, i : Read(d), Dropped(n), [i \in 1 .. Got(n) |-> i]), Got(n))

Demanded(c, values) == IF c.ok /\ Got(c) \notin values THEN Fail(c) ELSE c

Version == 1
Versioned(data) ==
  LET v == Demanded(Unsigned(Cursor(data), 1), {Version}) IN IF v.ok THEN Dropped(v) ELSE v

Outcome(c) == IF c.ok THEN Parsed(c.got) ELSE Refused

-----------------------------------------------------------------------------
(* Saved items: <<path, value, timestamp>>; a value is <<type>> or          *)
(* <<type, bytes>>, a timestamp <<>> or <<f64>>.                            *)

WriteOmi(v) ==
  CASE v[1] = "null" -> <<0>>
    [] v[1] = "false" -> <<1>>
    [] v[1] = "true" -> <<2>>
    [] v[1] = "number" -> <<3>> \o v[2]
    [] v[1] = "str" -> Joined(<<<<4>>, Sized(v[2], 2)>>)

WriteItem(x) ==
  Joined(<<Sized(x[1], 2), WriteOmi(x[2]), IF x[3] = <<>> THEN <<0>> ELSE <<1>> \o x[3][1]>>)

serialize_saved_items(items) ==
  Limited(Joined(<<<<Version>>, Counted([i \in DOMAIN items |-> WriteItem(items[i])], 2)>>), MAX_NVS_BLOB)

Tagged(c, type) ==
  IF c.ok THEN [c EXCEPT !.got = Append(Front(@), <<type, Last(@)>>)] ELSE c

ReadOmi(c) ==
  LET tag == Demanded(Unsigned(c, 1), 0 .. 4)
      rest == Dropped(tag)
  IN IF ~tag.ok THEN tag
     ELSE CASE Got(tag) = 3 -> Tagged(Raw(rest, 8), "number")
            [] Got(tag) = 4 -> Tagged(Text(rest, 2), "str")
            [] OTHER -> Put(rest, <<<<"null", "false", "true">>[Got(tag) + 1]>>)

\* Anything but 1 says that there is no timestamp.
ReadStamp(c) ==
  LET has == Unsigned(c, 1)
  IN IF ~has.ok THEN has
     ELSE IF Got(has) = 1 THEN Grouped(Raw(Dropped(has), 8), 1)
     ELSE Put(Dropped(has), <<>>)

ReadItem(c) == Grouped(ReadStamp(ReadOmi(Text(c, 2))), 3)

deserialize_saved_items(data) == Outcome(Repeated(Versioned(data), 2, ReadItem))

-----------------------------------------------------------------------------
(* WiFi configuration: <<hostname, API key hash, <<ssid, password>> ...>>.  *)

WriteNetwork(x) == Joined(<<Sized(x[1], 1), Sized(x[2], 1)>>)

serialize_wifi_config(cfg) ==
  Limited(Joined(<<<<Version>>, Sized(cfg[1], 2), Sized(cfg[2], 1),
                   Counted([i \in DOMAIN cfg[3] |-> WriteNetwork(cfg[3][i])], 1)>>), MAX_WIFI_CFG_BLOB)

ReadNetwork(c) == Grouped(Text(Text(c, 1), 1), 2)

deserialize_wifi_config(data) ==
  Outcome(Repeated(RawSized(Text(Versioned(data), 2), 1), 1, ReadNetwork))

-----------------------------------------------------------------------------
(* The onboarding protocol. Numbers are big-endian.                         *)

Name == 32
Passphrase == 63
Security == 1 .. 3          \* Wpa2Psk, Wpa3Sae, Wpa2Enterprise

write_len_prefixed_str(s, max) == IF Len(s) > max THEN Refused ELSE Sized(s, 1)

\* <<name, mac, pubkey, nonce, timestamp>>
WriteJoinRequest(x) ==
  Joined(<<<<Version>>, write_len_prefixed_str(x[1], Name), x[2], x[3], x[4], Big(x[5], 4)>>)

ReadTimestamp(c) ==
  LET b == Raw(c, 4)
  IN IF b.ok THEN Put(Dropped(b), FoldLeft(LAMBDA n, d : 256 * n + d, 0, Got(b))) ELSE b

ReadJoinRequest(data) ==
  Outcome(ReadTimestamp(Raw(Raw(Raw(Text(Versioned(data), 1), 6), 32), 8)))

\* <<ssid, security type, credential>>
WriteCredentials(x) ==
  Joined(<<write_len_prefixed_str(x[1], Name), <<x[2]>>, write_len_prefixed_str(x[3], Passphrase)>>)

ReadCredentials(data) ==
  Outcome(Text(Demanded(Unsigned(Text(Cursor(data), 1), 1), Security), 1))

\* <<nonce, status, ciphertext>>
WriteJoinResponse(x) == <<Version>> \o x[1] \o <<x[2]>> \o x[3]

ReadJoinResponse(data) ==
  LET head == Unsigned(Raw(Versioned(data), 8), 1)
  IN Outcome(IF head.ok THEN Raw(head, Len(data) - head.pos) ELSE head)
=============================================================================
