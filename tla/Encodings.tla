----------------------------- MODULE Encodings -----------------------------
(***************************************************************************)
(* The other formats in which bytes travel: hex and base64 texts of        *)
(* peripherals (src/gpio/encoding.rs), the provisioning form               *)
(* (src/captive_portal.rs) and the DNS queries of the captive portal       *)
(* (src/dns.rs). The form's body is a sequence of <<key, text>>; the       *)
(* browser and the resolver are the other sides of the last two.           *)
(***************************************************************************)
EXTENDS JsonLexer, FiniteSets

CONSTANTS MAX_WIFI_APS, ApIp

Pairs(s) == [i \in 1 .. Len(s) \div 2 |-> SubSeq(s, 2 * i - 1, 2 * i)]

\* u8::from_str_radix allows a sign.
FromHex(pair) ==
  IF pair[1] = 43 THEN HexValue(pair[2]) ELSE FoldLeft(HexFold, 0, pair)

-----------------------------------------------------------------------------
(* Hex and base64. A pair of decode_hex that splits a character is a panic. *)

Panics == [panics |-> TRUE]

encode_hex(data) == FlattenSeq([i \in DOMAIN data |-> <<HexDigit(data[i] \div 16), HexDigit(data[i] % 16)>>])

decode_hex(s) ==
  LET pairs == Pairs(s)
      wrong == {i \in DOMAIN pairs : FromHex(pairs[i]) = -1}
      first == CHOOSE i \in wrong : \A j \in wrong : i <= j
  IN IF Len(s) % 2 # 0 THEN Refused
     ELSE IF wrong = {} THEN Parsed([i \in DOMAIN pairs |-> FromHex(pairs[i])])
     ELSE IF ~IsUtf8(pairs[first]) THEN Panics
     ELSE Refused

Base64Char(n) ==
  IF n < 26 THEN 65 + n ELSE IF n < 52 THEN 71 + n ELSE IF n < 62 THEN n - 4
  ELSE IF n = 62 THEN 43 ELSE 47

Pad == 61

Chunk64(chunk) ==
  LET byte(i) == IF i <= Len(chunk) THEN chunk[i] ELSE 0
      triple == 65536 * byte(1) + 256 * byte(2) + byte(3)
      char(i) == Base64Char((triple \div 64 ^ (4 - i)) % 64)
  IN <<char(1), char(2), IF Len(chunk) > 1 THEN char(3) ELSE Pad,
       IF Len(chunk) > 2 THEN char(4) ELSE Pad>>

encode_base64(data) ==
  FlattenSeq([i \in 1 .. (Len(data) + 2) \div 3 |->
    Chunk64(SubSeq(data, 3 * i - 2, IF 3 * i > Len(data) THEN Len(data) ELSE 3 * i))])

Value64(c) == CHOOSE n \in -1 .. 63 : IF n = -1 THEN \A k \in 0 .. 63 : Base64Char(k) # c ELSE Base64Char(n) = c

\* buf holds the bits, fewer than eight, that make no byte yet.
Step64(acc, c) ==
  LET bits == acc.bits + 6
      buf == 64 * acc.buf + Value64(c)
      left == 2 ^ (bits - 8)
  IN IF acc = Refused \/ c \in {10, 13, 32} THEN acc
     ELSE IF Value64(c) = -1 THEN Refused
     ELSE IF bits < 8 THEN [acc EXCEPT !.buf = buf, !.bits = bits]
     ELSE [bytes |-> Append(acc.bytes, buf \div left), buf |-> buf % left, bits |-> bits - 8]

decode_base64(s) ==
  LET padding == {i \in DOMAIN s : \A j \in i .. Len(s) : s[j] = Pad}
      end == FoldLeft(Step64, [bytes |-> <<>>, buf |-> 0, bits |-> 0],
                      SubSeq(s, 1, Len(s) - Cardinality(padding)))
  IN IF end = Refused THEN Refused ELSE Parsed(end.bytes)

-----------------------------------------------------------------------------
(* The provisioning form.                                                   *)

Percent == 37
Plus == 43
Space == 32

RECURSIVE Decoded(_, _, _)
Decoded(s, i, out) ==
  IF i > Len(s) THEN IF IsUtf8(out) THEN out ELSE Refused
  ELSE IF s[i] = Plus THEN Decoded(s, i + 1, Append(out, Space))
  ELSE IF s[i] # Percent THEN Decoded(s, i + 1, Append(out, s[i]))
  ELSE IF i + 2 > Len(s) \/ FromHex(SubSeq(s, i + 1, i + 2)) = -1 THEN Refused
  ELSE Decoded(s, i + 3, Append(out, FromHex(SubSeq(s, i + 1, i + 2))))

url_decode(s) == Decoded(s, 1, <<>>)

\* The last of several fields of one name counts, an empty one for the first
\* two of these not at all; of several passwords of a row the first counts.
FieldOf(fields, key, ignored) ==
  LET those == SelectSeq(fields, LAMBDA f : f[1] = key /\ f[2] \notin ignored)
  IN IF those = <<>> THEN <<>> ELSE <<Last(those)[2]>>

Credentials(fields) ==
  LET named == SelectSeq(fields, LAMBDA f : f[1][1] = "ssid" /\ f[1][2] < MAX_WIFI_APS /\ f[2] # <<>>)
      passwords(row) == SelectSeq(fields, LAMBDA f : f[1] = <<"password", row>>)
      password(row) == IF passwords(row) = <<>> THEN <<>> ELSE passwords(row)[1][2]
  IN [i \in DOMAIN named |-> <<named[i][2], password(named[i][1][2])>>]

ApiKeyAction(fields) ==
  LET action == FieldOf(fields, <<"api_key_action">>, {})
      key == FieldOf(fields, <<"api_key">>, {<<>>})
  IN IF action = <<<<"generate">>>> THEN <<"Generate">>
     ELSE IF action = <<<<"set">>>> /\ key # <<>> THEN <<"Set", key[1]>>
     ELSE <<"Keep">>

parse_provision_form(body, first) ==
  LET plain(f) == IF f[1] = <<"api_key_action">> THEN f[2] ELSE url_decode(f[2])
      fields == [i \in DOMAIN body |-> <<body[i][1], plain(body[i])>>]
  IN IF \/ \E i \in DOMAIN fields : fields[i][2] = Refused
        \/ Credentials(fields) = <<>>
        \/ first /\ ApiKeyAction(fields) = <<"Keep">>
     THEN Refused
     ELSE Parsed(<<Credentials(fields), FieldOf(fields, <<"hostname">>, {<<>>}), ApiKeyAction(fields)>>)

\* What a browser makes of the text of a field.
UrlEncoded(text) ==
  FlattenSeq([i \in DOMAIN text |->
    IF text[i] = Space THEN <<Plus>>
    ELSE IF text[i] \in Digit \cup (65 .. 90) \cup (97 .. 122) THEN <<text[i]>>
    ELSE <<Percent, HexDigit(text[i] \div 16), HexDigit(text[i] % 16)>>])

-----------------------------------------------------------------------------
(* DNS. A query is bytes; None is no answer.                                *)

HeaderLen == 12
TypeA == 1

RECURSIVE EndOfName(_, _)
EndOfName(data, i) ==
  IF i > Len(data) THEN Len(data) + 1
  ELSE IF data[i] = 0 THEN i + 1
  ELSE IF data[i] >= 192 THEN i + 2
  ELSE EndOfName(data, i + 1 + data[i])

\* Where the question ends: after the name, its type and its class.
skip_question(query) == EndOfName(query, HeaderLen + 1) + 4 - 1

build_response(query, ip) ==
  LET end == skip_question(query)
      question == SubSeq(query, HeaderLen + 1, end)
      qtype == 256 * query[end - 3] + query[end - 2]
      count == IF qtype = TypeA THEN 1 ELSE 0
      answer == <<192, HeaderLen, 0, TypeA, 0, 1, 0, 0, 0, 60, 0, 4>> \o ip
  IN IF Len(query) < HeaderLen \/ end > Len(query) THEN Refused
     ELSE <<query[1], query[2], 133, 128, 0, 1, 0, count, 0, 0, 0, 0>> \o question
            \o IF count = 1 THEN answer ELSE <<>>

\* What a resolver asks, [id, labels, type], and what it takes from an answer.
WriteQuery(q) ==
  Big(q.id, 2) \o <<1, 0, 0, 1, 0, 0, 0, 0, 0, 0>>
    \o FlattenSeq([i \in DOMAIN q.labels |-> Sized(q.labels[i], 1)]) \o <<0>>
    \o Big(q.type, 2) \o <<0, 1>>

RECURSIVE Labels(_, _)
Labels(m, i) ==
  IF m[i] = 0 THEN <<>>
  ELSE IF m[i] >= 192 THEN Labels(m, (m[i] - 192) * 256 + m[i + 1] + 1)
  ELSE <<SubSeq(m, i + 1, i + m[i])>> \o Labels(m, i + 1 + m[i])

ReadResponse(m) ==
  LET end == skip_question(m)
      number(i) == 256 * m[i] + m[i + 1]
  IN [id |-> number(1), labels |-> Labels(m, HeaderLen + 1), type |-> number(end - 3),
      answers |-> IF number(7) = 0 THEN <<>>
                  ELSE <<<<Labels(m, end + 1), number(end + 3), SubSeq(m, end + 13, end + 16)>>>>,
      length |-> Len(m)]
=============================================================================
