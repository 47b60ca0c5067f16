------------------------------ MODULE MCFormats ------------------------------
(***************************************************************************)
(* Everything that one side writes and another reads: what is read is what *)
(* was meant, and what arrives cut short is not taken for something else.  *)
(***************************************************************************)
EXTENDS Encodings, MCMessages

CONSTANT None

VARIABLES
  kind,       \* the format
  medium,     \* what is stored, or under way: bytes, a form's body, or None
  meant,      \* what its reader should get out of it
  whole,      \* whether it is all there
  got         \* what the reader got, or None

vars == <<kind, medium, meant, whole, got>>

PortalIp == <<192, 168, 4, 1>>

\* How other writers of JSON escape a character.
Unit(n) == <<Backslash, LetterU>> \o [i \in 1 .. 4 |-> HexDigit((n \div 16 ^ (4 - i)) % 16)]
Escaped(cp) ==
  IF cp < 65536 THEN Unit(cp)
  ELSE Unit(55296 + (cp - 65536) \div 1024) \o Unit(56320 + ((cp - 65536) % 1024))

Write(x) ==
  CASE kind = "saved items" -> serialize_saved_items(x)
    [] kind = "wifi config" -> serialize_wifi_config(x)
    [] kind = "join request" -> WriteJoinRequest(x)
    [] kind = "credentials" -> WriteCredentials(x)
    [] kind = "join response" -> WriteJoinResponse(x)
    [] kind = "string" -> write_escaped_str(x)
    [] kind = "number" -> write_i64(x)
    [] kind = "hex" -> encode_hex(x)
    [] kind = "base64" -> encode_base64(x)
    [] kind = "form" -> x.body
    [] kind = "dns" -> WriteQuery(x)
    [] kind = "escape" -> <<Quote>> \o Escaped(x) \o <<Quote>>
    [] kind = "text" -> x
    [] kind = "message" -> Render(x)

Received ==
  CASE kind = "saved items" -> deserialize_saved_items(medium)
    [] kind = "wifi config" -> deserialize_wifi_config(medium)
    [] kind = "join request" -> ReadJoinRequest(medium)
    [] kind = "credentials" -> ReadCredentials(medium)
    [] kind = "join response" -> ReadJoinResponse(medium)
    [] kind \in {"string", "number", "escape", "text"} -> Tokenized(medium)
    [] kind = "hex" -> decode_hex(medium)
    [] kind = "base64" -> decode_base64(medium)
    [] kind = "form" -> parse_provision_form(medium, TRUE)
    [] kind \in {"message", "serialized"} -> Understood(medium)
    [] kind = "dns" ->
         LET m == build_response(medium, ApIp) IN IF m = Refused THEN Refused ELSE Parsed(ReadResponse(m))

\* What a number's text should be.
RECURSIVE Decimal(_)
Decimal(n) ==
  IF n < 0 THEN <<Minus>> \o Decimal(-n)
  ELSE IF n < 10 THEN <<48 + n>>
  ELSE Append(Decimal(n \div 10), 48 + (n % 10))

\* The tokens of a text by RFC 8259: a text is cut into lexemes, and a number
\* goes on as long as it can.
Chars(t, from, to, class) == \A i \in from .. to : t[i] \in class
Some(t, from, to, class) == from <= to /\ Chars(t, from, to, class)

IsNumber(t) ==
  \E m \in 0 .. 1, i \in 1 .. Len(t), j \in 1 .. Len(t) :
    /\ m < i /\ i <= j
    /\ Chars(t, 1, m, {Minus})
    /\ Some(t, m + 1, i, Digit) /\ (t[m + 1] = Zero => i = m + 1)
    /\ \/ j = i
       \/ t[i + 1] = Dot /\ Some(t, i + 2, j, Digit)
    /\ \/ j = Len(t)
       \/ t[j + 1] \in {69, 101} /\ Some(t, j + 2, Len(t), Digit)
       \/ /\ j + 2 < Len(t)
          /\ t[j + 1] \in {69, 101} /\ t[j + 2] \in {43, Minus}
          /\ Some(t, j + 3, Len(t), Digit)

\* What the inside of a string stands for, in every way it can be read.
RECURSIVE Inside(_, _)
Inside(t, i) ==
  IF i > Len(t) THEN {<<>>}
  ELSE LET plain(n) == LET c == SubSeq(t, i, i + n - 1)
                       IN IF i + n - 1 <= Len(t) /\ IsUtf8(c) /\ \A k \in 1 .. n - 1 : ~IsUtf8(SubSeq(c, 1, k))
                          THEN {c \o r : r \in Inside(t, i + n)} ELSE {}
           escapes == {e \in DOMAIN ShortEscape : i < Len(t) /\ t[i + 1] = e}
       IN IF t[i] = Backslash THEN UNION {{<<ShortEscape[e]>> \o r : r \in Inside(t, i + 2)} : e \in escapes}
          ELSE IF t[i] < 32 \/ t[i] = Quote THEN {}
          ELSE UNION {plain(n) : n \in 1 .. 4}

LexemeOf(t) ==
  CASE Chars(t, 1, Len(t), Blank) -> {<<>>}
    [] t \in {True, False} -> {<<<<"bool", t = True>>>>}
    [] t = NullText -> {<<<<"null">>>>}
    [] Len(t) = 1 /\ t[1] \in DOMAIN Punctuation -> {<<<<Punctuation[t[1]]>>>>}
    [] IsNumber(t) -> {<<<<IF Chars(t, 1, Len(t), Digit \cup {Minus}) THEN "int" ELSE "float", t>>>>}
    [] Len(t) > 1 /\ t[1] = Quote /\ t[Len(t)] = Quote ->
         {<<<<"string", s>>>> : s \in Inside(SubSeq(t, 1, Len(t) - 1), 2)}
    [] OTHER -> {}

Ends(t, i, j) ==
  j < Len(t) =>
    /\ t[j + 1] \in Blank => ~Chars(t, i, j, Blank)
    /\ IsNumber(SubSeq(t, i, j)) => t[j + 1] \notin Digit \cup {Dot, 69, 101}

RECURSIVE ReadingsFrom(_, _)
ReadingsFrom(t, i) ==
  IF i > Len(t) THEN {<<>>}
  ELSE UNION {{m \o r : m \in LexemeOf(SubSeq(t, i, j)), r \in ReadingsFrom(t, j + 1)} :
                j \in {k \in i .. Len(t) : Ends(t, i, k)}}

Readings(t) == LET all == ReadingsFrom(t, 1) IN IF all = {} THEN Refused ELSE CHOOSE r \in all : TRUE

Answered(q) ==
  [id |-> q.id, labels |-> q.labels, type |-> q.type,
   answers |-> IF q.type = TypeA THEN <<<<q.labels, TypeA, ApIp>>>> ELSE <<>>,
   length |-> Len(WriteQuery(q)) + (IF q.type = TypeA THEN 16 ELSE 0)]

Meant(x) ==
  CASE kind \in {"hex", "base64"} -> x
    [] kind = "saved items" -> <<x>>
    [] kind = "string" -> <<<<"string", x>>>>
    [] kind = "number" -> <<<<"int", Decimal(x)>>>>
    [] kind = "escape" -> IF x \in LowSurrogate \cup HighSurrogate THEN Refused ELSE <<<<"string", Encoded(x)>>>>
    [] kind = "text" -> Readings(x)
    [] kind = "form" -> x.meant
    [] kind = "dns" -> Answered(x)
    [] kind = "message" -> Meaning(x)
    [] OTHER -> x

-----------------------------------------------------------------------------
(* What there is to write.                                                  *)

Letters(n) == [i \in 1 .. n |-> 97]
AUmlaut == <<195, 164>>
Fill(n) == [i \in 1 .. n |-> (37 * i) % 256]

Omi == {<<"null">>, <<"false">>, <<"true">>, <<"number", Fill(8)>>,
        <<"str", <<>>>>, <<"str", Letters(256)>>, <<"str", AUmlaut>>}
Items == {<<Letters(n), v, t>> : n \in {0, 3, 256}, v \in Omi, t \in {<<>>, <<Fill(8)>>}}

\* One item, and seven bytes besides its path.
AtLimit(n) == <<<<Letters(n), <<"null">>, <<>>>>>>

Networks == {<<Letters(n), Letters(p)>> : n \in {0, 1, 32, 255, 256}, p \in {0, 255, 256}}
Configs ==
  {<<h, k, s>> : h \in {<<>>, AUmlaut}, k \in {<<>>, Fill(32)},
                 s \in {<<>>} \cup {<<a>> : a \in Networks} \cup {<<a, <<AUmlaut, Letters(8)>>>> : a \in Networks}}

Strings ==
  {<<b>> : b \in 0 .. 127}
    \cup {<<a, b>> : a \in {34, 47, 92, 110, 117, 10, 31}, b \in {34, 92, 48, 117}}
    \cup {Letters(1) \o Encoded(cp) \o Letters(1) : cp \in {128, 2047, 2048, 55295, 57344, 65535, 65536, 1114111}}

Numbers == {n * 10 ^ k + d : n \in {-1, 1, 21}, k \in 0 .. 7, d \in {-1, 0, 1}}

Data == {Fill(n) : n \in 0 .. 8} \cup {[i \in 1 .. n |-> b] : n \in 1 .. 4, b \in {0, 255}}

JoinRequests == {<<Letters(n), Fill(6), Fill(32), Fill(8), t>> : n \in {0, 1, 32, 33}, t \in {0, 2 ^ 30 + 258}}
CredentialSets == {<<Letters(n), s, Letters(p)>> : n \in {0, 32, 33}, s \in Security, p \in {0, 63, 64}}
JoinResponses == {<<Fill(8), s, Fill(n)>> : s \in 0 .. 1, n \in {0, 1, 97}}

Queries == [id : {1, 513, 65535}, type : {TypeA, 28, 257},
            labels : {<<>>, <<Letters(3)>>, <<Letters(63), Letters(1)>>}]

\* A form as the page sends it: a row is an SSID and a password.
FormField(key, text) == <<key, UrlEncoded(text)>>

FormOf(rows, host, action, key) ==
  LET all == 0 .. Len(rows) - 1
      filled == SelectSeq(rows, LAMBDA r : r[1] # <<>>)
      wanted == IF action = "generate" THEN <<"Generate">>
                ELSE IF action = "set" /\ key # <<>> THEN <<"Set", key>> ELSE <<"Keep">>
  IN [body |-> FlattenSeq([i \in DOMAIN rows |->
                 <<FormField(<<"ssid", i - 1>>, rows[i][1]), FormField(<<"password", i - 1>>, rows[i][2])>>])
               \o <<FormField(<<"hostname">>, host), <<<<"api_key_action">>, <<action>>>>, FormField(<<"api_key">>, key)>>,
      meant |-> IF filled = <<>> \/ wanted = <<"Keep">> THEN Refused
                ELSE <<filled, IF host = <<>> THEN <<>> ELSE <<host>>, wanted>>]

Entry == {<<>>, <<97>>, <<32, 38, 43, 37, 61>>, AUmlaut}
Forms ==
  {FormOf(<<<<a, b>>, <<c, <<98>>>>>>, h, action, k) :
     a \in Entry, b \in Entry, c \in Entry, h \in {<<>>, <<99>>},
     action \in {"keep", "generate", "set"}, k \in {<<>>, <<43>>}}

\* Texts of any pieces, longer ones of those of numbers and of strings.
Piece == {<<34>>, <<92>>, <<110>>, <<48>>, <<49>>, <<45>>, <<46>>, <<101>>, <<32>>, <<123>>, <<7>>,
          AUmlaut, <<195>>, True, NullText}
Pieced(pieces, sizes) == {FlattenSeq(p) : p \in UNION {[1 .. n -> pieces] : n \in sizes}}
Texts ==
  Pieced(Piece, 0 .. 3) \cup Pieced({<<48>>, <<49>>, <<45>>, <<46>>, <<69>>, <<43>>}, {4, 5})
    \cup Pieced({<<34>>, <<92>>, <<110>>, AUmlaut, <<32>>}, {4, 5})

Subjects(k) ==
  CASE k = "saved items" ->
         {<<>>} \cup {<<a>> : a \in Items} \cup {<<a, b>> : a \in Items, b \in {<<AUmlaut, <<"true">>, <<>>>>}}
           \cup {AtLimit(n) : n \in {3993, 3994}}
    [] k = "wifi config" -> Configs
    [] k = "join request" -> JoinRequests
    [] k = "credentials" -> CredentialSets
    [] k = "join response" -> JoinResponses
    [] k = "string" -> Strings
    [] k = "number" -> Numbers
    [] k \in {"hex", "base64"} -> Data
    [] k = "form" -> Forms
    [] k = "dns" -> Queries
    [] k = "escape" -> {65, 228, 8364, 55295, 55296, 57343, 57344, 65535, 65536, 128512, 1114111}
    [] k = "text" -> Texts
    [] k = "message" -> Documents

-----------------------------------------------------------------------------
Formats == {"saved items", "wifi config", "join request", "credentials", "join response", "string",
          "number", "hex", "base64", "form", "dns", "escape", "text", "message"}

Init ==
  /\ kind \in Formats
  /\ medium = None /\ meant = None /\ whole = TRUE /\ got = None

Store ==
  /\ medium = None
  /\ \E x \in Subjects(kind) :
       LET written == Write(x)
       IN /\ written # Refused
          /\ medium' = written /\ meant' = Meant(x)
  /\ UNCHANGED <<kind, whole, got>>

\* An empty text is no string, but it is no error for the scanner either.
Cuts(n) ==
  (IF n <= 120 THEN 0 .. n - 1 ELSE {0, 1, 2, n \div 2, n - 10, n - 9, n - 8, n - 1})
    \ (IF kind \in {"string", "escape"} THEN {0} ELSE {})

Cut ==
  /\ medium # None /\ whole /\ got = None /\ kind \notin {"form", "text", "number", "message", "serialized"}
  /\ \E n \in Cuts(Len(medium)) : medium' = SubSeq(medium, 1, n)
  /\ whole' = FALSE
  /\ UNCHANGED <<kind, meant, got>>

Receive ==
  /\ medium # None /\ got = None
  /\ got' = Received
  /\ UNCHANGED <<kind, medium, meant, whole>>

\* What was understood of a message is serialized in its turn.
Reserialize ==
  /\ kind = "message" /\ got \notin {None, {}}
  /\ kind' = "serialized" /\ meant' = got /\ got' = None
  /\ medium' = Written((CHOOSE m \in got : TRUE).v)
  /\ UNCHANGED whole

Next == Store \/ Cut \/ Receive \/ Reserialize

Spec == Init /\ [][Next]_vars

-----------------------------------------------------------------------------
AsMeant == got = IF kind \in {"message", "serialized"} \/ meant = Refused THEN meant ELSE Parsed(meant)

\* Objects with an item, at any depth, that has no values.
RECURSIVE SomeEmpty(_)
SomeEmpty(objects) ==
  \E name \in DOMAIN objects :
    LET object == objects[name]
    IN \/ Has(object, {"items"}) /\ \E i \in DOMAIN object.items : object.items[i].values = <<>>
       \/ Has(object, {"objects"}) /\ SomeEmpty(object.objects)

HasEmptyItem(message) ==
  Has(message, {"write"}) /\ Has(message.write, {"objects"}) /\ SomeEmpty(message.write.objects)

\* What is read from a blob, form, query or string that arrived as it was written
\* is what was written, at every length a field may have. A message survives being
\* serialized and parsed, without loss or another order, but for one that has an
\* item without values: the serializer leaves out its "values" (serializer.rs:343),
\* without which the parser refuses the item (parser.rs:431), though SC-004 of
\* specs/007-lite-json-parser (spec.md:118) has all valid messages survive.
RoundTrips ==
  got # None /\ whole /\ kind \notin {"text", "message"} =>
    IF kind = "serialized" /\ \E m \in meant : HasEmptyItem(m.v) THEN got = {} ELSE AsMeant

\* A blob, message, query or string that ends too early is refused, wherever it
\* ends, and never read as a shorter one.
CutsRefused ==
  got # None /\ ~whole /\ kind \notin {"join response", "hex", "base64"} => got = Refused

\* The scanner finds the tokens of a text, or refuses it, as RFC 8259 has it, and
\* the parser accepts a document exactly when it has a meaning, and finds that
\* meaning: numbers, escapes and surrogate pairs, brackets, commas, repeated and
\* unknown keys, skipped parts and the nesting limit are all read right, at any
\* depth (the lexer, and parse_omi_message on top of it).
ReadersAgree == got # None /\ kind \in {"text", "message"} => AsMeant
=============================================================================
