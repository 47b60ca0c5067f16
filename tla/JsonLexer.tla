----------------------------- MODULE JsonLexer -----------------------------
(***************************************************************************)
(* The scanner of src/json/lexer.rs and the text that src/json/serializer  *)
(* .rs writes for strings and numbers, byte by byte. A token is its kind   *)
(* and what it carries; places in the text count from 1. A float keeps its *)
(* text: what f64::from_str makes of it is the standard library's.         *)
(***************************************************************************)
EXTENDS Blobs

Quote == 34
Minus == 45
Dot == 46
Slash == 47
Zero == 48
Backslash == 92
Digit == 48 .. 57
Blank == {9, 10, 13, 32}
LetterU == 117

EndOfText == -1
ByteAt(in, i) == IF i <= Len(in) THEN in[i] ELSE EndOfText

\* The first place from i on whose byte is not of the class.
After(in, i, class) ==
  CHOOSE j \in i .. Len(in) + 1 :
    ByteAt(in, j) \notin class /\ \A k \in i .. j - 1 : in[k] \in class

Bad == [bad |-> TRUE]
Scanned(token, next) == [token |-> token, next |-> next]

-----------------------------------------------------------------------------
(* Strings. What an escape or a character stands for is [bytes, next].      *)

Standing(bytes, next) == [bytes |-> bytes, next |-> next]

ShortEscape ==
  [b \in {34, 47, 92} |-> b]
    @@ 98 :> 8 @@ 102 :> 12 @@ 110 :> 10 @@ 114 :> 13 @@ 116 :> 9

HexValue(b) ==
  CASE b \in Digit -> b - 48
    [] b \in 97 .. 102 -> b - 87
    [] b \in 65 .. 70 -> b - 55
    [] OTHER -> -1

HexFold(n, b) == IF n = -1 \/ HexValue(b) = -1 THEN -1 ELSE 16 * n + HexValue(b)

scan_hex4(in, i) ==
  IF i + 3 > Len(in) THEN -1 ELSE FoldLeft(HexFold, 0, SubSeq(in, i, i + 3))

HighSurrogate == 55296 .. 56319
LowSurrogate == 56320 .. 57343

Trail(cp, unit) == 128 + ((cp \div unit) % 64)

Encoded(cp) ==
  IF cp < 128 THEN <<cp>>
  ELSE IF cp < 2048 THEN <<192 + cp \div 64, Trail(cp, 1)>>
  ELSE IF cp < 65536 THEN <<224 + cp \div 4096, Trail(cp, 64), Trail(cp, 1)>>
  ELSE <<240 + cp \div 262144, Trail(cp, 4096), Trail(cp, 64), Trail(cp, 1)>>

Pair(high, low) == 65536 + (high - 55296) * 1024 + (low - 56320)

UnicodeEscape(in, i) ==
  LET cp == scan_hex4(in, i)
      low == scan_hex4(in, i + 6)
  IN IF cp = -1 \/ cp \in LowSurrogate THEN Bad
     ELSE IF cp \notin HighSurrogate THEN Standing(Encoded(cp), i + 4)
     ELSE IF ByteAt(in, i + 4) = Backslash /\ ByteAt(in, i + 5) = LetterU /\ low \in LowSurrogate
     THEN Standing(Encoded(Pair(cp, low)), i + 10)
     ELSE Bad

scan_escape(in, i) ==
  LET b == ByteAt(in, i)
  IN IF b \in DOMAIN ShortEscape THEN Standing(<<ShortEscape[b]>>, i + 1)
     ELSE IF b = LetterU THEN UnicodeEscape(in, i + 1)
     ELSE Bad

utf8_char_len(b) ==
  CASE b < 128 -> 1
    [] b \in 192 .. 223 -> 2
    [] b \in 224 .. 239 -> 3
    [] b \in 240 .. 247 -> 4
    [] OTHER -> 0

scan_utf8_char(in, i) ==
  LET n == utf8_char_len(in[i])
      char == SubSeq(in, i, i + n - 1)
  IN IF n = 0 \/ i + n - 1 > Len(in) THEN Bad
     ELSE IF IsUtf8(char) THEN Standing(char, i + n) ELSE Bad

RECURSIVE Characters(_, _, _)
Characters(in, i, s) ==
  LET b == ByteAt(in, i)
      char == IF b = Backslash THEN scan_escape(in, i + 1) ELSE scan_utf8_char(in, i)
  IN IF b = Quote THEN Scanned(<<"string", s>>, i + 1)
     ELSE IF b < 32 \/ char = Bad THEN Bad
     ELSE Characters(in, char.next, s \o char.bytes)

-----------------------------------------------------------------------------
(* Numbers and literals.                                                    *)

\* Decimal texts of the same length compare as numbers do.
AtMost(digits, limit) ==
  \/ Len(digits) < Len(limit)
  \/ /\ Len(digits) = Len(limit)
     /\ \/ digits = limit
        \/ \E k \in DOMAIN digits :
             digits[k] < limit[k] /\ \A j \in 1 .. k - 1 : digits[j] = limit[j]

I64Max == <<57, 50, 50, 51, 51, 55, 50, 48, 51, 54, 56, 53, 52, 55, 55, 53, 56, 48, 55>>
I64Min == [I64Max EXCEPT ![19] = 56]

IsI64(text) ==
  IF text[1] = Minus THEN AtMost(Tail(text), I64Min) ELSE AtMost(text, I64Max)

Starts(in, i, class) == ByteAt(in, i) \in class

\* Mutant: the digits after a point may be missing.
MalformedNoFraction(in, first, whole, fraction, power, end) ==
  \/ whole = first
  \/ in[first] = Zero /\ whole > first + 1
  \/ end > fraction /\ end = power

\* The digits of a part are missing, or the first is a zero too many.
Malformed(in, first, whole, fraction, power, end) ==
  \/ whole = first
  \/ in[first] = Zero /\ whole > first + 1
  \/ fraction = whole + 1
  \/ end > fraction /\ end = power

scan_number(in, start) ==
  LET first == IF in[start] = Minus THEN start + 1 ELSE start
      whole == After(in, first, Digit)
      fraction == IF Starts(in, whole, {Dot}) THEN After(in, whole + 1, Digit) ELSE whole
      power == IF Starts(in, fraction + 1, {43, Minus}) THEN fraction + 2 ELSE fraction + 1
      end == IF Starts(in, fraction, {69, 101}) THEN After(in, power, Digit) ELSE fraction
      text == SubSeq(in, start, end - 1)
  IN IF Malformed(in, first, whole, fraction, power, end) THEN Bad
     ELSE Scanned(<<IF end = whole /\ IsI64(text) THEN "int" ELSE "float", text>>, end)

expect_literal(in, i, literal, token) ==
  IF SubSeq(in, i, IF i + Len(literal) - 1 > Len(in) THEN Len(in) ELSE i + Len(literal) - 1) = literal
  THEN Scanned(token, i + Len(literal))
  ELSE Bad

True == <<116, 114, 117, 101>>
False == <<102, 97, 108, 115, 101>>
NullText == <<110, 117, 108, 108>>

-----------------------------------------------------------------------------
Punctuation ==
  123 :> "{" @@ 125 :> "}" @@ 91 :> "[" @@ 93 :> "]" @@ 58 :> ":" @@ 44 :> ","

scan_token(in, from) ==
  LET i == After(in, from, Blank)
      b == ByteAt(in, i)
  IN CASE b = EndOfText -> Scanned(<<"end">>, i)
       [] b \in DOMAIN Punctuation -> Scanned(<<Punctuation[b]>>, i + 1)
       [] b = Quote -> Characters(in, i + 1, <<>>)
       [] b = 116 -> expect_literal(in, i, True, <<"bool", TRUE>>)
       [] b = 102 -> expect_literal(in, i, False, <<"bool", FALSE>>)
       [] b = 110 -> expect_literal(in, i, NullText, <<"null">>)
       [] b \in Digit \cup {Minus} -> scan_number(in, i)
       [] OTHER -> Bad

RECURSIVE TokensFrom(_, _, _)
TokensFrom(in, i, tokens) ==
  LET t == scan_token(in, i)
  IN IF t = Bad THEN Refused
     ELSE IF t.token = <<"end">> THEN Parsed(tokens)
     ELSE TokensFrom(in, t.next, Append(tokens, t.token))

\* next_token until there is none left.
Tokenized(in) == TokensFrom(in, 1, <<>>)

-----------------------------------------------------------------------------
(* The serializer's text.                                                   *)

HexDigit(n) == IF n < 10 THEN 48 + n ELSE 87 + n

LongEscape(b) == <<Backslash, LetterU, Zero, Zero, HexDigit(b \div 16), HexDigit(b % 16)>>

EscapedByte(b) ==
  IF b # Slash /\ b \in {ShortEscape[e] : e \in DOMAIN ShortEscape}
  THEN <<Backslash, CHOOSE e \in DOMAIN ShortEscape : ShortEscape[e] = b>>
  ELSE IF b < 32 THEN LongEscape(b)
  ELSE <<b>>

write_escaped_str(s) == <<Quote>> \o FlattenSeq([i \in DOMAIN s |-> EscapedByte(s[i])]) \o <<Quote>>

write_u64(n) ==
  LET size == CHOOSE k \in 1 .. 9 : n < 10 ^ k /\ (k = 1 \/ n >= 10 ^ (k - 1))
  IN [i \in 1 .. size |-> Zero + ((n \div 10 ^ (size - i)) % 10)]

write_i64(n) == IF n < 0 THEN <<Minus>> \o write_u64(-n) ELSE write_u64(n)
=============================================================================
