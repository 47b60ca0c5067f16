----------------------------- MODULE GzipFormat -----------------------------
(***************************************************************************)
(* The gzip format over a whole stream: where each of its fields ends and   *)
(* what makes it sound. The decoder of GzipStream, which is handed the      *)
(* stream in pieces and keeps none of it, has to agree with this after     *)
(* every one of them.                                                      *)
(*                                                                         *)
(* A field that never ends, for its terminator is missing, ends past the   *)
(* stream, and so do all that should follow it.                            *)
(***************************************************************************)
EXTENDS GzipStream

IsGzipStream(s) == Len(s) >= 2 /\ SubSeq(s, 1, 2) = GzipMagic

Byte(s, i) == IF i <= Len(s) THEN s[i] ELSE 0

Has(s, field) == Announces(Byte(s, 4), field)

\* The first byte behind the n-th that is in B.
FirstAfter(s, n, B) == Min({i \in n + 1 .. Len(s) : s[i] \in B} \cup {Len(s) + 1})

HeaderEnd == 10
ExtraLenEnd(s) == IF Has(s, "extraLen") THEN 12 ELSE 10
ExtraDataEnd(s) == IF Has(s, "extraLen") THEN 12 + Byte(s, 11) + 256 * Byte(s, 12) ELSE 10
NameEnd(s) ==
  IF Has(s, "name") THEN FirstAfter(s, ExtraDataEnd(s), {0}) ELSE ExtraDataEnd(s)
CommentEnd(s) == IF Has(s, "comment") THEN FirstAfter(s, NameEnd(s), {0}) ELSE NameEnd(s)
HeaderCrcEnd(s) == IF Has(s, "headerCrc") THEN CommentEnd(s) + 2 ELSE CommentEnd(s)
DataEnd(s) == FirstAfter(s, HeaderCrcEnd(s), {EndOfData, Garbled})
TrailerEnd(s) == DataEnd(s) + 8

Fields ==
  <<"header", "extraLen", "extraData", "name", "comment", "headerCrc", "deflate", "trailer">>

\* The field that byte n + 1 belongs to.
PhaseAt(s, n) ==
  LET ends == <<HeaderEnd, ExtraLenEnd(s), ExtraDataEnd(s), NameEnd(s), CommentEnd(s),
                HeaderCrcEnd(s), DataEnd(s), TrailerEnd(s)>>
      open == {i \in 1 .. 8 : n < ends[i]}
  IN IF open = {} THEN "done" ELSE Fields[Min(open)]

\* What the compressed data among the first n bytes come to.
Inflated(s, n) ==
  LET data == IF n < DataEnd(s) THEN n ELSE DataEnd(s) - 1
  IN IF data <= HeaderCrcEnd(s) THEN 0 ELSE Ratio * (data - HeaderCrcEnd(s))

DecodedSize(s) == Inflated(s, Len(s))

Sound(s) ==
  /\ IsGzipStream(s) /\ Byte(s, 3) = 8
  /\ TrailerEnd(s) <= Len(s)
  /\ s[DataEnd(s)] = EndOfData
  /\ SubSeq(s, DataEnd(s) + 1, DataEnd(s) + 4) = Crc(DecodedSize(s))
  /\ SubSeq(s, DataEnd(s) + 5, DataEnd(s) + 8) = Size(DecodedSize(s))
=============================================================================
