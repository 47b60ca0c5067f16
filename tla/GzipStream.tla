----------------------------- MODULE GzipStream -----------------------------
(***************************************************************************)
(* The streaming gzip decoder of src/compress.rs: one iteration of the     *)
(* loop of feed per operator application, so that the chunks in which the  *)
(* network hands over the stream can be cut anywhere.                      *)
(*                                                                         *)
(* A compressed stream is a sequence of bytes. Inside DEFLATE data three   *)
(* bytes stand for all: a literal, the end of the data, and one that does  *)
(* not decode. Each literal inflates to Ratio bytes of output, of which one *)
(* call of miniz_oxide's inflate hands out at most OutSize; CRC and size   *)
(* of an output are functions of its length.                               *)
(***************************************************************************)
EXTENDS Integers, Sequences, FiniteSetsExt

CONSTANTS Ratio, OutSize

ASSUME GzipAssumption == {Ratio, OutSize} \subseteq Nat \ {0}

GzipMagic == <<31, 139>>
Literal == 200
EndOfData == 201
Garbled == 202

\* A number in four bytes, the lowest first.
Le(n) == <<n % 256, (n \div 256) % 256, (n \div 65536) % 256, (n \div 16777216) % 256>>
Crc(n) == Le(n + 1)
Size(n) == Le(n)

-----------------------------------------------------------------------------
(* Header: the optional fields in their order, with their bits in FLG.      *)

Optional == <<"extraLen", "name", "comment", "headerCrc">>
Bit == [extraLen |-> 4, name |-> 8, comment |-> 16, headerCrc |-> 2]

Announces(flg, field) == (flg \div Bit[field]) % 2 = 1

\* The phase after optional field number i (0: after the fixed header).
Advance(flg, i) ==
  LET rest == {j \in i + 1 .. 4 : Announces(flg, Optional[j])}
  IN IF rest = {} THEN "deflate" ELSE Optional[Min(rest)]

-----------------------------------------------------------------------------
(* The decoder: the bytes of the current fixed-length field, the bytes of   *)
(* extra data to skip, and what inflate has decoded but not handed out.     *)

New == [phase |-> "header", buf |-> <<>>, flg |-> 0, skip |-> 0,
        ended |-> FALSE, waiting |-> 0, out |-> 0]

Fixed == [header |-> 10, extraLen |-> 2, headerCrc |-> 2, trailer |-> 8]

HeaderRead(gz, b) ==
  IF SubSeq(b, 1, 2) = GzipMagic /\ b[3] = 8
  THEN [gz EXCEPT !.flg = b[4], !.phase = Advance(b[4], 0)]
  ELSE [gz EXCEPT !.phase = "failed"]

ExtraLenRead(gz, b) ==
  LET xlen == b[1] + 256 * b[2]
  IN [gz EXCEPT !.skip = xlen,
                !.phase = IF xlen = 0 THEN Advance(gz.flg, 1) ELSE "extraData"]

HeaderCrcRead(gz, b) == [gz EXCEPT !.phase = "deflate"]

TrailerRead(gz, b) ==
  [gz EXCEPT !.phase = IF SubSeq(b, 1, 4) = Crc(gz.out) /\ SubSeq(b, 5, 8) = Size(gz.out)
                       THEN "done" ELSE "failed"]

Completed(gz, b) ==
  CASE gz.phase = "header" -> HeaderRead(gz, b)
    [] gz.phase = "extraLen" -> ExtraLenRead(gz, b)
    [] gz.phase = "headerCrc" -> HeaderCrcRead(gz, b)
    [] gz.phase = "trailer" -> TrailerRead(gz, b)

\* Mutant: a field that a chunk cuts in two is collected from its start again.
CollectAfresh(gz, d) ==
  LET need == Fixed[gz.phase]
      n == Min({need, Len(d)})
      b == SubSeq(d, 1, n)
  IN [n |-> n, gz |-> IF n < need THEN gz ELSE Completed(gz, b)]

\* Each case yields the decoder and the number of bytes of d it consumed.
Collect(gz, d) ==
  LET need == Fixed[gz.phase] - Len(gz.buf)
      n == Min({need, Len(d)})
      b == gz.buf \o SubSeq(d, 1, n)
  IN [n |-> n, gz |-> IF n < need THEN [gz EXCEPT !.buf = b]
                      ELSE Completed([gz EXCEPT !.buf = <<>>], b)]

SkipExtra(gz, d) ==
  LET n == Min({gz.skip, Len(d)})
  IN [n |-> n, gz |-> [gz EXCEPT !.skip = @ - n,
                                 !.phase = IF n = gz.skip THEN Advance(gz.flg, 1) ELSE @]]

SkipText(gz, d) ==
  LET nuls == {i \in 1 .. Len(d) : d[i] = 0}
      field == IF gz.phase = "name" THEN 2 ELSE 3
  IN IF nuls = {} THEN [n |-> Len(d), gz |-> gz]
     ELSE [n |-> Min(nuls), gz |-> [gz EXCEPT !.phase = Advance(gz.flg, field)]]

\* External, miniz_oxide: output that is waiting goes out before more input is taken.
Inflate(gz, d) ==
  LET stops == {i \in 1 .. Len(d) : d[i] \in {EndOfData, Garbled}}
      n == IF gz.waiting > 0 \/ gz.ended THEN 0
           ELSE IF stops = {} THEN Len(d) ELSE Min(stops)
      isEnd == n > 0 /\ d[n] \in {EndOfData, Garbled}
      made == gz.waiting + Ratio * (IF isEnd THEN n - 1 ELSE n)
      written == Min({made, OutSize})
  IN [n |-> n, garbled |-> n > 0 /\ d[n] = Garbled,
      gz |-> [gz EXCEPT !.ended = @ \/ isEnd, !.waiting = made - written, !.out = @ + written]]

InflateSome(gz, d) ==
  LET r == Inflate(gz, d)
  IN [n |-> r.n,
      gz |-> [r.gz EXCEPT !.phase = IF r.garbled THEN "failed"
                                    ELSE IF r.gz.ended /\ r.gz.waiting = 0 THEN "trailer"
                                    ELSE @]]

Finished(gz) == gz.phase = "done"

Consume(gz, d) ==
  CASE gz.phase \in DOMAIN Fixed -> Collect(gz, d)
    [] gz.phase = "extraData" -> SkipExtra(gz, d)
    [] gz.phase \in {"name", "comment"} -> SkipText(gz, d)
    [] gz.phase = "deflate" -> InflateSome(gz, d)
    [] gz.phase \in {"done", "failed"} -> [n |-> Len(d), gz |-> gz]
=============================================================================
