------------------------------- MODULE MCWeb --------------------------------
(* Streams with every combination of the optional header fields, short of    *)
(* nothing but content; chunks of up to five bytes cut them everywhere.      *)
EXTENDS Web

Header(method, flg) == GzipMagic \o <<method, flg, 0, 0, 0, 0, 0, 255>>

OptionalFields(flg) ==
  LET Optionally(field, bytes) == IF Announces(flg, field) THEN bytes ELSE <<>>
  IN Optionally("extraLen", <<2, 0, 0, 7>>) \o Optionally("name", <<7, 0>>)
       \o Optionally("comment", <<0>>) \o Optionally("headerCrc", <<7, 0>>)

Compressed(flg, data, trailer, firmware) ==
  [bytes |-> Header(8, flg) \o OptionalFields(flg) \o data \o trailer, firmware |-> firmware]

Image == <<Literal, Literal, EndOfData>>
Trailer(n) == Crc(n) \o Size(n)

MCUpload ==
  {Compressed(flg, Image, Trailer(2 * Ratio), "works") : flg \in {2 * i : i \in 0 .. 15}}
    \cup {Compressed(30, Image, Trailer(2 * Ratio), f) : f \in {"crashes", "junk"}}
    \cup {Compressed(0, Image, Crc(5) \o Size(2 * Ratio), "works"),
          Compressed(0, Image, Crc(2 * Ratio) \o Size(5), "works"),
          Compressed(0, <<Literal, Garbled, EndOfData>>, Trailer(Ratio), "junk"),
          Compressed(0, Image, Trailer(2 * Ratio) \o <<7, 7>>, "works"),
          [bytes |-> Header(8, 4) \o <<0, 0>> \o Image \o Trailer(2 * Ratio), firmware |-> "works"],
          [bytes |-> Header(9, 0) \o Image, firmware |-> "junk"]}
    \cup {[bytes |-> <<first, 1, 2, 3, 4>>, firmware |-> f] :
            first \in {ImageMagic, 60}, f \in {"works", "crashes"}}

MCPath == {<<"a">>, <<"a", "b">>, <<"">>, <<"omi", "a">>, <<"a", "..">>}
=============================================================================
