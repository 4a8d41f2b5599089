----------------------------- MODULE ChunkedWire -----------------------------
(***************************************************************************)
(* The bytes between a chunked encoder and a decoder (httpp/encoding.c),   *)
(* as far as the two tell them apart.  A stream is a sequence of integers: *)
(* the i-th byte of the payload is i, a chunk length n printed with "%lx"  *)
(* is one symbol, and so are carriage return and line feed.  Chunk         *)
(* extensions (meta data) are not part of this model.                      *)
(***************************************************************************)
EXTENDS Integers, Sequences

VARIABLE
    wire       \* taken by the output callback, not yet by the input callback

CR == -1
LF == -2
LengthSymbol(n) == -10 - n       \* snprintf "%lx"
LengthOf(x)     == -10 - x       \* sscanf "%llx"
IsLength(x)     == x <= -10
IsPayload(x)    == x > 0

(* The payload bytes from, ..., to.                                        *)
Bytes(from, to) == [i \in 1..(to - from + 1) |-> from + i - 1]

Smaller(a, b) == IF a < b THEN a ELSE b
From(s, i)    == SubSeq(s, i, Len(s))

=============================================================================
