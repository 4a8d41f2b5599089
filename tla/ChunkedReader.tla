---------------------------- MODULE ChunkedReader ----------------------------
(***************************************************************************)
(* httpp_encoding_read and httpp_encoding_eof with the encoding "chunked": *)
(* the decoder, whose input callback returns any part of what has arrived, *)
(* or nothing (a zero or an error, or no memory for the raw buffer: the    *)
(* decoder's state is the same).  The malloc of a chunk's body is taken to *)
(* succeed.                                                                *)
(***************************************************************************)
EXTENDS ChunkedWire

CONSTANTS
    MaxRead,      \* bound: the lengths the application asks for
    BufLen,       \* what __enc_chunked_read asks for to find a header (1024)
    MaxGive       \* the most the callback returns at a time

ASSUME ReaderAssumption == MaxRead \in Nat /\ BufLen \in Nat /\ MaxGive \in Nat

VARIABLE
    rd            \* the decoder: see ReaderInit

ReaderInit ==
    rd = [raw     |-> << >>,  \* buf_read_raw, from its offset on
          decoded |-> << >>,  \* buf_read_decoded, from its offset on
          till    |-> 0,      \* read_bytes_till_header
          eof     |-> -1,     \* bytes_till_eof
          out     |-> << >>,  \* what the application has been given
          bad     |-> FALSE]  \* has a header failed to parse?

(* Mutant of CopyBuffer: the offset is not advanced on a partial copy.     *)
CopyBufferAgain(s, len) ==
    LET n == Smaller(len, Len(s.decoded)) IN
    [s EXCEPT !.out = @ \o SubSeq(s.decoded, 1, n),
              !.decoded = IF n = Len(s.decoded) THEN << >> ELSE @]

(* __copy_buffer: up to len decoded bytes go to the application.           *)
CopyBuffer(s, len) ==
    LET n == Smaller(len, Len(s.decoded)) IN
    [s EXCEPT !.out = @ \o SubSeq(s.decoded, 1, n), !.decoded = From(@, n + 1)]

(* What __enc_chunked_read asks the callback for: the rest of a body, what *)
(* is missing after the last chunk, or a buffer to look for a header in.   *)
Wanted(s, len) ==
    CASE s.till > 2  -> Smaller(len, s.till - 2)
      [] s.till <= 2 -> IF s.eof # -1 THEN s.eof ELSE BufLen

(* The body goes straight to the application.                              *)
ReadBody(s, got) == [s EXCEPT !.out = @ \o got, !.till = @ - Len(got)]

(* Where the first header in s ends: at the first "\n" after a "\r".       *)
HeaderEnds(s) == {i \in 2..Len(s) : s[i] = LF /\ s[i - 1] = CR}

(* Mutants of TakeBody: the "\r\n" after the body counts as part of it, or *)
(* is not counted where the body is still to come.                         *)
TakeBodyAndMark(s, rest, body) ==
    LET eof == IF body = 0 THEN 2 ELSE s.eof
        after == From(rest, body + 3)
    IN  [s EXCEPT !.decoded = SubSeq(rest, 1, Smaller(body + 2, Len(rest))),
                  !.raw = after, !.eof = eof,
                  !.till = IF Len(rest) < body + 2 THEN body + 2 - Len(rest) ELSE 0]

TakeBodyNoMark(s, rest, body) ==
    LET eof == IF body = 0 THEN 2 ELSE s.eof IN
    IF Len(rest) <= body
    THEN [s EXCEPT !.decoded = rest, !.raw = << >>, !.till = body - Len(rest), !.eof = eof]
    ELSE [s EXCEPT !.decoded = SubSeq(rest, 1, body), !.raw = From(rest, body + 1),
                   !.till = 2, !.eof = eof]

(* The header is complete and parsed; rest is what follows it.             *)
TakeBody(s, rest, body) ==
    LET eof == IF body = 0 THEN 2 ELSE s.eof
        after == From(rest, body + 1)
    IN
    CASE rest = << >> ->
           [s EXCEPT !.raw = << >>, !.till = body + 2, !.eof = eof]
      [] rest # << >> /\ Len(rest) <= body ->
           [s EXCEPT !.decoded = rest, !.raw = << >>, !.eof = eof,
                     !.till = body + 2 - Len(rest)]
      [] Len(rest) > body /\ Len(after) < 2 ->
           [s EXCEPT !.decoded = SubSeq(rest, 1, body), !.raw = after, !.till = 2,
                     !.eof = eof]
      [] Len(rest) > body /\ Len(after) >= 2 ->
           [s EXCEPT !.decoded = SubSeq(rest, 1, body), !.raw = From(after, 3),
                     !.till = 0, !.eof = IF eof # -1 THEN 0 ELSE eof]

(* Look for a header in the raw buffer and act on it.                      *)
ParseHeader(s) ==
    LET ends == HeaderEnds(s.raw)
        i == CHOOSE j \in ends : \A k \in ends : j <= k
    IN
    CASE ends = {} -> s
      [] ends # {} /\ ~IsLength(s.raw[1]) -> [s EXCEPT !.bad = TRUE]
      [] ends # {} /\ IsLength(s.raw[1]) ->
           TakeBody(s, From(s.raw, i + 1), LengthOf(s.raw[1]))

(* Mutant of ReadRaw: what follows the last chunk is taken for a header.   *)
ReadRawNoEnd(s, got) ==
    LET all == s.raw \o got
        skip == Len(all) > s.till
        s1 == [s EXCEPT !.raw = IF skip THEN From(all, s.till + 1) ELSE all,
                        !.till = IF skip THEN 0 ELSE @]
    IN  IF Len(all) = s.till THEN [s EXCEPT !.raw = << >>, !.till = 0] ELSE ParseHeader(s1)

(* got arrives in the raw buffer.  First the "\r\n" after a body has to be *)
(* skipped; if that is all there is, the call is over.                     *)
ReadRaw(s, got) ==
    LET all == s.raw \o got
        skip == Len(all) > s.till
        s1 == [s EXCEPT !.raw = IF skip THEN From(all, s.till + 1) ELSE all,
                        !.till = IF skip THEN 0 ELSE @]
    IN
    CASE Len(all) = s.till -> [s EXCEPT !.raw = << >>, !.till = 0]
      [] Len(all) # s.till /\ s1.eof # -1 /\ s1.till = 0 -> [s1 EXCEPT !.eof = 0]
      [] Len(all) # s.till /\ ~(s1.eof # -1 /\ s1.till = 0) -> ParseHeader(s1)

EncChunkedRead(s, got) ==
    IF s.till > 2 THEN ReadBody(s, got) ELSE ReadRaw(s, got)

(* httpp_encoding_read(len): what is decoded already, and, if that is less *)
(* than len, one call of the decoder and what it decoded.                  *)
Read(len) ==
    LET s1 == CopyBuffer(rd, len)
        left == len - (Len(s1.out) - Len(rd.out))
    IN  IF left = 0 THEN rd' = s1 /\ UNCHANGED wire
        ELSE \E n \in 0..Smaller(Smaller(Wanted(s1, left), Len(wire)), MaxGive) :
               /\ rd' = IF n = 0 THEN s1
                        ELSE CopyBuffer(EncChunkedRead(s1, SubSeq(wire, 1, n)), left)
               /\ wire' = From(wire, n + 1)

(* httpp_encoding_eof with no callback.                                    *)
Eof == rd.decoded = << >> /\ rd.eof = 0

ReaderNext == ~rd.bad /\ \E len \in 1..MaxRead : Read(len)

=============================================================================
