---------------------------- MODULE ChunkedWriter ----------------------------
(***************************************************************************)
(* httpp_encoding_write with the encoding "chunked", called by an          *)
(* application that has N bytes to send and then ends the stream.  The     *)
(* output callback takes any part of what it is offered, or nothing (a     *)
(* zero or an error: __flush_output treats them alike).                    *)
(***************************************************************************)
EXTENDS ChunkedWire

CONSTANTS
    N,         \* how many bytes the application sends
    MaxChunk,  \* the length __enc_chunked_write cuts a request to
    Endings,   \* how the stream may be ended: with no buffer ("null"), which
               \* is the documented way, or with an empty one ("empty")
    MaxEnds    \* bound: end marks written, the last of them at one go

ASSUME WriterAssumption ==
    /\ N \in Nat
    /\ MaxChunk \in Nat \ {0}
    /\ MaxEnds \in Nat \ {0}

VARIABLES
    accepted,  \* payload bytes the application was told are written
    ends,      \* end marks the encoder has produced
    pending    \* buf_write_encoded, from its offset on; empty for NULL

writerVars == <<accepted, ends, pending>>

WriterInit ==
    /\ accepted = 0
    /\ ends = 0
    /\ pending = << >>

(* LENGTH "\r\n" BODY "\r\n", and two bytes more if there was no buffer.   *)
Frame(body, isNull) ==
    <<LengthSymbol(Len(body)), CR, LF>> \o body
        \o (IF isNull THEN <<CR, LF, CR, LF>> ELSE <<CR, LF>>)

(* __flush_output, when the callback takes n bytes of p.                   *)
Flushed(p, n) == SubSeq(p, 1, n)
Kept(p, n)    == From(p, n + 1)

(* Mutant of EncoderRuns: what is pending is overwritten.                  *)
EncoderAlwaysRuns(n1) == n1 >= 0

(* __enc_chunked_write returns 0 and leaves the buffer alone while         *)
(* anything is pending.                                                    *)
EncoderRuns(n1) == n1 = Len(pending)

(* httpp_encoding_write: flush, run the encoder, flush again.  acc and end *)
(* are the application's new counts if the encoder ran.                    *)
EncodingWrite(enc, acc, end) ==
    \E n1 \in 0..Len(pending) :
        LET buffer == IF EncoderRuns(n1) THEN enc ELSE Kept(pending, n1) IN
        /\ \E n2 \in 0..Len(buffer) :
              /\ wire' = wire \o Flushed(pending, n1) \o Flushed(buffer, n2)
              /\ pending' = Kept(buffer, n2)
        /\ accepted' = IF EncoderRuns(n1) THEN acc ELSE accepted
        /\ ends' = IF EncoderRuns(n1) THEN end ELSE ends

(* The length is limited (to 1048576 in the code).                         *)
Cut(len) == Smaller(len, MaxChunk)

Write(len) ==
    /\ ends = 0
    /\ len \in 1..(N - accepted)
    /\ EncodingWrite(Frame(Bytes(accepted + 1, accepted + Cut(len)), FALSE),
                     accepted + Cut(len), 0)

(* malloc fails after the first flush: -1 is returned, nothing is queued.  *)
WriteNoMemory ==
    /\ ends = 0
    /\ accepted < N
    /\ pending # << >>
    /\ wire' = wire \o pending
    /\ pending' = << >>
    /\ UNCHANGED <<accepted, ends>>

(* The application ends the stream.  While a chunk is pending the encoder  *)
(* refuses, and the call has only flushed: the result is 0 either way.     *)
End(how) ==
    /\ how \in Endings
    /\ ends = 0
    /\ accepted = N
    /\ EncodingWrite(Frame(<< >>, how = "null"), accepted, 1)
    /\ ends' = MaxEnds => pending' = << >>

(* Something is left to flush, and "if buf is NULL this will flush         *)
(* buffers": but the encoder runs if the first flush empties the buffer.   *)
FlushRest ==
    /\ ends \in 1..(MaxEnds - 1)
    /\ pending # << >>
    /\ EncodingWrite(Frame(<< >>, TRUE), accepted, ends + 1)
    /\ ends' = MaxEnds => pending' = << >>

WriterNext ==
    \/ \E len \in 1..N : Write(len)
    \/ WriteNoMemory
    \/ \E how \in {"null", "empty"} : End(how)
    \/ FlushRest

=============================================================================
