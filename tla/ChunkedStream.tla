---------------------------- MODULE ChunkedStream ----------------------------
(***************************************************************************)
(* A chunked writer and a chunked reader at the two ends of a connection   *)
(* that keeps bytes in order and cuts them wherever it likes.              *)
(***************************************************************************)
EXTENDS ChunkedWriter, ChunkedReader

vars == <<accepted, ends, pending, wire, rd>>

Init ==
    /\ WriterInit
    /\ ReaderInit
    /\ wire = << >>

Next ==
    \/ WriterNext /\ UNCHANGED rd
    \/ ReaderNext /\ UNCHANGED writerVars

Spec == Init /\ [][Next]_vars

(***************************************************************************)
(* Fairness.  The application calls httpp_encoding_write while it has      *)
(* bytes to send or to flush, and httpp_encoding_read until the end of the *)
(* stream, and neither callback returns nothing for ever when there is     *)
(* something to take.                                                      *)
(***************************************************************************)
FairSpec ==
    /\ Spec
    /\ WF_vars(UNCHANGED rd /\ WriterNext /\ wire' # wire)
    /\ WF_vars(UNCHANGED writerVars /\ ReaderNext)

-----------------------------------------------------------------------------
(* Everything between the two applications that is not decoded yet.        *)
Undecoded == rd.raw \o wire \o pending

(* Type correctness, with the bounds of read_bytes_till_header and         *)
(* bytes_till_eof.                                                         *)
TypeOK ==
    /\ accepted \in 0..N
    /\ ends \in 0..MaxEnds
    /\ pending \in Seq(Int)
    /\ wire \in Seq(Int)
    /\ rd \in [raw : Seq(Int), decoded : Seq(1..N), out : Seq(1..N),
               till : 0..(MaxChunk + 2), eof : {-1, 0, 2}, bad : BOOLEAN]

(* No byte of the payload is lost, doubled, or moved, and no byte of the   *)
(* framing gets into the payload, however the callbacks cut the stream:    *)
(* what is decoded are the first bytes, and what is not are the others,    *)
(* each once and in order.  In __enc_chunked_read a body may go straight   *)
(* to the caller, or to buf_read_decoded as a whole or in part, with the   *)
(* rest to be counted down in read_bytes_till_header.                      *)
Conserved ==
    LET done == Len(rd.out) + Len(rd.decoded)
        payload == {i \in 1..Len(Undecoded) : IsPayload(Undecoded[i])}
    IN
    /\ done <= accepted
    /\ rd.out \o rd.decoded = Bytes(1, done)
    /\ {Undecoded[i] : i \in payload} = (done + 1)..accepted
    /\ \A i, j \in payload : i < j => Undecoded[i] < Undecoded[j]

(* read_bytes_till_header points to the next chunk header, whether the     *)
(* "\r\n" in front of it has arrived or not: the decoder skips that many   *)
(* bytes without a look at them.  No header fails to parse.                *)
Synchronised ==
    /\ ~rd.bad
    /\ rd.eof = -1 =>
         \A i \in 1..Smaller(Len(Undecoded), rd.till + 1) :
            LET x == Undecoded[i] IN
            CASE i < rd.till - 1 -> IsPayload(x)
              [] i = rd.till - 1 -> x = CR
              [] i = rd.till     -> x = LF
              [] i = rd.till + 1 -> IsLength(x)

(* The two ends implement the byte pipe.                                   *)
Pipe == INSTANCE BytePipe WITH
            sent <- Bytes(1, accepted), closed <- ends > 0, got <- rd.out, eof <- Eof

PipeSpec == Pipe!Spec

(* A complete chunk is in buf_read_raw and nothing more is going to        *)
(* arrive: __enc_chunked_read looks at it only after another byte.         *)
HeaderWaits == wire = << >> /\ pending = << >> /\ HeaderEnds(rd.raw) # {}

(* The line end after the last chunk came in a read of its own and nothing *)
(* follows it: the decoder still waits for two bytes.                      *)
EndMissed == wire = << >> /\ pending = << >> /\ rd.raw = << >> /\ rd.till = 0 /\ rd.eof = 2

(* Every byte of a stream that was ended arrives, and its end is seen,     *)
(* however the callbacks cut it, with two exceptions: what HeaderWaits and *)
(* EndMissed say of __enc_chunked_read.  There is no third way to lose a   *)
(* byte or the end of a stream.                                            *)
AllArrives ==
    <>[](HeaderWaits \/ (rd.out = Bytes(1, N) /\ (Eof \/ EndMissed)))

(* encoding.h, "Check if EOF is reached": after the last byte of an ended  *)
(* stream the reader is told so.                                           *)
EofReported == <>Eof

(* encoding.c, on the header: "If it isn't we will just return a short     *)
(* read and try again later!".  What has arrived in the raw buffer can be  *)
(* read, also when nothing more is going to arrive.                        *)
BodyDelivered == <>(rd.out = Bytes(1, N))

=============================================================================
