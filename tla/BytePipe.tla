------------------------------ MODULE BytePipe ------------------------------
(***************************************************************************)
(* What a transfer encoding promises, whatever its framing: the reader     *)
(* gets the bytes that were written, in order and at its own pace, and is  *)
(* told of the end of the stream after the last of them, not before.       *)
(***************************************************************************)
EXTENDS Naturals, Sequences

VARIABLES
    sent,    \* the bytes the writer was told are written
    closed,  \* has the writer ended the stream?
    got,     \* the bytes the reader was given
    eof      \* does httpp_encoding_eof say that the stream is over?

vars == <<sent, closed, got, eof>>

Init ==
    /\ sent = << >>
    /\ closed = FALSE
    /\ got = << >>
    /\ eof = FALSE

Send ==
    /\ ~closed
    /\ Len(sent') > Len(sent)
    /\ SubSeq(sent', 1, Len(sent)) = sent
    /\ UNCHANGED <<closed, got, eof>>

Close ==
    /\ ~closed
    /\ closed' = TRUE
    /\ UNCHANGED <<sent, got, eof>>

(* One read may return the last bytes and find the end of the stream.      *)
Receive ==
    /\ ~eof
    /\ \E n \in Len(got)..Len(sent) : got' = SubSeq(sent, 1, n)
    /\ eof' \in BOOLEAN
    /\ eof' => closed /\ got' = sent
    /\ UNCHANGED <<sent, closed>>

Next == Send \/ Close \/ Receive

Spec == Init /\ [][Next]_vars

=============================================================================
