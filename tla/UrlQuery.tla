------------------------------ MODULE UrlQuery ------------------------------
(***************************************************************************)
(* Query strings and form bodies, as httpp/httpp.c takes them apart.       *)
(* Characters are their ASCII codes; a NULL result is the empty set, any   *)
(* other result a set of one element.                                      *)
(***************************************************************************)
EXTENDS Integers, Sequences, SequencesExt

Nul == 0
Space == 32
Hash == 35
Percent == 37
Amp == 38
Plus == 43
Equals == 61
Digits == 48..57
Upper == 65..90
Lower == 97..122

(* What strcmp sees of a buffer.                                           *)
CString(s) ==
    LET nuls == {i \in DOMAIN s : s[i] = Nul} IN
    IF nuls = {} THEN s ELSE SubSeq(s, 1, Min(nuls) - 1)

Hex(c) ==
    CASE c \in Digits  -> c - 48
      [] c \in 65..70  -> c - 55
      [] c \in 97..102 -> c - 87
      [] OTHER         -> -1

(* Mutant of UnescapeFrom: '+' is an ordinary character.                   *)
UnescapeFromPlus(s, i, from) ==
    CASE i > Len(s) -> {<< >>}
      [] i <= Len(s) /\ s[i] = Percent ->
           IF i + 2 <= Len(s) /\ Hex(s[i + 1]) # -1 /\ Hex(s[i + 2]) # -1
           THEN {<<16 * Hex(s[i + 1]) + Hex(s[i + 2])>> \o r : r \in from[i + 3]}
           ELSE {}
      [] i <= Len(s) /\ s[i] = Hash -> {<< >>}
      [] i <= Len(s) /\ s[i] = Nul -> {}
      [] OTHER -> {<<s[i]>> \o r : r \in from[i + 1]}

(* url_unescape: from[i] is what the loop makes of s from i on.  A '#'     *)
(* ends the value, a NUL or a '%' that no two hex digits follow is an      *)
(* error.                                                                  *)
UnescapeFrom(s, i, from) ==
    CASE i > Len(s) -> {<< >>}
      [] i <= Len(s) /\ s[i] = Percent ->
           IF i + 2 <= Len(s) /\ Hex(s[i + 1]) # -1 /\ Hex(s[i + 2]) # -1
           THEN {<<16 * Hex(s[i + 1]) + Hex(s[i + 2])>> \o r : r \in from[i + 3]}
           ELSE {}
      [] i <= Len(s) /\ s[i] = Plus -> {<<Space>> \o r : r \in from[i + 1]}
      [] i <= Len(s) /\ s[i] = Hash -> {<< >>}
      [] i <= Len(s) /\ s[i] = Nul -> {}
      [] OTHER -> {<<s[i]>> \o r : r \in from[i + 1]}

UrlUnescape(s) ==
    LET from[i \in 1..(Len(s) + 1)] == UnescapeFrom(s, i, from) IN from[1]

(* parse_query_element, s[start..end-1] with its '=' at mid (0: none): the *)
(* key as it stands and the value unescaped, for _httpp_set_param_nocopy.  *)
QueryElement(s, start, mid, end) ==
    IF start >= end \/ mid = 0 \/ mid = start \/ mid + 1 = end THEN << >>
    ELSE << <<CString(SubSeq(s, start, mid - 1)),
              {CString(v) : v \in UrlUnescape(SubSeq(s, mid + 1, end - 1))}>> >>

(* parse_query: the elements between '&'s, in order; the last '=' of an    *)
(* element is the one that counts.                                         *)
QueryStep(s, i, p) ==
    CASE s[i] = Amp    -> [start |-> i + 1, mid |-> 0,
                           out |-> p.out \o QueryElement(s, p.start, p.mid, i)]
      [] s[i] = Equals -> [p EXCEPT !.mid = i]
      [] OTHER         -> p

ParseQuery(s) ==
    LET after[i \in 0..Len(s)] ==
          IF i = 0 THEN [start |-> 1, mid |-> 0, out |-> << >>] ELSE QueryStep(s, i, after[i - 1])
        p == after[Len(s)]
    IN  IF s = << >> \/ s[1] = Nul THEN << >>
        ELSE p.out \o QueryElement(s, p.start, p.mid, Len(s) + 1)

-----------------------------------------------------------------------------
(* The reference: a form, a sequence of <<key, value>>, in the encoding    *)
(* application/x-www-form-urlencoded.                                      *)
HexDigit(n) == IF n < 10 THEN 48 + n ELSE 55 + n

Escape(c) ==
    CASE c = Space -> <<Plus>>
      [] c \in Digits \cup Upper \cup Lower -> <<c>>
      [] OTHER -> <<Percent, HexDigit(c \div 16), HexDigit(c % 16)>>

EscapeAll(v) == FlattenSeq([i \in DOMAIN v |-> Escape(v[i])])

UrlEncode(form) ==
    FlattenSeq([i \in DOMAIN form |->
        (IF i = 1 THEN << >> ELSE <<Amp>>) \o form[i][1] \o <<Equals>> \o EscapeAll(form[i][2])])

(* What this encoding can carry: names without separators, which are not   *)
(* escaped, and values of characters other than NUL.                       *)
IsForm(form) ==
    \A i \in DOMAIN form :
        /\ form[i][1] # << >>
        /\ \A j \in DOMAIN form[i][1] : form[i][1][j] \notin {Nul, Amp, Equals}
        /\ \A j \in DOMAIN form[i][2] : form[i][2][j] \in 1..255

(* The values of a key that are not empty, in the order of the form.       *)
FormValues(form, key) ==
    FlattenSeq([i \in DOMAIN form |->
        IF form[i][1] = key /\ form[i][2] # << >> THEN <<form[i][2]>> ELSE << >>])

=============================================================================
