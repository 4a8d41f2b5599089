------------------------------ MODULE MCHttpp ------------------------------
(* Instances of Httpp for TLC.                                             *)
EXTENDS Httpp

Line(n, v) == [name |-> n, value |-> v]

(* A value with every character that is escaped, and one of two blanks.    *)
K == <<107>>
J == <<106>>
Special == <<Percent, Amp, Equals, Hash, Plus, Space, 52, 126>>
Forms == {<< <<K, Special>> >>,
          << <<K, <<52>>>>, <<J, <<Space, Space>>>>, <<K, <<97>>>> >>,
          << <<J, << >>>>, <<K, <<Percent, 52, 49>>>> >>}

(* "k=%4&j=+", "k&=a&j", "k=%%4&j=4#": elements without a value, and with  *)
(* one that does not unescape.                                             *)
Broken == {<<107, Equals, Percent, 52, Amp, 106, Equals, Plus>>,
           <<107, Amp, Equals, 97, Amp, 106>>,
           <<107, Equals, Percent, Percent, 52, Amp, 106, Equals, 52, Hash>>}

Get == [n |-> 3, method |-> "GET", uri |-> "/a", query |-> {}, form |-> {},
        version |-> <<"HTTP", "1.0">>, rest |-> << >>, cut |-> FALSE]

FirstLines ==
    {[Get EXCEPT !.n = n, !.method = m, !.version = v, !.query = q, !.uri = "/b",
                 !.rest = <<Line("Host", "c")>>] :
        n \in 0..4, m \in {"post", "BREW"},
        v \in {<<"HTTP", "1.0">>, <<"HTTP">>, <<"", "1.0">>}, q \in {{}} \cup {{b} : b \in Broken}}

Relevant(r) ==
    /\ r.n < 3 => r.version = <<"HTTP", "1.0">>
    /\ r.n \in {0, 1, 4} => r.query = {}

Headers == {Line("Host", "a"), Line("host", "b"), Line("x", ""), Line("__uri", "d"),
            Line("Content-Type", "application/x-www-form-urlencoded"), Blank}

MCRequests ==
    {r \in FirstLines : Relevant(r)}
    \cup {[Get EXCEPT !.rest = h, !.cut = c] :
            h \in UNION {[1..n -> Headers] : n \in 0..2}, c \in BOOLEAN}
    \cup {[Get EXCEPT !.rest = <<Line("Host", "a"), h, i>>] :
            h \in {Line("x", ""), Blank}, i \in {Line("host", "b"), Line("y", "e")}}
    \cup {[Get EXCEPT !.query = {UrlEncode(f)}, !.form = {f}] : f \in Forms}

MCResponses ==
    {[n |-> n, code |-> c, success |-> c = "200", message |-> "m", uri |-> u,
      rest |-> <<Line("Host", "a")>>, cut |-> FALSE] :
        n \in 2..3, c \in {"200", "404"}, u \in {NULL, "/r"}}

MCBodies == Broken \cup {UrlEncode(f) : f \in Forms}
MCDefaults == {<<[name |-> "host", value |-> <<"a", "b">>], [name |-> "y", value |-> << >>]>>}
MCSettings == {<<"host", "f">>, <<"y", NULL>>, <<"__uri", "g">>}
MCParams == {<<K, <<52, Plus>>>>, <<J, <<Percent>>>>}
MCLowerOf == [w \in {"GET", "Host", "Content-Type"} |->
                CASE w = "GET" -> "get" [] w = "Host" -> "host"
                  [] w = "Content-Type" -> "content-type"]

=============================================================================
