------------------------------- MODULE Httpp -------------------------------
(***************************************************************************)
(* The HTTP parser of httpp/httpp.c: a parser's three trees of variables   *)
(* (vars for headers and the library's own, queryvars, postvars), its      *)
(* reference count, and the calls that fill, change and free them.         *)
(*                                                                         *)
(* A tree is a bag of http_var_t records, which is what AvlTree shows the  *)
(* trees of avl/avl.c to be: nothing but the calls below keeps two records *)
(* of one name out of it.  Allocations are counted and taken to succeed.   *)
(*                                                                         *)
(* A request is a record: n, the number of words of its first line; of     *)
(* these the method, the uri, its query string ({} if it has no '?') and   *)
(* the parts of the version between '/'s; rest, the lines after it, each a *)
(* name and a value ("" if none); cut, whether the last line of all lacks  *)
(* its "\n"; form, the form the query was encoded from, or {}.  Names and  *)
(* values of headers are words, told apart by their case only (LowerOf);   *)
(* the values of parameters are sequences of characters.                   *)
(***************************************************************************)
EXTENDS UrlQuery, Bags, FiniteSetsExt, FiniteSets

CONSTANTS
    Requests, Responses,  \* what httpp_parse and httpp_parse_response are given
    Bodies,               \* what httpp_parse_postdata is given
    Defaults,             \* lists for httpp_initialize
    Settings,             \* <<name, value>> for httpp_setvar
    Params,               \* <<name, escaped value>> for httpp_set_*_param
    LowerOf,              \* the words with upper case letters, and their lower case
    MAX_HEADERS,          \* 32 in the code
    Grow,                 \* by how much httpp_get_any_key enlarges its array: 8
    MaxCalls, MaxRefs     \* bounds

ASSUME MaxHeadersAssumption == MAX_HEADERS \in Nat \ {0}
ASSUME GrowAssumption == Grow \in Nat \ {0, 1}
ASSUME BoundAssumption == MaxCalls \in Nat /\ MaxRefs \in Nat \ {0}

VARIABLES
    hp,      \* the parser and the heap: see Init
    calls,   \* calls made (bounds the model)
    last     \* the last call, its argument and its result

vars == <<hp, calls, last>>

NULL == "NULL"
Strings == STRING \ {NULL}
Text == Seq(Nat)
Lines == Seq([name : STRING, value : Strings])

ASSUME RequestsAssumption ==
    Requests \subseteq [n : Nat, method : STRING, uri : Strings, version : Seq(Strings),
                        query : SUBSET Text, form : SUBSET Seq(Text \X Text),
                        rest : Lines, cut : BOOLEAN]
ASSUME ResponsesAssumption ==
    Responses \subseteq [n : Nat, code : STRING, success : BOOLEAN, message : STRING,
                         uri : STRING, rest : Lines, cut : BOOLEAN]
(* A request with a form in r.form is one of a client that encoded it.     *)
ASSUME FormsAssumption ==
    \A r \in Requests : \A form \in r.form : IsForm(form) /\ r.query = {UrlEncode(form)}
ASSUME BodiesAssumption == Bodies \subseteq Text
ASSUME DefaultsAssumption == Defaults \subseteq Seq([name : STRING, value : Seq(STRING)])
ASSUME SettingsAssumption == Settings \subseteq STRING \X STRING
ASSUME ParamsAssumption == Params \subseteq Text \X Text
ASSUME LowerOfAssumption == \A w \in DOMAIN LowerOf : LowerOf[w] \in STRING

Methods == {"get", "post", "put", "head", "options", "delete", "trace", "connect",
            "source", "play", "stats"}

(* The names that begin with "__".                                         *)
InternalNames == {"__protocol", "__version", "__uri", "__rawuri", "__queryargs",
                  "__req_type", "__errormessage", "__errorcode"}
Trees == {"vars", "queryvars", "postvars"}
Blank == [name |-> "", value |-> ""]

Lowercase(w) == IF w \in DOMAIN LowerOf THEN LowerOf[w] ELSE w

-----------------------------------------------------------------------------
(* httpp_create_parser.  heap counts the blocks of variables and strings.  *)
Init ==
    /\ hp = [refc |-> 1, req_type |-> "none", uri |-> NULL,
             vars |-> EmptyBag, queryvars |-> EmptyBag, postvars |-> EmptyBag,
             heap |-> 0,
             lost |-> [uri |-> 0, key |-> 0]]   \* blocks nothing points to
    /\ calls = 0
    /\ last = [op |-> "create", arg |-> {}, ok |-> TRUE]

(* avl_get_by_key with _compare_vars.                                      *)
AvlFind(tree, name) == {v \in BagToSet(tree) : v.name = name}

(* avl_insert, and avl_delete of a record that is in the tree.             *)
AvlInsert(tree, v) == tree (+) SetToBag({v})
AvlRemove(tree, v) == tree (-) SetToBag({v})

(* avl_delete by name: without effect if there is no such record.          *)
AvlDelete(tree, name) ==
    IF AvlFind(tree, name) = {} THEN tree
    ELSE AvlRemove(tree, CHOOSE v \in AvlFind(tree, name) : TRUE)

(* What _free_vars frees: the record, its name, the array and the values.  *)
Blocks(v) == 3 + Len(v.value)

TreeBlocks(tree) ==
    Cardinality(UNION {{v} \X (1..tree[v]) \X (1..Blocks(v)) : v \in BagToSet(tree)})

(* httpp_getvar: the first value of a variable.                            *)
GetVar(s, name) ==
    IF AvlFind(s.vars, name) = {} THEN NULL
    ELSE (CHOOSE v \in AvlFind(s.vars, name) : TRUE).value[1]

(* _httpp_get_param_var: all values of a parameter.                        *)
ParamValues(s, tree, name) ==
    IF AvlFind(s[tree], name) = {} THEN << >>
    ELSE (CHOOSE v \in AvlFind(s[tree], name) : TRUE).value

(* httpp_deletevar: avl_delete with _free_vars.                            *)
DeleteVar(s, name) ==
    LET freed == AvlFind(s.vars, name) IN
    [s EXCEPT !.vars = AvlDelete(@, name),
              !.heap = IF freed = {} THEN @ ELSE @ - Blocks(CHOOSE v \in freed : TRUE)]

(* Mutants of SetVar: no function to free the old variable with; an old    *)
(* variable is not looked for; a missing value is stored.                  *)
SetVarNoFree(s, name, value) ==
    IF value = NULL THEN s
    ELSE [s EXCEPT !.vars = AvlInsert(AvlDelete(@, name), [name |-> name, value |-> <<value>>]),
                   !.heap = @ + 4]

SetVarInsert(s, name, value) ==
    IF value = NULL THEN s
    ELSE [s EXCEPT !.vars = AvlInsert(@, [name |-> name, value |-> <<value>>]), !.heap = @ + 4]

SetVarNull(s, name, value) ==
    [s EXCEPT !.vars = AvlInsert(AvlDelete(@, name), [name |-> name, value |-> <<value>>])]

(* httpp_setvar: the old variable of the name is deleted, the new one has  *)
(* the one value.                                                          *)
SetVar(s, name, value) ==
    LET s1 == IF GetVar(s, name) = NULL THEN s ELSE DeleteVar(s, name)
    IN  IF value = NULL THEN s
        ELSE [s1 EXCEPT !.vars = AvlInsert(@, [name |-> name, value |-> <<value>>]),
                        !.heap = @ + 4]

(* _httpp_set_param_nocopy, which takes over a name and a value that were  *)
(* allocated for it.  It returns early if unescaping gave NULL, and does   *)
(* not free the name.                                                      *)
SetParamNocopy(s0, tree, name, value, replace) ==
    LET s == [s0 EXCEPT !.heap = @ + 1 + Cardinality(value)]
        found == AvlFind(s[tree], name)
        old == CHOOSE v \in found : TRUE
        val == CHOOSE v \in value : TRUE
        new == [name |-> name, value |-> <<val>>]
    IN  CASE value = {} -> [s EXCEPT !.lost.key = @ + 1]
          [] value # {} /\ found = {} ->
               [s EXCEPT ![tree] = AvlInsert(@, new), !.heap = @ + 2]
          [] value # {} /\ found # {} /\ replace ->
               [s EXCEPT ![tree] = AvlInsert(AvlRemove(@, old), new),
                         !.heap = @ + 2 - Blocks(old)]
          [] value # {} /\ found # {} /\ ~replace ->
               [s EXCEPT ![tree] = AvlInsert(AvlRemove(@, old), [old EXCEPT !.value = Append(@, val)]),
                         !.heap = @ - 1]

(* _httpp_set_param.                                                       *)
SetParam(s, tree, name, raw) ==
    SetParamNocopy(s, tree, name, {CString(v) : v \in UrlUnescape(raw)}, TRUE)

AddParam(s, tree, e) == SetParamNocopy(s, tree, e[1], e[2], FALSE)

ParseQueryInto(s, tree, query) ==
    LET es == ParseQuery(query)
        after[i \in 0..Len(es)] == IF i = 0 THEN s ELSE AddParam(after[i - 1], tree, es[i])
    IN  after[Len(es)]

-----------------------------------------------------------------------------
(* Mutant of HeaderLines: a last line without "\n" counts.                 *)
HeaderLinesCut(r) ==
    LET blanks == {i \in DOMAIN r.rest : r.rest[i] = Blank}
        n == IF blanks # {} THEN Min(blanks) - 1 ELSE Len(r.rest)
    IN  SubSeq(r.rest, 1, Min({n, MAX_HEADERS - 1}))

(* split_headers: the lines after the first up to a blank one, at most     *)
(* MAX_HEADERS with the first.  A line is counted when its "\n" is found.  *)
HeaderLines(r) ==
    LET blanks == {i \in DOMAIN r.rest : r.rest[i] = Blank}
        n == CASE blanks # {} -> Min(blanks) - 1
               [] blanks = {} /\ r.cut /\ r.rest # << >> -> Len(r.rest) - 1
               [] OTHER -> Len(r.rest)
    IN  SubSeq(r.rest, 1, Min({n, MAX_HEADERS - 1}))

(* parse_headers: names are turned to lower case; a line with no value is  *)
(* skipped.                                                                *)
SetHeader(s, l) == IF l.value = "" THEN s ELSE SetVar(s, Lowercase(l.name), l.value)

ParseHeaders(s, lines) ==
    LET after[i \in 0..Len(lines)] == IF i = 0 THEN s ELSE SetHeader(after[i - 1], lines[i])
    IN  after[Len(lines)]

(* httpp_str_to_method.                                                    *)
StrToMethod(w) == IF Lowercase(w) \in Methods THEN Lowercase(w) ELSE "unknown"

VersionOk(r) == r.n >= 3 /\ Len(r.version) = 2 /\ "" \notin {r.version[1], r.version[2]}

(* The request's uri: the raw one and the query string become variables,   *)
(* the query is parsed, and parser->uri overwritten.  (The text of the     *)
(* query is left out of the values of the variables.)                      *)
TakeUri(s, r) ==
    LET Query(acc, q) ==
          ParseQueryInto(SetVar(SetVar(acc, "__rawuri", r.uri), "__queryargs", "?"),
                         "queryvars", q)
        s1 == IF r.query = {} THEN s ELSE Query(s, CHOOSE q \in r.query : TRUE)
    IN  [s1 EXCEPT !.uri = r.uri, !.heap = @ + 1,
                   !.lost.uri = IF s.uri = NULL THEN @ ELSE @ + 1]

(* Mutant of TakeVersion: the request type is stored along with it, before *)
(* the method is looked at.                                                *)
TakeVersionAndType(s, r) ==
    SetVar(SetVar(SetVar(s, "__protocol", r.version[1]), "__version", r.version[2]),
           "__req_type", s.req_type)

TakeVersion(s, r) ==
    SetVar(SetVar(s, "__protocol", r.version[1]), "__version", r.version[2])

(* httpp_parse, with each of its early returns.                            *)
Parse(s, r) ==
    LET s1 == [s EXCEPT !.req_type = StrToMethod(r.method)]
        s2 == TakeUri(s1, r)
        s3 == TakeVersion(s2, r)
        s4 == SetVar(SetVar(s3, "__req_type", s3.req_type), "__uri", s3.uri)
    IN  CASE r.n > 3 -> [s |-> s, ok |-> FALSE]
          [] r.n < 2 -> [s |-> s1, ok |-> FALSE]
          [] r.n \in 2..3 /\ ~VersionOk(r) -> [s |-> s2, ok |-> FALSE]
          [] r.n = 3 /\ VersionOk(r) /\ s1.req_type = "unknown" -> [s |-> s3, ok |-> FALSE]
          [] r.n = 3 /\ VersionOk(r) /\ s1.req_type # "unknown" ->
               [s |-> ParseHeaders(s4, HeaderLines(r)), ok |-> TRUE]

(* httpp_parse_response.  parser->uri and req_type keep their values.      *)
ParseResponse(s, r) ==
    LET s1 == SetVar(s, "__errorcode", r.code)
        s2 == IF r.success THEN s1 ELSE SetVar(s1, "__errormessage", r.message)
        s3 == SetVar(SetVar(s2, "__uri", r.uri), "__req_type", "NONE")
    IN  IF r.n < 3 THEN [s |-> s, ok |-> FALSE]
        ELSE [s |-> ParseHeaders(s3, HeaderLines(r)), ok |-> TRUE]

(* httpp_parse_postdata, for the one content type it knows.                *)
ParsePostdata(s, body) ==
    IF Lowercase(GetVar(s, "content-type")) = "application/x-www-form-urlencoded"
    THEN [s |-> ParseQueryInto(s, "postvars", body), ok |-> TRUE]
    ELSE [s |-> s, ok |-> FALSE]

(* httpp_initialize: every value of every default is set in turn.          *)
SetAll(s, d) ==
    LET after[i \in 0..Len(d.value)] == IF i = 0 THEN s ELSE SetVar(after[i - 1], d.name, d.value[i])
    IN  after[Len(d.value)]

Initialize(s, defaults) ==
    LET after[i \in 0..Len(defaults)] == IF i = 0 THEN s ELSE SetAll(after[i - 1], defaults[i])
    IN  after[Len(defaults)]

(* httpp_release; the last one frees the parser's uri and trees.           *)
Release(s) ==
    IF s.refc > 1 THEN [s EXCEPT !.refc = @ - 1]
    ELSE [s EXCEPT !.refc = 0, !.uri = NULL, !.req_type = "none",
                   !.vars = EmptyBag, !.queryvars = EmptyBag, !.postvars = EmptyBag,
                   !.heap = @ - (IF s.uri = NULL THEN 0 ELSE 1) - TreeBlocks(s.vars)
                              - TreeBlocks(s.queryvars) - TreeBlocks(s.postvars)]

-----------------------------------------------------------------------------
(* A call by someone who holds a reference.                                *)
Call(op, arg, result, ok) ==
    /\ hp.refc > 0
    /\ calls < MaxCalls
    /\ calls' = calls + 1
    /\ hp' = result
    /\ last' = [op |-> op, arg |-> arg, ok |-> ok]

HttppInitialize == \E d \in Defaults : Call("initialize", {}, Initialize(hp, d), TRUE)
HttppParse ==
    \E r \in Requests : Call("parse", {r}, Parse(hp, r).s, Parse(hp, r).ok)
HttppParseResponse ==
    \E r \in Responses : Call("response", {}, ParseResponse(hp, r).s, ParseResponse(hp, r).ok)
HttppParsePostdata ==
    \E b \in Bodies : Call("postdata", {}, ParsePostdata(hp, b).s, ParsePostdata(hp, b).ok)
HttppSetVar == \E x \in Settings : Call("setvar", {}, SetVar(hp, x[1], x[2]), TRUE)
HttppDeleteVar == \E x \in Settings : Call("deletevar", {}, DeleteVar(hp, x[1]), TRUE)
HttppSetQueryParam ==
    \E x \in Params : Call("setparam", {}, SetParam(hp, "queryvars", x[1], x[2]), TRUE)
HttppSetPostParam ==
    \E x \in Params : Call("setparam", {}, SetParam(hp, "postvars", x[1], x[2]), TRUE)
HttppAddref ==
    hp.refc < MaxRefs /\ Call("addref", {}, [hp EXCEPT !.refc = @ + 1], TRUE)

(* Nothing bounds the releases: every behaviour can end with the last one. *)
HttppRelease ==
    /\ hp.refc > 0
    /\ hp' = Release(hp)
    /\ last' = [op |-> "release", arg |-> {}, ok |-> TRUE]
    /\ UNCHANGED calls

Next ==
    \/ HttppInitialize \/ HttppParse \/ HttppParseResponse \/ HttppParsePostdata
    \/ HttppSetVar \/ HttppDeleteVar \/ HttppSetQueryParam \/ HttppSetPostParam
    \/ HttppAddref \/ HttppRelease

Spec == Init /\ [][Next]_vars

-----------------------------------------------------------------------------
(* httpp_get_any_var.                                                      *)
TreeOf(ns) ==
    CASE ns \in {"VAR", "HEADER"} -> "vars"
      [] ns = "QUERY_STRING" -> "queryvars"
      [] ns = "POST_BODY" -> "postvars"

Listed(ns, name) ==
    CASE ns = "VAR" -> name \in InternalNames
      [] ns = "HEADER" -> name \notin InternalNames
      [] OTHER -> TRUE

GetAnyVar(s, ns, name) ==
    IF Listed(ns, name) THEN AvlFind(s[TreeOf(ns)], name) ELSE {}

(* httpp_get_any_key: how often a name is put in the array, and the length *)
(* of the array when n names are in it.                                    *)
AnyKey(s, ns) ==
    [name \in {v.name : v \in {w \in BagToSet(s[TreeOf(ns)]) : Listed(ns, w.name)}} |->
        LET tree == s[TreeOf(ns)] IN
        Cardinality(UNION {{v} \X (1..tree[v]) : v \in AvlFind(tree, name)})]

ArrayLength(n) ==
    LET len[i \in 0..n] == IF i = 0 THEN Grow
                           ELSE IF i - 1 = len[i - 1] - 1 THEN len[i - 1] + Grow
                           ELSE len[i - 1]
    IN  len[n]

-----------------------------------------------------------------------------
(* Properties.                                                             *)

(* Type correctness: every record in a tree has a value, which _compare,   *)
(* httpp_getvar and _httpp_get_param rely on, and none is NULL.            *)
TypeOK ==
    /\ hp.refc \in 0..MaxRefs
    /\ hp.req_type \in Methods \cup {"none", "unknown"}
    /\ \A t \in Trees : \A v \in BagToSet(hp[t]) : hp[t][v] \in Nat /\ v.value # << >>
    /\ \A v \in BagToSet(hp.vars) : v.value # <<NULL>>
    /\ hp.heap \in Nat /\ hp.lost.uri \in Nat /\ hp.lost.key \in Nat
    /\ calls \in 0..MaxCalls

(* Whatever was set, added, replaced, deleted and parsed before,           *)
(* httpp_get_any_key lists each name of a namespace once, httpp_get_any_var *)
(* finds just one variable of it, and the array has room for the NULL that *)
(* ends it.                                                                *)
KeysListed ==
    \A ns \in {"VAR", "HEADER", "QUERY_STRING", "POST_BODY"} :
        LET keys == AnyKey(hp, ns) IN
        /\ \A name \in DOMAIN keys :
              keys[name] = 1 /\ Cardinality(GetAnyVar(hp, ns, name)) = 1
        /\ ArrayLength(Cardinality(DOMAIN keys)) > Cardinality(DOMAIN keys)

(* The blocks that can be reached from the parser, and the lost ones.      *)
Accounted(s) ==
    s.heap = TreeBlocks(s.vars) + TreeBlocks(s.queryvars) + TreeBlocks(s.postvars)
               + (IF s.uri = NULL THEN 0 ELSE 1) + s.lost.uri + s.lost.key

(* Every block the library allocated can be reached from the parser, or    *)
(* was lost in one of two places: parser->uri is overwritten by another    *)
(* httpp_parse, and _httpp_set_param_nocopy returns without freeing the    *)
(* name if the value did not unescape.  The last httpp_release frees all   *)
(* the others.                                                             *)
LeaksOnlyThere == Accounted(hp)

(* Line i of a request counts, as RFC 9112 and MAX_HEADERS have it, and    *)
(* gives the name a value.                                                 *)
Says(r, i, name) ==
    /\ i + 1 <= MAX_HEADERS
    /\ \A j \in 1..i : r.rest[j] # Blank
    /\ i < Len(r.rest) \/ ~r.cut
    /\ Lowercase(r.rest[i].name) = name
    /\ r.rest[i].value # ""

Said(r, name) == {i \in DOMAIN r.rest : Says(r, i, name)}

(* After a successful httpp_parse the variables agree with the request: a  *)
(* header has the value of the last line with its name, in any case, that  *)
(* is within MAX_HEADERS lines, and the library's own variables tell what  *)
(* the first line said and parser->uri and req_type hold, unless a header  *)
(* line has the name of such a variable: then it replaces the variable,    *)
(* as both are kept in one tree.                                           *)
RequestAgrees ==
    \A r \in last.arg :
        last.op = "parse" /\ last.ok =>
            LET own == [n \in {"__uri", "__req_type", "__protocol", "__version"} |->
                          CASE n = "__uri" -> hp.uri
                            [] n = "__req_type" -> hp.req_type
                            [] n = "__protocol" -> r.version[1]
                            [] n = "__version" -> r.version[2]]
                named == {n \in {Lowercase(r.rest[i].name) : i \in DOMAIN r.rest} : Said(r, n) # {}}
            IN  /\ hp.uri = r.uri /\ hp.req_type = Lowercase(r.method)
                /\ \A n \in named : GetVar(hp, n) = r.rest[Max(Said(r, n))].value
                /\ \A n \in DOMAIN own \ named : GetVar(hp, n) = own[n]

(* A failed httpp_parse does not take the request for the current one: all *)
(* headers, "__uri" and "__req_type" keep their values, as do the          *)
(* parameters of the body; those of the query may have become more.        *)
(* Protocol and version changed only if the method alone was wrong.        *)
FailedParseKeeps ==
    [][\A r \in last'.arg :
         calls' > calls /\ last'.op = "parse" /\ ~last'.ok =>
            /\ \A v \in BagToSet(hp.vars) \cup BagToSet(hp'.vars) :
                  \/ GetVar(hp', v.name) = GetVar(hp, v.name)
                  \/ v.name \in {"__rawuri", "__queryargs"} /\ r.query # {}
                  \/ v.name \in {"__protocol", "__version"} /\ hp'.req_type = "unknown"
            /\ hp'.postvars = hp.postvars
            /\ \A v \in BagToSet(hp.queryvars) :
                  IsPrefix(v.value, ParamValues(hp', "queryvars", v.name))]_vars

(* parse_query and url_unescape invert the encoding of forms: a request    *)
(* whose query is an encoded form adds its values, in order, to what the   *)
(* parser already had of each name.  (Empty values are not added: "We      *)
(* ignore keys with empty values".)                                        *)
ParamsDecode ==
    [][\A r \in last'.arg : \A form \in r.form :
         calls' > calls /\ last'.op = "parse" /\ r.n \in 2..3 =>
            \A i \in DOMAIN form :
                LET key == form[i][1] IN
                ParamValues(hp', "queryvars", key)
                  = ParamValues(hp, "queryvars", key) \o FormValues(form, key)]_vars

=============================================================================
