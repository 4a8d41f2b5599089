--------------------------- MODULE SockCallsProofs ---------------------------
(***************************************************************************)
(* Proofs about SockCalls, for every set of threads and of descriptors,    *)
(* every list of addresses and every plan of calls.                        *)
(*                                                                         *)
(* A step of the library changes the state of one call, and descriptors    *)
(* that are free or its own: CallStep says what has to be shown of the     *)
(* state s it leads to.  Each action then has a lemma of its own.          *)
(***************************************************************************)
EXTENDS SockCalls, WellFoundedInduction, SequenceTheorems, TLAPS

(* What a step of c has to do with the descriptors.                        *)
OwnStep(c, s) ==
    /\ \A f \in Fd :
         fds'[f] # fds[f] => fds[f].owner \in {c, Nobody} /\ fds'[f].owner \in {c, Nobody}
    /\ s.sock # NoSock => fds'[s.sock].owner = c /\ FdPart(build, s, fds'[s.sock])
    /\ s.ss # NoSock => fds'[s.ss].owner = c /\ s.sock # s.ss
    /\ \A f \in Fd : fds'[f].owner = c =>
         f \in {s.sock, s.ss} \/ (build = "fallback" /\ fds'[f].state = "new")

(* A call goes on in state s; a lookup that fails there excuses the table. *)
LEMMA CallStep ==
    ASSUME IInv, NEW c \in Caller, NEW s \in CallStates,
           call' = [call EXCEPT ![c] = s],
           build' = build,
           fds' \in [Fd -> FdStates],
           SockPart(s), ListPart(build, s), WaitPart(build, s),
           \/ strayed' = TRUE /\ build = "fallback"
           \/ strayed' = strayed /\ (strayed \/ OwnStep(c, s))
    PROVE  IInv'
<1>1. TypeOK'
  BY DEF IInv, TypeOK
<1>2. ASSUME NEW d \in Caller
      PROVE  SockPart(call'[d]) /\ ListPart(build', call'[d]) /\ WaitPart(build', call'[d])
  <2>1. CASE d = c
    BY <2>1 DEF IInv, TypeOK
  <2>2. CASE d # c
    BY <2>2 DEF IInv, TypeOK
  <2> QED
    BY <2>1, <2>2
<1>3. (strayed => build = "fallback")'
  BY DEF IInv
<1>4. ASSUME ~strayed', NEW d \in Caller
      PROVE  OwnPart(d)'
  <2>1. ~strayed /\ OwnStep(c, s) /\ OwnPart(d)
    BY <1>4 DEF IInv, TypeOK
  <2>2. CASE d = c
    BY <2>1, <2>2 DEF OwnPart, OwnStep, IInv, TypeOK
  <2>3. CASE d # c
    <3>1. call'[d] = call[d] /\ call[d] \in CallStates
      BY <2>3 DEF IInv, TypeOK
    <3>2. \A f \in Fd : fds[f].owner = d \/ fds'[f].owner = d => fds'[f] = fds[f]
      BY <2>1, <2>3, NobodyAssumption DEF OwnStep
    <3>3. call[d].sock # NoSock => call[d].sock \in Fd
      BY <3>1 DEF CallStates
    <3>4. call[d].ss # NoSock => call[d].ss \in Fd
      BY <3>1 DEF CallStates
    <3> QED
      BY <2>1, <3>1, <3>2, <3>3, <3>4 DEF OwnPart
  <2> QED
    BY <2>2, <2>3
<1> QED
  BY <1>1, <1>2, <1>3, <1>4 DEF IInv

(* SOCK_ERROR is not a descriptor.                                         *)
LEMMA NoSockIsNone == NoSock \notin Fd
BY FdAssumption DEF NoSock

(* There is a lowest free descriptor, and it is free.                      *)
LEMMA LowestIsFree ==
    ASSUME FreeFds # {}
    PROVE  LowestFree \in Fd /\ fds[LowestFree].owner = Nobody
<1>1. FreeFds \subseteq Nat
  BY FdAssumption DEF FreeFds
<1>2. PICK m \in FreeFds : \A k \in FreeFds : ~(<<k, m>> \in OpToRel(<, Nat))
  BY <1>1, WFMin, NatLessThanWellFounded
<1>3. \A k \in FreeFds : m <= k
  <2>1. \A k \in FreeFds : ~(k < m)
    BY <1>1, <1>2 DEF OpToRel
  <2> QED
    BY <1>1, <2>1
<1>4. LowestFree \in FreeFds
  BY <1>3 DEF LowestFree
<1> QED
  BY <1>4 DEF FreeFds

(* A call that goes on with the descriptors it has.                        *)
LEMMA SameTable ==
    ASSUME IInv, NEW c \in Caller, NEW s \in CallStates,
           fds' = fds,
           s.sock = call[c].sock, s.ss = call[c].ss,
           s.sock # NoSock /\ ~strayed => FdPart(build, s, fds[s.sock])
    PROVE  strayed \/ OwnStep(c, s)
BY DEF IInv, OwnStep, OwnPart

(* A call that closes one of its descriptors.                              *)
LEMMA OneClosed ==
    ASSUME IInv, NEW c \in Caller, NEW s \in CallStates, NEW f \in Fd,
           fds' = [fds EXCEPT ![f] = Free],
           \/ f = call[c].sock /\ s.sock = NoSock /\ s.ss = call[c].ss
           \/ f = call[c].ss /\ s.ss = NoSock /\ s.sock = NoSock /\ call[c].sock = NoSock
    PROVE  /\ fds' \in [Fd -> FdStates]
           /\ strayed \/ OwnStep(c, s)
<1>1. Free \in FdStates /\ Free.owner = Nobody
  BY DEF Free, FdStates
<1>2. fds' \in [Fd -> FdStates] /\ fds'[f] = Free /\ \A g \in Fd \ {f} : fds'[g] = fds[g]
  BY <1>1 DEF IInv, TypeOK
<1>3. call[c].ss # NoSock => call[c].ss \in Fd
  BY DEF IInv, TypeOK, CallStates
<1>4. ASSUME ~strayed PROVE OwnStep(c, s)
  BY <1>1, <1>2, <1>3, <1>4, NobodyAssumption, NoSockIsNone DEF IInv, OwnStep, OwnPart
<1> QED
  BY <1>2, <1>4

(* A call that opens a descriptor.                                         *)
LEMMA OneOpened ==
    ASSUME IInv, NEW c \in Caller, NEW s \in CallStates, NEW fd \in FdStates,
           FreeFds # {},
           fds' = [fds EXCEPT ![LowestFree] = fd], fd.owner = c,
           call[c].sock = NoSock, s.sock = LowestFree, s.ss = call[c].ss,
           FdPart(build, s, fd)
    PROVE  /\ fds' \in [Fd -> FdStates]
           /\ strayed \/ OwnStep(c, s)
<1>1. PICK f \in Fd : f = LowestFree /\ fds[f].owner = Nobody
  BY LowestIsFree
<1>2. fds' \in [Fd -> FdStates] /\ fds'[f] = fd /\ \A g \in Fd \ {f} : fds'[g] = fds[g]
  BY <1>1 DEF IInv, TypeOK
<1>3. call[c].ss # NoSock => call[c].ss \in Fd
  BY DEF IInv, TypeOK, CallStates
<1>4. ASSUME ~strayed PROVE OwnStep(c, s)
  BY <1>1, <1>2, <1>3, <1>4, NobodyAssumption, NoSockIsNone DEF IInv, OwnStep, OwnPart
<1> QED
  BY <1>2, <1>4

(* A call that changes the state of its socket.                            *)
LEMMA OneChanged ==
    ASSUME IInv, NEW c \in Caller, NEW s \in CallStates, NEW f \in Fd, NEW fd \in FdStates,
           fds' = [fds EXCEPT ![f] = fd], fd.owner = fds[f].owner,
           call[c].sock = f, s.sock = f, s.ss = call[c].ss,
           ~strayed => FdPart(build, s, fd)
    PROVE  /\ fds' \in [Fd -> FdStates]
           /\ strayed \/ OwnStep(c, s)
<1>2. fds' \in [Fd -> FdStates] /\ fds'[f] = fd /\ \A g \in Fd \ {f} : fds'[g] = fds[g]
  BY DEF IInv, TypeOK
<1>3. call[c].ss # NoSock => call[c].ss \in Fd
  BY DEF IInv, TypeOK, CallStates
<1>4. ASSUME ~strayed PROVE OwnStep(c, s)
  BY <1>2, <1>3, <1>4, NobodyAssumption, NoSockIsNone DEF IInv, OwnStep, OwnPart
<1> QED
  BY <1>2, <1>4

-----------------------------------------------------------------------------
(* What IInv says of one call.                                             *)
LEMMA CallFacts ==
    ASSUME IInv, NEW c \in Caller
    PROVE  /\ call[c] \in CallStates
           /\ SockPart(call[c]) /\ ListPart(build, call[c]) /\ WaitPart(build, call[c])
           /\ build \in {"getaddrinfo", "fallback"}
           /\ fds \in [Fd -> FdStates]
           /\ strayed => build = "fallback"
           /\ strayed \/ OwnPart(c)
BY DEF IInv, TypeOK

(* The list of addresses has a length.                                     *)
LEMMA AddressCount == Len(Addresses) \in Nat /\ Len(Addresses) > 0
BY AddressesAssumption

(* More addresses or signals allow for more time.                          *)
LEMMA MoreTime ==
    ASSUME NEW t \in Nat, NEW a \in Int, NEW b \in Int, a <= b
    PROVE  t * a <= t * b
<1>1. b - a \in Nat
  OBVIOUS
<1>2. t * (b - a) >= 0
  BY <1>1
<1>3. t * (b - a) = t * b - t * a
  OBVIOUS
<1> QED
  BY <1>2, <1>3

(* What InTime is about are numbers.                                       *)
LEMMA TriedInt ==
    ASSUME NEW s \in CallStates
    PROVE  /\ Tried(s) \in Int /\ Timeout(s) \in Nat
           /\ s.elapsed \in Nat /\ s.signals \in Nat /\ s.ai \in Nat /\ s.timeout \in Int
           /\ s.lost \in Nat
<1>1. PICK l \in Nat : l = Len(Addresses)
  BY AddressCount
<1>2. s.ai \in Nat /\ s.timeout \in Int /\ s.elapsed \in Nat /\ s.signals \in Nat /\ s.lost \in Nat
  BY DEF CallStates
<1> QED
  BY <1>1, <1>2 DEF Tried, Timeout

(* A call keeps within its time if it waits no more, or if it waits once   *)
(* more and then has one more signal or address behind it.                 *)
LEMMA TimeKept ==
    ASSUME NEW s \in CallStates, NEW r \in CallStates, NEW w \in Nat,
           r.timeout = s.timeout, r.elapsed = s.elapsed + w,
           InTime(s),
           \/ w = 0 /\ Tried(s) + s.signals <= Tried(r) + r.signals
           \/ w <= Timeout(s) /\ Tried(s) + s.signals + 1 <= Tried(r) + r.signals
    PROVE  InTime(r)
<1>1. /\ Timeout(s) \in Nat /\ Tried(s) \in Int /\ s.signals \in Nat /\ s.elapsed \in Nat
      /\ Tried(r) \in Int /\ r.signals \in Nat
  BY TriedInt
<1>2. PICK t \in Nat, a \in Int, b \in Int, e \in Nat :
        /\ t = Timeout(s) /\ a = Tried(s) + s.signals /\ b = Tried(r) + r.signals
        /\ e = s.elapsed
  BY <1>1
<1>3. t = Timeout(r)
  BY <1>2 DEF Timeout
<1>4. e <= t * a
  BY <1>2 DEF InTime
<1>5. t * a \in Int /\ t * b \in Int
  OBVIOUS
<1>6. CASE w = 0 /\ a <= b
  <2>1. t * a <= t * b
    BY <1>6, MoreTime
  <2>2. e <= t * b
    BY <1>4, <1>5, <2>1
  <2> QED
    BY <1>2, <1>3, <1>6, <2>2 DEF InTime
<1>7. CASE w <= t /\ a + 1 <= b
  <2>1. t * (a + 1) <= t * b
    BY <1>7, MoreTime
  <2>2. t * (a + 1) = t * a + t
    OBVIOUS
  <2>3. e + w <= t * b
    BY <1>4, <1>5, <1>7, <2>1, <2>2
  <2> QED
    BY <1>2, <1>3, <2>3 DEF InTime
<1> QED
  BY <1>2, <1>6, <1>7

LEMMA TimeSame ==
    ASSUME NEW s \in CallStates, NEW r \in CallStates,
           r.timeout = s.timeout, r.elapsed = s.elapsed,
           InTime(s),
           Tried(s) <= Tried(r), s.signals <= r.signals
    PROVE  InTime(r)
<1>1. /\ Tried(s) \in Int /\ s.signals \in Nat /\ s.elapsed \in Nat
      /\ Tried(r) \in Int /\ r.signals \in Nat
  BY TriedInt
<1>2. r.elapsed = s.elapsed + 0 /\ Tried(s) + s.signals <= Tried(r) + r.signals
  BY <1>1
<1> QED
  BY <1>2, TimeKept

(* A call that has not waited is within its time.                          *)
LEMMA TimeFresh ==
    ASSUME NEW r \in CallStates, r.elapsed = 0, 0 <= Tried(r) + r.signals
    PROVE  InTime(r)
<1>1. Timeout(r) \in Nat /\ Tried(r) \in Int /\ r.signals \in Nat
  BY TriedInt
<1>2. PICK t \in Nat, b \in Int : t = Timeout(r) /\ b = Tried(r) + r.signals
  BY <1>1
<1>3. t * 0 <= t * b
  BY <1>2, MoreTime
<1> QED
  BY <1>2, <1>3 DEF InTime

(* The arguments of a call stay.                                           *)
Kept(r, s) == r.op = s.op /\ r.timeout = s.timeout /\ r.bnd = s.bnd /\ r.ss = s.ss
(* ... and what it has found out about its connects.                       *)
Known(r, s) ==
    /\ r.errno = s.errno /\ r.cerr = s.cerr /\ r.cut = s.cut
    /\ r.signals = s.signals /\ r.elapsed = s.elapsed

LEMMA KindKept ==
    ASSUME NEW s, NEW r, Kept(r, s)
    PROVE  Kind(r) = Kind(s) /\ \A b : NonBlocking(b, r) <=> NonBlocking(b, s)
BY DEF Kind, Kept, NonBlocking

(* Kind, in other words.                                                   *)
LEMMA KindIs ==
    ASSUME NEW s \in CallStates
    PROVE  /\ Kind(s) = IF s.op # "probe" THEN s.op
                        ELSE IF s.ss = NoSock THEN "server" ELSE "connect"
           /\ Kind(s) \in {"connect", "nonblock", "server"}
<1>1. s.op \in Ops
  BY DEF CallStates
<1> QED
  BY <1>1 DEF Kind, Ops

-----------------------------------------------------------------------------
(* freeaddrinfo.                                                           *)
LEMMA FreeListsStep ==
    ASSUME IInv, NEW c \in Caller, FreeLists(c) PROVE IInv'
<1>1. PICK s : s = call[c]
  OBVIOUS
<1>2. /\ s \in CallStates /\ SockPart(s) /\ ListPart(build, s) /\ WaitPart(build, s)
      /\ build \in {"getaddrinfo", "fallback"} /\ fds \in [Fd -> FdStates]
      /\ strayed \/ OwnPart(c)
  BY <1>1, CallFacts
<1>3. PICK r : r = [s EXCEPT !.lists = 0, !.pc = "return"]
  OBVIOUS
<1>4. /\ s.pc = "free" /\ call' = [call EXCEPT ![c] = r]
      /\ UNCHANGED <<build, strayed, fds>>
  BY <1>1, <1>3 DEF FreeLists, Becomes
<1>5. /\ r \in CallStates /\ Kept(r, s) /\ Known(r, s)
      /\ r.pc = "return" /\ r.lists = 0 /\ r.lost = s.lost /\ r.ai = s.ai /\ r.sock = s.sock
      /\ r.why = s.why
  BY <1>2, <1>3 DEF CallStates, Kept, Known
<1>6. SockPart(r)
  BY <1>2, <1>4, <1>5 DEF SockPart, Kept
<1>7. ListPart(build, r)
  BY <1>2, <1>4, <1>5 DEF ListPart, Kept
<1>8. WaitPart(build, r)
  <2>1. InTime(s) => InTime(r)
    BY <1>2, <1>4, <1>5 DEF InTime, Timeout, Tried, Kept, Known
  <2> QED
    BY <1>2, <1>4, <1>5, <2>1 DEF WaitPart, Kept, Known
<1>9. s.sock # NoSock /\ ~strayed => FdPart(build, r, fds[s.sock])
  BY <1>1, <1>2, <1>4, <1>5 DEF OwnPart, FdPart, Kept, Known
<1>10. strayed \/ OwnStep(c, r)
  BY <1>1, <1>4, <1>5, <1>9, SameTable DEF Kept
<1> QED
  BY <1>2, <1>4, <1>5, <1>6, <1>7, <1>8, <1>10, CallStep

(* A call of the application looks up the name.                            *)
LEMMA LookupGoes ==
    ASSUME build \in {"getaddrinfo", "fallback"}, NEW q, NEW r \in Lookup(q)
    PROVE  \/ build = "getaddrinfo" /\ r = [q EXCEPT !.pc = "next", !.lists = 1, !.ai = 1]
           \/ r = [q EXCEPT !.pc = "return", !.why = "lookup"]
           \/ build = "fallback" /\ r = [q EXCEPT !.pc = "socket"]
<1>1. CASE build = "getaddrinfo"
  BY <1>1 DEF Lookup
<1>2. CASE build = "fallback" /\ Kind(q) = "server"
  BY <1>2 DEF Lookup
<1>3. CASE build = "fallback" /\ Kind(q) # "server"
  BY <1>3 DEF Lookup
<1> QED
  BY <1>1, <1>2, <1>3

LEMMA StartStep ==
    ASSUME IInv, NEW c \in Caller, Start(c) PROVE IInv'
<1>1. PICK s : s = call[c]
  OBVIOUS
<1>2. /\ s \in CallStates /\ SockPart(s)
      /\ build \in {"getaddrinfo", "fallback"} /\ fds \in [Fd -> FdStates]
  BY <1>1, CallFacts
<1>4. s.pc = "idle" /\ fds' = fds
  BY <1>1 DEF Start
<1>5. \E q \in CallStates :
        /\ q.sock = NoSock /\ q.ss = NoSock /\ q.lists = 0 /\ q.lost = 0 /\ q.ai = 1
        /\ q.why = "none" /\ q.cut = "none" /\ q.signals = 0 /\ q.elapsed = 0
        /\ \E r \in Lookup(q) : Becomes(c, r)
  <2>1. PICK a \in Plan[c] :
          \E p \in CASE a.op = "server" -> BOOLEAN [] OTHER -> {a.op = "probe"} :
            \E r \in Lookup([Idle EXCEPT !.op = a.op, !.timeout = a.timeout, !.bnd = a.bnd,
                                         !.prefer = p]) : Becomes(c, r)
    BY Zenon DEF Start
  <2>2. PICK p \in CASE a.op = "server" -> BOOLEAN [] OTHER -> {a.op = "probe"} :
          \E r \in Lookup([Idle EXCEPT !.op = a.op, !.timeout = a.timeout, !.bnd = a.bnd,
                                       !.prefer = p]) : Becomes(c, r)
    BY <2>1, Zenon
  <2>3. a \in Calls
    BY PlanAssumption
  <2>4. p \in BOOLEAN
    <3>1. CASE a.op = "server"
      BY <3>1
    <3>2. CASE a.op # "server"
      BY <3>2
    <3> QED
      BY <3>1, <3>2
  <2>5. PICK q :
          q = [Idle EXCEPT !.op = a.op, !.timeout = a.timeout, !.bnd = a.bnd, !.prefer = p]
    OBVIOUS
  <2>6. /\ q \in CallStates
        /\ q.sock = NoSock /\ q.ss = NoSock /\ q.lists = 0 /\ q.lost = 0 /\ q.ai = 1
        /\ q.why = "none" /\ q.cut = "none" /\ q.signals = 0 /\ q.elapsed = 0
    <3>1. a.op \in Ops /\ a.timeout \in Int /\ a.bnd \in BOOLEAN
      BY <2>3 DEF Calls
    <3>2. "0" \in Errors /\ NoSock \in Fd \cup {NoSock}
      BY DEF Errors
    <3> QED
      BY <2>4, <2>5, <3>1, <3>2 DEF Idle, CallStates
  <2> QED
    BY <2>2, <2>5, <2>6, Zenon
<1>6. PICK q \in CallStates :
        /\ q.sock = NoSock /\ q.ss = NoSock /\ q.lists = 0 /\ q.lost = 0 /\ q.ai = 1
        /\ q.why = "none" /\ q.cut = "none" /\ q.signals = 0 /\ q.elapsed = 0
        /\ \E r \in Lookup(q) : Becomes(c, r)
  BY <1>5
<1>7. PICK r \in Lookup(q) : Becomes(c, r)
  BY <1>6
<1>9. /\ r \in CallStates
      /\ r.sock = NoSock /\ r.ss = NoSock /\ r.lost = 0 /\ r.ai = 1
      /\ r.cut = "none" /\ r.signals = 0 /\ r.elapsed = 0
      /\ \/ build = "getaddrinfo" /\ r.pc = "next" /\ r.lists = 1
         \/ r.pc = "return" /\ r.why = "lookup" /\ r.lists = 0
         \/ build = "fallback" /\ r.pc = "socket" /\ r.lists = 0
  <2>1. CASE build = "getaddrinfo" /\ r = [q EXCEPT !.pc = "next", !.lists = 1, !.ai = 1]
    BY <1>6, <2>1 DEF CallStates
  <2>2. CASE r = [q EXCEPT !.pc = "return", !.why = "lookup"]
    BY <1>6, <2>2 DEF CallStates
  <2>3. CASE build = "fallback" /\ r = [q EXCEPT !.pc = "socket"]
    BY <1>6, <2>3 DEF CallStates
  <2> QED
    BY <1>2, <1>7, <2>1, <2>2, <2>3, LookupGoes
<1>10. SockPart(r)
  BY <1>9 DEF SockPart
<1> PICK l \in Nat : l = Len(Addresses) /\ l > 0
  BY AddressCount
<1>a. PICK n \in Nat, g \in Nat, m \in Nat : n = r.ai /\ g = r.signals /\ m = r.lost
  BY <1>9
<1>11. ListPart(build, r)
  BY <1>9, <1>a DEF ListPart
<1>12. WaitPart(build, r)
  <2>1. 0 <= Tried(r) + r.signals
    BY <1>9, <1>a DEF Tried
  <2> QED
    BY <1>9, <2>1, TimeFresh DEF WaitPart
<1>13. strayed \/ OwnStep(c, r)
  <2>1. s.sock = NoSock /\ s.ss = NoSock
    BY <1>2, <1>4 DEF SockPart
  <2> QED
    BY <1>1, <1>4, <1>9, <2>1, SameTable
<1> QED
  BY <1>2, <1>4, <1>7, <1>9, <1>10, <1>11, <1>12, <1>13, CallStep DEF Becomes

(* The next address, if there is one.                                      *)
LEMMA NextAddressStep ==
    ASSUME IInv, NEW c \in Caller, NextAddress(c) PROVE IInv'
<1>1. PICK s : s = call[c]
  OBVIOUS
<1>2. /\ s \in CallStates /\ SockPart(s) /\ ListPart(build, s) /\ WaitPart(build, s)
      /\ build \in {"getaddrinfo", "fallback"} /\ fds \in [Fd -> FdStates]
      /\ strayed \/ OwnPart(c)
  BY <1>1, CallFacts
<1>3. s.pc = "next" /\ fds' = fds
  BY <1>1 DEF NextAddress
<1>4. build = "getaddrinfo" /\ s.sock = NoSock
  BY <1>2, <1>3 DEF ListPart, SockPart
<1>6. s.ai \in Nat /\ s.ai + 1 \in Nat /\ s.lost \in Nat /\ s.signals <= s.signals
  BY <1>2, TriedInt
<1> PICK l \in Nat : l = Len(Addresses) /\ l > 0
  BY AddressCount
<1>a. s.ai > Len(Addresses) \/ s.ai <= Len(Addresses)
  BY <1>6
<1>5. PICK r :
        /\ Becomes(c, r)
        /\ \/ r = [s EXCEPT !.ai = 1, !.prefer = FALSE] /\ Kind(s) = "server"
           \/ r = [s EXCEPT !.pc = "free"] /\ s.ai > Len(Addresses)
           \/ r = [s EXCEPT !.ai = @ + 1] /\ Kind(s) = "server" /\ s.ai <= Len(Addresses)
           \/ r = [s EXCEPT !.pc = "socket"] /\ s.ai <= Len(Addresses)
  <2> DEFINE atEnd == s.ai > Len(Addresses)
             wants == Kind(s) = "server" /\ s.prefer
             skips == ~atEnd /\ wants /\ Addresses[s.ai] # "inet6"
  <2>1. CASE atEnd /\ wants
    BY <1>1, <1>a, <2>1 DEF NextAddress
  <2>2. CASE atEnd /\ ~wants
    BY <1>1, <1>a, <2>2 DEF NextAddress
  <2>3. CASE skips
    BY <1>1, <1>a, <2>3 DEF NextAddress
  <2>4. CASE ~atEnd /\ ~skips
    BY <1>1, <1>a, <2>4 DEF NextAddress
  <2> QED
    BY <2>1, <2>2, <2>3, <2>4
<1>7. /\ r \in CallStates /\ Kept(r, s) /\ Known(r, s)
      /\ r.lists = s.lists /\ r.lost = s.lost /\ r.sock = NoSock /\ r.why = s.why
      /\ \/ r.pc = "next" /\ r.ai = 1 /\ Kind(s) = "server"
         \/ r.pc = "free" /\ r.ai = s.ai /\ s.ai > Len(Addresses)
         \/ r.pc = "next" /\ r.ai = s.ai + 1 /\ Kind(s) = "server" /\ s.ai <= Len(Addresses)
         \/ r.pc = "socket" /\ r.ai = s.ai /\ s.ai <= Len(Addresses)
  <2>1. CASE r = [s EXCEPT !.ai = 1, !.prefer = FALSE] /\ Kind(s) = "server"
    BY <1>2, <1>3, <1>4, <2>1, ZenonT(60) DEF CallStates, Kept, Known
  <2>2. CASE r = [s EXCEPT !.pc = "free"] /\ s.ai > Len(Addresses)
    BY <1>2, <1>3, <1>4, <2>2 DEF CallStates, Kept, Known
  <2>3. CASE r = [s EXCEPT !.ai = @ + 1] /\ Kind(s) = "server" /\ s.ai <= Len(Addresses)
    BY <1>2, <1>3, <1>4, <1>6, <2>3, SMTT(60) DEF CallStates, Kept, Known
  <2>4. CASE r = [s EXCEPT !.pc = "socket"] /\ s.ai <= Len(Addresses)
    BY <1>2, <1>3, <1>4, <1>6, <2>4 DEF CallStates, Kept, Known
  <2> QED
    BY <1>5, <2>1, <2>2, <2>3, <2>4
<1>8. Kind(s) = "server" => s.op # "connect"
  BY <1>2, KindIs
<1>9. SockPart(r)
  BY <1>2, <1>3, <1>4, <1>7 DEF SockPart, Kept
<1>10. ListPart(build, r)
  BY <1>2, <1>3, <1>4, <1>6, <1>7, <1>8, SMTT(60) DEF ListPart, Kept
<1>11. WaitPart(build, r)
  <2>1. s.op = "connect" => Tried(s) <= Tried(r)
    BY <1>2, <1>3, <1>4, <1>6, <1>7, <1>8 DEF Tried, ListPart
  <2>2. s.op = "connect" /\ InTime(s) => InTime(r)
    BY <1>2, <1>6, <1>7, <2>1, TimeSame DEF Kept, Known
  <2> QED
    BY <1>2, <1>3, <1>4, <1>6, <1>7, <1>8, <2>2 DEF WaitPart, Kept, Known
<1>12. strayed \/ OwnStep(c, r)
  BY <1>1, <1>3, <1>4, <1>7, SameTable DEF Kept
<1> QED
  BY <1>2, <1>3, <1>5, <1>7, <1>9, <1>10, <1>11, <1>12, CallStep DEF Becomes

(* An address that failed.                                                 *)
LEMMA GiveUpGoes ==
    ASSUME IInv, NEW c \in Caller, NEW s, NEW r, s = call[c], r = GiveUp(s),
           s.pc \in {"socket", "close"}
    PROVE  /\ r \in CallStates /\ Kept(r, s) /\ r.sock = NoSock
           /\ SockPart(r) /\ ListPart(build, r) /\ WaitPart(build, r)
<1>1. /\ s \in CallStates /\ SockPart(s) /\ ListPart(build, s) /\ WaitPart(build, s)
      /\ build \in {"getaddrinfo", "fallback"}
  BY CallFacts
<1>2. s.ai \in Nat /\ s.ai + 1 \in Nat /\ s.lost \in Nat /\ s.signals \in Nat
  BY <1>1, TriedInt
<1> PICK l \in Nat : l = Len(Addresses) /\ l > 0
  BY AddressCount
<1>3. /\ r \in CallStates /\ Kept(r, s) /\ Known(r, s)
      /\ r.lists = s.lists /\ r.lost = s.lost /\ r.sock = NoSock /\ r.why = s.why
      /\ \/ build = "getaddrinfo" /\ r.pc = "next" /\ r.ai = s.ai + 1
         \/ build = "fallback" /\ r.pc = "return" /\ r.ai = s.ai
  <2>1. CASE build = "getaddrinfo"
    BY <1>1, <1>2, <2>1, ZenonT(60) DEF GiveUp, CallStates, Kept, Known
  <2>2. CASE build = "fallback"
    BY <1>1, <1>2, <2>2, ZenonT(60) DEF GiveUp, CallStates, Kept, Known
  <2> QED
    BY <1>1, <2>1, <2>2
<1>4. SockPart(r)
  BY <1>1, <1>3 DEF SockPart, Kept
<1>5. ListPart(build, r)
  BY <1>1, <1>2, <1>3, SMTT(60) DEF ListPart, Kept
<1>6. WaitPart(build, r)
  <2>1. build = "getaddrinfo" /\ InTime(s) => InTime(r)
    <3>1. build = "getaddrinfo" => Tried(s) <= Tried(r)
      BY <1>1, <1>2, <1>3, SMTT(60) DEF Tried, ListPart
    <3> QED
      BY <1>1, <1>2, <1>3, <3>1, TimeSame DEF Kept, Known
  <2> QED
    BY <1>1, <1>3, <2>1 DEF WaitPart, Kept, Known
<1> QED
  BY <1>3, <1>4, <1>5, <1>6

(* socket().                                                               *)
LEMMA SocketStep ==
    ASSUME IInv, NEW c \in Caller, Socket(c) PROVE IInv'
<1>1. PICK s : s = call[c]
  OBVIOUS
<1>2. /\ s \in CallStates /\ SockPart(s) /\ ListPart(build, s) /\ WaitPart(build, s)
      /\ build \in {"getaddrinfo", "fallback"} /\ fds \in [Fd -> FdStates]
      /\ strayed \/ OwnPart(c)
  BY <1>1, CallFacts
<1>3. s.pc = "socket" /\ s.sock = NoSock
  BY <1>1, <1>2 DEF Socket, SockPart
<1>4. CASE Becomes(c, GiveUp(s)) /\ UNCHANGED fds
  <2>1. PICK r : r = GiveUp(s)
    OBVIOUS
  <2>2. /\ r \in CallStates /\ Kept(r, s) /\ r.sock = NoSock
        /\ SockPart(r) /\ ListPart(build, r) /\ WaitPart(build, r)
    BY <1>1, <1>3, <2>1, GiveUpGoes
  <2>3. strayed \/ OwnStep(c, r)
    BY <1>1, <1>3, <1>4, <2>2, SameTable DEF Kept
  <2> QED
    BY <1>2, <1>4, <2>1, <2>2, <2>3, CallStep DEF Becomes
<1>5. CASE FreeFds # {} /\ ~(Becomes(c, GiveUp(s)) /\ UNCHANGED fds)
  <2>1. PICK f \in Fd : f = LowestFree
    BY <1>5, LowestIsFree
  <2>2. PICK pc \in {"bind", "connect"} :
          /\ fds' = [fds EXCEPT ![f] =
                       [owner |-> c, state |-> "new", block |-> ~NonBlocking(build, s)]]
          /\ Becomes(c, [s EXCEPT !.sock = f, !.pc = pc])
          /\ IF pc = "bind"
             THEN Kind(s) = "server" \/ (Kind(s) = "connect" /\ s.bnd /\ s.op # "probe")
             ELSE Kind(s) # "server"
    BY <1>1, <1>5, <2>1 DEF Socket
  <2>3. PICK r : r = [s EXCEPT !.sock = f, !.pc = pc]
    OBVIOUS
  <2>4. /\ r \in CallStates /\ Kept(r, s) /\ Known(r, s)
        /\ r.lists = s.lists /\ r.lost = s.lost /\ r.sock = f /\ r.why = s.why
        /\ r.pc = pc /\ r.ai = s.ai
    BY <1>2, <2>1, <2>2, <2>3, ZenonT(60) DEF CallStates, Kept, Known
  <2>5. Kind(r) = Kind(s) /\ (NonBlocking(build, r) <=> NonBlocking(build, s))
    BY <2>4, KindKept
  <2>6. f # NoSock
    BY NoSockIsNone
  <2>7. Kind(s) = "connect" /\ s.op # "probe" => s.op = "connect"
    BY <1>2, KindIs
  <2>8. SockPart(r)
    BY <1>2, <1>3, <2>2, <2>4, <2>5, <2>6, <2>7 DEF SockPart, Kept
  <2>9. ListPart(build, r)
    <3>1. s.ai \in Nat /\ s.lost \in Nat
      BY <1>2, TriedInt
    <3> QED
      BY <1>2, <1>3, <2>2, <2>4, <3>1, AddressCount DEF ListPart, Kept
  <2>10. WaitPart(build, r)
    <3>1. InTime(s) => InTime(r)
      BY <1>3, <2>2, <2>4 DEF InTime, Timeout, Tried, Kept, Known
    <3> QED
      BY <1>2, <1>3, <2>2, <2>4, <3>1 DEF WaitPart, Kept, Known
  <2>11. PICK fd : fd = [owner |-> c, state |-> "new", block |-> ~NonBlocking(build, s)]
    OBVIOUS
  <2>12. fd \in FdStates /\ fd.owner = c /\ fd.state = "new" /\ fd.block = ~NonBlocking(build, s)
    <3>1. (~NonBlocking(build, s)) \in BOOLEAN
      BY DEF NonBlocking
    <3> QED
      BY <2>11, <3>1 DEF FdStates
  <2>13. FdPart(build, r, fd)
    BY <2>2, <2>4, <2>5, <2>12 DEF FdPart
  <2>14. fds' \in [Fd -> FdStates] /\ (strayed \/ OwnStep(c, r))
    <3>1. fds' = [fds EXCEPT ![LowestFree] = fd] /\ r.sock = LowestFree
      BY <2>1, <2>2, <2>4, <2>11
    <3> QED
      BY <1>1, <1>3, <1>5, <2>4, <2>12, <2>13, <3>1, OneOpened DEF Kept
  <2> QED
    BY <2>2, <2>3, <2>4, <2>8, <2>9, <2>10, <2>14, CallStep DEF Becomes
<1> QED
  BY <1>1, <1>4, <1>5 DEF Socket

(* bind().                                                                 *)
LEMMA BindStep ==
    ASSUME IInv, NEW c \in Caller, Bind(c) PROVE IInv'
<1>1. PICK s : s = call[c]
  OBVIOUS
<1>2. /\ s \in CallStates /\ SockPart(s) /\ ListPart(build, s) /\ WaitPart(build, s)
      /\ build \in {"getaddrinfo", "fallback"} /\ fds \in [Fd -> FdStates]
      /\ strayed \/ OwnPart(c)
  BY <1>1, CallFacts
<1>3. s.pc = "bind" /\ s.sock # NoSock
  BY <1>1, <1>2 DEF Bind, SockPart
<1>4. PICK f \in Fd : f = s.sock
  BY <1>2, <1>3 DEF CallStates
<1>5. s.ai \in Nat /\ s.lost \in Nat /\ s.lost + 1 \in Nat /\ s.signals \in Nat
  BY <1>2, TriedInt
<1> PICK l \in Nat : l = Len(Addresses) /\ l > 0
  BY AddressCount
<1> DEFINE listed == IF build = "getaddrinfo" /\ Kind(s) = "connect"
                     THEN [s EXCEPT !.lists = IF @ = 1 THEN 2 ELSE @,
                                    !.lost = IF s.lists = 2 THEN @ + 1 ELSE @]
                     ELSE s
           newFd == [fds[f] EXCEPT !.state = IF @ = "new" THEN "bound" ELSE @]
<1>6. \/ /\ Becomes(c, [listed EXCEPT !.pc = IF Kind(s) = "server" THEN "free" ELSE "connect"])
         /\ fds' = [fds EXCEPT ![f] = newFd]
      \/ Becomes(c, [listed EXCEPT !.pc = "close", !.why = "bind"]) /\ fds' = fds
      \/ Becomes(c, [s EXCEPT !.pc = "close", !.why = "bind"]) /\ fds' = fds
  BY <1>1, <1>4 DEF Bind
<1>7. PICK u : u = listed
  OBVIOUS
<1>8. /\ u \in CallStates /\ Kept(u, s) /\ Known(u, s)
      /\ u.pc = s.pc /\ u.ai = s.ai /\ u.sock = f /\ u.why = s.why
      /\ \/ u.lists = s.lists /\ u.lost = s.lost
         \/ Kind(s) = "connect" /\ s.lists = 1 /\ u.lists = 2 /\ u.lost = s.lost
         \/ Kind(s) = "connect" /\ s.lists = 2 /\ u.lists = 2 /\ u.lost = s.lost + 1
  <2>1. CASE ~(build = "getaddrinfo" /\ Kind(s) = "connect")
    BY <1>2, <1>4, <1>7, <2>1 DEF Kept, Known
  <2>2. CASE /\ build = "getaddrinfo" /\ Kind(s) = "connect"
             /\ s.lists = 1
    <3>1. u = [s EXCEPT !.lists = 2, !.lost = @]
      BY <1>7, <2>2
    <3> QED
      BY <1>2, <1>4, <1>5, <2>2, <3>1 DEF Kept, Known, CallStates
  <2>3. CASE /\ build = "getaddrinfo" /\ Kind(s) = "connect"
             /\ s.lists = 2
    BY <1>2, <1>4, <1>5, <1>7, <2>3 DEF Kept, Known, CallStates
  <2>4. CASE /\ build = "getaddrinfo" /\ Kind(s) = "connect"
             /\ s.lists = 0
    <3>1. u = [s EXCEPT !.lists = 0, !.lost = s.lost]
      BY <1>7, <2>4
    <3>2. u = s
      BY <1>2, <2>4, <3>1 DEF CallStates
    <3> QED
      BY <1>2, <1>4, <3>2 DEF Kept, Known
  <2>5. s.lists \in {0, 1, 2}
    BY <1>2 DEF CallStates
  <2> QED
    BY <2>1, <2>2, <2>3, <2>4, <2>5
<1> HIDE DEF listed
<1>9. PICK r :
        /\ Becomes(c, r)
        /\ r \in CallStates /\ Kept(r, s) /\ Known(r, s)
        /\ r.ai = s.ai /\ r.sock = f
        /\ \/ r.lists = s.lists /\ r.lost = s.lost
           \/ Kind(s) = "connect" /\ s.lists = 1 /\ r.lists = 2 /\ r.lost = s.lost
           \/ Kind(s) = "connect" /\ s.lists = 2 /\ r.lists = 2 /\ r.lost = s.lost + 1
        /\ \/ /\ r.pc = IF Kind(s) = "server" THEN "free" ELSE "connect"
              /\ fds' = [fds EXCEPT ![f] = newFd]
           \/ r.pc = "close" /\ r.why = "bind" /\ fds' = fds
  <2>1. CASE /\ Becomes(c, [listed EXCEPT !.pc = IF Kind(s) = "server" THEN "free" ELSE "connect"])
             /\ fds' = [fds EXCEPT ![f] = newFd]
    <3>1. PICK r : r = [u EXCEPT !.pc = IF Kind(s) = "server" THEN "free" ELSE "connect"]
      OBVIOUS
    <3>2. /\ r \in CallStates /\ Kept(r, s) /\ Known(r, s)
          /\ r.ai = s.ai /\ r.sock = f /\ r.lists = u.lists /\ r.lost = u.lost
          /\ r.pc = IF Kind(s) = "server" THEN "free" ELSE "connect"
      BY <1>8, <3>1 DEF CallStates, Kept, Known
    <3> QED
      BY <1>7, <1>8, <2>1, <3>1, <3>2
  <2>2. CASE Becomes(c, [listed EXCEPT !.pc = "close", !.why = "bind"]) /\ fds' = fds
    <3>1. PICK r : r = [u EXCEPT !.pc = "close", !.why = "bind"]
      OBVIOUS
    <3>2. /\ r \in CallStates /\ Kept(r, s) /\ Known(r, s)
          /\ r.ai = s.ai /\ r.sock = f /\ r.lists = u.lists /\ r.lost = u.lost
          /\ r.pc = "close" /\ r.why = "bind"
      BY <1>8, <3>1 DEF CallStates, Kept, Known
    <3> QED
      BY <1>7, <1>8, <2>2, <3>1, <3>2
  <2>3. CASE Becomes(c, [s EXCEPT !.pc = "close", !.why = "bind"]) /\ fds' = fds
    <3>1. PICK r : r = [s EXCEPT !.pc = "close", !.why = "bind"]
      OBVIOUS
    <3>2. /\ r \in CallStates /\ Kept(r, s) /\ Known(r, s)
          /\ r.ai = s.ai /\ r.sock = f /\ r.lists = s.lists /\ r.lost = s.lost
          /\ r.pc = "close" /\ r.why = "bind"
      BY <1>2, <1>4, <3>1 DEF CallStates, Kept, Known
    <3> QED
      BY <2>3, <3>1, <3>2
  <2> QED
    BY <1>6, <2>1, <2>2, <2>3
<1>10. /\ Kind(r) = Kind(s) /\ (NonBlocking(build, r) <=> NonBlocking(build, s))
       /\ Kind(s) \in {"server", "connect"}
       /\ Kind(s) = "connect" <=> s.op = "connect"
       /\ Kind(s) = "connect" => s.bnd
  <2>1. Kind(s) = "server" \/ (s.op = "connect" /\ s.bnd)
    BY <1>2, <1>3 DEF SockPart
  <2> QED
    BY <1>2, <1>9, <2>1, KindKept, KindIs
<1>11. SockPart(r)
  BY <1>2, <1>3, <1>4, <1>9, <1>10 DEF SockPart, Kept
<1>12. ListPart(build, r)
  BY <1>2, <1>3, <1>5, <1>9, <1>10, SMTT(60) DEF ListPart, Kept
<1>13. WaitPart(build, r)
  <2>1. InTime(s) /\ build = "getaddrinfo" => InTime(r)
    <3>1. build = "getaddrinfo" => Tried(s) <= Tried(r)
      BY <1>2, <1>3, <1>5, <1>9, <1>10 DEF Tried, ListPart
    <3> QED
      BY <1>2, <1>5, <1>9, <3>1, TimeSame DEF Kept, Known
  <2> QED
    BY <1>2, <1>3, <1>9, <1>10, <2>1 DEF WaitPart, Kept, Known
<1>14. f # NoSock
  BY NoSockIsNone
<1>15. ~strayed => FdPart(build, s, fds[f])
  BY <1>1, <1>2, <1>4, <1>14 DEF OwnPart
<1>16. fds' \in [Fd -> FdStates] /\ (strayed \/ OwnStep(c, r))
  <2>1. CASE r.pc = "close" /\ fds' = fds
    <3>1. ~strayed => FdPart(build, r, fds[f])
      BY <1>3, <1>10, <1>15, <2>1 DEF FdPart
    <3> QED
      BY <1>1, <1>2, <1>4, <1>9, <2>1, <3>1, SameTable DEF Kept
  <2>2. CASE /\ r.pc = IF Kind(s) = "server" THEN "free" ELSE "connect"
             /\ fds' = [fds EXCEPT ![f] = newFd]
    <3>1. PICK fd : fd = newFd
      OBVIOUS
    <3>2. /\ fd \in FdStates /\ fd.owner = fds[f].owner /\ fd.block = fds[f].block
          /\ fds[f].state = "new" => fd.state = "bound"
      BY <1>2, <3>1 DEF FdStates
    <3>3. ~strayed => FdPart(build, r, fd)
      BY <1>3, <1>9, <1>10, <1>15, <2>2, <3>2 DEF FdPart, Kept
    <3>4. fds' = [fds EXCEPT ![f] = fd] /\ call[c].sock = f /\ r.ss = call[c].ss
      BY <1>1, <1>4, <1>9, <2>2, <3>1 DEF Kept
    <3> HIDE DEF newFd
    <3> QED
      BY <1>9, <3>2, <3>3, <3>4, OneChanged
  <2> QED
    BY <1>9, <2>1, <2>2
<1> QED
  BY <1>9, <1>11, <1>12, <1>13, <1>16, CallStep DEF Becomes

(* Where a call goes after connect.                                        *)
LEMMA AfterConnectGoes ==
    ASSUME NEW s, NEW e, build \in {"getaddrinfo", "fallback"}, Kind(s) \in {"nonblock", "connect"}
    PROVE  /\ NextAfterConnect(s, e) \in {"return", "free", "wait", "close"}
           /\ NextAfterConnect(s, e) = "return" => build = "fallback"
           /\ NextAfterConnect(s, e) = "free" => build = "getaddrinfo"
           /\ NextAfterConnect(s, e) = "wait" =>
                /\ Kind(s) = "connect" /\ e # "0"
                /\ build = "fallback" => s.timeout # 0
           /\ Kind(s) = "connect" /\ NextAfterConnect(s, e) \in {"return", "free"} => e = "0"
<1>1. CASE Kind(s) = "nonblock" /\ build = "fallback"
  BY <1>1 DEF NextAfterConnect
<1>2. CASE Kind(s) = "nonblock" /\ build = "getaddrinfo"
  BY <1>2 DEF NextAfterConnect
<1>3. CASE Kind(s) = "connect" /\ build = "getaddrinfo"
  BY <1>3 DEF NextAfterConnect
<1>4. CASE Kind(s) = "connect" /\ build = "fallback"
  BY <1>4 DEF NextAfterConnect
<1> QED
  BY <1>1, <1>2, <1>3, <1>4

(* What LookupFails and Connect have in common: r is where the call goes.  *)
LEMMA ConnectGoes ==
    ASSUME IInv, NEW c \in Caller, NEW s, s = call[c], s.pc = "connect",
           NEW e \in Errors, NEW r \in CallStates,
           Kept(r, s), r.ai = s.ai, r.lists = s.lists, r.lost = s.lost, r.sock = s.sock,
           r.cut = s.cut, r.elapsed = s.elapsed,
           r.errno = e, r.cerr = e, r.pc = NextAfterConnect(s, e),
           r.signals = IF e = "EINTR" THEN s.signals + 1 ELSE s.signals,
           build = "getaddrinfo" /\ s.op = "connect" /\ e = "EINPROGRESS" => s.timeout > 0
    PROVE  SockPart(r) /\ ListPart(build, r) /\ WaitPart(build, r)
<1>1. /\ s \in CallStates /\ SockPart(s) /\ ListPart(build, s) /\ WaitPart(build, s)
      /\ build \in {"getaddrinfo", "fallback"}
  BY CallFacts
<1>2. /\ s.ai \in Nat /\ s.lost \in Nat /\ s.signals \in Nat
      /\ s.signals <= r.signals /\ (e = "EINTR" => r.signals > 0)
  BY <1>1, TriedInt
<1> PICK l \in Nat : l = Len(Addresses) /\ l > 0
  BY AddressCount
<1>3. Kind(s) \in {"nonblock", "connect"} /\ Kind(r) = Kind(s) /\ s.sock # NoSock
  BY <1>1, KindIs, KindKept DEF SockPart
<1>4. /\ r.pc \in {"return", "free", "wait", "close"}
      /\ r.pc = "return" => build = "fallback"
      /\ r.pc = "free" => build = "getaddrinfo"
      /\ r.pc = "wait" => Kind(s) = "connect" /\ e # "0" /\ (build = "fallback" => s.timeout # 0)
  BY <1>1, <1>3, AfterConnectGoes
<1>5. SockPart(r)
  BY <1>1, <1>3, <1>4 DEF SockPart, Kept
<1>6. ListPart(build, r)
  BY <1>1, <1>2, <1>4 DEF ListPart, Kept
<1>7. WaitPart(build, r)
  <2>1. build = "getaddrinfo" /\ InTime(s) => InTime(r)
    <3>1. build = "getaddrinfo" => Tried(s) <= Tried(r)
      BY <1>1, <1>2, <1>4 DEF Tried, ListPart
    <3> QED
      BY <1>1, <1>2, <3>1, TimeSame DEF Kept
  <2> QED
    BY <1>1, <1>2, <1>3, <1>4, <2>1 DEF WaitPart, Kept
<1> QED
  BY <1>5, <1>6, <1>7

(* connect().                                                              *)
LEMMA ConnectStep ==
    ASSUME IInv, NEW c \in Caller, Connect(c) PROVE IInv'
<1>1. PICK s : s = call[c]
  OBVIOUS
<1>2. /\ s \in CallStates /\ SockPart(s)
      /\ build \in {"getaddrinfo", "fallback"} /\ fds \in [Fd -> FdStates]
      /\ strayed \/ OwnPart(c)
      /\ strayed => build = "fallback"
  BY <1>1, CallFacts
<1>3. s.pc = "connect" /\ s.sock # NoSock
  BY <1>1, <1>2 DEF Connect, SockPart
<1>4. PICK f \in Fd : f = s.sock
  BY <1>2, <1>3 DEF CallStates
<1>5. PICK e \in ConnectResults(s) :
        /\ fds' = [fds EXCEPT ![f] =
                     [AfterConnect(fds[f], e) EXCEPT !.block = IF Unblock(s, e) THEN TRUE ELSE @]]
        /\ Becomes(c, [s EXCEPT !.errno = e, !.cerr = e, !.pc = NextAfterConnect(s, e),
                                !.signals = IF e = "EINTR" THEN @ + 1 ELSE @])
  BY <1>1, <1>4 DEF Connect
<1>6. /\ e \in Errors
      /\ e = "EINPROGRESS" => ~fds[f].block
  <2>1. CASE fds[f].owner = Nobody
    BY <1>4, <2>1 DEF ConnectResults, Errors
  <2>2. CASE fds[f].owner # Nobody /\ ~fds[f].block
    BY <1>4, <2>2 DEF ConnectResults, Errors
  <2>3. CASE fds[f].owner # Nobody /\ fds[f].block
    BY <1>4, <2>3 DEF ConnectResults, Errors
  <2> QED
    BY <2>1, <2>2, <2>3
<1>7. PICK r : r = [s EXCEPT !.errno = e, !.cerr = e, !.pc = NextAfterConnect(s, e),
                             !.signals = IF e = "EINTR" THEN @ + 1 ELSE @]
  OBVIOUS
<1>8. Kind(s) \in {"nonblock", "connect"}
  BY <1>2, <1>3, KindIs DEF SockPart
<1>9. /\ r \in CallStates
      /\ Kept(r, s) /\ r.ai = s.ai /\ r.lists = s.lists /\ r.lost = s.lost /\ r.sock = s.sock
      /\ r.cut = s.cut /\ r.elapsed = s.elapsed
      /\ r.errno = e /\ r.cerr = e /\ r.pc = NextAfterConnect(s, e)
      /\ r.signals = IF e = "EINTR" THEN s.signals + 1 ELSE s.signals
  <2>1. NextAfterConnect(s, e) \in {"return", "free", "wait", "close"}
    BY <1>2, <1>8, AfterConnectGoes
  <2>2. s.signals \in Nat
    BY <1>2, TriedInt
  <2>3. PICK g \in Nat : g = IF e = "EINTR" THEN s.signals + 1 ELSE s.signals
    BY <2>2
  <2>4. PICK n \in {"return", "free", "wait", "close"} : n = NextAfterConnect(s, e)
    BY <2>1
  <2>5. r = [s EXCEPT !.errno = e, !.cerr = e, !.pc = n, !.signals = g]
    BY <1>7, <2>3, <2>4
  <2>6. r \in CallStates
    BY <1>2, <1>6, <2>5 DEF CallStates
  <2>7. /\ Kept(r, s) /\ r.ai = s.ai /\ r.lists = s.lists /\ r.lost = s.lost /\ r.sock = s.sock
        /\ r.cut = s.cut /\ r.elapsed = s.elapsed
        /\ r.errno = e /\ r.cerr = e /\ r.pc = n /\ r.signals = g
    BY <1>2, <2>5 DEF CallStates, Kept
  <2> QED
    BY <2>3, <2>4, <2>6, <2>7
<1>10. Kind(r) = Kind(s) /\ (NonBlocking(build, r) <=> NonBlocking(build, s))
  BY <1>9, KindKept
<1>11. ~strayed => fds[f].block = ~NonBlocking(build, s)
  <2>1. fds[f].block \in BOOLEAN
    BY <1>2 DEF FdStates
  <2> QED
    BY <1>1, <1>2, <1>3, <1>4, <2>1 DEF OwnPart, FdPart
<1>12. build = "getaddrinfo" /\ Kind(s) = "connect" /\ NonBlocking(build, s) => s.timeout > 0
  BY DEF NonBlocking
<1>13. SockPart(r) /\ ListPart(build, r) /\ WaitPart(build, r)
  <2>1. s.op = "connect" => Kind(s) = "connect"
    BY <1>2, KindIs
  <2>2. build = "getaddrinfo" /\ s.op = "connect" /\ e = "EINPROGRESS" => s.timeout > 0
    BY <1>2, <1>6, <1>11, <1>12, <2>1
  <2> QED
    BY <1>1, <1>3, <1>6, <1>9, <2>2, ConnectGoes
<1>14. PICK fd :
         fd = [AfterConnect(fds[f], e) EXCEPT !.block = IF Unblock(s, e) THEN TRUE ELSE @]
  OBVIOUS
<1>15. /\ fd \in FdStates /\ fd.owner = fds[f].owner
       /\ fd.block = IF Unblock(s, e) THEN TRUE ELSE fds[f].block
       /\ e = "0" => fd.state = "connected"
       /\ e \in {"EINPROGRESS", "EINTR"} => fd.state = "pending"
  <2>1. PICK st : st = CASE e = "0" -> "connected"
                         [] e \in {"EINPROGRESS", "EINTR"} -> "pending"
                         [] OTHER -> fds[f].state
    OBVIOUS
  <2>2. /\ e = "0" => st = "connected"
        /\ e \in {"EINPROGRESS", "EINTR"} => st = "pending"
        /\ e = "ERR" => st = fds[f].state
    BY <2>1
  <2>3. AfterConnect(fds[f], e) = [fds[f] EXCEPT !.state = st]
    BY <2>1 DEF AfterConnect
  <2>4. st \in {"free", "new", "bound", "pending", "connected", "failed"}
    BY <1>2, <1>6, <2>2 DEF Errors, FdStates
  <2> QED
    BY <1>2, <1>14, <2>2, <2>3, <2>4, ZenonT(60) DEF FdStates
<1>16. ~strayed => FdPart(build, r, fd)
  <2>1. /\ r.pc \in {"return", "free", "wait", "close"}
        /\ r.pc = "wait" => Kind(s) = "connect" /\ e # "0"
        /\ Kind(s) = "connect" /\ r.pc \in {"return", "free"} => e = "0"
    BY <1>2, <1>8, <1>9, AfterConnectGoes
  <2>2. s.op = "connect" => Kind(s) = "connect"
    BY <1>2, KindIs
  <2>3. s.timeout \in Int
    BY <1>2, TriedInt
  <2>4. Kind(s) = "connect" /\ e = "0" /\ ~strayed =>
           fd.block \/ (build = "getaddrinfo" /\ s.timeout > 0)
    <3>1. CASE build = "fallback" /\ s.timeout # 0
      BY <1>15, <3>1 DEF Unblock
    <3>2. CASE build = "fallback" /\ s.timeout = 0
      <4>1. Kind(s) = "connect" => ~NonBlocking(build, s)
        BY <3>2 DEF NonBlocking
      <4> QED
        BY <1>11, <1>15, <4>1
    <3>3. CASE build = "getaddrinfo"
      BY <1>11, <1>12, <1>15, <3>3 DEF Unblock
    <3> QED
      BY <1>2, <3>1, <3>2, <3>3
  <2>5. e \in {"0", "EINPROGRESS", "EINTR", "ERR"}
    BY <1>6 DEF Errors
  <2>6. e # "0" => fd.block = fds[f].block
    BY <1>15 DEF Unblock
  <2> QED
    BY <1>8, <1>9, <1>10, <1>11, <1>15, <2>1, <2>2, <2>4, <2>5, <2>6 DEF FdPart, Kept
<1>17. fds' \in [Fd -> FdStates] /\ (strayed \/ OwnStep(c, r))
  <2>1. fds' = [fds EXCEPT ![f] = fd] /\ call[c].sock = f /\ r.sock = f /\ r.ss = call[c].ss
    BY <1>1, <1>4, <1>5, <1>9, <1>14 DEF Kept
  <2> QED
    BY <1>9, <1>15, <1>16, <2>1, OneChanged
<1> QED
  BY <1>5, <1>7, <1>9, <1>13, <1>17, CallStep DEF Becomes

(* The fallback's lookup fails, and closes the socket.                     *)
LEMMA LookupFailsStep ==
    ASSUME IInv, NEW c \in Caller, LookupFails(c) PROVE IInv'
<1>1. PICK s : s = call[c]
  OBVIOUS
<1>2. /\ s \in CallStates /\ SockPart(s)
      /\ build \in {"getaddrinfo", "fallback"} /\ fds \in [Fd -> FdStates]
  BY <1>1, CallFacts
<1>3. s.pc = "connect" /\ s.sock # NoSock /\ build = "fallback"
  BY <1>1, <1>2 DEF LookupFails, SockPart
<1>4. PICK r : r = [s EXCEPT !.why = "lookup", !.errno = "ERR", !.cerr = "ERR",
                             !.pc = NextAfterConnect(s, "ERR")]
  OBVIOUS
<1>5. /\ r \in CallStates /\ "ERR" \in Errors
      /\ Kept(r, s) /\ r.ai = s.ai /\ r.lists = s.lists /\ r.lost = s.lost /\ r.sock = s.sock
      /\ r.cut = s.cut /\ r.elapsed = s.elapsed
      /\ r.errno = "ERR" /\ r.cerr = "ERR" /\ r.pc = NextAfterConnect(s, "ERR")
      /\ r.signals = s.signals
  <2>1. NextAfterConnect(s, "ERR") \in {"return", "free", "wait", "close"}
    <3>1. Kind(s) \in {"nonblock", "connect"}
      BY <1>2, <1>3, KindIs DEF SockPart
    <3> QED
      BY <1>2, <3>1, AfterConnectGoes
  <2>2. "ERR" \in Errors
    BY DEF Errors
  <2> QED
    BY <1>2, <1>4, <2>1, <2>2 DEF CallStates, Kept
<1>6. SockPart(r) /\ ListPart(build, r) /\ WaitPart(build, r)
  BY <1>1, <1>3, <1>5, ConnectGoes
<1>7. fds' \in [Fd -> FdStates]
  <2>1. Free \in FdStates
    BY DEF Free, FdStates
  <2> QED
    BY <1>1, <1>2, <2>1 DEF LookupFails
<1> QED
  BY <1>1, <1>3, <1>4, <1>5, <1>6, <1>7, CallStep DEF LookupFails

(* What sock_connected may answer.                                         *)
LEMMA ConnectedAnswers ==
    ASSUME NEW s \in CallStates, NEW x \in SockConnected(s), fds[s.sock] \in FdStates
    PROVE  /\ x.ret \in {"OK", "ERROR", "TIMEOUT", "AGAIN"}
           /\ x.errno \in Errors
           /\ x.w \in Nat /\ x.w <= Timeout(s)
           /\ x.ret \in {"OK", "ERROR"} => x.w = 0
           /\ x.ret = "OK" => fds[s.sock].state \in {"new", "bound", "connected"}
           /\ x.ret = "AGAIN" => x.errno = "EINTR" /\ fds[s.sock].state = "pending"
           /\ x.ret = "TIMEOUT" =>
                s.timeout >= 0 /\ x.w = Timeout(s) /\ fds[s.sock].state = "pending"
<1> DEFINE st == fds[s.sock].state
<1>1. s.timeout \in Int /\ s.errno \in Errors /\ Timeout(s) \in Nat
  BY TriedInt DEF CallStates
<1>2. st \in {"free", "new", "bound", "pending", "connected", "failed"}
  BY DEF FdStates
<1>3. "ERR" \in Errors /\ "EINTR" \in Errors
  BY DEF Errors
<1>4. CASE st \in {"free", "failed"}
  <2>1. x = [ret |-> "ERROR", errno |-> "ERR", w |-> 0]
    BY <1>4 DEF SockConnected
  <2> QED
    BY <1>1, <1>3, <2>1
<1>5. CASE st \in {"new", "bound", "connected"}
  <2>1. x = [ret |-> "OK", errno |-> s.errno, w |-> 0]
    BY <1>5 DEF SockConnected
  <2> QED
    BY <1>1, <1>5, <2>1
<1>6. CASE st = "pending"
  <2>1. PICK t \in Nat : t = Timeout(s)
    BY <1>1
  <2>2. \/ s.timeout >= 0 /\ x = [ret |-> "TIMEOUT", errno |-> s.errno, w |-> t]
        \/ \E w \in 0..t : x = [ret |-> "AGAIN", errno |-> "EINTR", w |-> w]
    BY <1>6, <2>1, Zenon DEF SockConnected, Timeout
  <2>3. CASE s.timeout >= 0 /\ x = [ret |-> "TIMEOUT", errno |-> s.errno, w |-> t]
    BY <1>1, <1>6, <2>1, <2>3
  <2>4. CASE \E w \in 0..t : x = [ret |-> "AGAIN", errno |-> "EINTR", w |-> w]
    BY <1>1, <1>3, <1>6, <2>1, <2>4
  <2> QED
    BY <2>2, <2>3, <2>4
<1> QED
  BY <1>2, <1>4, <1>5, <1>6

(* What the library makes of it.                                           *)
LEMMA AfterWaitGoes ==
    ASSUME NEW ret \in {"OK", "ERROR", "TIMEOUT", "AGAIN"}, build \in {"getaddrinfo", "fallback"}
    PROVE  /\ ret = "OK" => NextAfterWait(ret) = IF build = "getaddrinfo" THEN "free" ELSE "return"
           /\ ret = "AGAIN" => NextAfterWait(ret) = IF build = "getaddrinfo" THEN "wait" ELSE "close"
           /\ ret \in {"ERROR", "TIMEOUT"} => NextAfterWait(ret) = "close"
<1>1. CASE ret = "OK"
  BY <1>1 DEF NextAfterWait
<1>2. CASE ret = "AGAIN"
  BY <1>2 DEF NextAfterWait
<1>3. CASE ret \in {"ERROR", "TIMEOUT"}
  BY <1>3 DEF NextAfterWait
<1> QED
  BY <1>1, <1>2, <1>3

(* The loop around sock_connected.                                         *)
LEMMA WaitStep ==
    ASSUME IInv, NEW c \in Caller, Wait(c) PROVE IInv'
<1>1. PICK s : s = call[c]
  OBVIOUS
<1>2. /\ s \in CallStates /\ SockPart(s) /\ ListPart(build, s) /\ WaitPart(build, s)
      /\ build \in {"getaddrinfo", "fallback"} /\ fds \in [Fd -> FdStates]
      /\ strayed \/ OwnPart(c)
      /\ strayed => build = "fallback"
  BY <1>1, CallFacts
<1>3. s.pc = "wait" /\ s.sock # NoSock /\ Kind(s) = "connect"
  BY <1>1, <1>2 DEF Wait, SockPart
<1>4. PICK f \in Fd : f = s.sock
  BY <1>2, <1>3 DEF CallStates
<1>5. /\ s.ai \in Nat /\ s.lost \in Nat /\ s.signals \in Nat /\ s.elapsed \in Nat
      /\ s.timeout \in Int /\ Timeout(s) \in Nat
  BY <1>2, TriedInt
<1> PICK l \in Nat : l = Len(Addresses) /\ l > 0
  BY AddressCount
<1>6. ~strayed => FdPart(build, s, fds[f])
  BY <1>1, <1>2, <1>3, <1>4 DEF OwnPart
<1>7. CASE build = "getaddrinfo" /\ ~Recoverable(s.errno)
  <2>1. PICK r : r = [s EXCEPT !.pc = "close"]
    OBVIOUS
  <2>2. Becomes(c, r) /\ fds' = fds
    BY <1>1, <1>7, <2>1 DEF Wait
  <2>3. /\ r \in CallStates /\ Kept(r, s) /\ Known(r, s)
        /\ r.ai = s.ai /\ r.lists = s.lists /\ r.lost = s.lost /\ r.sock = s.sock
        /\ r.pc = "close"
    BY <1>2, <2>1 DEF CallStates, Kept, Known
  <2>4. Kind(r) = "connect"
    BY <1>3, <2>3, KindKept
  <2>5. SockPart(r)
    BY <1>2, <1>3, <2>3, <2>4 DEF SockPart, Kept
  <2>6. ListPart(build, r)
    BY <1>2, <1>3, <1>5, <2>3 DEF ListPart, Kept
  <2>7. WaitPart(build, r)
    <3>1. Tried(s) <= Tried(r) /\ s.signals <= r.signals
      BY <1>3, <1>5, <2>3 DEF Tried, Known
    <3>2. InTime(s) => InTime(r)
      BY <1>2, <2>3, <3>1, TimeSame DEF Kept, Known
    <3> QED
      BY <1>2, <1>3, <2>3, <3>2 DEF WaitPart, Kept, Known
  <2>8. strayed \/ OwnStep(c, r)
    <3>1. FdPart(build, r, fds[f])
      BY <2>3, <2>4 DEF FdPart
    <3> QED
      BY <1>1, <1>4, <2>2, <2>3, <3>1, SameTable DEF Kept
  <2> QED
    BY <1>2, <2>2, <2>3, <2>5, <2>6, <2>7, <2>8, CallStep DEF Becomes
<1>8. CASE ~(build = "getaddrinfo" /\ ~Recoverable(s.errno))
  <2>1. PICK x \in SockConnected(s) :
          /\ Becomes(c, [s EXCEPT
               !.pc = NextAfterWait(x.ret), !.errno = x.errno, !.elapsed = @ + x.w,
               !.signals = IF x.ret = "AGAIN" THEN @ + 1 ELSE @,
               !.cut = CASE x.ret = "TIMEOUT" /\ s.timeout > 0 -> "timeout"
                         [] x.ret = "TIMEOUT" /\ s.timeout = 0 -> "at_once"
                         [] x.ret = "AGAIN" /\ NextAfterWait("AGAIN") = "close" -> "signal"
                         [] OTHER -> @])
          /\ IF x.ret = "OK" /\ (s.timeout >= 0 \/ build = "fallback")
             THEN fds' = [fds EXCEPT ![f].block = TRUE]
             ELSE UNCHANGED fds
    BY <1>1, <1>4, <1>8, ZenonT(60) DEF Wait
  <2>2. /\ x.ret \in {"OK", "ERROR", "TIMEOUT", "AGAIN"} /\ x.errno \in Errors
        /\ x.w \in Nat /\ x.w <= Timeout(s)
        /\ x.ret \in {"OK", "ERROR"} => x.w = 0
        /\ x.ret = "OK" => fds[f].state \in {"new", "bound", "connected"}
        /\ x.ret = "AGAIN" => x.errno = "EINTR" /\ fds[f].state = "pending"
        /\ x.ret = "TIMEOUT" => s.timeout >= 0 /\ x.w = Timeout(s) /\ fds[f].state = "pending"
    BY <1>2, <1>4, ConnectedAnswers
  <2>3. PICK n : n = NextAfterWait(x.ret)
    OBVIOUS
  <2>4. /\ x.ret = "OK" => n = IF build = "getaddrinfo" THEN "free" ELSE "return"
        /\ x.ret = "AGAIN" => n = IF build = "getaddrinfo" THEN "wait" ELSE "close"
        /\ x.ret \in {"ERROR", "TIMEOUT"} => n = "close"
    BY <1>2, <2>2, <2>3, AfterWaitGoes
  <2>5. PICK cut : cut = CASE x.ret = "TIMEOUT" /\ s.timeout > 0 -> "timeout"
                           [] x.ret = "TIMEOUT" /\ s.timeout = 0 -> "at_once"
                           [] x.ret = "AGAIN" /\ NextAfterWait("AGAIN") = "close" -> "signal"
                           [] OTHER -> s.cut
    OBVIOUS
  <2>6. \/ cut = "timeout" /\ x.ret = "TIMEOUT" /\ s.timeout > 0
        \/ cut = "at_once" /\ x.ret = "TIMEOUT" /\ s.timeout = 0
        \/ cut = "signal" /\ build = "fallback"
        \/ cut = s.cut
    <3>1. x.ret = "AGAIN" /\ NextAfterWait("AGAIN") = "close" => build = "fallback"
      BY <1>2, AfterWaitGoes
    <3>2. CASE x.ret = "TIMEOUT" /\ s.timeout > 0
      BY <2>5, <3>2
    <3>3. CASE x.ret = "TIMEOUT" /\ s.timeout = 0 /\ ~(s.timeout > 0)
      BY <2>5, <3>3
    <3>4. CASE x.ret = "AGAIN" /\ NextAfterWait("AGAIN") = "close"
      BY <2>5, <3>1, <3>4
    <3>5. CASE /\ ~(x.ret = "TIMEOUT" /\ (s.timeout > 0 \/ s.timeout = 0))
               /\ ~(x.ret = "AGAIN" /\ NextAfterWait("AGAIN") = "close")
      BY <2>5, <3>5
    <3> QED
      BY <3>2, <3>3, <3>4, <3>5
  <2>7. PICK g \in Nat : g = IF x.ret = "AGAIN" THEN s.signals + 1 ELSE s.signals
    BY <1>5
  <2>8. PICK e \in Nat : e = s.elapsed + x.w
    BY <1>5, <2>2
  <2>9. PICK r : r = [s EXCEPT !.pc = n, !.errno = x.errno, !.elapsed = e, !.signals = g,
                               !.cut = cut]
    OBVIOUS
  <2>10. Becomes(c, r)
    BY <2>1, <2>3, <2>5, <2>7, <2>8, <2>9
  <2>11. r \in CallStates
    <3>1. n \in {"wait", "close", "free", "return"}
      BY <2>2, <2>4
    <3>2. cut \in {"none", "timeout", "at_once", "signal"}
      BY <1>2, <2>6 DEF CallStates
    <3> QED
      BY <1>2, <2>2, <2>9, <3>1, <3>2 DEF CallStates
  <2>12. /\ Kept(r, s) /\ r.ai = s.ai /\ r.lists = s.lists /\ r.lost = s.lost /\ r.sock = s.sock
         /\ r.cerr = s.cerr /\ r.why = s.why
         /\ r.pc = n /\ r.errno = x.errno /\ r.elapsed = e /\ r.signals = g /\ r.cut = cut
    BY <1>2, <2>9 DEF CallStates, Kept
  <2>13. Kind(r) = "connect" /\ (NonBlocking(build, r) <=> NonBlocking(build, s))
    BY <1>3, <2>12, KindKept
  <2>14. SockPart(r)
    BY <1>2, <1>3, <2>2, <2>4, <2>12, <2>13 DEF SockPart, Kept
  <2>15. ListPart(build, r)
    BY <1>2, <1>3, <1>5, <2>2, <2>4, <2>12 DEF ListPart, Kept
  <2>16. WaitPart(build, r)
    <3>1. build = "getaddrinfo" /\ InTime(s) => InTime(r)
      <4>1. CASE build = "getaddrinfo"
        <5>1. s.ai <= Len(Addresses)
          BY <1>2, <1>3, <4>1 DEF ListPart
        <5>2. Tried(s) = s.ai - 1
          BY <1>3 DEF Tried
        <5>3. CASE x.ret = "OK"
          <6>1. Tried(r) = l /\ g = s.signals /\ x.w = 0
            BY <2>2, <2>4, <2>7, <2>12, <4>1, <5>3 DEF Tried
          <6>2. Tried(s) + s.signals <= Tried(r) + r.signals
            BY <1>5, <2>12, <5>1, <5>2, <6>1
          <6> QED
            BY <1>2, <2>2, <2>8, <2>11, <2>12, <6>1, <6>2, TimeKept DEF Kept
        <5>4. CASE x.ret = "AGAIN"
          <6>1. Tried(r) = s.ai - 1 /\ g = s.signals + 1
            BY <2>4, <2>7, <2>12, <4>1, <5>4 DEF Tried
          <6>2. Tried(s) + s.signals + 1 <= Tried(r) + r.signals
            BY <1>5, <2>12, <5>2, <6>1
          <6> QED
            BY <1>2, <2>2, <2>8, <2>11, <2>12, <6>2, TimeKept DEF Kept
        <5>5. CASE x.ret \in {"ERROR", "TIMEOUT"}
          <6>1. Tried(r) = s.ai /\ g = s.signals
            BY <2>4, <2>7, <2>12, <4>1, <5>5 DEF Tried
          <6>2. Tried(s) + s.signals + 1 <= Tried(r) + r.signals
            BY <1>5, <2>12, <5>2, <6>1
          <6> QED
            BY <1>2, <2>2, <2>8, <2>11, <2>12, <6>2, TimeKept DEF Kept
        <5> QED
          BY <2>2, <5>3, <5>4, <5>5
      <4> QED
        BY <4>1
    <3>2. build = "getaddrinfo" => s.cerr # "ERR"
      BY <1>2, <1>3, <1>8 DEF WaitPart, Recoverable
    <3>3. s.signals <= g /\ s.elapsed <= e
      BY <1>5, <2>2, <2>7, <2>8
    <3>4. r.pc = "wait" => build = "getaddrinfo"
      BY <2>2, <2>4, <2>12
    <3>5. s.cerr \in {"0", "EINPROGRESS", "EINTR", "ERR"}
      BY <1>2 DEF CallStates, Errors
    <3>a. /\ s.cerr # "0" /\ (s.cerr = "EINTR" => s.signals > 0)
          /\ build = "getaddrinfo" /\ s.op = "connect" =>
               /\ s.cerr = "EINPROGRESS" => s.timeout > 0
               /\ s.cut \in {"none", "timeout", "at_once"}
               /\ s.cut = "timeout" => s.timeout > 0 /\ s.elapsed >= s.timeout
               /\ s.cut = "at_once" => s.timeout = 0 /\ s.signals > 0
      BY <1>2, <1>3 DEF WaitPart
    <3>6. build = "getaddrinfo" /\ s.op = "connect" /\ s.timeout = 0 => s.signals > 0
      BY <1>5, <3>2, <3>5, <3>a
    <3>7. build = "getaddrinfo" /\ s.op = "connect" =>
            /\ cut \in {"none", "timeout", "at_once"}
            /\ cut = "timeout" => s.timeout > 0 /\ e >= s.timeout
            /\ cut = "at_once" => s.timeout = 0 /\ g > 0
      <4>1. x.ret = "TIMEOUT" /\ s.timeout > 0 => e >= s.timeout
        BY <1>5, <2>2, <2>8 DEF Timeout
      <4> QED
        BY <1>5, <2>6, <3>3, <3>6, <3>a, <4>1
    <3>8. r.pc = "wait" => r.cerr # "0" /\ (r.cerr = "EINTR" => r.signals > 0)
      BY <1>5, <2>12, <3>3, <3>a
    <3> QED
      BY <1>2, <1>3, <2>12, <3>1, <3>2, <3>4, <3>7, <3>8 DEF WaitPart, Kept
  <2>17. fds' \in [Fd -> FdStates] /\ (strayed \/ OwnStep(c, r))
    <3>1. call[c].sock = f /\ r.sock = f /\ r.ss = call[c].ss
      BY <1>1, <1>4, <2>12 DEF Kept
    <3>2. fds[f] \in FdStates /\ fds[f].block \in BOOLEAN
      BY <1>2 DEF FdStates
    <3>3. ~strayed => fds[f].block = ~NonBlocking(build, s)
      BY <1>3, <1>6, <3>2 DEF FdPart
    <3>4. build = "getaddrinfo" => s.cerr # "ERR"
      BY <1>2, <1>3, <1>8 DEF WaitPart, Recoverable
    <3>5. build = "fallback" => s.timeout # 0
      BY <1>2, <1>3 DEF WaitPart
    <3>6. x.ret = "OK" /\ ~strayed =>
            fds[f].state = "connected" \/ (build = "fallback" /\ s.cerr = "ERR" /\ s.timeout # 0)
      BY <1>2, <1>3, <1>6, <2>2, <3>4, <3>5 DEF FdPart
    <3>7. CASE x.ret = "OK" /\ (s.timeout >= 0 \/ build = "fallback")
      <4>1. PICK fd : fd = [fds[f] EXCEPT !.block = TRUE]
        OBVIOUS
      <4>2. /\ fd \in FdStates /\ fd.owner = fds[f].owner /\ fd.block = TRUE
            /\ fd.state = fds[f].state
        BY <3>2, <4>1 DEF FdStates
      <4>3. fds' = [fds EXCEPT ![f] = fd]
        BY <2>1, <3>7, <4>1
      <4>4. ~strayed => FdPart(build, r, fd)
        BY <2>4, <2>12, <2>13, <3>6, <3>7, <4>2 DEF FdPart, Kept
      <4> QED
        BY <2>11, <3>1, <4>2, <4>3, <4>4, OneChanged
    <3>8. CASE ~(x.ret = "OK" /\ (s.timeout >= 0 \/ build = "fallback"))
      <4>1. fds' = fds
        BY <2>1, <3>8
      <4>2. CASE x.ret = "OK"
        <5>1. build = "getaddrinfo" /\ s.timeout < 0
          BY <1>2, <1>5, <3>8, <4>2
        <5>2. ~NonBlocking(build, s)
          BY <1>3, <1>5, <5>1 DEF NonBlocking
        <5>3. ~strayed => FdPart(build, r, fds[f])
          BY <2>4, <2>12, <2>13, <3>3, <3>6, <4>2, <5>1, <5>2 DEF FdPart, Kept
        <5> QED
          BY <1>2, <2>11, <3>1, <4>1, <5>3, SameTable
      <4>3. CASE x.ret # "OK"
        <5>1. ~strayed => FdPart(build, r, fds[f])
          BY <1>3, <1>6, <2>2, <2>4, <2>12, <2>13, <4>3 DEF FdPart, Kept
        <5> QED
          BY <1>2, <2>11, <3>1, <4>1, <5>1, SameTable
      <4> QED
        BY <4>2, <4>3
    <3> QED
      BY <3>7, <3>8
  <2> QED
    BY <2>10, <2>11, <2>14, <2>15, <2>16, <2>17, CallStep DEF Becomes
<1> QED
  BY <1>7, <1>8

(* sock_close.                                                             *)
LEMMA CloseStep ==
    ASSUME IInv, NEW c \in Caller, Close(c) PROVE IInv'
<1>1. PICK s : s = call[c]
  OBVIOUS
<1>2. /\ s \in CallStates /\ SockPart(s) /\ ListPart(build, s) /\ WaitPart(build, s)
      /\ build \in {"getaddrinfo", "fallback"} /\ fds \in [Fd -> FdStates]
      /\ strayed \/ OwnPart(c)
  BY <1>1, CallFacts
<1>3. s.pc = "close" /\ s.sock # NoSock
  BY <1>1, <1>2 DEF Close, SockPart
<1>4. PICK f \in Fd : f = s.sock
  BY <1>2, <1>3 DEF CallStates
<1>5. PICK r : /\ Becomes(c, r)
               /\ \/ r = GiveUp(s)
                  \/ /\ build = "getaddrinfo" /\ s.why = "bind"
                     /\ r = [s EXCEPT !.sock = NoSock, !.pc = "free"]
  BY <1>1 DEF Close
<1>6. /\ r \in CallStates /\ Kept(r, s) /\ r.sock = NoSock
      /\ SockPart(r) /\ ListPart(build, r) /\ WaitPart(build, r)
  <2>1. CASE r = GiveUp(s)
    BY <1>1, <1>3, <2>1, GiveUpGoes
  <2>2. CASE /\ build = "getaddrinfo" /\ s.why = "bind"
             /\ r = [s EXCEPT !.sock = NoSock, !.pc = "free"]
    <3>1. s.ai \in Nat /\ s.lost \in Nat /\ s.signals \in Nat
      BY <1>2, TriedInt
    <3> PICK l \in Nat : l = Len(Addresses) /\ l > 0
      BY AddressCount
    <3>2. /\ r \in CallStates /\ Kept(r, s) /\ Known(r, s)
          /\ r.ai = s.ai /\ r.lists = s.lists /\ r.lost = s.lost /\ r.sock = NoSock
          /\ r.why = "bind" /\ r.pc = "free"
      BY <1>2, <2>2 DEF CallStates, Kept, Known
    <3>3. SockPart(r)
      BY <1>2, <3>2 DEF SockPart, Kept
    <3>4. ListPart(build, r)
      BY <1>2, <1>3, <2>2, <3>1, <3>2 DEF ListPart, Kept
    <3>5. Tried(s) <= Tried(r) /\ s.signals <= r.signals
      BY <1>2, <1>3, <2>2, <3>1, <3>2 DEF Tried, ListPart, Known
    <3>6. InTime(s) => InTime(r)
      BY <1>2, <3>2, <3>5, TimeSame DEF Kept, Known
    <3>7. WaitPart(build, r)
      BY <1>2, <3>2, <3>6 DEF WaitPart, Kept, Known
    <3> QED
      BY <3>2, <3>3, <3>4, <3>7
  <2> QED
    BY <1>5, <2>1, <2>2
<1>7. fds' \in [Fd -> FdStates] /\ (strayed \/ OwnStep(c, r))
  <2>1. CASE fds' = [fds EXCEPT ![f] = Free]
    BY <1>1, <1>4, <1>6, <2>1, OneClosed DEF Kept
  <2>2. CASE build = "fallback" /\ Kind(s) = "server" /\ fds' = fds
    <3>1. s.ss = NoSock
      BY <1>2, <2>2, KindIs DEF SockPart
    <3>2. ~strayed => fds[f].state = "new"
      BY <1>1, <1>2, <1>3, <1>4, <2>2 DEF OwnPart, FdPart
    <3> QED
      BY <1>1, <1>2, <1>4, <1>6, <2>2, <3>1, <3>2 DEF OwnPart, OwnStep, Kept
  <2> QED
    BY <1>1, <1>4, <2>1, <2>2 DEF Close
<1> QED
  BY <1>5, <1>6, <1>7, CallStep DEF Becomes

(* The function returns.                                                   *)
LEMMA ReturnStep ==
    ASSUME IInv, NEW c \in Caller, Return(c) PROVE IInv'
<1>1. PICK s : s = call[c]
  OBVIOUS
<1>2. /\ s \in CallStates /\ SockPart(s) /\ ListPart(build, s) /\ WaitPart(build, s)
      /\ build \in {"getaddrinfo", "fallback"} /\ fds \in [Fd -> FdStates]
      /\ strayed \/ OwnPart(c)
  BY <1>1, CallFacts
<1>3. s.pc = "return" /\ fds' = fds
  BY <1>1 DEF Return
<1>4. /\ s.op = "probe" => Kind(s) = IF s.ss = NoSock THEN "server" ELSE "connect"
      /\ s.sock \in Fd \cup {NoSock}
      /\ s.op # "probe" => s.ss = NoSock
  BY <1>2, KindIs DEF SockPart, CallStates
<1>5. PICK r :
        /\ Becomes(c, r)
        /\ \/ /\ s.op # "probe" \/ s.sock = NoSock
              /\ s.ss = NoSock
              /\ r = [s EXCEPT !.pc = "done"]
           \/ /\ s.op = "probe" /\ s.ss = NoSock /\ s.sock # NoSock
              /\ r = [s EXCEPT !.ss = s.sock, !.sock = NoSock, !.pc = "listen"]
           \/ /\ s.op = "probe" /\ s.ss # NoSock
              /\ r = [s EXCEPT !.pc = IF s.sock = NoSock THEN "close_ss" ELSE "close_cs"]
  <2>1. CASE s.op # "probe" \/ (Kind(s) = "server" /\ s.sock = NoSock)
    BY <1>1, <1>4, <2>1 DEF Return
  <2>2. CASE s.op = "probe" /\ Kind(s) = "server" /\ s.sock # NoSock
    BY <1>1, <1>4, <2>2 DEF Return
  <2>3. CASE s.op = "probe" /\ Kind(s) = "connect"
    BY <1>1, <1>4, <2>3 DEF Return
  <2> QED
    BY <1>4, <2>1, <2>2, <2>3
<1>6. /\ r \in CallStates /\ Known(r, s)
      /\ r.op = s.op /\ r.timeout = s.timeout /\ r.bnd = s.bnd /\ r.why = s.why
      /\ r.ai = s.ai /\ r.lists = s.lists /\ r.lost = s.lost
      /\ \/ /\ r.pc = "done" /\ s.ss = NoSock /\ r.sock = s.sock /\ r.ss = s.ss
            /\ s.op # "probe" \/ s.sock = NoSock
         \/ /\ r.pc = "listen" /\ s.op = "probe" /\ s.ss = NoSock /\ s.sock # NoSock
            /\ r.ss = s.sock /\ r.sock = NoSock
         \/ /\ r.pc = IF s.sock = NoSock THEN "close_ss" ELSE "close_cs"
            /\ s.op = "probe" /\ s.ss # NoSock /\ r.sock = s.sock /\ r.ss = s.ss
  <2>1. CASE r = [s EXCEPT !.pc = "done"]
    BY <1>2, <1>5, <2>1, ZenonT(60) DEF CallStates, Known
  <2>2. CASE r = [s EXCEPT !.ss = s.sock, !.sock = NoSock, !.pc = "listen"]
    BY <1>2, <1>4, <1>5, <2>2, ZenonT(60) DEF CallStates, Known
  <2>3. CASE r = [s EXCEPT !.pc = IF s.sock = NoSock THEN "close_ss" ELSE "close_cs"]
    BY <1>2, <1>5, <2>3, ZenonT(60) DEF CallStates, Known
  <2> QED
    BY <1>5, <2>1, <2>2, <2>3
<1>7. SockPart(r)
  BY <1>2, <1>3, <1>6 DEF SockPart
<1>8. ListPart(build, r)
  BY <1>2, <1>3, <1>6 DEF ListPart
<1>9. WaitPart(build, r)
  <2>1. InTime(s) => InTime(r)
    BY <1>3, <1>6 DEF InTime, Timeout, Tried, Known
  <2> QED
    BY <1>2, <1>3, <1>6, <2>1 DEF WaitPart, Known
<1>10. strayed \/ OwnStep(c, r)
  <2>1. CASE r.sock = s.sock /\ r.ss = s.ss
    <3>1. s.sock # NoSock /\ ~strayed => FdPart(build, s, fds[s.sock])
      BY <1>1, <1>2 DEF OwnPart
    <3>2. s.sock # NoSock /\ ~strayed => FdPart(build, r, fds[s.sock])
      BY <1>3, <1>6, <2>1, <3>1 DEF FdPart, Known
    <3> QED
      BY <1>1, <1>3, <1>6, <2>1, <3>2, SameTable
  <2>2. CASE s.ss = NoSock /\ r.ss = s.sock /\ r.sock = NoSock /\ s.sock # NoSock
    BY <1>1, <1>2, <1>3, <2>2 DEF OwnPart, OwnStep
  <2> QED
    BY <1>6, <2>1, <2>2
<1> QED
  BY <1>2, <1>3, <1>5, <1>6, <1>7, <1>8, <1>9, <1>10, CallStep DEF Becomes

-----------------------------------------------------------------------------
(* The rest of sock_is_ipv4_mapped_supported.  It has no socket but the    *)
(* server's when it gets to state r, or that and the one it has just made. *)
LEMMA ProbeGoes ==
    ASSUME IInv, NEW c \in Caller, NEW s, s = call[c], NEW r \in CallStates,
           s.op = "probe", r.op = "probe", r.ai = s.ai, r.lost = s.lost, r.lists = s.lists,
           s.lists = 0, s.pc # "next",
           \/ r.pc \in {"accept", "close_ss"} /\ r.sock = NoSock /\ r.ss # NoSock
           \/ r.pc = "close_as" /\ r.sock # NoSock /\ r.ss # NoSock
           \/ r.pc = "done" /\ r.sock = NoSock /\ r.ss = NoSock
    PROVE  SockPart(r) /\ ListPart(build, r) /\ WaitPart(build, r)
<1>1. s \in CallStates /\ ListPart(build, s)
  BY CallFacts
<1>2. SockPart(r)
  BY DEF SockPart
<1>3. ListPart(build, r)
  BY <1>1 DEF ListPart
<1>4. WaitPart(build, r)
  BY DEF WaitPart
<1> QED
  BY <1>2, <1>3, <1>4

(* listen, getsockname, and the lookup for sock_connect.                   *)
LEMMA ListenStep ==
    ASSUME IInv, NEW c \in Caller, Listen(c) PROVE IInv'
<1>1. PICK s : s = call[c]
  OBVIOUS
<1>2. /\ s \in CallStates /\ SockPart(s) /\ ListPart(build, s)
      /\ build \in {"getaddrinfo", "fallback"} /\ fds \in [Fd -> FdStates]
  BY <1>1, CallFacts
<1>3. s.pc = "listen" /\ fds' = fds
  BY <1>1 DEF Listen
<1>4. s.op = "probe" /\ s.sock = NoSock /\ s.ss # NoSock /\ s.lists = 0 /\ ~(s.lost > 0)
  BY <1>2, <1>3 DEF SockPart, ListPart
<1>5. CASE Becomes(c, [s EXCEPT !.pc = "close_ss"])
  <2>1. PICK r : r = [s EXCEPT !.pc = "close_ss"]
    OBVIOUS
  <2>2. /\ r \in CallStates /\ r.op = "probe" /\ r.ai = s.ai /\ r.lost = s.lost
        /\ r.lists = s.lists /\ r.pc = "close_ss" /\ r.sock = NoSock /\ r.ss = s.ss
    BY <1>2, <1>4, <2>1 DEF CallStates
  <2>3. SockPart(r) /\ ListPart(build, r) /\ WaitPart(build, r)
    BY <1>1, <1>3, <1>4, <2>2, ProbeGoes
  <2>4. strayed \/ OwnStep(c, r)
    BY <1>1, <1>3, <1>4, <2>2, SameTable
  <2> QED
    BY <1>2, <1>3, <1>5, <2>1, <2>2, <2>3, <2>4, CallStep DEF Becomes
<1>6. ASSUME build = "getaddrinfo",
             NEW r \in Lookup([s EXCEPT !.why = "none", !.errno = "0"]), Becomes(c, r)
      PROVE  IInv'
  <2>1. PICK q : q = [s EXCEPT !.why = "none", !.errno = "0"]
    OBVIOUS
  <2>2. /\ q \in CallStates /\ q.op = "probe" /\ q.ai = s.ai /\ q.lost = s.lost
        /\ q.lists = 0 /\ q.sock = NoSock /\ q.ss = s.ss
    <3>1. "0" \in Errors
      BY DEF Errors
    <3> QED
      BY <1>2, <1>4, <2>1, <3>1, ZenonT(60) DEF CallStates
  <2>3. \/ r = [q EXCEPT !.pc = "next", !.lists = 1, !.ai = 1]
        \/ r = [q EXCEPT !.pc = "return", !.why = "lookup"]
    BY <1>2, <1>6, <2>1, LookupGoes
  <2>4. /\ r \in CallStates /\ r.op = "probe" /\ r.lost = s.lost
        /\ r.sock = NoSock /\ r.ss = s.ss
        /\ \/ r.pc = "next" /\ r.lists = 1 /\ r.ai = 1
           \/ r.pc = "return" /\ r.lists = 0 /\ r.ai = s.ai
    <3>1. CASE r = [q EXCEPT !.pc = "next", !.lists = 1, !.ai = 1]
      <4>0. q \in CallStates /\ 1 \in Nat /\ 1 \in {0, 1, 2}
        BY <2>2
      <4>1. r \in CallStates
        BY <4>0, <3>1 DEF CallStates
      <4>2. /\ r.op = q.op /\ r.lost = q.lost /\ r.sock = q.sock /\ r.ss = q.ss
            /\ r.pc = "next" /\ r.lists = 1 /\ r.ai = 1
        BY <2>2, <3>1 DEF CallStates
      <4> QED
        BY <2>2, <4>1, <4>2
    <3>2. CASE r = [q EXCEPT !.pc = "return", !.why = "lookup"]
      BY <2>2, <3>2, ZenonT(60) DEF CallStates
    <3> QED
      BY <2>3, <3>1, <3>2
  <2>5. SockPart(r)
    BY <1>4, <2>4 DEF SockPart
  <2>6. ListPart(build, r)
    <3>1. s.lost \in Nat /\ s.lost = 0 /\ s.ai \in Nat
      BY <1>2, <1>4, TriedInt
    <3>2. PICK l \in Nat : l = Len(Addresses) /\ l > 0
      BY AddressCount
    <3> QED
      BY <1>2, <1>6, <2>4, <3>1, <3>2 DEF ListPart
  <2>7. WaitPart(build, r)
    BY <2>4 DEF WaitPart
  <2>8. strayed \/ OwnStep(c, r)
    BY <1>1, <1>3, <1>4, <2>4, SameTable
  <2> QED
    BY <1>2, <1>3, <1>6, <2>4, <2>5, <2>6, <2>7, <2>8, CallStep DEF Becomes
<1> QED
  BY <1>1, <1>5, <1>6 DEF Listen

(* sock_close of the two sockets that are connected to each other.         *)
LEMMA CloseCsStep ==
    ASSUME IInv, NEW c \in Caller, CloseCs(c) PROVE IInv'
<1>1. PICK s : s = call[c]
  OBVIOUS
<1>2. s \in CallStates /\ SockPart(s) /\ ListPart(build, s)
  BY <1>1, CallFacts
<1>3. s.pc \in {"close_cs", "close_as"}
  BY <1>1 DEF CloseCs
<1>4. s.op = "probe" /\ s.sock # NoSock /\ s.ss # NoSock /\ s.lists = 0
  BY <1>2, <1>3 DEF SockPart, ListPart
<1>5. PICK f \in Fd : f = s.sock
  BY <1>2, <1>4 DEF CallStates
<1>a. PICK n \in {"accept", "close_ss"} : n = IF s.pc = "close_cs" THEN "accept" ELSE "close_ss"
  OBVIOUS
<1>6. PICK r : r = [s EXCEPT !.sock = NoSock, !.pc = n]
  OBVIOUS
<1>7. /\ r \in CallStates /\ r.op = "probe" /\ r.ai = s.ai /\ r.lost = s.lost
      /\ r.lists = s.lists /\ r.pc \in {"accept", "close_ss"} /\ r.sock = NoSock /\ r.ss = s.ss
  BY <1>2, <1>4, <1>6, ZenonT(60) DEF CallStates
<1>8. SockPart(r) /\ ListPart(build, r) /\ WaitPart(build, r)
  BY <1>1, <1>3, <1>4, <1>7, ProbeGoes
<1>9. fds' = [fds EXCEPT ![f] = Free] /\ Becomes(c, r)
  BY <1>1, <1>5, <1>a, <1>6 DEF CloseCs
<1>10. fds' \in [Fd -> FdStates] /\ (strayed \/ OwnStep(c, r))
  BY <1>1, <1>5, <1>7, <1>9, OneClosed
<1> QED
  BY <1>7, <1>8, <1>9, <1>10, CallStep DEF Becomes

(* sock_accept.                                                            *)
LEMMA AcceptStep ==
    ASSUME IInv, NEW c \in Caller, Accept(c) PROVE IInv'
<1>1. PICK s : s = call[c]
  OBVIOUS
<1>2. s \in CallStates /\ SockPart(s) /\ ListPart(build, s) /\ fds \in [Fd -> FdStates]
  BY <1>1, CallFacts
<1>3. s.pc = "accept"
  BY <1>1 DEF Accept
<1>4. s.op = "probe" /\ s.sock = NoSock /\ s.ss # NoSock /\ s.lists = 0
  BY <1>2, <1>3 DEF SockPart, ListPart
<1>5. CASE Becomes(c, [s EXCEPT !.pc = "close_ss"]) /\ fds' = fds
  <2>1. PICK r : r = [s EXCEPT !.pc = "close_ss"]
    OBVIOUS
  <2>2. /\ r \in CallStates /\ r.op = "probe" /\ r.ai = s.ai /\ r.lost = s.lost
        /\ r.lists = s.lists /\ r.pc = "close_ss" /\ r.sock = NoSock /\ r.ss = s.ss
    BY <1>2, <1>4, <2>1 DEF CallStates
  <2>3. SockPart(r) /\ ListPart(build, r) /\ WaitPart(build, r)
    BY <1>1, <1>3, <1>4, <2>2, ProbeGoes
  <2>4. strayed \/ OwnStep(c, r)
    BY <1>1, <1>4, <1>5, <2>2, SameTable
  <2> QED
    BY <1>2, <1>5, <2>1, <2>2, <2>3, <2>4, CallStep DEF Becomes
<1>6. CASE /\ FreeFds # {}
           /\ fds' = [fds EXCEPT ![LowestFree] =
                        [owner |-> c, state |-> "connected", block |-> TRUE]]
           /\ Becomes(c, [s EXCEPT !.sock = LowestFree, !.pc = "close_as"])
  <2>1. PICK f \in Fd : f = LowestFree /\ f # NoSock
    BY <1>6, LowestIsFree, NoSockIsNone
  <2>2. PICK r : r = [s EXCEPT !.sock = f, !.pc = "close_as"]
    OBVIOUS
  <2>3. /\ r \in CallStates /\ r.op = "probe" /\ r.ai = s.ai /\ r.lost = s.lost
        /\ r.lists = s.lists /\ r.pc = "close_as" /\ r.sock = f /\ r.ss = s.ss
    <3>1. r \in CallStates
      BY <1>2, <2>2 DEF CallStates
    <3> QED
      BY <1>2, <1>4, <2>2, <3>1 DEF CallStates
  <2>4. SockPart(r) /\ ListPart(build, r) /\ WaitPart(build, r)
    BY <1>1, <1>3, <1>4, <2>1, <2>3, ProbeGoes
  <2>5. PICK fd : fd = [owner |-> c, state |-> "connected", block |-> TRUE]
    OBVIOUS
  <2>6. fd \in FdStates /\ fd.owner = c
    BY <2>5 DEF FdStates
  <2>7. FdPart(build, r, fd)
    BY <2>3 DEF FdPart
  <2>8. fds' \in [Fd -> FdStates] /\ (strayed \/ OwnStep(c, r))
    BY <1>1, <1>4, <1>6, <2>1, <2>3, <2>5, <2>6, <2>7, OneOpened
  <2> QED
    BY <1>6, <2>1, <2>2, <2>3, <2>4, <2>8, CallStep DEF Becomes
<1> QED
  BY <1>1, <1>5, <1>6 DEF Accept

(* sock_close of the server socket.                                        *)
LEMMA CloseSsStep ==
    ASSUME IInv, NEW c \in Caller, CloseSs(c) PROVE IInv'
<1>1. PICK s : s = call[c]
  OBVIOUS
<1>2. s \in CallStates /\ SockPart(s) /\ ListPart(build, s)
  BY <1>1, CallFacts
<1>3. s.pc = "close_ss"
  BY <1>1 DEF CloseSs
<1>4. s.op = "probe" /\ s.sock = NoSock /\ s.ss # NoSock /\ s.lists = 0
  BY <1>2, <1>3 DEF SockPart, ListPart
<1>5. PICK f \in Fd : f = s.ss
  BY <1>2, <1>4 DEF CallStates
<1>6. PICK r : r = [s EXCEPT !.ss = NoSock, !.pc = "done"]
  OBVIOUS
<1>7. /\ r \in CallStates /\ r.op = "probe" /\ r.ai = s.ai /\ r.lost = s.lost
      /\ r.lists = s.lists /\ r.pc = "done" /\ r.sock = NoSock /\ r.ss = NoSock
  BY <1>2, <1>4, <1>6, ZenonT(60) DEF CallStates
<1>8. SockPart(r) /\ ListPart(build, r) /\ WaitPart(build, r)
  BY <1>1, <1>3, <1>4, <1>7, ProbeGoes
<1>9. fds' = [fds EXCEPT ![f] = Free] /\ Becomes(c, r)
  BY <1>1, <1>5, <1>6 DEF CloseSs
<1>10. fds' \in [Fd -> FdStates] /\ (strayed \/ OwnStep(c, r))
  BY <1>1, <1>4, <1>5, <1>7, <1>9, OneClosed
<1> QED
  BY <1>7, <1>8, <1>9, <1>10, CallStep DEF Becomes

-----------------------------------------------------------------------------
(* The application closes the socket it got.                               *)
LEMMA IdleIsFine ==
    Idle \in CallStates /\ SockPart(Idle) /\ WaitPart(build, Idle) /\ ListPart(build, Idle)
<1>1. Idle \in CallStates
  <2>1. "0" \in Errors /\ NoSock \in Fd \cup {NoSock} /\ "connect" \in Ops
    BY DEF Errors, Ops
  <2> QED
    BY <2>1 DEF Idle, CallStates
<1>2. /\ Idle.pc = "idle" /\ Idle.sock = NoSock /\ Idle.ss = NoSock /\ Idle.lists = 0
      /\ Idle.lost = 0 /\ Idle.ai = 1 /\ Idle.cut = "none" /\ Idle.signals = 0
      /\ Idle.elapsed = 0
  BY DEF Idle
<1>3. SockPart(Idle)
  BY <1>2 DEF SockPart
<1>4. PICK l \in Nat : l = Len(Addresses) /\ l > 0
  BY AddressCount
<1>5. ListPart(build, Idle)
  BY <1>2, <1>4 DEF ListPart
<1>6. WaitPart(build, Idle)
  <2>1. 0 <= Tried(Idle) + Idle.signals
    BY <1>2, <1>4 DEF Tried
  <2>2. InTime(Idle)
    BY <1>1, <1>2, <2>1, TimeFresh
  <2> QED
    BY <1>2, <2>2 DEF WaitPart
<1> QED
  BY <1>1, <1>3, <1>5, <1>6

LEMMA AppCloseStep ==
    ASSUME IInv, NEW c \in Caller, AppClose(c) PROVE IInv'
<1>1. PICK s : s = call[c]
  OBVIOUS
<1>2. s \in CallStates /\ SockPart(s) /\ fds \in [Fd -> FdStates]
  BY <1>1, CallFacts
<1>3. s.pc = "done" /\ s.ss = NoSock
  BY <1>1, <1>2 DEF AppClose, SockPart
<1>4. Idle.sock = NoSock /\ Idle.ss = NoSock
  BY DEF Idle
<1>5. /\ Idle \in CallStates /\ SockPart(Idle) /\ WaitPart(build, Idle) /\ ListPart(build, Idle)
  BY IdleIsFine
<1>6. fds' \in [Fd -> FdStates] /\ (strayed \/ OwnStep(c, Idle))
  <2>1. CASE s.sock = NoSock
    <3>1. fds' = fds
      BY <1>1, <2>1 DEF AppClose
    <3> QED
      BY <1>1, <1>2, <1>3, <1>4, <1>5, <2>1, <3>1, SameTable
  <2>2. CASE s.sock # NoSock
    <3>1. PICK f \in Fd : f = s.sock
      BY <1>2, <2>2 DEF CallStates
    <3>2. fds' = [fds EXCEPT ![f] = Free]
      BY <1>1, <2>2, <3>1 DEF AppClose
    <3> QED
      BY <1>1, <1>3, <1>4, <1>5, <3>1, <3>2, OneClosed
  <2> QED
    BY <2>1, <2>2
<1> QED
  BY <1>5, <1>6, CallStep DEF AppClose, Becomes

(* A pending connect succeeds or fails: the one change of a descriptor     *)
(* that its call does not make.                                            *)
LEMMA KernelStep ==
    ASSUME IInv, NEW f \in Fd, Kernel(f) PROVE IInv'
<1>1. PICK st \in {"connected", "failed"} : fds' = [fds EXCEPT ![f].state = st]
  BY DEF Kernel
<1>2. fds[f].state = "pending" /\ UNCHANGED <<build, call, strayed>>
  BY DEF Kernel
<1>3. fds \in [Fd -> FdStates]
  BY DEF IInv, TypeOK
<1>4. /\ fds'[f] \in FdStates /\ fds'[f].owner = fds[f].owner /\ fds'[f].block = fds[f].block
      /\ fds'[f].state = st
      /\ \A g \in Fd \ {f} : fds'[g] = fds[g]
  BY <1>1, <1>3 DEF FdStates
<1>5. TypeOK'
  <2>1. fds' \in [Fd -> FdStates]
    BY <1>1, <1>3, <1>4
  <2> QED
    BY <1>2, <2>1 DEF IInv, TypeOK
<1>6. ASSUME ~strayed, NEW c \in Caller
      PROVE  OwnPart(c)'
  <2>1. PICK s : s = call[c] /\ s \in CallStates
    BY CallFacts
  <2>2. OwnPart(c) /\ call'[c] = s
    BY <1>2, <1>6, <2>1 DEF IInv
  <2>3. /\ s.sock # NoSock => s.sock \in Fd
        /\ s.ss # NoSock => s.ss \in Fd
    BY <2>1 DEF CallStates
  <2>4. s.sock # NoSock => fds[s.sock].owner = c /\ FdPart(build, s, fds[s.sock])
    BY <2>1, <2>2 DEF OwnPart
  <2>5. s.sock # NoSock => fds'[s.sock].owner = c /\ FdPart(build, s, fds'[s.sock])
    <3>1. CASE s.sock = f
      <4>1. s.sock # NoSock
        BY <3>1, NoSockIsNone
      <4> QED
        BY <1>2, <1>4, <2>4, <3>1, <4>1 DEF FdPart
    <3>2. CASE s.sock # f
      BY <1>4, <2>3, <2>4, <3>2
    <3> QED
      BY <3>1, <3>2
  <2>6. s.ss # NoSock => fds'[s.ss].owner = c /\ s.sock # s.ss
    BY <1>4, <2>1, <2>2, <2>3 DEF OwnPart
  <2>7. ASSUME NEW g \in Fd, fds'[g].owner = c
        PROVE  g \in {s.sock, s.ss} \/ (build = "fallback" /\ fds'[g].state = "new")
    <3>1. fds[g].owner = c
      BY <1>4, <2>7
    <3>2. g \in {s.sock, s.ss} \/ (build = "fallback" /\ fds[g].state = "new")
      BY <2>1, <2>2, <3>1 DEF OwnPart
    <3> QED
      BY <1>2, <1>4, <3>2
  <2> QED
    BY <1>2, <2>1, <2>2, <2>5, <2>6, <2>7 DEF OwnPart
<1> QED
  BY <1>2, <1>5, <1>6 DEF IInv

-----------------------------------------------------------------------------
(* IInv holds initially.                                                   *)
LEMMA InitIInv == Init => IInv
<1> SUFFICES ASSUME Init PROVE IInv
  OBVIOUS
<1>1. Free \in FdStates /\ Free.owner = Nobody
  BY DEF Free, FdStates
<1>2. /\ Idle \in CallStates /\ SockPart(Idle) /\ WaitPart(build, Idle) /\ ListPart(build, Idle)
      /\ Idle.sock = NoSock /\ Idle.ss = NoSock
  BY IdleIsFine DEF Idle
<1>3. TypeOK
  BY <1>1, <1>2, BuildsAssumption DEF Init, TypeOK
<1>4. ASSUME NEW c \in Caller
      PROVE  /\ SockPart(call[c]) /\ ListPart(build, call[c]) /\ WaitPart(build, call[c])
             /\ OwnPart(c)
  <2>1. call[c] = Idle /\ \A f \in Fd : fds[f] = Free
    BY DEF Init
  <2>2. OwnPart(c)
    BY <1>1, <1>2, <2>1, NobodyAssumption DEF OwnPart
  <2> QED
    BY <1>2, <2>1, <2>2
<1> QED
  BY <1>3, <1>4 DEF IInv, Init

(* ... and every step keeps it.                                            *)
LEMMA NextIInv == IInv /\ [Next]_vars => IInv'
<1> SUFFICES ASSUME IInv, [Next]_vars PROVE IInv'
  OBVIOUS
<1>1. ASSUME NEW c \in Caller, Start(c) PROVE IInv'
  BY <1>1, StartStep
<1>2. ASSUME NEW c \in Caller, NextAddress(c) PROVE IInv'
  BY <1>2, NextAddressStep
<1>3. ASSUME NEW c \in Caller, Socket(c) PROVE IInv'
  BY <1>3, SocketStep
<1>4. ASSUME NEW c \in Caller, Bind(c) PROVE IInv'
  BY <1>4, BindStep
<1>5. ASSUME NEW c \in Caller, Connect(c) PROVE IInv'
  BY <1>5, ConnectStep
<1>6. ASSUME NEW c \in Caller, LookupFails(c) PROVE IInv'
  BY <1>6, LookupFailsStep
<1>7. ASSUME NEW c \in Caller, Wait(c) PROVE IInv'
  BY <1>7, WaitStep
<1>8. ASSUME NEW c \in Caller, Close(c) PROVE IInv'
  BY <1>8, CloseStep
<1>9. ASSUME NEW c \in Caller, FreeLists(c) PROVE IInv'
  BY <1>9, FreeListsStep
<1>10. ASSUME NEW c \in Caller, Return(c) PROVE IInv'
  BY <1>10, ReturnStep
<1>11. ASSUME NEW c \in Caller, Listen(c) PROVE IInv'
  BY <1>11, ListenStep
<1>12. ASSUME NEW c \in Caller, CloseCs(c) PROVE IInv'
  BY <1>12, CloseCsStep
<1>13. ASSUME NEW c \in Caller, Accept(c) PROVE IInv'
  BY <1>13, AcceptStep
<1>14. ASSUME NEW c \in Caller, CloseSs(c) PROVE IInv'
  BY <1>14, CloseSsStep
<1>15. ASSUME NEW c \in Caller, AppClose(c) PROVE IInv'
  BY <1>15, AppCloseStep
<1>16. ASSUME NEW f \in Fd, Kernel(f) PROVE IInv'
  BY <1>16, KernelStep
<1>17. CASE UNCHANGED vars
  BY <1>17 DEF vars, IInv, TypeOK, OwnPart
<1> QED
  BY <1>1, <1>2, <1>3, <1>4, <1>5, <1>6, <1>7, <1>8, <1>9, <1>10, <1>11, <1>12, <1>13, <1>14,
     <1>15, <1>16, <1>17 DEF Next, LibraryStep

(* IInv is an invariant of the calls of net/sock.c, in both builds: who    *)
(* owns which descriptor, what a call knows of its socket at each point,   *)
(* which lists it has to free, how long it can have waited.                *)
THEOREM CallsSafe == Spec => []IInv
BY InitIInv, NextIInv, PTL DEF Spec

(* Type correctness.                                                       *)
THEOREM CallsTypeCorrect == Spec => []TypeOK
<1>1. IInv => TypeOK
  BY DEF IInv
<1> QED
  BY <1>1, CallsSafe, PTL

(* The error paths of sock_connect_wto_bind, sock_connect_non_blocking,    *)
(* sock_get_server_socket and sock_is_ipv4_mapped_supported: whatever      *)
(* fails, and whatever other threads open and close meanwhile, a call      *)
(* holds the descriptors that are its own and leaks none, but for what     *)
(* HoldsItsOwn says of the fallback; and it frees getaddrinfo's lists, but *)
(* for those of addresses it was bound to before.                          *)
THEOREM DescriptorsAreHeld == Spec => []HoldsItsOwn
<1>1. IInv => HoldsItsOwn
  <2> SUFFICES ASSUME IInv PROVE HoldsItsOwn
    OBVIOUS
  <2>1. strayed => build = "fallback"
    BY DEF IInv
  <2>2. ASSUME NEW c \in Caller
        PROVE  /\ strayed \/ Held(c) \subseteq Owned(c)
               /\ strayed \/ \A f \in Owned(c) \ Held(c) :
                                build = "fallback" /\ fds[f].state = "new"
               /\ call[c].pc = "done" =>
                    /\ call[c].lists = 0
                    /\ call[c].lost \in IF call[c].bnd THEN 0..(Len(Addresses) - 1) ELSE {0}
    <3>1. PICK s : s = call[c]
      OBVIOUS
    <3>2. s \in CallStates /\ ListPart(build, s) /\ (strayed \/ OwnPart(c))
      BY <3>1, CallFacts
    <3>3. /\ s.sock # NoSock => s.sock \in Fd
          /\ s.ss # NoSock => s.ss \in Fd
      BY <3>2 DEF CallStates
    <3>4. ~strayed => Held(c) \subseteq Owned(c)
      BY <3>1, <3>2, <3>3 DEF OwnPart, Held, Owned
    <3>5. ~strayed => \A f \in Owned(c) \ Held(c) : build = "fallback" /\ fds[f].state = "new"
      BY <3>1, <3>2, NoSockIsNone DEF OwnPart, Held, Owned
    <3>6. s.pc = "done" =>
            /\ s.lists = 0
            /\ s.lost \in IF s.bnd THEN 0..(Len(Addresses) - 1) ELSE {0}
      <4>1. PICK n \in Nat, l \in Nat : n = s.lost /\ l = Len(Addresses)
        BY <3>2, TriedInt, AddressCount
      <4>2. /\ s.pc = "done" => s.lists = 0
            /\ n > 0 => s.bnd
            /\ n < l
        BY <3>2, <4>1 DEF ListPart
      <4>3. n \in 0..(l - 1) /\ (~(n > 0) => n = 0)
        BY <4>2
      <4> QED
        BY <4>1, <4>2, <4>3
    <3> QED
      BY <3>1, <3>4, <3>5, <3>6
  <2> QED
    BY <2>1, <2>2 DEF HoldsItsOwn
<1> QED
  BY <1>1, CallsSafe, PTL

(* What sock_connect_wto_bind returns is connected and blocking, with the  *)
(* exceptions that ReturnsConnected names.                                 *)
THEOREM ReturnedIsConnected == Spec => []ReturnsConnected
<1>1. IInv => ReturnsConnected
  <2> SUFFICES ASSUME IInv, NEW c \in Caller, Succeeded(c), ~strayed
               PROVE  /\ \/ fds[call[c].sock].state = "connected"
                         \/ build = "fallback" /\ call[c].cerr = "ERR" /\ call[c].timeout # 0
                      /\ \/ fds[call[c].sock].block
                         \/ build = "getaddrinfo" /\ call[c].timeout > 0 /\ call[c].cerr = "0"
    BY DEF ReturnsConnected
  <2>1. FdPart(build, call[c], fds[call[c].sock])
    BY DEF IInv, OwnPart, Succeeded
  <2> QED
    BY <2>1 DEF FdPart, Succeeded
<1> QED
  BY <1>1, CallsSafe, PTL

(* With getaddrinfo, when and after how long sock_connect_wto_bind gives   *)
(* up: the time is bounded by the number of addresses and of signals.      *)
THEOREM GivesUpInTime == Spec => []GivesUpOnlyThen
<1>1. IInv => GivesUpOnlyThen
  <2> SUFFICES ASSUME IInv, NEW c \in Caller,
                      build = "getaddrinfo", call[c].pc = "done", call[c].op = "connect"
               PROVE  LET s == call[c] IN
            /\ s.sock = NoSock => s.why \in {"lookup", "bind"} \/ s.ai > Len(Addresses)
            /\ s.cut \in CASE s.timeout > 0 -> {"none", "timeout"}
                           [] s.timeout = 0 -> {"none"} \cup (IF s.signals > 0 THEN {"at_once"} ELSE {})
                           [] s.timeout < 0 -> {"none"}
            /\ s.cut = "timeout" => s.elapsed >= s.timeout
            /\ s.elapsed <= (IF s.timeout > 0 THEN s.timeout ELSE 0) * (Len(Addresses) + s.signals)
    BY DEF GivesUpOnlyThen
  <2>1. PICK s : s = call[c]
    OBVIOUS
  <2>2. s \in CallStates /\ WaitPart(build, s)
    BY <2>1, CallFacts
  <2>3. /\ s.sock = NoSock => s.why \in {"lookup", "bind"} \/ s.ai > Len(Addresses)
        /\ s.cut \in {"none", "timeout", "at_once"}
        /\ s.cut = "timeout" => s.timeout > 0 /\ s.elapsed >= s.timeout
        /\ s.cut = "at_once" => s.timeout = 0 /\ s.signals > 0
        /\ InTime(s)
    BY <2>1, <2>2 DEF WaitPart
  <2>4. s.elapsed <= (IF s.timeout > 0 THEN s.timeout ELSE 0) * (Len(Addresses) + s.signals)
    BY <2>1, <2>3 DEF InTime, Timeout, Tried
  <2>5. s.timeout \in Int
    BY <2>2, TriedInt
  <2>6. s.cut \in CASE s.timeout > 0 -> {"none", "timeout"}
                    [] s.timeout = 0 -> {"none"} \cup (IF s.signals > 0 THEN {"at_once"} ELSE {})
                    [] s.timeout < 0 -> {"none"}
    <3>1. CASE s.timeout > 0
      BY <2>3, <2>5, <3>1
    <3>2. CASE s.timeout = 0
      BY <2>3, <3>2
    <3>3. CASE s.timeout < 0
      BY <2>3, <2>5, <3>3
    <3> QED
      BY <2>5, <3>1, <3>2, <3>3
  <2> QED
    BY <2>1, <2>3, <2>4, <2>6
<1> QED
  BY <1>1, CallsSafe, PTL

=============================================================================
