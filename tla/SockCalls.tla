----------------------------- MODULE SockCalls -----------------------------
(***************************************************************************)
(* The calls of net/sock.c that open sockets, made by several threads of a *)
(* process: sock_connect_wto_bind, sock_connect_non_blocking,              *)
(* sock_get_server_socket and sock_is_ipv4_mapped_supported, as built with *)
(* getaddrinfo and as built without it ("fallback").  A step is a system   *)
(* call, or what a function does between two of them.                      *)
(*                                                                         *)
(* Threads share the table of descriptors, and the kernel gives out the    *)
(* lowest number that is free.  Any system call may fail; poll is the      *)
(* exception, which a signal may interrupt.  A connect that fails at once  *)
(* leaves the socket as it was, with no error pending on it: poll then     *)
(* finds it writable.                                                      *)
(***************************************************************************)
EXTENDS Integers, FiniteSets, Sequences

CONSTANTS
    Caller,
    Plan,        \* the calls each caller may make: see Calls
    Fd,          \* descriptor numbers
    Addresses,   \* what getaddrinfo returns: one or more of "inet" and "inet6"
    Builds,      \* of {"getaddrinfo", "fallback"}
    MaxSignals,  \* bound: signals that interrupt one call
    Nobody       \* the owner of a free descriptor

Ops == {"connect", "nonblock", "server", "probe"}
Calls == [op : Ops, timeout : Int, bnd : BOOLEAN]

ASSUME FdAssumption == Fd \subseteq Nat
ASSUME PlanAssumption == Plan \in [Caller -> SUBSET Calls]
ASSUME AddressesAssumption == Addresses \in Seq({"inet", "inet6"}) /\ Len(Addresses) > 0
ASSUME BuildsAssumption == Builds \subseteq {"getaddrinfo", "fallback"}
ASSUME SignalsAssumption == MaxSignals \in Nat
ASSUME NobodyAssumption == Nobody \notin Caller

VARIABLES
    build,   \* how the library was built
    fds,     \* the descriptor table
    call,    \* the call each thread is in: see Idle
    strayed  \* history: a failed lookup has closed a socket still in use

vars == <<build, fds, call, strayed>>

NoSock == -1   \* SOCK_ERROR

Free == [owner |-> Nobody, state |-> "free", block |-> TRUE]

Idle ==
    [pc |-> "idle", op |-> "connect", timeout |-> 0, bnd |-> FALSE,
     ai |-> 1,            \* the address it is at
     prefer |-> FALSE,    \* prefer_inet6, and no address was found yet
     sock |-> NoSock,
     ss |-> NoSock,       \* the server socket of sock_is_ipv4_mapped_supported
     errno |-> "0",
     lists |-> 0,         \* results of getaddrinfo not yet freed
     lost |-> 0,          \* ... that b_head no longer points to
     cerr |-> "0",        \* the error of the last connect
     why |-> "none",      \* "lookup" or "bind", if that failed
     cut |-> "none",      \* what ended the wait for a pending connect, if it was
     signals |-> 0,       \* signals so far
     elapsed |-> 0]       \* seconds waited in poll

Init ==
    /\ build \in Builds
    /\ fds = [f \in Fd |-> Free]
    /\ call = [c \in Caller |-> Idle]
    /\ strayed = FALSE

-----------------------------------------------------------------------------
FreeFds == {f \in Fd : fds[f].owner = Nobody}
LowestFree == CHOOSE f \in FreeFds : \A g \in FreeFds : f <= g

Becomes(c, s) == call' = [call EXCEPT ![c] = s] /\ UNCHANGED <<build, strayed>>

(* sock_is_ipv4_mapped_supported first makes a server socket, then         *)
(* connects to it with sock_connect.                                       *)
Kind(s) == CASE s.op # "probe" -> s.op
             [] s.op = "probe" /\ s.ss = NoSock -> "server"
             [] s.op = "probe" /\ s.ss # NoSock -> "connect"

(* sock_recoverable.                                                       *)
Recoverable(error) == error \in {"0", "EAGAIN", "EINTR", "EINPROGRESS"}

(* A call of the application, and getaddrinfo, or what stands for it.      *)
Lookup(s) ==
    CASE build = "getaddrinfo" ->
           {[s EXCEPT !.pc = "next", !.lists = 1, !.ai = 1],
            [s EXCEPT !.pc = "return", !.why = "lookup"]}
      [] build = "fallback" /\ Kind(s) = "server" ->
           {[s EXCEPT !.pc = "socket"], [s EXCEPT !.pc = "return", !.why = "lookup"]}
      [] build = "fallback" /\ Kind(s) # "server" -> {[s EXCEPT !.pc = "socket"]}

Start(c) ==
    /\ call[c].pc = "idle"
    /\ \E a \in Plan[c] :
         \E p \in CASE a.op = "server" -> BOOLEAN [] OTHER -> {a.op = "probe"} :
           \E s \in Lookup([Idle EXCEPT !.op = a.op, !.timeout = a.timeout, !.bnd = a.bnd,
                                        !.prefer = p]) : Becomes(c, s)
    /\ UNCHANGED fds

(* Mutant of NextAddress: prefer_inet6 is not reset.                       *)
NextAddressForever(c) ==
    LET s == call[c]
        atEnd == s.ai > Len(Addresses)
    IN
    /\ s.pc = "next"
    /\ Becomes(c,
         CASE atEnd /\ Kind(s) = "server" /\ s.prefer -> [s EXCEPT !.ai = 1]
           [] atEnd /\ ~(Kind(s) = "server" /\ s.prefer) -> [s EXCEPT !.pc = "free"]
           [] ~atEnd /\ Kind(s) = "server" /\ s.prefer /\ Addresses[s.ai] # "inet6" ->
                [s EXCEPT !.ai = @ + 1]
           [] OTHER -> [s EXCEPT !.pc = "socket"])
    /\ UNCHANGED fds

(* The next address.  sock_get_server_socket leaves out all but inet6      *)
(* first if these are preferred, then starts again with all of them.       *)
NextAddress(c) ==
    LET s == call[c]
        atEnd == s.ai > Len(Addresses)
    IN
    /\ s.pc = "next"
    /\ Becomes(c,
         CASE atEnd /\ Kind(s) = "server" /\ s.prefer -> [s EXCEPT !.ai = 1, !.prefer = FALSE]
           [] atEnd /\ ~(Kind(s) = "server" /\ s.prefer) -> [s EXCEPT !.pc = "free"]
           [] ~atEnd /\ Kind(s) = "server" /\ s.prefer /\ Addresses[s.ai] # "inet6" ->
                [s EXCEPT !.ai = @ + 1]
           [] OTHER -> [s EXCEPT !.pc = "socket"])
    /\ UNCHANGED fds

(* Mutant of GiveUp: sock keeps the number of the closed socket.           *)
GiveUpKeeps(s) ==
    IF build = "getaddrinfo" THEN [s EXCEPT !.ai = @ + 1, !.pc = "next"]
                             ELSE [s EXCEPT !.sock = NoSock, !.pc = "return"]

(* The address, or in the fallback build the call, has failed.             *)
GiveUp(s) ==
    IF build = "getaddrinfo" THEN [s EXCEPT !.sock = NoSock, !.ai = @ + 1, !.pc = "next"]
                             ELSE [s EXCEPT !.sock = NoSock, !.pc = "return"]

(* socket(), and sock_set_blocking(sock, 0) where it follows.              *)
NonBlocking(b, s) ==
    \/ Kind(s) = "nonblock"
    \/ Kind(s) = "connect" /\ (s.timeout > 0 \/ (b = "fallback" /\ s.timeout < 0))

Socket(c) ==
    LET s == call[c]
        bind == Kind(s) = "server" \/ (Kind(s) = "connect" /\ s.bnd /\ s.op # "probe")
    IN
    /\ s.pc = "socket"
    /\ \/ Becomes(c, GiveUp(s)) /\ UNCHANGED fds
       \/ /\ FreeFds # {}
          /\ fds' = [fds EXCEPT ![LowestFree] =
                       [owner |-> c, state |-> "new", block |-> ~NonBlocking(build, s)]]
          /\ Becomes(c, [s EXCEPT !.sock = LowestFree, !.pc = IF bind THEN "bind" ELSE "connect"])

(* bind().  To connect from an address, getaddrinfo is called for each     *)
(* address anew, and b_head overwritten.                                   *)
Bind(c) ==
    LET s == call[c]
        listed(t) == IF build = "getaddrinfo" /\ Kind(t) = "connect"
                     THEN [t EXCEPT !.lists = IF @ = 1 THEN 2 ELSE @,
                                    !.lost = IF t.lists = 2 THEN @ + 1 ELSE @]
                     ELSE t
    IN
    /\ s.pc = "bind"
    /\ \/ /\ fds[s.sock].owner # Nobody
          /\ Becomes(c, [listed(s) EXCEPT !.pc = IF Kind(s) = "server" THEN "free" ELSE "connect"])
          /\ fds' = [fds EXCEPT ![s.sock].state = IF @ = "new" THEN "bound" ELSE @]
       \/ /\ Becomes(c, [listed(s) EXCEPT !.pc = "close", !.why = "bind"])
          /\ UNCHANGED fds
       \/ /\ Kind(s) = "connect"
          /\ Becomes(c, [s EXCEPT !.pc = "close", !.why = "bind"])
          /\ UNCHANGED fds

-----------------------------------------------------------------------------
(* The kernel's side of connect.                                           *)
ConnectResults(s) ==
    CASE fds[s.sock].owner = Nobody -> {"ERR"}
      [] fds[s.sock].owner # Nobody /\ ~fds[s.sock].block -> {"0", "EINPROGRESS", "ERR"}
      [] fds[s.sock].owner # Nobody /\ fds[s.sock].block ->
           {"0", "ERR"} \cup (IF s.signals < MaxSignals THEN {"EINTR"} ELSE {})

AfterConnect(fd, e) ==
    [fd EXCEPT !.state = CASE e = "0" -> "connected"
                           [] e \in {"EINPROGRESS", "EINTR"} -> "pending"
                           [] OTHER -> @]

Kernel(f) ==
    /\ fds[f].state = "pending"
    /\ \E st \in {"connected", "failed"} : fds' = [fds EXCEPT ![f].state = st]
    /\ UNCHANGED <<build, call, strayed>>

(* Where each function goes after connect.  sock_connect_non_blocking asks *)
(* sock_connect_pending; the fallback has no look at the error at all.     *)
NextAfterConnect(s, e) ==
    CASE Kind(s) = "nonblock" /\ build = "fallback" -> "return"
      [] Kind(s) = "nonblock" /\ build = "getaddrinfo" ->
           IF e \in {"0", "EINPROGRESS"} THEN "free" ELSE "close"
      [] Kind(s) = "connect" /\ build = "getaddrinfo" -> IF e = "0" THEN "free" ELSE "wait"
      [] Kind(s) = "connect" /\ build = "fallback" ->
           CASE e = "0" -> "return"
             [] e # "0" /\ s.timeout # 0 -> "wait"
             [] e # "0" /\ s.timeout = 0 -> "close"

(* Mutant of Unblock: the socket is left as it is.                         *)
UnblockNot(s, e) == FALSE

(* The fallback makes the socket blocking again, also after a connect that *)
(* succeeds at once.                                                       *)
Unblock(s, e) == build = "fallback" /\ Kind(s) = "connect" /\ s.timeout # 0 /\ e = "0"

Connect(c) ==
    LET s == call[c] IN
    /\ s.pc = "connect"
    /\ \E e \in ConnectResults(s) :
         /\ fds' = [fds EXCEPT ![s.sock] =
                      LET fd == AfterConnect(@, e) IN
                      [fd EXCEPT !.block = IF Unblock(s, e) THEN TRUE ELSE @]]
         /\ Becomes(c, [s EXCEPT !.errno = e, !.cerr = e, !.pc = NextAfterConnect(s, e),
                                 !.signals = IF e = "EINTR" THEN @ + 1 ELSE @])

(* The fallback's sock_try_connection closes the socket it was given if    *)
(* the name cannot be resolved.                                            *)
LookupFails(c) ==
    LET s == call[c] IN
    /\ build = "fallback"
    /\ s.pc = "connect"
    /\ fds' = [fds EXCEPT ![s.sock] = Free]
    /\ call' = [call EXCEPT ![c] = [s EXCEPT !.why = "lookup", !.errno = "ERR", !.cerr = "ERR",
                                             !.pc = NextAfterConnect(s, "ERR")]]
    /\ strayed' = TRUE
    /\ UNCHANGED build

(* sock_connected: what it returns, the error, and how long it may take.   *)
SockConnected(s) ==
    LET st == fds[s.sock].state
        wait == IF s.timeout > 0 THEN s.timeout ELSE 0
    IN
    CASE st \in {"free", "failed"} -> {[ret |-> "ERROR", errno |-> "ERR", w |-> 0]}
      [] st \in {"new", "bound", "connected"} -> {[ret |-> "OK", errno |-> s.errno, w |-> 0]}
      [] st = "pending" ->
           (IF s.timeout >= 0 THEN {[ret |-> "TIMEOUT", errno |-> s.errno, w |-> wait]} ELSE {})
           \cup (IF s.signals < MaxSignals
                 THEN {[ret |-> "AGAIN", errno |-> "EINTR", w |-> w] : w \in 0..wait} ELSE {})

(* Mutant of NextAfterWait: an interrupted wait counts as a failure.       *)
NextAfterWaitOnce(ret) == IF ret = "OK" THEN "free" ELSE "close"

(* The loop around sock_connected; the fallback calls it once.             *)
NextAfterWait(ret) ==
    CASE ret = "OK" -> IF build = "getaddrinfo" THEN "free" ELSE "return"
      [] ret = "AGAIN" -> IF build = "getaddrinfo" THEN "wait" ELSE "close"
      [] ret \in {"ERROR", "TIMEOUT"} -> "close"

Wait(c) ==
    LET s == call[c] IN
    /\ s.pc = "wait"
    /\ IF build = "getaddrinfo" /\ ~Recoverable(s.errno)
       THEN Becomes(c, [s EXCEPT !.pc = "close"]) /\ UNCHANGED fds
       ELSE \E r \in SockConnected(s) :
              /\ Becomes(c, [s EXCEPT
                   !.pc = NextAfterWait(r.ret), !.errno = r.errno, !.elapsed = @ + r.w,
                   !.signals = IF r.ret = "AGAIN" THEN @ + 1 ELSE @,
                   !.cut = CASE r.ret = "TIMEOUT" /\ s.timeout > 0 -> "timeout"
                             [] r.ret = "TIMEOUT" /\ s.timeout = 0 -> "at_once"
                             [] r.ret = "AGAIN" /\ NextAfterWait("AGAIN") = "close" -> "signal"
                             [] OTHER -> @])
              /\ IF r.ret = "OK" /\ (s.timeout >= 0 \/ build = "fallback")
                 THEN fds' = [fds EXCEPT ![s.sock].block = TRUE]
                 ELSE UNCHANGED fds

-----------------------------------------------------------------------------
(* sock_close, and on to the next address.  If bind failed the others are  *)
(* not tried, and in the fallback's sock_get_server_socket the socket is   *)
(* not closed.                                                             *)
Close(c) ==
    LET s == call[c]
        ends == Kind(s) = "connect" /\ s.why = "bind"
    IN
    /\ s.pc = "close"
    /\ fds' = IF build = "fallback" /\ Kind(s) = "server" THEN fds
              ELSE [fds EXCEPT ![s.sock] = Free]
    /\ Becomes(c, IF ends /\ build = "getaddrinfo" THEN [s EXCEPT !.sock = NoSock, !.pc = "free"]
                  ELSE GiveUp(s))

(* freeaddrinfo.                                                           *)
FreeLists(c) ==
    /\ call[c].pc = "free"
    /\ Becomes(c, [call[c] EXCEPT !.lists = 0, !.pc = "return"])
    /\ UNCHANGED fds

(* The function returns, to the application or to                          *)
(* sock_is_ipv4_mapped_supported.                                          *)
Return(c) ==
    LET s == call[c] IN
    /\ s.pc = "return"
    /\ Becomes(c,
         CASE s.op # "probe" \/ (Kind(s) = "server" /\ s.sock = NoSock) -> [s EXCEPT !.pc = "done"]
           [] s.op = "probe" /\ Kind(s) = "server" /\ s.sock # NoSock ->
                [s EXCEPT !.ss = s.sock, !.sock = NoSock, !.pc = "listen"]
           [] s.op = "probe" /\ Kind(s) = "connect" ->
                [s EXCEPT !.pc = IF s.sock = NoSock THEN "close_ss" ELSE "close_cs"])
    /\ UNCHANGED fds

(* listen, getsockname and the test that the address is of IPv6 (which the *)
(* fallback's never is), then sock_connect.                                *)
Listen(c) ==
    LET s == call[c] IN
    /\ s.pc = "listen"
    /\ \/ Becomes(c, [s EXCEPT !.pc = "close_ss"])
       \/ /\ build = "getaddrinfo"
          /\ Addresses[s.ai] = "inet6"
          /\ \E t \in Lookup([s EXCEPT !.why = "none", !.errno = "0"]) : Becomes(c, t)
    /\ UNCHANGED fds

CloseCs(c) ==
    LET s == call[c] IN
    /\ s.pc \in {"close_cs", "close_as"}
    /\ fds' = [fds EXCEPT ![s.sock] = Free]
    /\ Becomes(c, [s EXCEPT !.sock = NoSock,
                            !.pc = IF s.pc = "close_cs" THEN "accept" ELSE "close_ss"])

(* sock_accept.                                                            *)
Accept(c) ==
    LET s == call[c] IN
    /\ s.pc = "accept"
    /\ \/ Becomes(c, [s EXCEPT !.pc = "close_ss"]) /\ UNCHANGED fds
       \/ /\ FreeFds # {}
          /\ fds' = [fds EXCEPT ![LowestFree] =
                       [owner |-> c, state |-> "connected", block |-> TRUE]]
          /\ Becomes(c, [s EXCEPT !.sock = LowestFree, !.pc = "close_as"])

CloseSs(c) ==
    /\ call[c].pc = "close_ss"
    /\ fds' = [fds EXCEPT ![call[c].ss] = Free]
    /\ Becomes(c, [call[c] EXCEPT !.ss = NoSock, !.pc = "done"])

(* The application closes the socket it got, and makes its next call.      *)
AppClose(c) ==
    LET s == call[c] IN
    /\ s.pc = "done"
    /\ fds' = IF s.sock = NoSock THEN fds ELSE [fds EXCEPT ![s.sock] = Free]
    /\ Becomes(c, Idle)

-----------------------------------------------------------------------------
LibraryStep(c) ==
    \/ NextAddress(c) \/ Socket(c) \/ Bind(c) \/ Connect(c) \/ LookupFails(c) \/ Wait(c)
    \/ Close(c) \/ FreeLists(c) \/ Return(c)
    \/ Listen(c) \/ CloseCs(c) \/ Accept(c) \/ CloseSs(c)

Next ==
    \/ \E c \in Caller : Start(c) \/ LibraryStep(c) \/ AppClose(c)
    \/ \E f \in Fd : Kernel(f)

Spec == Init /\ [][Next]_vars

(* Threads are scheduled, and the kernel gives up on a connect some day.   *)
FairSpec ==
    /\ Spec
    /\ \A c \in Caller : WF_vars(LibraryStep(c))
    /\ \A f \in Fd : WF_vars(Kernel(f))

-----------------------------------------------------------------------------
Held(c) == {call[c].sock, call[c].ss} \ {NoSock}
Owned(c) == {f \in Fd : fds[f].owner = c}

(* Between two calls to the library, and during each of them, a thread     *)
(* holds exactly the descriptors that are its own: every error path closes *)
(* what was opened, once, and the number of a closed socket, which another *)
(* thread may have by now, is never used again.  And getaddrinfo's lists   *)
(* are freed.  What the code does not live up to: without getaddrinfo, a   *)
(* failed lookup closes the caller's socket behind its back, and a server  *)
(* socket that cannot be bound is never closed; with it, binding a second  *)
(* address loses the list of the first.                                    *)
HoldsItsOwn ==
    /\ \A c \in Caller :
         /\ strayed \/ Held(c) \subseteq Owned(c)
         /\ strayed \/ \A f \in Owned(c) \ Held(c) :
                          build = "fallback" /\ fds[f].state = "new"
         /\ call[c].pc = "done" =>
              /\ call[c].lists = 0
              /\ call[c].lost \in IF call[c].bnd THEN 0..(Len(Addresses) - 1) ELSE {0}
    /\ strayed => build = "fallback"

Succeeded(c) == call[c].pc = "done" /\ call[c].op = "connect" /\ call[c].sock # NoSock

(* A socket that sock_connect_wto_bind returns is connected, and it is     *)
(* blocking.  Two exceptions: with getaddrinfo it is left non-blocking if  *)
(* a timeout was given and the connection was made at once; without, a     *)
(* connect that fails at once is taken for one that is pending, and the    *)
(* socket, on which no error is pending, for connected.                    *)
ReturnsConnected ==
    \A c \in Caller :
        LET s == call[c] IN
        Succeeded(c) /\ ~strayed =>
            /\ \/ fds[s.sock].state = "connected"
               \/ build = "fallback" /\ s.cerr = "ERR" /\ s.timeout # 0
            /\ \/ fds[s.sock].block
               \/ build = "getaddrinfo" /\ s.timeout > 0 /\ s.cerr = "0"

(* With getaddrinfo, sock_connect_wto_bind fails only after a failed       *)
(* lookup or bind, or after all addresses; it stops waiting for a pending  *)
(* connect only when the timeout is over, or, against its comment, at once *)
(* if there is no timeout but a signal came.  Each signal starts the       *)
(* timeout anew, and each address has its own: only their number bounds    *)
(* the time that the call takes.                                           *)
GivesUpOnlyThen ==
    \A c \in Caller :
        LET s == call[c] IN
        build = "getaddrinfo" /\ s.pc = "done" /\ s.op = "connect" =>
            /\ s.sock = NoSock => s.why \in {"lookup", "bind"} \/ s.ai > Len(Addresses)
            /\ s.cut \in CASE s.timeout > 0 -> {"none", "timeout"}
                           [] s.timeout = 0 -> {"none"} \cup (IF s.signals > 0 THEN {"at_once"} ELSE {})
                           [] s.timeout < 0 -> {"none"}
            /\ s.cut = "timeout" => s.elapsed >= s.timeout
            /\ s.elapsed <= (IF s.timeout > 0 THEN s.timeout ELSE 0) * (Len(Addresses) + s.signals)

(* Every call returns: the loops over addresses and over interrupted waits *)
(* end, in both builds, even if each system call fails.                    *)
CallsReturn == \A c \in Caller : call[c].pc # "idle" ~> call[c].pc = "done"

-----------------------------------------------------------------------------
(* The inductive invariant behind the first three (SockCallsProofs).       *)

Errors == {"0", "EINPROGRESS", "EINTR", "ERR"}
CallStates ==
    [pc : {"idle", "next", "socket", "bind", "connect", "wait", "close", "free", "return", "done",
           "listen", "close_cs", "accept", "close_as", "close_ss"},
     op : Ops, timeout : Int, bnd : BOOLEAN, ai : Nat, prefer : BOOLEAN,
     sock : Fd \cup {NoSock}, ss : Fd \cup {NoSock}, errno : Errors, lists : {0, 1, 2}, lost : Nat,
     cerr : Errors, why : {"none", "lookup", "bind"}, cut : {"none", "timeout", "at_once", "signal"},
     signals : Nat, elapsed : Nat]
FdStates ==
    [owner : Caller \cup {Nobody}, block : BOOLEAN,
     state : {"free", "new", "bound", "pending", "connected", "failed"}]

(* Type correctness.                                                       *)
TypeOK ==
    /\ build \in {"getaddrinfo", "fallback"}
    /\ fds \in [Fd -> FdStates]
    /\ call \in [Caller -> CallStates]
    /\ strayed \in BOOLEAN

(* When a call has a socket, and when sock_is_ipv4_mapped_supported has    *)
(* two; which calls get to bind and to connect.                            *)
SockPart(s) ==
    /\ s.pc \in {"idle", "next", "socket", "listen", "accept", "close_ss"} => s.sock = NoSock
    /\ s.pc \in {"bind", "connect", "wait", "close", "close_cs", "close_as"} => s.sock # NoSock
    /\ s.pc \in {"listen", "accept", "close_ss", "close_cs", "close_as"} => s.ss # NoSock
    /\ s.pc \in {"idle", "done"} => s.ss = NoSock
    /\ s.ss # NoSock => s.op = "probe"
    /\ s.pc = "bind" => Kind(s) = "server" \/ (s.op = "connect" /\ s.bnd)
    /\ s.pc = "connect" => Kind(s) # "server"
    /\ s.pc = "wait" => Kind(s) = "connect"

(* The address a call is at, and getaddrinfo's lists: b_head is lost once  *)
(* for every address that was bound, but for the first.                    *)
ListPart(b, s) ==
    /\ s.pc \in {"idle", "return", "done", "listen", "accept", "close_ss", "close_cs", "close_as"} =>
         s.lists = 0
    /\ b = "fallback" => s.lists = 0 /\ s.pc # "next"
    /\ b = "getaddrinfo" => s.ai \in 1..(Len(Addresses) + 1)
    /\ b = "getaddrinfo" /\ s.pc \in {"socket", "bind", "connect", "wait", "close"} =>
         s.ai <= Len(Addresses)
    /\ s.lists = 1 => s.lost = 0
    /\ s.lists = 2 => s.lost + 1 <= IF s.pc \in {"next", "socket", "bind"} THEN s.ai - 1 ELSE s.ai
    /\ s.lists = 2 \/ s.lost > 0 => s.op = "connect" /\ s.bnd
    /\ s.lost < Len(Addresses)

Timeout(s) == IF s.timeout > 0 THEN s.timeout ELSE 0

(* How many addresses have had their time.                                 *)
Tried(s) ==
    IF s.pc \in {"idle", "next", "socket", "bind", "connect", "wait"} THEN s.ai - 1
    ELSE IF s.pc = "close" THEN s.ai ELSE Len(Addresses)

InTime(s) == s.elapsed <= Timeout(s) * (Tried(s) + s.signals)

(* What a call of sock_connect_wto_bind knows of its last connect, and how *)
(* long it has waited.                                                     *)
WaitPart(b, s) ==
    /\ s.pc = "wait" => s.cerr # "0" /\ (s.cerr = "EINTR" => s.signals > 0)
    /\ s.pc = "wait" /\ b = "fallback" => s.timeout # 0
    /\ s.pc = "wait" /\ b = "getaddrinfo" /\ s.cerr = "ERR" => s.errno = "ERR"
    /\ b = "getaddrinfo" /\ s.op = "connect" =>
         /\ s.pc = "wait" /\ s.cerr = "EINPROGRESS" => s.timeout > 0
         /\ s.pc \in {"free", "return", "done"} /\ s.sock = NoSock =>
              s.why \in {"lookup", "bind"} \/ s.ai > Len(Addresses)
         /\ s.cut \in {"none", "timeout", "at_once"}
         /\ s.cut = "timeout" => s.timeout > 0 /\ s.elapsed >= s.timeout
         /\ s.cut = "at_once" => s.timeout = 0 /\ s.signals > 0
         /\ InTime(s)

(* What a call knows of the socket it has.                                 *)
FdPart(b, s, fd) ==
    /\ s.pc = "bind" \/ (s.pc = "close" /\ Kind(s) = "server") => fd.state = "new"
    /\ s.pc = "connect" => fd.state \in {"new", "bound"}
    /\ s.pc = "wait" => s.cerr = "ERR" \/ fd.state \in {"pending", "connected", "failed"}
    /\ s.pc \in {"bind", "connect", "wait"} =>
         (fd.block <=> ~NonBlocking(b, s))
    /\ s.op = "connect" /\ s.pc \in {"free", "return", "done"} =>
         /\ fd.state = "connected" \/ (b = "fallback" /\ s.cerr = "ERR" /\ s.timeout # 0)
         /\ fd.block \/ (b = "getaddrinfo" /\ s.timeout > 0 /\ s.cerr = "0")

(* Who owns the descriptors, while no failed lookup has closed one.        *)
OwnPart(c) ==
    LET s == call[c] IN
    /\ s.sock # NoSock => fds[s.sock].owner = c /\ FdPart(build, s, fds[s.sock])
    /\ s.ss # NoSock => fds[s.ss].owner = c
    /\ s.ss # NoSock => s.sock # s.ss
    /\ \A f \in Fd : fds[f].owner = c =>
         f \in {s.sock, s.ss} \/ (build = "fallback" /\ fds[f].state = "new")

(* All of it.                                                              *)
IInv ==
    /\ TypeOK
    /\ \A c \in Caller : SockPart(call[c]) /\ ListPart(build, call[c]) /\ WaitPart(build, call[c])
    /\ strayed => build = "fallback"
    /\ strayed \/ \A c \in Caller : OwnPart(c)

=============================================================================
