----------------------------- MODULE MCSockCalls -----------------------------
(* Two threads: one makes every kind of call, the other only connects.     *)
EXTENDS SockCalls

Connects(timeouts, binds) == [op : {"connect"}, timeout : timeouts, bnd : binds]
Plain(ops) == [op : ops, timeout : {0}, bnd : {FALSE}]

MCPlan ==
    [c \in Caller |->
        IF c = "a" THEN Connects({-1, 0, 2}, BOOLEAN) \cup Plain({"nonblock", "server", "probe"})
                   ELSE Plain({"nonblock"})]

MCAddresses == <<"inet6", "inet">>

=============================================================================
