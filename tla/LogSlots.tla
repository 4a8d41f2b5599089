------------------------------ MODULE LogSlots ------------------------------
(***************************************************************************)
(* The table loglist of log/log.c and the calls that change it, made by    *)
(* several threads.  What a function does under _logger_mutex is one step; *)
(* what it tests or does outside is a step of its own.                     *)
(*                                                                         *)
(* A log's lines are numbered from 1 in the order they were written.  Of   *)
(* the sizes, only the comparison that asks for a rotation is kept: the    *)
(* size of a file that is opened again is whatever stat returns.           *)
(*                                                                         *)
(* Callers keep to this: they use an id from the return of log_open, or of *)
(* log_open_file, until log_close is called, which is when no other call   *)
(* on it is under way;                                                     *)
(* NullNames and KeepCounts say what they pass to log_set_filename and     *)
(* log_set_lines_kept.                                                     *)
(***************************************************************************)
EXTENDS Naturals, Sequences, FiniteSets

CONSTANTS
    Id,          \* 0..LOG_MAXLOGS - 1
    Thread,
    KeepCounts,  \* what log_set_lines_kept is called with
    NullNames,   \* may log_set_filename be called with NULL?
    MaxLines     \* bound: lines written to a log between open and close

ASSUME IdAssumption == Id \subseteq Nat /\ Id # {}
ASSUME KeepAssumption == KeepCounts \subseteq Nat
ASSUME NullNamesAssumption == NullNames \in BOOLEAN
ASSUME MaxLinesAssumption == MaxLines \in Nat

VARIABLES
    log,    \* loglist: see Init
    pc,     \* where each thread is
    arg,    \* the id it works on
    ub      \* the site of the first undefined behaviour, or "none"

vars == <<log, pc, arg, ub>>

Opening == {"open_file", "open_name"}
Pcs == Opening \cup {"idle", "set_filename", "set_lines_kept", "reopen",
                     "direct_read", "direct_flush", "direct_closed"}

AnyId == CHOOSE i \in Id : TRUE   \* of a thread that is idle

-----------------------------------------------------------------------------
(* log_initialize.                                                         *)
Init ==
    /\ log = [i \in Id |->
                [in_use   |-> FALSE,
                 ready    |-> FALSE,   \* may callers use the id?
                 filename |-> "NULL",  \* "NULL", "set", or "freed"
                 logfile  |-> FALSE,   \* is it an open file (or else NULL)?
                 full     |-> FALSE,   \* trigger_level && size > trigger_level
                 keep     |-> 0,       \* keep_entries
                 entries  |-> 0,
                 list     |-> << >>,   \* the lines reached from log_head
                 tail     |-> "list",  \* log_tail points into that list, or dangles:
                                       \* since log_close, or since the list was "trimmed"
                 by       |-> "open",  \* opened with log_open, or log_open_"file"
                 count    |-> 0]]      \* lines written
    /\ pc = [t \in Thread |-> "idle"]
    /\ arg = [t \in Thread |-> AnyId]
    /\ ub = "none"

(* Thread t goes on at label with log i; fclose of i's file leaves a       *)
(* dangling FILE pointer to whoever has read it for fflush.                *)
Step(t, i, label, closes) ==
    /\ pc' = [u \in Thread |->
                CASE u = t -> label
                  [] u # t /\ closes /\ pc[u] = "direct_flush" /\ arg[u] = i -> "direct_closed"
                  [] OTHER -> pc[u]]
    /\ arg' = [arg EXCEPT ![t] = IF label = "idle" THEN AnyId ELSE i]

Undefined(site) ==
    /\ ub' = site
    /\ UNCHANGED <<log, pc, arg>>

-----------------------------------------------------------------------------
(* Mutant of GetLogId: the slot is not marked before the mutex is released. *)
GetLogIdUnmarked(t) ==
    \E i \in Id :
        /\ pc[t] = "idle"
        /\ ~log[i].in_use
        /\ \A j \in Id : j < i => log[j].in_use
        /\ Step(t, i, "open_file", FALSE)
        /\ UNCHANGED <<log, ub>>

(* log_open: _get_log_id takes the first free slot.  (A failed fopen, and  *)
(* a full table, return an error with the table unchanged.)                *)
GetLogId(t) ==
    \E i \in Id :
        /\ pc[t] = "idle"
        /\ ~log[i].in_use
        /\ \A j \in Id : j < i => log[j].in_use
        /\ log' = [log EXCEPT ![i].in_use = TRUE]
        /\ Step(t, i, "open_file", FALSE)
        /\ UNCHANGED ub

(* log_open_file, after _get_log_id: not under the mutex.  It returns to   *)
(* log_open, or to the application, which may use the log from then on.    *)
LogOpenFile(t) ==
    /\ pc[t] = "open_file"
    /\ \E by \in {"open", "file"} :
          /\ log' = [log EXCEPT ![arg[t]] =
                       [@ EXCEPT !.logfile = TRUE, !.filename = "NULL", !.full = FALSE,
                                 !.by = by, !.ready = by = "file"]]
          /\ Step(t, arg[t], IF by = "open" THEN "open_name" ELSE "idle", FALSE)
    /\ UNCHANGED ub

(* Mutant of LogOpen: log_tail is not reset.                               *)
LogOpenOldTail(t) ==
    /\ pc[t] = "open_name"
    /\ \E f \in BOOLEAN :
          log' = [log EXCEPT ![arg[t]] =
                    [@ EXCEPT !.filename = "set", !.full = f, !.entries = 0,
                              !.list = << >>, !.ready = TRUE]]
    /\ Step(t, arg[t], "idle", FALSE)
    /\ UNCHANGED ub

(* The rest of log_open: name, size, and an empty list; neither is this.   *)
LogOpen(t) ==
    /\ pc[t] = "open_name"
    /\ \E f \in BOOLEAN :
          log' = [log EXCEPT ![arg[t]] =
                    [@ EXCEPT !.filename = "set", !.full = f, !.entries = 0,
                              !.list = << >>, !.tail = "list", !.ready = TRUE]]
    /\ Step(t, arg[t], "idle", FALSE)
    /\ UNCHANGED ub

(* Calls on a log that is open: the test without the mutex.                *)
Test(t, i, label) ==
    /\ pc[t] = "idle"
    /\ log[i].ready
    /\ log[i].in_use
    /\ Step(t, i, label, FALSE)
    /\ UNCHANGED <<log, ub>>

-----------------------------------------------------------------------------
LogSetTrigger(t, i) ==
    /\ pc[t] = "idle"
    /\ log[i].ready
    /\ \E f \in BOOLEAN : log' = [log EXCEPT ![i].full = f]
    /\ UNCHANGED <<pc, arg, ub>>

LogSetFilename(t) ==
    LET i == arg[t] IN
    /\ pc[t] = "set_filename"
    /\ \E name \in IF NullNames THEN {"NULL", "set"} ELSE {"set"} :
          log' = [log EXCEPT ![i].filename = name]
    /\ Step(t, i, "idle", FALSE)
    /\ UNCHANGED ub

(* Take entries off the head until count are left.  log_tail is not looked *)
(* at: if all go, it points into the last one freed.                       *)
Trim(s, n, by) ==
    LET gone == IF s.entries > n THEN s.entries - n ELSE 0 IN
    [s EXCEPT !.entries = @ - gone,
              !.list = SubSeq(@, gone + 1, Len(@)),
              !.tail = IF gone = 0 \/ n > 0 THEN @ ELSE by]

(* Mutant of LogSetLinesKept: one line more is kept.                       *)
LogSetLinesKeptOneMore(t) ==
    LET i == arg[t] IN
    /\ pc[t] = "set_lines_kept"
    /\ \E n \in KeepCounts :
          log' = [log EXCEPT ![i] = [Trim(@, n + 1, "trimmed") EXCEPT !.keep = n + 1]]
    /\ Step(t, i, "idle", FALSE)
    /\ UNCHANGED ub

LogSetLinesKept(t) ==
    LET i == arg[t] IN
    /\ pc[t] = "set_lines_kept"
    /\ \E n \in KeepCounts : log' = [log EXCEPT ![i] = [Trim(@, n, "trimmed") EXCEPT !.keep = n]]
    /\ Step(t, i, "idle", FALSE)
    /\ UNCHANGED ub

(* log_reopen tests filename and logfile, then takes the mutex and closes  *)
(* the file, whatever has become of it.                                    *)
LogReopenTest(t, i) ==
    /\ log[i].filename # "NULL"
    /\ log[i].logfile
    /\ Test(t, i, "reopen")

LogReopen(t) ==
    LET i == arg[t] IN
    /\ pc[t] = "reopen"
    /\ IF log[i].logfile
       THEN /\ log' = [log EXCEPT ![i].logfile = FALSE]
            /\ Step(t, i, "idle", TRUE)
            /\ UNCHANGED ub
       ELSE Undefined("reopen")

LogClose(t, i) ==
    /\ pc[t] = "idle"
    /\ log[i].ready
    /\ \A u \in Thread : arg[u] = i => pc[u] = "idle"
    /\ LET s == Trim(log[i], 0, "closed") IN
       log' = [log EXCEPT ![i] =
                 [s EXCEPT !.in_use = FALSE, !.ready = FALSE, !.logfile = FALSE,
                           !.filename = IF @ = "NULL" THEN @ ELSE "freed",
                           !.full = FALSE, !.by = "open", !.count = 0]]  \* until the next open
    /\ Step(t, i, "idle", log[i].logfile)
    /\ UNCHANGED ub

-----------------------------------------------------------------------------
(* _log_open: the states it may leave the log in, with its result.  A file *)
(* that is full is closed and renamed (or not: the result of rename is not *)
(* looked at) and opened again, which may fail.                            *)
Wanted(s) == ~s.logfile \/ s.full

LogOpened(s) ==
    CASE ~s.in_use -> {[s |-> s, ok |-> FALSE]}
      [] s.in_use /\ ~Wanted(s) -> {[s |-> s, ok |-> TRUE]}
      [] s.in_use /\ Wanted(s) /\ s.filename = "NULL" ->
            {[s |-> [s EXCEPT !.full = FALSE], ok |-> TRUE]}
      [] s.in_use /\ Wanted(s) /\ s.filename # "NULL" ->
            {[s |-> [s EXCEPT !.logfile = FALSE], ok |-> FALSE]}
            \cup {[s |-> [s EXCEPT !.logfile = TRUE, !.full = f], ok |-> TRUE] : f \in BOOLEAN}

(* Mutant of CreateLogEntry: the first line goes one line too late.        *)
CreateLogEntryLate(s) ==
    LET s1 == [s EXCEPT !.count = @ + 1]
        s2 == [s1 EXCEPT !.list = Append(@, s1.count)]
    IN  CASE s.keep = 0 -> s1
          [] s.keep > 0 /\ s.entries > s.keep  -> [s2 EXCEPT !.list = Tail(@)]
          [] s.keep > 0 /\ s.entries <= s.keep -> [s2 EXCEPT !.entries = @ + 1]

(* create_log_entry: the line goes to the file and, if lines are kept, to  *)
(* the end of the list, which loses its first line once it is full.        *)
CreateLogEntry(s) ==
    LET s1 == [s EXCEPT !.count = @ + 1]
        s2 == [s1 EXCEPT !.list = Append(@, s1.count)]
    IN  CASE s.keep = 0 -> s1
          [] s.keep > 0 /\ s.entries >= s.keep -> [s2 EXCEPT !.list = Tail(@)]
          [] s.keep > 0 /\ s.entries < s.keep  -> [s2 EXCEPT !.entries = @ + 1]

(* log_write and log_write_direct, under the mutex.  fprintf to NULL, a    *)
(* file name that was freed and a store through a dangling log_tail are    *)
(* undefined.  The line may make the file full.                            *)
WriteLine(t, i, label) ==
    /\ pc[t] = "idle"
    /\ log[i].ready
    /\ log[i].count < MaxLines
    /\ IF Wanted(log[i]) /\ log[i].filename = "freed" THEN Undefined("name")
       ELSE \E r \in LogOpened(log[i]) :
            CASE r.ok /\ ~r.s.logfile -> Undefined("file")
              [] r.ok /\ r.s.logfile /\ r.s.keep > 0 /\ r.s.tail # "list" -> Undefined("tail")
              [] OTHER ->
                   /\ IF r.ok
                      THEN \E f \in {r.s.full, TRUE} :
                             log' = [log EXCEPT ![i] = [CreateLogEntry(r.s) EXCEPT !.full = f]]
                      ELSE log' = [log EXCEPT ![i] = r.s]
                   /\ Step(t, i, label, log[i].logfile /\ log[i].full)
                   /\ UNCHANGED ub

LogWrite(t, i) == WriteLine(t, i, "idle")

LogWriteDirect(t, i) == WriteLine(t, i, "direct_read")

(* ... fflush(loglist[log_id].logfile), after the mutex is released: the   *)
(* pointer is read (fflush(NULL) is harmless), then used.                  *)
DirectRead(t) ==
    /\ pc[t] = "direct_read"
    /\ Step(t, arg[t], IF log[arg[t]].logfile THEN "direct_flush" ELSE "idle", FALSE)
    /\ UNCHANGED <<log, ub>>

DirectFlush(t) ==
    \/ /\ pc[t] = "direct_flush"
       /\ Step(t, arg[t], "idle", FALSE)
       /\ UNCHANGED <<log, ub>>
    \/ /\ pc[t] = "direct_closed"
       /\ Undefined("direct")

(* log_contents and log_contents_array: the lines from log_head on, copied *)
(* to a buffer of total + 1 bytes and to entries + 1 pointers.             *)
LogContents(s) == s.list

-----------------------------------------------------------------------------
Call(t, i) ==
    \/ LogSetTrigger(t, i)
    \/ Test(t, i, "set_filename") \/ Test(t, i, "set_lines_kept") \/ LogReopenTest(t, i)
    \/ LogClose(t, i)
    \/ LogWrite(t, i) \/ LogWriteDirect(t, i)

Next ==
    \/ /\ ub = "none"
       /\ \E t \in Thread :
            \/ GetLogId(t) \/ LogOpenFile(t) \/ LogOpen(t)
            \/ LogSetFilename(t) \/ LogSetLinesKept(t) \/ LogReopen(t)
            \/ DirectRead(t) \/ DirectFlush(t)
            \/ \E i \in Id : Call(t, i)
    \/ ub # "none" /\ UNCHANGED vars

Spec == Init /\ [][Next]_vars

-----------------------------------------------------------------------------
(* Properties.                                                             *)

Slot ==
    [in_use : BOOLEAN, ready : BOOLEAN, filename : {"NULL", "set", "freed"},
     logfile : BOOLEAN, full : BOOLEAN, keep : KeepCounts \cup {0}, entries : Nat,
     list : Seq(1..MaxLines), tail : {"list", "trimmed", "closed"}, by : {"open", "file"},
     count : 0..MaxLines]

(* Type correctness: no log keeps a number of lines that was not asked     *)
(* for with log_set_lines_kept.                                            *)
TypeOK ==
    /\ log \in [Id -> Slot]
    /\ pc \in [Thread -> Pcs]
    /\ arg \in [Thread -> Id]
    /\ ub \in {"none", "reopen", "name", "file", "tail", "direct"}

(* log_contents_array returns as many lines as entries says, for which it  *)
(* has made room.  They are the last lines that were written, in order,    *)
(* and never more of them than log_set_lines_kept asked for, however the   *)
(* calls that write, trim, close and reopen follow each other.             *)
KeptAreLast ==
    \A i \in Id : log[i].ready =>
        /\ LogContents(log[i]) = [n \in 1..log[i].entries |-> log[i].count - log[i].entries + n]
        /\ log[i].entries <= log[i].keep

(* What is left behind in a slot leads to undefined behaviour in five ways *)
(* only.  Two are the tests that log.c makes without the mutex: log_reopen *)
(* may close a file that was closed after the test, and log_write_direct   *)
(* may flush one that was closed after it let go of the mutex.  Three are  *)
(* sequences of calls: a line for a log that has neither a file nor a name *)
(* (log_set_filename with NULL after log_reopen or a failed rotation), a   *)
(* line to be kept after log_set_lines_kept(0) emptied the list, and one   *)
(* kept for log_open_file where log_close left log_tail and keep_entries   *)
(* to it.  log_open clears all that log_close leaves; a freed file name is *)
(* never used.                                                             *)
UndefinedOnlyThere ==
    /\ ub # "name"
    /\ ub = "file" => \E i \in Id : log[i].ready /\ log[i].filename = "NULL"
    /\ ub = "tail" => \E i \in Id : /\ log[i].ready
                                   /\ \/ log[i].tail = "trimmed"
                                      \/ log[i].tail = "closed" /\ log[i].by = "file"

(* A slot belongs to the thread that opens it until log_open returns.      *)
OpenersApart ==
    \A t, u \in Thread :
        pc[t] \in Opening /\ pc[u] # "idle" /\ arg[t] = arg[u] => t = u

-----------------------------------------------------------------------------
(* The inductive invariant behind these (LogSlotsProofs).                  *)

(* Who has a slot: the thread that opens it, before log_open returns, and  *)
(* callers with an id that it returned, until log_close.                   *)
UsersInv ==
    \A t \in Thread :
        /\ pc[t] \in Opening => log[arg[t]].in_use /\ ~log[arg[t]].ready
        /\ pc[t] \notin Opening \cup {"idle"} => log[arg[t]].ready

(* What log_close leaves in a slot, or log_open clears: while callers may  *)
(* use the id its name is not a freed one, and log_tail is not the one of  *)
(* the log before, but for log_open_file; while they may not, no line is   *)
(* kept.                                                                   *)
LeftInv ==
    \A i \in Id :
        IF log[i].ready
        THEN /\ log[i].in_use
             /\ log[i].filename # "freed"
             /\ log[i].tail = "closed" => log[i].by = "file"
        ELSE log[i].entries = 0 /\ log[i].list = << >> /\ log[i].count = 0

IInv == TypeOK /\ KeptAreLast /\ UndefinedOnlyThere /\ OpenersApart /\ UsersInv /\ LeftInv

=============================================================================
