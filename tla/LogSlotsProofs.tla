--------------------------- MODULE LogSlotsProofs ---------------------------
(***************************************************************************)
(* Proofs about LogSlots, for every number of slots and threads, every     *)
(* number of lines and every count that log_set_lines_kept is called with. *)
(*                                                                         *)
(* IInv says of each slot by itself that SlotOK holds, and of the threads  *)
(* who may be at work on it.  Every action changes one slot and moves one  *)
(* thread: SlotStep says when that keeps IInv, and the proof for an action *)
(* comes down to SlotOK of what it makes of the slot.                      *)
(***************************************************************************)
EXTENDS LogSlots, SequenceTheorems, TLAPS

LastLines(count, n) == [k \in 1..n |-> count - n + k]

SlotOK(s) ==
    /\ s \in Slot
    /\ s.list = LastLines(s.count, s.entries)
    /\ s.entries <= s.keep
    /\ s.ready => /\ s.in_use
                  /\ s.filename # "freed"
                  /\ s.tail = "closed" => s.by = "file"
    /\ ~s.ready => s.entries = 0 /\ s.list = << >> /\ s.count = 0

(* The id of an idle thread is one of the table.                           *)
LEMMA AnyIdInId == AnyId \in Id
BY IdAssumption DEF AnyId

(* No lines are the last lines of any log.                                 *)
LEMMA NoLines == \A c : LastLines(c, 0) = << >>
<1>1. 1..0 = {}
  OBVIOUS
<1> QED
  BY <1>1 DEF LastLines

(* The parts of IInv about slots are SlotOK of each of them.               *)
LEMMA SlotsAreOK ==
    ASSUME TypeOK
    PROVE  KeptAreLast /\ LeftInv <=> \A i \in Id : SlotOK(log[i])
<1>1. \A i \in Id : log[i].keep \in Nat
  <2>1. \A s \in Slot : s.keep \in KeepCounts \cup {0}
    BY DEF Slot
  <2>2. KeepCounts \cup {0} \subseteq Nat
    BY KeepAssumption
  <2> QED
    BY <2>1, <2>2 DEF TypeOK
<1>2. ASSUME KeptAreLast, LeftInv, NEW i \in Id
      PROVE  SlotOK(log[i])
  <2>1. CASE log[i].ready
    BY <1>2, <2>1 DEF SlotOK, KeptAreLast, LeftInv, LogContents, LastLines, TypeOK
  <2>2. CASE ~log[i].ready
    BY <1>1, <1>2, <2>2, NoLines DEF SlotOK, LeftInv, TypeOK
  <2> QED
    BY <2>1, <2>2
<1>3. ASSUME \A i \in Id : SlotOK(log[i])
      PROVE  KeptAreLast /\ LeftInv
  BY <1>3 DEF SlotOK, KeptAreLast, LeftInv, LogContents, LastLines
<1> QED
  BY <1>2, <1>3

(* Thread t goes on at label with slot i; of the others, some may have     *)
(* been left a dangling FILE pointer.                                      *)
Moves(t, i, label) ==
    /\ pc' \in [Thread -> Pcs]
    /\ arg' \in [Thread -> Id]
    /\ pc'[t] = label
    /\ label # "idle" => arg'[t] = i
    /\ \A u \in Thread \ {t} :
         /\ arg'[u] = arg[u]
         /\ \/ pc'[u] = pc[u]
            \/ pc[u] = "direct_flush" /\ pc'[u] = "direct_closed"

(* That is what Step does.                                                 *)
LEMMA StepMoves ==
    ASSUME TypeOK, NEW t \in Thread, NEW i \in Id, NEW label \in Pcs, NEW closes,
           Step(t, i, label, closes)
    PROVE  Moves(t, i, label)
<1> USE DEF TypeOK, Pcs, Opening
<1>1. arg' \in [Thread -> Id] /\ (label # "idle" => arg'[t] = i)
  BY AnyIdInId DEF Step
<1>2. pc' \in [Thread -> Pcs] /\ pc'[t] = label
  BY DEF Step
<1>3. ASSUME NEW u \in Thread \ {t}
      PROVE  /\ arg'[u] = arg[u]
             /\ \/ pc'[u] = pc[u]
                \/ pc[u] = "direct_flush" /\ pc'[u] = "direct_closed"
  BY <1>3 DEF Step
<1> QED
  BY <1>1, <1>2, <1>3 DEF Moves

(* Others than t that are at work on slot i use it, and do not open it.    *)
OthersUse(t, i) ==
    \A u \in Thread \ {t} : arg[u] = i /\ pc[u] # "idle" => log[i].ready /\ pc[u] \notin Opening

(* They do if the slot is in use, and if t is the one that opens it.       *)
LEMMA OthersDoUse ==
    ASSUME IInv, NEW t \in Thread, NEW i \in Id,
           log[i].ready \/ (arg[t] = i /\ pc[t] \in Opening) \/ ~log[i].in_use
    PROVE  OthersUse(t, i)
BY DEF IInv, OthersUse, UsersInv, OpenersApart, LeftInv, Opening

(* A step of thread t that makes s of slot i keeps IInv if s is in order,  *)
(* fits where t goes on, and takes nothing from the others at work on it.  *)
LEMMA SlotStep ==
    ASSUME IInv, NEW t \in Thread, NEW i \in Id, NEW s, NEW label \in Pcs,
           ub = "none", ub' = ub,
           Moves(t, i, label),
           log' = [log EXCEPT ![i] = s],
           SlotOK(s),
           OthersUse(t, i),
           log[i].ready => s.ready \/ \A u \in Thread \ {t} : arg[u] = i => pc[u] = "idle",
           label \in Opening => s.in_use /\ ~s.ready /\ ~log[i].ready,
           label \notin Opening \cup {"idle"} => s.ready
    PROVE  IInv'
<1> USE DEF IInv, Opening
<1>1. /\ pc' \in [Thread -> Pcs]
      /\ arg' \in [Thread -> Id]
      /\ pc'[t] = label
      /\ label # "idle" => arg'[t] = i
      /\ \A u \in Thread \ {t} :
           /\ arg'[u] = arg[u]
           /\ \/ pc'[u] = pc[u]
              \/ pc[u] = "direct_flush" /\ pc'[u] = "direct_closed"
  BY DEF Moves
<1>2. \A j \in Id : SlotOK(log[j])
  BY SlotsAreOK
<1>3. /\ log'[i] = s
      /\ \A j \in Id \ {i} : log'[j] = log[j]
  BY DEF TypeOK
<1>4. \A j \in Id : SlotOK(log'[j])
  BY <1>2, <1>3
<1>5. TypeOK'
  BY <1>1 DEF TypeOK, SlotOK
<1>6. KeptAreLast' /\ LeftInv'
  BY <1>4 DEF SlotOK, KeptAreLast, LeftInv, LogContents, LastLines
<1>7. UndefinedOnlyThere'
  BY DEF UndefinedOnlyThere
<1>8. OpenersApart'
  BY <1>1 DEF OpenersApart, OthersUse
<1>9. UsersInv'
  <2>1. ASSUME NEW u \in Thread, u = t
        PROVE  /\ pc'[u] \in Opening => log'[arg'[u]].in_use /\ ~log'[arg'[u]].ready
               /\ pc'[u] \notin Opening \cup {"idle"} => log'[arg'[u]].ready
    BY <1>1, <1>3, <2>1
  <2>2. ASSUME NEW u \in Thread, u # t
        PROVE  /\ pc'[u] \in Opening => log'[arg'[u]].in_use /\ ~log'[arg'[u]].ready
               /\ pc'[u] \notin Opening \cup {"idle"} => log'[arg'[u]].ready
    <3>1. CASE arg[u] = i
      BY <1>1, <1>3, <2>2, <3>1 DEF OthersUse
    <3>2. CASE arg[u] # i
      <4>1. arg[u] \in Id /\ log'[arg'[u]] = log[arg[u]]
        BY <1>1, <1>3, <2>2, <3>2 DEF TypeOK
      <4> QED
        BY <1>1, <2>2, <4>1 DEF UsersInv
    <3> QED
      BY <3>1, <3>2
  <2> QED
    BY <2>1, <2>2 DEF UsersInv
<1> QED
  BY <1>5, <1>6, <1>7, <1>8, <1>9

(* The last n lines of a log are a sequence of n numbers.                  *)
LEMMA LastLinesSeq ==
    ASSUME NEW c \in Int, NEW n \in Nat
    PROVE  LastLines(c, n) \in Seq(Int) /\ Len(LastLines(c, n)) = n
<1>1. LastLines(c, n) \in [1..n -> Int]
  BY DEF LastLines
<1> QED
  BY <1>1

(* Without the first g of them, they are the last n - g.                   *)
LEMMA LastLinesTrimmed ==
    ASSUME NEW c \in Int, NEW n \in Nat, NEW g \in 0..n
    PROVE  SubSeq(LastLines(c, n), g + 1, n) = LastLines(c, n - g)
<1> DEFINE l == LastLines(c, n)
           r == SubSeq(l, g + 1, n)
<1>1. \A k \in (g + 1)..n : l[k] = c - n + k
  BY DEF LastLines
<1>2. /\ r \in Seq(Int)
      /\ Len(r) = n - g
      /\ \A k \in 1..(n - g) : r[k] = l[g + k]
  <2>1. \A k \in (g + 1)..n : l[k] \in Int
    BY <1>1
  <2> HIDE DEF l
  <2> QED
    BY <2>1, SubSeqProperties
<1>3. n - g \in Nat
  OBVIOUS
<1>4. \A k \in 1..(n - g) : r[k] = LastLines(c, n - g)[k]
  <2> TAKE k \in 1..(n - g)
  <2>1. r[k] = l[g + k] /\ g + k \in (g + 1)..n
    BY <1>2
  <2>2. l[g + k] = c - n + (g + k)
    BY <1>1, <2>1
  <2>3. LastLines(c, n - g)[k] = c - (n - g) + k
    BY DEF LastLines
  <2> QED
    BY <2>1, <2>2, <2>3
<1>5. LastLines(c, n - g) \in Seq(Int) /\ Len(LastLines(c, n - g)) = n - g
  BY <1>3, LastLinesSeq
<1> QED
  BY <1>2, <1>4, <1>5, SeqEqual

(* With the next line, they are the last n + 1.                            *)
LEMMA LastLinesAppended ==
    ASSUME NEW c \in Nat, NEW n \in Nat
    PROVE  Append(LastLines(c, n), c + 1) = LastLines(c + 1, n + 1)
<1> DEFINE l == LastLines(c, n)
           r == Append(l, c + 1)
<1>1. l \in Seq(Int) /\ Len(l) = n
  BY LastLinesSeq
<1>2. /\ r \in Seq(Int)
      /\ Len(r) = n + 1
      /\ \A k \in 1..n : r[k] = l[k]
      /\ r[n + 1] = c + 1
  <2> HIDE DEF l
  <2> QED
    BY <1>1, AppendProperties
<1>3. LastLines(c + 1, n + 1) \in Seq(Int) /\ Len(LastLines(c + 1, n + 1)) = n + 1
  BY LastLinesSeq
<1>4. \A k \in 1..(n + 1) : r[k] = LastLines(c + 1, n + 1)[k]
  <2> TAKE k \in 1..(n + 1)
  <2>1. LastLines(c + 1, n + 1)[k] = (c + 1) - (n + 1) + k
    BY DEF LastLines
  <2>2. k \in 1..n => l[k] = c - n + k
    BY DEF LastLines
  <2> QED
    BY <1>2, <2>1, <2>2
<1> QED
  BY <1>2, <1>3, <1>4, SeqEqual

(* What Trim makes of s.                                                   *)
Trimmed(s, r, n, by) ==
    /\ r \in Slot
    /\ r.in_use = s.in_use /\ r.ready = s.ready /\ r.filename = s.filename
    /\ r.logfile = s.logfile /\ r.full = s.full /\ r.keep = s.keep
    /\ r.by = s.by /\ r.count = s.count
    /\ r.entries <= n /\ r.entries <= s.entries
    /\ r.list = LastLines(s.count, r.entries)
    /\ r.tail \in {s.tail, by}

(* Trim leaves the last lines, at most n of them.                          *)
LEMMA TrimKeepsLast ==
    ASSUME NEW s, SlotOK(s), NEW n \in Nat, NEW by \in {"trimmed", "closed"}
    PROVE  Trimmed(s, Trim(s, n, by), n, by)
<1>1. /\ s \in Slot /\ s.entries \in Nat /\ s.count \in Nat /\ s.list \in Seq(1..MaxLines)
      /\ s.list = LastLines(s.count, s.entries)
  BY MaxLinesAssumption DEF SlotOK, Slot
<1>2. PICK c \in Nat, e \in Nat : c = s.count /\ e = s.entries
  BY <1>1
<1>3. PICK gone \in 0..e : gone = IF s.entries > n THEN s.entries - n ELSE 0
  BY <1>2
<1>4. s.list = LastLines(c, e) /\ Len(s.list) = e
  <2>1. s.list = LastLines(c, e)
    BY <1>1, <1>2
  <2>2. c \in Int
    BY <1>2
  <2>3. Len(LastLines(c, e)) = e
    BY <1>2, <2>2, LastLinesSeq
  <2> QED
    BY <2>1, <2>3
<1>5. PICK l : l = SubSeq(s.list, gone + 1, Len(s.list))
  OBVIOUS
<1>6. l = LastLines(c, e - gone)
  <2>1. c \in Int
    BY <1>2
  <2>2. SubSeq(LastLines(c, e), gone + 1, e) = LastLines(c, e - gone)
    BY <1>2, <1>3, <2>1, LastLinesTrimmed
  <2> QED
    BY <1>4, <1>5, <2>2
<1>7. l \in Seq(1..MaxLines)
  <2>1. ASSUME NEW k \in (gone + 1)..Len(s.list)
        PROVE  s.list[k] \in 1..MaxLines
    <3>1. k \in 1..Len(s.list)
      BY <1>3, <1>4
    <3> QED
      BY <1>1, <3>1, ElementOfSeq
  <2> QED
    BY <1>3, <1>4, <1>5, <2>1, SubSeqProperties
<1>8. PICK tl : tl = IF gone = 0 \/ n > 0 THEN s.tail ELSE by
  OBVIOUS
<1>9. Trim(s, n, by) = [s EXCEPT !.entries = e - gone, !.list = l, !.tail = tl]
  BY <1>1, <1>2, <1>3, <1>5, <1>8 DEF Trim, Slot
<1>10. e - gone \in Nat /\ e - gone <= n /\ e - gone <= e
  BY <1>2, <1>3
<1>11. [s EXCEPT !.entries = e - gone, !.list = l, !.tail = tl] \in Slot
  BY <1>1, <1>7, <1>8, <1>10 DEF Slot
<1> QED
  BY <1>1, <1>2, <1>6, <1>8, <1>9, <1>10, <1>11 DEF Trimmed, Slot

(* Without the first of them, they are the last n.                         *)
LEMMA LastLinesTail ==
    ASSUME NEW c \in Int, NEW n \in Nat
    PROVE  Tail(LastLines(c, n + 1)) = LastLines(c, n)
<1>1. LastLines(c, n + 1) \in Seq(Int) /\ Len(LastLines(c, n + 1)) = n + 1
  BY LastLinesSeq
<1>2. LastLines(c, n + 1) # << >>
  BY <1>1
<1>3. Tail(LastLines(c, n + 1)) = SubSeq(LastLines(c, n + 1), 2, n + 1)
  BY <1>1, <1>2, TailIsSubSeq
<1>4. SubSeq(LastLines(c, n + 1), 1 + 1, n + 1) = LastLines(c, (n + 1) - 1)
  <2>1. n + 1 \in Nat /\ 1 \in 0..(n + 1)
    OBVIOUS
  <2> QED
    BY <2>1, LastLinesTrimmed
<1>5. 1 + 1 = 2 /\ (n + 1) - 1 = n
  OBVIOUS
<1> QED
  BY <1>3, <1>4, <1>5

(* create_log_entry keeps the last lines, and no more than keep_entries.   *)
LEMMA CreateLogEntryKeepsLast ==
    ASSUME NEW s, SlotOK(s), s.ready, s.count < MaxLines
    PROVE  SlotOK(CreateLogEntry(s)) /\ CreateLogEntry(s).ready
<1>1. /\ s \in Slot /\ s.entries \in Nat /\ s.count \in Nat /\ s.list \in Seq(1..MaxLines)
      /\ s.list = LastLines(s.count, s.entries) /\ s.entries <= s.keep
  BY MaxLinesAssumption DEF SlotOK, Slot
<1>2. s.keep \in Nat
  <2>1. s.keep \in KeepCounts \cup {0}
    BY <1>1 DEF Slot
  <2>2. KeepCounts \cup {0} \subseteq Nat
    BY KeepAssumption
  <2> QED
    BY <2>1, <2>2
<1>3. PICK c \in Nat : c = s.count + 1
  BY <1>1
<1>4. c \in 1..MaxLines /\ c \in 0..MaxLines
  BY <1>1, <1>3, MaxLinesAssumption
<1>5. PICK l : l = Append(s.list, c)
  OBVIOUS
<1>6. l \in Seq(1..MaxLines) /\ l # << >>
  BY <1>1, <1>4, <1>5, AppendProperties
<1>7. l = LastLines(c, s.entries + 1)
  BY <1>1, <1>3, <1>5, LastLinesAppended
<1> DEFINE s1 == [s EXCEPT !.count = @ + 1]
           s2 == [s1 EXCEPT !.list = Append(@, s1.count)]
<1>8. s2 = [s EXCEPT !.count = c, !.list = l]
  BY <1>1, <1>3, <1>5 DEF Slot
<1>9. CASE s.keep = 0
  <2>1. CreateLogEntry(s) = [s EXCEPT !.count = c]
    BY <1>3, <1>9 DEF CreateLogEntry
  <2>2. s.entries = 0 /\ s.list = << >>
    BY <1>1, <1>9, NoLines
  <2>3. [s EXCEPT !.count = c] \in Slot
    BY <1>1, <1>4 DEF Slot
  <2> QED
    BY <1>1, <2>1, <2>2, <2>3, NoLines DEF SlotOK, Slot
<1>10. CASE s.keep > 0 /\ s.entries >= s.keep
  <2>1. CreateLogEntry(s) = [s EXCEPT !.count = c, !.list = Tail(l)]
    <3>1. s.keep # 0 /\ ~(s.entries < s.keep)
      BY <1>1, <1>2, <1>10
    <3>2. CreateLogEntry(s) = [s2 EXCEPT !.list = Tail(@)]
      BY <1>10, <3>1, Zenon DEF CreateLogEntry
    <3> QED
      BY <1>8, <3>2
  <2>2. Tail(l) \in Seq(1..MaxLines)
    BY <1>6, HeadTailProperties
  <2>3. Tail(l) = LastLines(c, s.entries)
    <3>1. PICK e \in Nat : e = s.entries
      BY <1>1
    <3>2. c \in Int
      BY <1>3
    <3>3. Tail(LastLines(c, e + 1)) = LastLines(c, e)
      BY <3>1, <3>2, LastLinesTail
    <3> QED
      BY <1>7, <3>1, <3>3
  <2>4. [s EXCEPT !.count = c, !.list = Tail(l)] \in Slot
    BY <1>1, <1>4, <2>2 DEF Slot
  <2> QED
    BY <1>1, <2>1, <2>3, <2>4 DEF SlotOK, Slot
<1>11. CASE s.keep > 0 /\ s.entries < s.keep
  <2>1. CreateLogEntry(s) = [s EXCEPT !.count = c, !.list = l, !.entries = s.entries + 1]
    <3>1. s.keep # 0 /\ ~(s.entries >= s.keep)
      BY <1>1, <1>2, <1>11
    <3>2. CreateLogEntry(s) = [s2 EXCEPT !.entries = @ + 1]
      BY <1>11, <3>1 DEF CreateLogEntry
    <3> QED
      BY <1>8, <3>2
  <2>2. [s EXCEPT !.count = c, !.list = l, !.entries = s.entries + 1] \in Slot
    <3>1. s.entries + 1 \in Nat
      BY <1>1
    <3> QED
      BY <1>1, <1>4, <1>6, <3>1 DEF Slot
  <2>3. s.entries + 1 <= s.keep
    BY <1>1, <1>2, <1>11
  <2> QED
    BY <1>1, <1>7, <2>1, <2>2, <2>3 DEF SlotOK, Slot
<1> QED
  BY <1>1, <1>2, <1>9, <1>10, <1>11

-----------------------------------------------------------------------------
(* log_open and log_open_file keep IInv.                                   *)
LEMMA OpenStep ==
    ASSUME IInv, ub = "none", NEW t \in Thread,
           GetLogId(t) \/ LogOpenFile(t) \/ LogOpen(t)
    PROVE  IInv'
<1> USE DEF Opening, Pcs
<1>1. TypeOK /\ \A j \in Id : SlotOK(log[j])
  BY SlotsAreOK DEF IInv
<1>2. CASE GetLogId(t)
  <2>1. PICK i \in Id : /\ ~log[i].in_use
                        /\ log' = [log EXCEPT ![i].in_use = TRUE]
                        /\ Step(t, i, "open_file", FALSE)
                        /\ ub' = ub
    BY <1>2 DEF GetLogId
  <2> DEFINE s == [log[i] EXCEPT !.in_use = TRUE]
  <2>2. log' = [log EXCEPT ![i] = s]
    BY <2>1
  <2>3. Moves(t, i, "open_file")
    BY <1>1, <2>1, StepMoves
  <2>4. SlotOK(log[i]) /\ ~log[i].ready
    BY <1>1, <2>1 DEF SlotOK
  <2>5. SlotOK(s) /\ s.in_use /\ ~s.ready
    BY <2>4 DEF SlotOK, Slot
  <2>6. OthersUse(t, i)
    BY <2>1, OthersDoUse
  <2> HIDE DEF s
  <2> QED
    BY <2>1, <2>2, <2>3, <2>4, <2>5, <2>6, SlotStep
<1>3. CASE LogOpenFile(t)
  <2> DEFINE i == arg[t]
  <2>1. i \in Id /\ SlotOK(log[i]) /\ log[i].in_use /\ ~log[i].ready /\ OthersUse(t, i)
    BY <1>1, <1>3, OthersDoUse DEF IInv, UsersInv, TypeOK, LogOpenFile
  <2>2. PICK by \in {"open", "file"} :
          /\ log' = [log EXCEPT ![i] =
                       [@ EXCEPT !.logfile = TRUE, !.filename = "NULL", !.full = FALSE,
                                 !.by = by, !.ready = by = "file"]]
          /\ Step(t, i, IF by = "open" THEN "open_name" ELSE "idle", FALSE)
    BY <1>3 DEF LogOpenFile
  <2> DEFINE s == [log[i] EXCEPT !.logfile = TRUE, !.filename = "NULL", !.full = FALSE,
                                 !.by = by, !.ready = by = "file"]
             label == IF by = "open" THEN "open_name" ELSE "idle"
  <2>3. log' = [log EXCEPT ![i] = s]
    BY <2>2
  <2>4. Moves(t, i, label) /\ label \in Pcs
    BY <1>1, <2>1, <2>2, StepMoves
  <2>5. SlotOK(s) /\ (s.ready <=> by = "file") /\ s.in_use
    BY <2>1 DEF SlotOK, Slot
  <2>6. ub' = ub
    BY <1>3 DEF LogOpenFile
  <2>7. /\ label \in Opening => s.in_use /\ ~s.ready /\ ~log[i].ready
        /\ label \notin Opening \cup {"idle"} => s.ready
    BY <2>1, <2>5
  <2> HIDE DEF s, label, i
  <2> QED
    BY <2>1, <2>3, <2>4, <2>5, <2>6, <2>7, SlotStep
<1>4. CASE LogOpen(t)
  <2> DEFINE i == arg[t]
  <2>1. i \in Id /\ SlotOK(log[i]) /\ log[i].in_use /\ ~log[i].ready /\ OthersUse(t, i)
    BY <1>1, <1>4, OthersDoUse DEF IInv, UsersInv, TypeOK, LogOpen
  <2>2. PICK f \in BOOLEAN :
          log' = [log EXCEPT ![i] =
                    [@ EXCEPT !.filename = "set", !.full = f, !.entries = 0,
                              !.list = << >>, !.tail = "list", !.ready = TRUE]]
    BY <1>4 DEF LogOpen
  <2> DEFINE s == [log[i] EXCEPT !.filename = "set", !.full = f, !.entries = 0,
                                 !.list = << >>, !.tail = "list", !.ready = TRUE]
  <2>3. log' = [log EXCEPT ![i] = s]
    BY <2>2
  <2>4. Moves(t, i, "idle")
    BY <1>1, <1>4, <2>1, StepMoves DEF LogOpen
  <2>5. SlotOK(s)
    BY <2>1, NoLines DEF SlotOK, Slot
  <2>6. ub' = ub
    BY <1>4 DEF LogOpen
  <2> HIDE DEF s, i
  <2> QED
    BY <2>1, <2>3, <2>4, <2>5, <2>6, SlotStep
<1> QED
  BY <1>2, <1>3, <1>4

(* A step that leaves the table alone, on a log that callers may use.      *)
LEMMA TestStep ==
    ASSUME IInv, ub = "none", NEW t \in Thread, NEW i \in Id, NEW label \in Pcs \ Opening,
           log[i].ready, Step(t, i, label, FALSE), UNCHANGED <<log, ub>>
    PROVE  IInv'
<1>1. TypeOK /\ SlotOK(log[i])
  BY SlotsAreOK DEF IInv
<1>2. log' = [log EXCEPT ![i] = log[i]]
  BY <1>1 DEF TypeOK
<1>3. Moves(t, i, label)
  BY <1>1, StepMoves
<1>4. OthersUse(t, i)
  BY OthersDoUse
<1> QED
  BY <1>1, <1>2, <1>3, <1>4, SlotStep

(* The calls that change a setting of a log, or its list.                  *)
LEMMA SetStep ==
    ASSUME IInv, ub = "none", NEW t \in Thread,
           \/ \E i \in Id : LogSetTrigger(t, i)
           \/ LogSetFilename(t)
           \/ LogSetLinesKept(t)
    PROVE  IInv'
<1> USE DEF Opening, Pcs
<1>1. TypeOK /\ \A j \in Id : SlotOK(log[j])
  BY SlotsAreOK DEF IInv
<1>2. ASSUME NEW i \in Id, LogSetTrigger(t, i) PROVE IInv'
  <2>1. log[i].ready /\ SlotOK(log[i]) /\ OthersUse(t, i)
    BY <1>1, <1>2, OthersDoUse DEF LogSetTrigger
  <2>2. PICK f \in BOOLEAN : log' = [log EXCEPT ![i].full = f]
    BY <1>2 DEF LogSetTrigger
  <2> DEFINE s == [log[i] EXCEPT !.full = f]
  <2>3. log' = [log EXCEPT ![i] = s]
    BY <2>2
  <2>4. Moves(t, i, "idle") /\ ub' = ub
    BY <1>1, <1>2 DEF LogSetTrigger, Moves, TypeOK
  <2>5. SlotOK(s) /\ s.ready
    BY <2>1 DEF SlotOK, Slot
  <2> HIDE DEF s
  <2> QED
    BY <2>1, <2>3, <2>4, <2>5, SlotStep
<1>3. CASE LogSetFilename(t)
  <2> DEFINE i == arg[t]
  <2>1. i \in Id /\ log[i].ready /\ SlotOK(log[i]) /\ OthersUse(t, i)
    BY <1>1, <1>3, OthersDoUse DEF IInv, UsersInv, TypeOK, LogSetFilename
  <2>2. PICK name \in {"NULL", "set"} : log' = [log EXCEPT ![i].filename = name]
    BY <1>3 DEF LogSetFilename
  <2> DEFINE s == [log[i] EXCEPT !.filename = name]
  <2>3. log' = [log EXCEPT ![i] = s]
    BY <2>2
  <2>4. Moves(t, i, "idle") /\ ub' = ub
    BY <1>1, <1>3, <2>1, StepMoves DEF LogSetFilename
  <2>5. SlotOK(s) /\ s.ready
    BY <2>1 DEF SlotOK, Slot
  <2> HIDE DEF s, i
  <2> QED
    BY <2>1, <2>3, <2>4, <2>5, SlotStep
<1>4. CASE LogSetLinesKept(t)
  <2> DEFINE i == arg[t]
  <2>1. i \in Id /\ log[i].ready /\ SlotOK(log[i]) /\ OthersUse(t, i)
    BY <1>1, <1>4, OthersDoUse DEF IInv, UsersInv, TypeOK, LogSetLinesKept
  <2>2. PICK n \in KeepCounts :
          log' = [log EXCEPT ![i] = [Trim(@, n, "trimmed") EXCEPT !.keep = n]]
    BY <1>4 DEF LogSetLinesKept
  <2>3. PICK r : r = Trim(log[i], n, "trimmed")
    OBVIOUS
  <2>4. Trimmed(log[i], r, n, "trimmed")
    <3>1. n \in Nat
      BY <2>2, KeepAssumption
    <3> QED
      BY <2>1, <2>3, <3>1, TrimKeepsLast
  <2> DEFINE s == [r EXCEPT !.keep = n]
  <2>5. log' = [log EXCEPT ![i] = s]
    BY <2>2, <2>3
  <2>6. Moves(t, i, "idle") /\ ub' = ub
    BY <1>1, <1>4, <2>1, StepMoves DEF LogSetLinesKept
  <2>7. SlotOK(s) /\ s.ready
    <3>1. s \in Slot
      BY <2>2, <2>4 DEF Trimmed, Slot
    <3> QED
      BY <2>1, <2>4, <3>1, ZenonT(60) DEF SlotOK, Trimmed, Slot
  <2> HIDE DEF s, i
  <2> QED
    BY <2>1, <2>5, <2>6, <2>7, SlotStep
<1> QED
  BY <1>2, <1>3, <1>4

(* log_reopen, also where it closes a file that is no longer open.         *)
LEMMA ReopenStep ==
    ASSUME IInv, ub = "none", NEW t \in Thread, LogReopen(t)
    PROVE  IInv'
<1> USE DEF Opening, Pcs
<1> DEFINE i == arg[t]
<1>1. TypeOK /\ i \in Id /\ log[i].ready /\ SlotOK(log[i]) /\ OthersUse(t, i)
  BY SlotsAreOK, OthersDoUse DEF IInv, UsersInv, TypeOK, LogReopen
<1>2. CASE log[i].logfile
  <2> DEFINE s == [log[i] EXCEPT !.logfile = FALSE]
  <2>1. log' = [log EXCEPT ![i] = s] /\ ub' = ub
    BY <1>2 DEF LogReopen
  <2>2. Moves(t, i, "idle")
    BY <1>1, <1>2, StepMoves DEF LogReopen
  <2>3. SlotOK(s) /\ s.ready
    BY <1>1 DEF SlotOK, Slot
  <2> HIDE DEF s, i
  <2> QED
    BY <1>1, <2>1, <2>2, <2>3, SlotStep
<1>3. CASE ~log[i].logfile
  BY <1>3 DEF LogReopen, Undefined, IInv, TypeOK, KeptAreLast, UndefinedOnlyThere,
              OpenersApart, UsersInv, LeftInv
<1> QED
  BY <1>2, <1>3

(* log_close: no other call on the log is under way.                       *)
LEMMA CloseStep ==
    ASSUME IInv, ub = "none", NEW t \in Thread, NEW i \in Id, LogClose(t, i)
    PROVE  IInv'
<1> USE DEF Opening, Pcs
<1>1. TypeOK /\ log[i].ready /\ SlotOK(log[i]) /\ OthersUse(t, i)
  BY SlotsAreOK, OthersDoUse DEF IInv, LogClose
<1>2. PICK r : r = Trim(log[i], 0, "closed")
  OBVIOUS
<1>3. Trimmed(log[i], r, 0, "closed")
  BY <1>1, <1>2, TrimKeepsLast
<1>4. r \in Slot /\ r.entries = 0 /\ r.list = << >>
  BY <1>3, NoLines DEF Trimmed, Slot
<1> DEFINE s == [r EXCEPT !.in_use = FALSE, !.ready = FALSE, !.logfile = FALSE,
                          !.filename = IF @ = "NULL" THEN @ ELSE "freed",
                          !.full = FALSE, !.by = "open", !.count = 0]
<1>5. log' = [log EXCEPT ![i] = s] /\ ub' = ub
  BY <1>2 DEF LogClose
<1>6. Moves(t, i, "idle")
  BY <1>1, StepMoves DEF LogClose
<1>7. SlotOK(s) /\ ~s.ready
  <2>1. 0 \in 0..MaxLines
    BY MaxLinesAssumption
  <2>2. s \in Slot /\ s.entries = 0 /\ s.list = << >> /\ s.count = 0 /\ ~s.ready /\ s.keep = r.keep
    BY <1>4, <2>1, ZenonT(60) DEF Slot
  <2>3. r.keep \in KeepCounts \cup {0}
    BY <1>4 DEF Slot
  <2>4. KeepCounts \cup {0} \subseteq Nat
    BY KeepAssumption
  <2> HIDE DEF s
  <2> QED
    BY <2>2, <2>3, <2>4, NoLines DEF SlotOK
<1>8. \A u \in Thread \ {t} : arg[u] = i => pc[u] = "idle"
  BY DEF LogClose
<1> HIDE DEF s
<1> QED
  BY <1>1, <1>5, <1>6, <1>7, <1>8, SlotStep

(* _log_open leaves a slot in order, and in the hands of its users.        *)
LEMMA LogOpenedOK ==
    ASSUME NEW s, SlotOK(s), s.ready, NEW r \in LogOpened(s)
    PROVE  /\ SlotOK(r.s) /\ r.s.ready /\ r.s.count = s.count
           /\ r.s.filename = s.filename /\ r.s.tail = s.tail /\ r.s.by = s.by
           /\ r.ok /\ ~r.s.logfile => s.filename = "NULL"
<1>1. s.in_use /\ s \in Slot
  BY DEF SlotOK
<1>2. CASE ~Wanted(s)
  <2>1. r = [s |-> s, ok |-> TRUE]
    BY <1>1, <1>2 DEF LogOpened
  <2> QED
    BY <1>2, <2>1 DEF Wanted
<1>3. CASE Wanted(s) /\ s.filename = "NULL"
  <2>1. r = [s |-> [s EXCEPT !.full = FALSE], ok |-> TRUE]
    BY <1>1, <1>3 DEF LogOpened
  <2> QED
    BY <1>1, <1>3, <2>1 DEF SlotOK, Slot
<1>4. CASE Wanted(s) /\ s.filename # "NULL"
  <2>1. \/ r = [s |-> [s EXCEPT !.logfile = FALSE], ok |-> FALSE]
        \/ \E f \in BOOLEAN : r = [s |-> [s EXCEPT !.logfile = TRUE, !.full = f], ok |-> TRUE]
    BY <1>1, <1>4 DEF LogOpened
  <2>2. CASE r = [s |-> [s EXCEPT !.logfile = FALSE], ok |-> FALSE]
    BY <1>1, <2>2 DEF SlotOK, Slot
  <2>3. ASSUME NEW f \in BOOLEAN, r = [s |-> [s EXCEPT !.logfile = TRUE, !.full = f], ok |-> TRUE]
        PROVE  /\ SlotOK(r.s) /\ r.s.ready /\ r.s.count = s.count
               /\ r.s.filename = s.filename /\ r.s.tail = s.tail /\ r.s.by = s.by
               /\ r.s.logfile
    BY <1>1, <2>3 DEF SlotOK, Slot
  <2> QED
    BY <2>1, <2>2, <2>3
<1> QED
  BY <1>2, <1>3, <1>4

(* A line is written, or it is not, or that is undefined.                  *)
LEMMA WriteStep ==
    ASSUME IInv, ub = "none", NEW t \in Thread, NEW i \in Id, NEW label \in {"idle", "direct_read"},
           WriteLine(t, i, label)
    PROVE  IInv'
<1> USE DEF Opening, Pcs
<1>1. TypeOK /\ log[i].ready /\ SlotOK(log[i]) /\ OthersUse(t, i) /\ log[i].count < MaxLines
  BY SlotsAreOK, OthersDoUse DEF IInv, WriteLine
<1>2. log[i].filename # "freed"
  BY <1>1 DEF SlotOK
<1>3. PICK r \in LogOpened(log[i]) :
        CASE r.ok /\ ~r.s.logfile -> Undefined("file")
          [] r.ok /\ r.s.logfile /\ r.s.keep > 0 /\ r.s.tail # "list" -> Undefined("tail")
          [] OTHER ->
               /\ IF r.ok
                  THEN \E f \in {r.s.full, TRUE} :
                         log' = [log EXCEPT ![i] = [CreateLogEntry(r.s) EXCEPT !.full = f]]
                  ELSE log' = [log EXCEPT ![i] = r.s]
               /\ Step(t, i, label, log[i].logfile /\ log[i].full)
               /\ UNCHANGED ub
  BY <1>2 DEF WriteLine
<1>4. /\ SlotOK(r.s) /\ r.s.ready /\ r.s.count = log[i].count
      /\ r.s.filename = log[i].filename /\ r.s.tail = log[i].tail /\ r.s.by = log[i].by
      /\ r.ok /\ ~r.s.logfile => log[i].filename = "NULL"
  BY <1>1, LogOpenedOK
<1>5. CASE r.ok /\ ~r.s.logfile
  <2>1. Undefined("file")
    BY <1>3, <1>5
  <2> QED
    BY <1>1, <1>4, <1>5, <2>1
       DEF Undefined, IInv, TypeOK, KeptAreLast, UndefinedOnlyThere, OpenersApart, UsersInv, LeftInv
<1>6. CASE r.ok /\ r.s.logfile /\ r.s.keep > 0 /\ r.s.tail # "list"
  <2>1. Undefined("tail")
    BY <1>3, <1>6
  <2>2. log[i].tail = "trimmed" \/ (log[i].tail = "closed" /\ log[i].by = "file")
    BY <1>1, <1>4, <1>6 DEF SlotOK, Slot
  <2> QED
    BY <1>1, <2>1, <2>2
       DEF Undefined, IInv, TypeOK, KeptAreLast, UndefinedOnlyThere, OpenersApart, UsersInv, LeftInv
<1>7. CASE /\ ~(r.ok /\ ~r.s.logfile)
           /\ ~(r.ok /\ r.s.logfile /\ r.s.keep > 0 /\ r.s.tail # "list")
  <2>1. /\ IF r.ok
           THEN \E f \in {r.s.full, TRUE} :
                  log' = [log EXCEPT ![i] = [CreateLogEntry(r.s) EXCEPT !.full = f]]
           ELSE log' = [log EXCEPT ![i] = r.s]
        /\ Step(t, i, label, log[i].logfile /\ log[i].full)
        /\ ub' = ub
    BY <1>3, <1>7
  <2>2. Moves(t, i, label)
    BY <1>1, <2>1, StepMoves
  <2>3. PICK s : log' = [log EXCEPT ![i] = s] /\ SlotOK(s) /\ s.ready
    <3>1. CASE r.ok
      <4>1. PICK e : e = CreateLogEntry(r.s)
        OBVIOUS
      <4>2. SlotOK(e) /\ e.ready
        BY <1>1, <1>4, <4>1, CreateLogEntryKeepsLast
      <4>3. r.s.full \in BOOLEAN
        BY <1>4 DEF SlotOK, Slot
      <4>4. PICK f \in BOOLEAN : log' = [log EXCEPT ![i] = [e EXCEPT !.full = f]]
        BY <2>1, <3>1, <4>1, <4>3
      <4>5. SlotOK([e EXCEPT !.full = f]) /\ [e EXCEPT !.full = f].ready
        BY <4>2 DEF SlotOK, Slot
      <4> QED
        BY <4>4, <4>5
    <3>2. CASE ~r.ok
      BY <1>4, <2>1, <3>2
    <3> QED
      BY <3>1, <3>2
  <2> QED
    BY <1>1, <2>1, <2>2, <2>3, SlotStep
<1> QED
  BY <1>5, <1>6, <1>7

(* fflush of a log that log_write_direct was called for.                   *)
LEMMA DirectStep ==
    ASSUME IInv, ub = "none", NEW t \in Thread, DirectRead(t) \/ DirectFlush(t)
    PROVE  IInv'
<1> USE DEF Opening, Pcs
<1>1. CASE pc[t] = "direct_closed" /\ Undefined("direct")
  BY <1>1 DEF Undefined, IInv, TypeOK, KeptAreLast, UndefinedOnlyThere,
              OpenersApart, UsersInv, LeftInv
<1>2. CASE ~(pc[t] = "direct_closed" /\ Undefined("direct"))
  <2>1. arg[t] \in Id /\ log[arg[t]].ready
    BY <1>2 DEF IInv, TypeOK, UsersInv, DirectRead, DirectFlush
  <2>2. /\ \E label \in {"direct_flush", "idle"} : Step(t, arg[t], label, FALSE)
        /\ UNCHANGED <<log, ub>>
    BY <1>2 DEF DirectRead, DirectFlush
  <2> QED
    BY <2>1, <2>2, TestStep
<1> QED
  BY <1>1, <1>2

-----------------------------------------------------------------------------
(* log_initialize establishes IInv, if there is a slot.                    *)
LEMMA InitIInv == Init => IInv
<1> SUFFICES ASSUME Init PROVE IInv
  OBVIOUS
<1>1. TypeOK
  <2>1. << >> \in Seq(1..MaxLines)
    OBVIOUS
  <2> QED
    BY <2>1, AnyIdInId, MaxLinesAssumption DEF Init, TypeOK, Slot, Pcs, Opening
<1> QED
  BY <1>1 DEF Init, IInv, KeptAreLast, UndefinedOnlyThere, OpenersApart, UsersInv, LeftInv, Opening

(* Every step keeps IInv.                                                  *)
LEMMA NextIInv == IInv /\ [Next]_vars => IInv'
<1> SUFFICES ASSUME IInv, [Next]_vars PROVE IInv'
  OBVIOUS
<1>1. CASE UNCHANGED vars
  BY <1>1 DEF vars, IInv, TypeOK, KeptAreLast, UndefinedOnlyThere, OpenersApart, UsersInv, LeftInv
<1>2. ASSUME ub = "none", NEW t \in Thread, NEW i \in Id, Call(t, i) PROVE IInv'
  <2>1. CASE LogSetTrigger(t, i)
    BY <1>2, <2>1, SetStep
  <2>2. CASE Test(t, i, "set_filename") \/ Test(t, i, "set_lines_kept") \/ LogReopenTest(t, i)
    BY <1>2, <2>2, TestStep DEF Test, LogReopenTest, Pcs, Opening
  <2>3. CASE LogClose(t, i)
    BY <1>2, <2>3, CloseStep
  <2>4. CASE LogWrite(t, i) \/ LogWriteDirect(t, i)
    BY <1>2, <2>4, WriteStep DEF LogWrite, LogWriteDirect
  <2> QED
    BY <1>2, <2>1, <2>2, <2>3, <2>4 DEF Call
<1> QED
  BY <1>1, <1>2, OpenStep, SetStep, ReopenStep, DirectStep DEF Next

(* The inductive invariant of the table of logs.                           *)
THEOREM SlotsSafe == Spec => []IInv
BY InitIInv, NextIInv, PTL DEF Spec

(* The table keeps its types; no log keeps a number of lines that          *)
(* log_set_lines_kept was not called with.                                 *)
THEOREM SlotsTypeCorrect == Spec => []TypeOK
BY SlotsSafe, PTL DEF IInv

(* log_contents returns the last lines written, in order, and no more than *)
(* asked for.                                                              *)
THEOREM KeptLinesAreLast == Spec => []KeptAreLast
BY SlotsSafe, PTL DEF IInv

(* Undefined behaviour has five causes only: no freed name is ever used,   *)
(* log_write has no file only where the name is NULL, and log_tail dangles *)
(* only after log_set_lines_kept(0), or for log_open_file.                 *)
THEOREM UndefinedNowhereElse == Spec => []UndefinedOnlyThere
BY SlotsSafe, PTL DEF IInv

(* No two threads are given one slot by log_open.                          *)
THEOREM OpenersStayApart == Spec => []OpenersApart
BY SlotsSafe, PTL DEF IInv

=============================================================================
