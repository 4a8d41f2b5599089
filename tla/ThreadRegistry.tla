--------------------------- MODULE ThreadRegistry ---------------------------
(***************************************************************************)
(* The thread registry of thread/thread.c: the AVL tree _threadtree of     *)
(* thread_type records, its mutex _threadtree_mutex, the id counter, and   *)
(* every operation that touches them (thread_create_c, _start_routine,     *)
(* thread_self, thread_rename, thread_exit_c, thread_join,                 *)
(* thread_shutdown), interleaved at the granularity of the mutex.          *)
(*                                                                         *)
(* A record is named by the thread it was allocated for.  A pthread_t is   *)
(* an element of Handle: it is given out by pthread_create and, when       *)
(* Recycle is TRUE (as POSIX allows and glibc does), may be given out      *)
(* again once its thread was joined, or was detached and ended.            *)
(*                                                                         *)
(* The contents of the tree are abstracted to a set: no step looks at the  *)
(* tree without the mutex, and AvlTree models the tree itself.             *)
(***************************************************************************)
EXTENDS Integers, FiniteSets

CONSTANTS
    Thread,      \* every thread of the process, the main one included
    Main,        \* the thread that called thread_initialize
    Handle,      \* the values of pthread_t
    Recycle,     \* does pthread_create reuse the handle of an ended thread?
    MaxRenames,  \* bound: calls of thread_rename in a behaviour
    NULL         \* the null pointer; also "nobody holds the mutex"

ASSUME MainAssumption == Main \in Thread
ASSUME NullAssumption == NULL \notin Thread \cup Handle
ASSUME RecycleAssumption == Recycle \in BOOLEAN
ASSUME MaxRenamesAssumption == MaxRenames \in Nat
ASSUME HandleAssumption == Handle # {}

VARIABLES
    pc,        \* where each thread is, in its own or in a library function
    lock,      \* the holder of _threadtree_mutex
    tree,      \* the records in _threadtree
    rec,       \* the heap block of each record: "none", "live" or "freed"
    nextId,    \* _next_thread_id
    reg,       \* the value of _next_thread_id a thread has read
    tid,       \* record field thread_id
    handle,    \* record field sys_thread, and what pthread_self() returns
    detached,  \* record field detached
    namedBy,   \* record field name: NULL, or the thread whose rename set it
    arg,       \* the record a thread's current call works on
    kids,      \* the attached threads a thread created and may still join
    renames,   \* calls of thread_rename made (bounds the model only)
    ub         \* the site of the first use of a freed or NULL record, or "none"

vars == <<pc, lock, tree, rec, nextId, reg, tid, handle, detached, namedBy,
          arg, kids, renames, ub>>

-----------------------------------------------------------------------------
(* Control points.                                                         *)

SelfPcs   == {"self_rename", "self_exit"}    \* thread_self, by its caller
DeletePcs == {"delete_exit", "delete_join"}  \* avl_delete, by its caller
LockPcs   == {"create", "start"} \cup SelfPcs \cup DeletePcs  \* want the mutex
DerefPcs  == {"setname", "rename", "exit", "join"} \cup DeletePcs  \* use arg[t]
EndPcs    == {"dead", "gone"}
RunPcs    == {"run", "create", "create_inc", "spawn", "setname", "rename",
              "exit", "join"} \cup SelfPcs \cup DeletePcs  \* still registered
Pcs       == RunPcs \cup EndPcs \cup {"unborn", "start", "die", "down"}

(* A thread the kernel still knows: running, or ended and not yet joined.  *)
InKernel(t) == pc[t] \notin {"unborn", "gone"}

(* The kernel keeps an ended thread until it is joined, unless it was      *)
(* created detached.  The main thread is never detached.                   *)
Joinable(t) == t = Main \/ ~detached[t]

Usable(h) ==
    IF Recycle THEN \A t \in Thread : InKernel(t) => handle[t] # h
               ELSE \A t \in Thread : handle[t] # h

Goto(t, label) == pc' = [pc EXCEPT ![t] = label]

(* The local pointer goes out of scope.                                    *)
Drop(t) == arg' = [arg EXCEPT ![t] = NULL]

-----------------------------------------------------------------------------
(* thread_initialize: the tree holds the main thread's record, whose field *)
(* detached is left as malloc returned it.                                 *)
Init ==
    /\ pc = [t \in Thread |-> IF t = Main THEN "run" ELSE "unborn"]
    /\ lock = NULL
    /\ tree = {Main}
    /\ rec = [t \in Thread |-> IF t = Main THEN "live" ELSE "none"]
    /\ nextId = 1
    /\ reg = [t \in Thread |-> 0]
    /\ tid = [t \in Thread |-> 0]
    /\ \E h \in Handle : handle = [t \in Thread |-> IF t = Main THEN h ELSE NULL]
    /\ \E d \in BOOLEAN : detached = [t \in Thread |-> t = Main /\ d]
    /\ namedBy = [t \in Thread |-> NULL]
    /\ arg = [t \in Thread |-> NULL]
    /\ kids = [t \in Thread |-> {}]
    /\ renames = 0
    /\ ub = "none"

(* _mutex_lock(&_threadtree_mutex), at each of its call sites.             *)
MutexLock(t) ==
    /\ pc[t] \in LockPcs
    /\ lock = NULL
    /\ lock' = t
    /\ UNCHANGED <<pc, tree, rec, nextId, reg, tid, handle, detached, namedBy,
                   arg, kids, renames, ub>>

-----------------------------------------------------------------------------
(* thread_create_c.  A failing calloc or pthread_attr_init returns NULL    *)
(* with nothing changed: a stuttering step.                                *)

(* The record is allocated and filled in; it is private until the spawn.   *)
ThreadCreate(t, n, d) ==
    /\ pc[t] = "run"
    /\ pc[n] = "unborn"
    /\ rec[n] = "none"
    /\ rec' = [rec EXCEPT ![n] = "live"]
    /\ detached' = [detached EXCEPT ![n] = d]
    /\ arg' = [arg EXCEPT ![t] = n]
    /\ Goto(t, "create")
    /\ UNCHANGED <<lock, tree, nextId, reg, tid, handle, namedBy, kids,
                   renames, ub>>

(* Mutant of CreateReadId: the mutex is not taken.                         *)
CreateReadIdUnlocked(t) ==
    /\ pc[t] = "create"
    /\ reg' = [reg EXCEPT ![t] = nextId]
    /\ Goto(t, "create_inc")
    /\ UNCHANGED <<lock, tree, rec, nextId, tid, handle, detached, namedBy,
                   arg, kids, renames, ub>>

(* _next_thread_id++ under the mutex: the read ...                         *)
CreateReadId(t) ==
    /\ pc[t] = "create"
    /\ lock = t
    /\ reg' = [reg EXCEPT ![t] = nextId]
    /\ Goto(t, "create_inc")
    /\ UNCHANGED <<lock, tree, rec, nextId, tid, handle, detached, namedBy,
                   arg, kids, renames, ub>>

(* ... and the increment, the store into the record, and the unlock.       *)
CreateIncId(t) ==
    /\ pc[t] = "create_inc"
    /\ nextId' = reg[t] + 1
    /\ tid' = [tid EXCEPT ![arg[t]] = reg[t]]
    /\ reg' = [reg EXCEPT ![t] = 0]
    /\ lock' = NULL
    /\ Goto(t, "spawn")
    /\ UNCHANGED <<tree, rec, handle, detached, namedBy, arg, kids,
                   renames, ub>>

(* pthread_create succeeds: the thread exists under some handle.           *)
Spawn(t, h) ==
    LET n == arg[t] IN
    /\ pc[t] = "spawn"
    /\ Usable(h)
    /\ handle' = [handle EXCEPT ![n] = h]
    /\ pc' = [pc EXCEPT ![t] = "setname", ![n] = "start"]
    /\ UNCHANGED <<lock, tree, rec, nextId, reg, tid, detached, namedBy, arg,
                   kids, renames, ub>>

(* pthread_create fails: the record is freed, its id stays consumed.       *)
SpawnFail(t) ==
    LET n == arg[t] IN
    /\ pc[t] = "spawn"
    /\ rec' = [rec EXCEPT ![n] = "freed"]
    /\ pc' = [pc EXCEPT ![t] = "run", ![n] = "gone"]
    /\ Drop(t)
    /\ UNCHANGED <<lock, tree, nextId, reg, tid, handle, detached, namedBy,
                   kids, renames, ub>>

(* pthread_setname_np(thread->sys_thread) and the return of the record:    *)
(* the creator reads it again, after the new thread may have run.          *)
SetName(t) ==
    LET n == arg[t] IN
    /\ pc[t] = "setname"
    /\ rec[n] = "live"
    /\ kids' = [kids EXCEPT ![t] = IF detached[n] THEN @ ELSE @ \cup {n}]
    /\ Goto(t, "run")
    /\ Drop(t)
    /\ UNCHANGED <<lock, tree, rec, nextId, reg, tid, handle, detached,
                   namedBy, renames, ub>>

(* _start_routine: the new thread inserts its record, then runs.           *)
StartInsert(t) ==
    /\ pc[t] = "start"
    /\ lock = t
    /\ tree' = tree \cup {t}
    /\ lock' = NULL
    /\ Goto(t, "run")
    /\ UNCHANGED <<rec, nextId, reg, tid, handle, detached, namedBy, arg,
                   kids, renames, ub>>

-----------------------------------------------------------------------------
(* thread_self, on behalf of thread_rename and thread_exit_c.              *)

CallRename(t) ==
    /\ pc[t] = "run"
    /\ renames < MaxRenames
    /\ renames' = renames + 1
    /\ Goto(t, "self_rename")
    /\ UNCHANGED <<lock, tree, rec, nextId, reg, tid, handle, detached,
                   namedBy, arg, kids, ub>>

CallExit(t) ==
    /\ pc[t] = "run"
    /\ Goto(t, "self_exit")
    /\ UNCHANGED <<lock, tree, rec, nextId, reg, tid, handle, detached,
                   namedBy, arg, kids, renames, ub>>

(* Mutant of Matches: pthread_equal is forgotten.                          *)
MatchesAny(t) == {r \in tree : handle[r] # NULL}

(* The walk from avl_get_first stops at the first record, in id order,     *)
(* whose sys_thread is the caller's pthread_t; no match returns NULL.      *)
Matches(t) == {r \in tree : handle[r] = handle[t]}

FirstMatch(t) ==
    {r \in Matches(t) : \A q \in Matches(t) : tid[r] <= tid[q]}

(* Mutants of SelfScan: the pthread_t is returned, not its record; the     *)
(* mutex is not released when a record was found.                          *)
SelfScanHandle(t) ==
    /\ pc[t] \in SelfPcs
    /\ lock = t
    /\ arg' = [arg EXCEPT ![t] = handle[t]]
    /\ lock' = NULL
    /\ Goto(t, IF pc[t] = "self_rename" THEN "rename" ELSE "exit")
    /\ UNCHANGED <<tree, rec, nextId, reg, tid, handle, detached, namedBy,
                   kids, renames, ub>>

SelfScanKeepsLock(t) ==
    /\ pc[t] \in SelfPcs
    /\ lock = t
    /\ \E r \in FirstMatch(t) : arg' = [arg EXCEPT ![t] = r]
    /\ Goto(t, IF pc[t] = "self_rename" THEN "rename" ELSE "exit")
    /\ UNCHANGED <<lock, tree, rec, nextId, reg, tid, handle, detached, namedBy,
                   kids, renames, ub>>

SelfScan(t) ==
    /\ pc[t] \in SelfPcs
    /\ lock = t
    /\ \E r \in IF Matches(t) = {} THEN {NULL} ELSE FirstMatch(t) :
          arg' = [arg EXCEPT ![t] = r]
    /\ lock' = NULL
    /\ Goto(t, IF pc[t] = "self_rename" THEN "rename" ELSE "exit")
    /\ UNCHANGED <<tree, rec, nextId, reg, tid, handle, detached, namedBy,
                   kids, renames, ub>>

(* thread_rename stores into the record thread_self returned, unlocked and *)
(* without a test for NULL.                                                *)
Rename(t) ==
    /\ pc[t] = "rename"
    /\ arg[t] # NULL
    /\ rec[arg[t]] = "live"
    /\ namedBy' = [namedBy EXCEPT ![arg[t]] = t]
    /\ Goto(t, "run")
    /\ Drop(t)
    /\ UNCHANGED <<lock, tree, rec, nextId, reg, tid, handle, detached,
                   kids, renames, ub>>

-----------------------------------------------------------------------------
(* The ways out: thread_exit_c, or the return of the start routine, which  *)
(* uses the pointer _start_routine kept and not thread_self.               *)

ReturnFromRoutine(t) ==
    /\ pc[t] = "run"
    /\ t # Main
    /\ arg' = [arg EXCEPT ![t] = t]
    /\ Goto(t, "exit")
    /\ UNCHANGED <<lock, tree, rec, nextId, reg, tid, handle, detached,
                   namedBy, kids, renames, ub>>

(* Mutants of ExitCheck: the record is always deleted, or never.           *)
ExitCheckAlways(t) ==
    /\ pc[t] = "exit"
    /\ arg[t] # NULL => rec[arg[t]] = "live"
    /\ Goto(t, IF arg[t] # NULL THEN "delete_exit" ELSE "die")
    /\ UNCHANGED <<lock, tree, rec, nextId, reg, tid, handle, detached,
                   namedBy, arg, kids, renames, ub>>

ExitCheckNever(t) ==
    /\ pc[t] = "exit"
    /\ arg[t] # NULL => rec[arg[t]] = "live"
    /\ Goto(t, "die")
    /\ UNCHANGED <<lock, tree, rec, nextId, reg, tid, handle, detached,
                   namedBy, arg, kids, renames, ub>>

(* if (th && th->detached): read without the mutex.                        *)
ExitCheck(t) ==
    /\ pc[t] = "exit"
    /\ arg[t] # NULL => rec[arg[t]] = "live"
    /\ Goto(t, IF arg[t] # NULL /\ detached[arg[t]] THEN "delete_exit" ELSE "die")
    /\ UNCHANGED <<lock, tree, rec, nextId, reg, tid, handle, detached,
                   namedBy, arg, kids, renames, ub>>

(* Mutants of Delete: _compare_threads compares the handles, and no free   *)
(* function is passed.                                                     *)
DeleteByHandle(t) ==
    LET found == {r \in tree : handle[r] = handle[arg[t]]} IN
    /\ pc[t] \in DeletePcs
    /\ lock = t
    /\ rec[arg[t]] = "live"
    /\ tree' = tree \ found
    /\ rec' = [r \in Thread |-> IF r \in found THEN "freed" ELSE rec[r]]
    /\ lock' = NULL
    /\ Goto(t, IF pc[t] = "delete_join" THEN "run" ELSE "die")
    /\ Drop(t)
    /\ UNCHANGED <<nextId, reg, tid, handle, detached, namedBy, kids,
                   renames, ub>>

DeleteNoFree(t) ==
    /\ pc[t] \in DeletePcs
    /\ lock = t
    /\ rec[arg[t]] = "live"
    /\ tree' = tree \ {r \in tree : tid[r] = tid[arg[t]]}
    /\ lock' = NULL
    /\ Goto(t, IF pc[t] = "delete_join" THEN "run" ELSE "die")
    /\ Drop(t)
    /\ UNCHANGED <<rec, nextId, reg, tid, handle, detached, namedBy, kids,
                   renames, ub>>

(* avl_delete(_threadtree, th, _free_thread): frees the record with th's   *)
(* id if the tree holds one, and is a no-op otherwise.                     *)
Delete(t) ==
    LET found == {r \in tree : tid[r] = tid[arg[t]]} IN
    /\ pc[t] \in DeletePcs
    /\ lock = t
    /\ rec[arg[t]] = "live"
    /\ tree' = tree \ found
    /\ rec' = [r \in Thread |-> IF r \in found THEN "freed" ELSE rec[r]]
    /\ lock' = NULL
    /\ Goto(t, IF pc[t] = "delete_join" THEN "run" ELSE "die")
    /\ Drop(t)
    /\ UNCHANGED <<nextId, reg, tid, handle, detached, namedBy, kids,
                   renames, ub>>

(* pthread_exit, or the return from the thread's first function.           *)
PthreadExit(t) ==
    /\ pc[t] = "die"
    /\ Goto(t, IF Joinable(t) THEN "dead" ELSE "gone")
    /\ UNCHANGED <<lock, tree, rec, nextId, reg, tid, handle, detached,
                   namedBy, arg, kids, renames, ub>>

-----------------------------------------------------------------------------
(* thread_join: only the creator has the record, and it joins it once.     *)
ThreadJoin(t, n) ==
    /\ pc[t] = "run"
    /\ n \in kids[t]
    /\ kids' = [kids EXCEPT ![t] = @ \ {n}]
    /\ arg' = [arg EXCEPT ![t] = n]
    /\ Goto(t, "join")
    /\ UNCHANGED <<lock, tree, rec, nextId, reg, tid, handle, detached,
                   namedBy, renames, ub>>

(* pthread_join returns when the thread has ended, and gives its handle    *)
(* back to the kernel; the record is still in the tree.                    *)
PthreadJoin(t) ==
    LET n == arg[t] IN
    /\ pc[t] = "join"
    /\ rec[n] = "live"
    /\ pc[n] = "dead"
    /\ pc' = [pc EXCEPT ![t] = "delete_join", ![n] = "gone"]
    /\ UNCHANGED <<lock, tree, rec, nextId, reg, tid, handle, detached,
                   namedBy, arg, kids, renames, ub>>

(* thread_shutdown frees the tree and every record left in it.  The code   *)
(* does not look whether threads are running: callers come here last.      *)
ThreadShutdown ==
    /\ pc[Main] = "run"
    /\ \A t \in Thread \ {Main} : pc[t] \in {"unborn"} \cup EndPcs
    /\ rec' = [r \in Thread |-> IF r \in tree THEN "freed" ELSE rec[r]]
    /\ tree' = {}
    /\ Goto(Main, "down")
    /\ UNCHANGED <<lock, nextId, reg, tid, handle, detached, namedBy, arg,
                   kids, renames, ub>>

(* A use of a freed record, or of NULL (which thread_exit_c tests for and  *)
(* thread_rename does not), is undefined behaviour: nothing is said of the *)
(* process from there on.                                                  *)
Dangling(t) == arg[t] # NULL /\ rec[arg[t]] = "freed"

BadUse(t) ==
    /\ pc[t] \in DerefPcs
    /\ pc[t] \in DeletePcs => lock = t
    /\ Dangling(t) \/ (pc[t] = "rename" /\ arg[t] = NULL)
    /\ ub' = pc[t]
    /\ UNCHANGED <<pc, lock, tree, rec, nextId, reg, tid, handle, detached,
                   namedBy, arg, kids, renames>>

(* Nothing is left to do: the library is shut down, the main thread left   *)
(* through thread_exit and all others ended, or behaviour is undefined.    *)
Finished ==
    /\ \/ ub # "none"
       \/ \A t \in Thread : pc[t] \in {"unborn", "down"} \cup EndPcs
    /\ UNCHANGED vars

-----------------------------------------------------------------------------
(* What the library does once called, and what its callers choose to call. *)
LibraryStep(t) ==
    \/ MutexLock(t)
    \/ CreateReadId(t) \/ CreateIncId(t)
    \/ SpawnFail(t) \/ \E h \in Handle : Spawn(t, h)
    \/ SetName(t)
    \/ StartInsert(t)
    \/ SelfScan(t) \/ Rename(t)
    \/ ExitCheck(t) \/ Delete(t) \/ PthreadExit(t)
    \/ PthreadJoin(t)
    \/ BadUse(t)

CallerStep(t) ==
    \/ \E n \in Thread, d \in BOOLEAN : ThreadCreate(t, n, d)
    \/ CallRename(t) \/ CallExit(t) \/ ReturnFromRoutine(t)
    \/ \E n \in Thread : ThreadJoin(t, n)

Next ==
    \/ /\ ub = "none"
       /\ \/ \E t \in Thread : LibraryStep(t) \/ CallerStep(t)
          \/ ThreadShutdown
    \/ Finished

Spec == Init /\ [][Next]_vars

(* Every thread inside the library keeps being scheduled.  Nothing is      *)
(* assumed of callers: a start routine may run for ever.                   *)
FairSpec ==
    Spec /\ \A t \in Thread : WF_vars(ub = "none" /\ LibraryStep(t))

-----------------------------------------------------------------------------
(* Properties.                                                             *)

(* Type correctness: what thread_self returns is a record or NULL, and     *)
(* undefined behaviour is reached at a use of a record only.               *)
TypeOK ==
    /\ pc \in [Thread -> Pcs]
    /\ lock \in Thread \cup {NULL}
    /\ tree \in SUBSET Thread
    /\ rec \in [Thread -> {"none", "live", "freed"}]
    /\ nextId \in Nat
    /\ reg \in [Thread -> Nat]
    /\ tid \in [Thread -> Nat]
    /\ handle \in [Thread -> Handle \cup {NULL}]
    /\ detached \in [Thread -> BOOLEAN]
    /\ namedBy \in [Thread -> Thread \cup {NULL}]
    /\ arg \in [Thread -> Thread \cup {NULL}]
    /\ kids \in [Thread -> SUBSET Thread]
    /\ renames \in 0..MaxRenames
    /\ ub \in {"none"} \cup DerefPcs

(* Two records in the tree never have one id, so that avl_delete, which    *)
(* finds a record by its id, never frees another thread's record.  It      *)
(* takes the mutex around _next_thread_id++ in thread_create_c.            *)
UniqueIds ==
    \A r, q \in tree : tid[r] = tid[q] => r = q

(* From its insertion by _start_routine until it decides to leave, a       *)
(* thread's record is in the tree and not freed, whatever other threads    *)
(* create, join and delete meanwhile, and although handles are recycled.   *)
RunningRegistered ==
    \A t \in Thread : pc[t] \in RunPcs => t \in tree /\ rec[t] = "live"

(* thread_join always finds the record it was given in the tree: nobody    *)
(* else deletes the record of an attached thread.                          *)
JoinFindsRecord ==
    \A t \in Thread :
        pc[t] = "delete_join" => arg[t] \in tree

(* thread_self, called by a registered thread, never returns NULL (which   *)
(* thread_rename would dereference), and returns the caller's own record   *)
(* or one left by a thread that is gone and had the same pthread_t.        *)
SelfOwnOrGone ==
    \A t \in Thread :
        pc[t] \in {"rename", "exit"} =>
            /\ arg[t] # NULL
            /\ arg[t] = t \/ (pc[arg[t]] = "gone" /\ handle[arg[t]] = handle[t])

(* The uses of a freed record that remain possible: the creator's read of  *)
(* a detached thread's record after pthread_create, and a record returned  *)
(* by thread_self that belongs to a thread that is gone.  In particular    *)
(* thread_join and avl_delete never get a freed record.                    *)
DanglingOnlyThere ==
    \A t \in Thread :
        (pc[t] \in DerefPcs /\ Dangling(t)) =>
            \/ pc[t] = "setname" /\ detached[arg[t]]
            \/ pc[t] \in {"rename", "exit"} /\ arg[t] # t

(* If handles are never reused, the tree holds no record of a thread that  *)
(* is gone, except while the thread that joined it is about to delete it.  *)
NoStaleRecord ==
    \A r \in tree :
        pc[r] = "gone" =>
            \E t \in Thread : pc[t] = "delete_join" /\ arg[t] = r

(* thread.h says of thread_rename that it "renames current thread": a      *)
(* record's name is only ever set by the thread it stands for.             *)
RenamesCurrent ==
    \A r \in Thread : namedBy[r] \in {NULL, r}

(* A step never takes _next_thread_id back, frees every record it takes    *)
(* out of the tree, and never puts a freed record back into it.            *)
KeepsFreed ==
    /\ nextId' >= nextId
    /\ \A r \in tree \ tree' : rec'[r] = "freed"
    /\ \A r \in Thread : rec[r] = "freed" => rec'[r] = "freed" /\ r \notin tree'

NoResurrection == [][KeepsFreed]_vars

(* Every call into the library returns, or ends the thread, if threads are *)
(* scheduled: no path leaves _threadtree_mutex locked.  A join waits for   *)
(* its thread to end first.                                                *)
CallsReturn ==
    \A t \in Thread :
        (pc[t] \in (RunPcs \ {"run", "join"}) \cup {"start", "die"})
            ~> (pc[t] \in {"run"} \cup EndPcs \/ ub # "none")

(* thread_join returns once the joined thread has ended, and then the      *)
(* record is neither in the tree nor allocated.                            *)
JoinCompletes ==
    \A t, n \in Thread :
        (pc[t] = "join" /\ arg[t] = n /\ pc[n] = "dead")
            ~> ((rec[n] = "freed" /\ n \notin tree) \/ ub # "none")

-----------------------------------------------------------------------------
(* The inductive invariant, in named parts.                                *)

CreatePcs == {"create", "create_inc", "spawn"}         \* arg: a private record
OwnPcs    == {"setname", "join", "delete_join"}        \* arg: a child's record
FoundPcs  == {"rename", "exit", "delete_exit"}         \* arg: "my" record

(* Only a thread inside a critical section holds the mutex, and the id it  *)
(* is about to give out is still the next one.                             *)
LockInv ==
    /\ lock # NULL => pc[lock] \in LockPcs \cup {"create_inc"}
    /\ \A t \in Thread : pc[t] = "create_inc" => lock = t /\ reg[t] = nextId

(* A record under construction belongs to one creator, nothing points to   *)
(* it, and only Main is ever shut down, after every other thread.          *)
PrivateInv ==
    /\ \A t \in Thread : pc[t] \in CreatePcs =>
          arg[t] \in Thread /\ pc[arg[t]] = "unborn" /\ rec[arg[t]] = "live"
    /\ \A t, u \in Thread :
          pc[t] \in CreatePcs /\ pc[u] \in CreatePcs /\ arg[t] = arg[u] => t = u
    /\ pc[Main] \notin {"unborn", "start"}
    /\ \A t \in Thread : pc[t] = "down" => t = Main
    /\ pc[Main] = "down" =>
          \A t \in Thread \ {Main} : pc[t] \in {"unborn"} \cup EndPcs

(* Ids given out are below the counter and all different.                  *)
Issued(n) == pc[n] # "unborn" \/ \E t \in Thread : pc[t] = "spawn" /\ arg[t] = n

IdInv ==
    /\ \A n \in Thread : Issued(n) => tid[n] < nextId
    /\ \A m, n \in Thread : Issued(m) /\ Issued(n) /\ tid[m] = tid[n] => m = n

(* The tree holds allocated records of started threads only; a thread's    *)
(* record stays in it until the thread is leaving, an attached one's until *)
(* it is joined, and a record that left it was freed.                      *)
TreeInv ==
    /\ \A r \in tree : rec[r] = "live" /\ pc[r] \notin {"unborn", "start"}
    /\ \A t \in Thread : pc[t] = "start" => rec[t] = "live"
    /\ \A t \in Thread : pc[t] \in RunPcs => t \in tree
    /\ \A t \in Thread : pc[t] \in {"die"} \cup EndPcs /\ rec[t] = "live" => t \in tree
    /\ pc[Main] # "down" =>
          \A t \in Thread : pc[t] \in {"die", "dead"} /\ ~detached[t] => t \in tree

(* Threads the kernel knows have different handles.                        *)
HandleInv ==
    /\ \A t \in Thread : InKernel(t) => handle[t] \in Handle
    /\ \A r \in tree : handle[r] \in Handle
    /\ \A t, u \in Thread : InKernel(t) /\ InKernel(u) /\ handle[t] = handle[u] => t = u

(* An attached thread has one owner, who joins it at most once.            *)
Owns(t, n) == n \in kids[t] \/ (pc[t] \in OwnPcs /\ arg[t] = n)

OwnInv ==
    /\ \A t \in Thread : pc[t] \in OwnPcs => arg[t] \in Thread /\ arg[t] \notin kids[t]
    /\ \A t, n \in Thread : Owns(t, n) => n # Main /\ pc[n] # "unborn"
    /\ \A t, u, n \in Thread : Owns(t, n) /\ Owns(u, n) => t = u
    /\ \A t \in Thread : pc[t] \in {"join", "delete_join"} => ~detached[arg[t]]
    /\ \A t, n \in Thread : n \in kids[t] => ~detached[n]
    /\ \A t, n \in Thread : Owns(t, n) /\ ~detached[n] =>
          (pc[n] = "gone" <=> pc[t] = "delete_join" /\ arg[t] = n)
    /\ \A t \in Thread : pc[t] = "delete_join" => arg[t] \in tree

(* What thread_self returned has the caller's handle, and is the caller's  *)
(* record or one left behind; a thread that goes on to delete it finds it. *)
FoundInv ==
    /\ \A t \in Thread : pc[t] \in FoundPcs =>
          /\ arg[t] \in Thread
          /\ handle[arg[t]] = handle[t]
          /\ arg[t] = t \/ pc[arg[t]] = "gone"
    /\ \A t \in Thread : pc[t] = "delete_exit" => arg[t] \in tree /\ detached[arg[t]]

IInv ==
    /\ TypeOK
    /\ LockInv
    /\ PrivateInv
    /\ IdInv
    /\ TreeInv
    /\ HandleInv
    /\ OwnInv
    /\ FoundInv

(* What holds in addition when no pthread_t value is used twice: a thread  *)
(* finds its own record, a detached one leaves none behind.                *)
FreshInv ==
    /\ \A t, u \in Thread : handle[t] = handle[u] /\ handle[t] # NULL => t = u
    /\ \A t \in Thread : pc[t] \in FoundPcs => arg[t] = t
    /\ \A t \in Thread : pc[t] = "die" /\ detached[t] => t \notin tree
    /\ NoStaleRecord
    /\ RenamesCurrent

=============================================================================
