------------------------ MODULE ThreadRegistryProofs ------------------------
(***************************************************************************)
(* Proofs about ThreadRegistry, for every set of threads, every set of     *)
(* pthread_t values and every bound.                                       *)
(*                                                                         *)
(* Each part of IInv has one lemma showing that every action preserves it, *)
(* given all of IInv before the step; together they make IInv inductive.   *)
(* FreshInv is inductive relative to IInv when handles are not reused.     *)
(***************************************************************************)
EXTENDS ThreadRegistry, TLAPS

(* Every action keeps the variables in their types: the pointers a thread  *)
(* stores come from its own record, its children or the tree.              *)
LEMMA TypeStep == IInv /\ [Next]_vars => TypeOK'
<1> SUFFICES ASSUME IInv, [Next]_vars PROVE TypeOK'
  OBVIOUS
<1> USE NullAssumption, MaxRenamesAssumption, MainAssumption DEF IInv, TypeOK, PrivateInv, OwnInv, FoundInv, Goto, Pcs, RunPcs, EndPcs, LockPcs, DerefPcs, SelfPcs, DeletePcs, CreatePcs, OwnPcs, FoundPcs
<1>1. ASSUME NEW t \in Thread, MutexLock(t)
      PROVE  TypeOK'
  BY <1>1 DEF MutexLock
<1>2. ASSUME NEW t \in Thread, CreateReadId(t)
      PROVE  TypeOK'
  BY <1>2 DEF CreateReadId
<1>3. ASSUME NEW t \in Thread, CreateIncId(t)
      PROVE  TypeOK'
  BY <1>3 DEF CreateIncId
<1>4. ASSUME NEW t \in Thread, SpawnFail(t)
      PROVE  TypeOK'
  BY <1>4 DEF SpawnFail, Drop
<1>5. ASSUME NEW t \in Thread, NEW h \in Handle, Spawn(t, h)
      PROVE  TypeOK'
  BY <1>5 DEF Spawn, Usable
<1>6. ASSUME NEW t \in Thread, SetName(t)
      PROVE  TypeOK'
  BY <1>6 DEF SetName, Drop
<1>7. ASSUME NEW t \in Thread, StartInsert(t)
      PROVE  TypeOK'
  BY <1>7 DEF StartInsert
<1>8. ASSUME NEW t \in Thread, SelfScan(t)
      PROVE  TypeOK'
  BY <1>8 DEF SelfScan, Matches, FirstMatch
<1>9. ASSUME NEW t \in Thread, Rename(t)
      PROVE  TypeOK'
  BY <1>9 DEF Rename, Drop
<1>10. ASSUME NEW t \in Thread, ExitCheck(t)
      PROVE  TypeOK'
  BY <1>10 DEF ExitCheck
<1>11. ASSUME NEW t \in Thread, Delete(t)
      PROVE  TypeOK'
  BY <1>11 DEF Delete, Drop
<1>12. ASSUME NEW t \in Thread, PthreadExit(t)
      PROVE  TypeOK'
  BY <1>12 DEF PthreadExit, Joinable
<1>13. ASSUME NEW t \in Thread, PthreadJoin(t)
      PROVE  TypeOK'
  BY <1>13 DEF PthreadJoin
<1>14. ASSUME NEW t \in Thread, BadUse(t)
      PROVE  TypeOK'
  BY <1>14 DEF BadUse, Dangling
<1>15. ASSUME NEW t \in Thread, NEW n \in Thread, NEW d \in BOOLEAN, ThreadCreate(t, n, d)
      PROVE  TypeOK'
  BY <1>15 DEF ThreadCreate
<1>16. ASSUME NEW t \in Thread, CallRename(t)
      PROVE  TypeOK'
  BY <1>16 DEF CallRename
<1>17. ASSUME NEW t \in Thread, CallExit(t)
      PROVE  TypeOK'
  BY <1>17 DEF CallExit
<1>18. ASSUME NEW t \in Thread, ReturnFromRoutine(t)
      PROVE  TypeOK'
  BY <1>18 DEF ReturnFromRoutine
<1>19. ASSUME NEW t \in Thread, NEW n \in Thread, ThreadJoin(t, n)
      PROVE  TypeOK'
  BY <1>19 DEF ThreadJoin
<1>20. ASSUME ThreadShutdown
      PROVE  TypeOK'
  BY <1>20 DEF ThreadShutdown
<1>21. ASSUME UNCHANGED vars
      PROVE  TypeOK'
  BY <1>21 DEF vars
<1> HIDE DEF IInv, TypeOK, PrivateInv, OwnInv, FoundInv
<1> QED
  BY <1>1, <1>2, <1>3, <1>4, <1>5, <1>6, <1>7, <1>8, <1>9, <1>10, <1>11, <1>12, <1>13, <1>14, <1>15, <1>16, <1>17, <1>18, <1>19, <1>20, <1>21 DEF Next, LibraryStep, CallerStep, Finished

(* The mutex is held in critical sections only, and the value of           *)
(* _next_thread_id that thread_create_c read stays current until it writes *)
(* it back, because every other writer needs the mutex.                    *)
LEMMA LockStep == IInv /\ [Next]_vars => LockInv'
<1> SUFFICES ASSUME IInv, [Next]_vars PROVE LockInv'
  OBVIOUS
<1> USE NullAssumption, MainAssumption DEF IInv, TypeOK, LockInv, PrivateInv, OwnInv, FoundInv, Goto, Pcs, RunPcs, EndPcs, LockPcs, DerefPcs, SelfPcs, DeletePcs, CreatePcs, OwnPcs, FoundPcs
<1>1. ASSUME NEW t \in Thread, MutexLock(t)
      PROVE  LockInv'
  BY <1>1 DEF MutexLock
<1>2. ASSUME NEW t \in Thread, CreateReadId(t)
      PROVE  LockInv'
  BY <1>2 DEF CreateReadId
<1>3. ASSUME NEW t \in Thread, CreateIncId(t)
      PROVE  LockInv'
  BY <1>3 DEF CreateIncId
<1>4. ASSUME NEW t \in Thread, SpawnFail(t)
      PROVE  LockInv'
  BY <1>4 DEF SpawnFail, Drop
<1>5. ASSUME NEW t \in Thread, NEW h \in Handle, Spawn(t, h)
      PROVE  LockInv'
  BY <1>5 DEF Spawn, Usable
<1>6. ASSUME NEW t \in Thread, SetName(t)
      PROVE  LockInv'
  BY <1>6 DEF SetName, Drop
<1>7. ASSUME NEW t \in Thread, StartInsert(t)
      PROVE  LockInv'
  BY <1>7 DEF StartInsert
<1>8. ASSUME NEW t \in Thread, SelfScan(t)
      PROVE  LockInv'
  BY <1>8 DEF SelfScan, Matches, FirstMatch
<1>9. ASSUME NEW t \in Thread, Rename(t)
      PROVE  LockInv'
  BY <1>9 DEF Rename, Drop
<1>10. ASSUME NEW t \in Thread, ExitCheck(t)
      PROVE  LockInv'
  BY <1>10 DEF ExitCheck
<1>11. ASSUME NEW t \in Thread, Delete(t)
      PROVE  LockInv'
  BY <1>11 DEF Delete, Drop
<1>12. ASSUME NEW t \in Thread, PthreadExit(t)
      PROVE  LockInv'
  BY <1>12 DEF PthreadExit, Joinable
<1>13. ASSUME NEW t \in Thread, PthreadJoin(t)
      PROVE  LockInv'
  BY <1>13 DEF PthreadJoin
<1>14. ASSUME NEW t \in Thread, BadUse(t)
      PROVE  LockInv'
  BY <1>14 DEF BadUse, Dangling
<1>15. ASSUME NEW t \in Thread, NEW n \in Thread, NEW d \in BOOLEAN, ThreadCreate(t, n, d)
      PROVE  LockInv'
  BY <1>15 DEF ThreadCreate
<1>16. ASSUME NEW t \in Thread, CallRename(t)
      PROVE  LockInv'
  BY <1>16 DEF CallRename
<1>17. ASSUME NEW t \in Thread, CallExit(t)
      PROVE  LockInv'
  BY <1>17 DEF CallExit
<1>18. ASSUME NEW t \in Thread, ReturnFromRoutine(t)
      PROVE  LockInv'
  BY <1>18 DEF ReturnFromRoutine
<1>19. ASSUME NEW t \in Thread, NEW n \in Thread, ThreadJoin(t, n)
      PROVE  LockInv'
  BY <1>19 DEF ThreadJoin
<1>20. ASSUME ThreadShutdown
      PROVE  LockInv'
  BY <1>20 DEF ThreadShutdown
<1>21. ASSUME UNCHANGED vars
      PROVE  LockInv'
  BY <1>21 DEF vars
<1> HIDE DEF IInv, TypeOK, LockInv, PrivateInv, OwnInv, FoundInv
<1> QED
  BY <1>1, <1>2, <1>3, <1>4, <1>5, <1>6, <1>7, <1>8, <1>9, <1>10, <1>11, <1>12, <1>13, <1>14, <1>15, <1>16, <1>17, <1>18, <1>19, <1>20, <1>21 DEF Next, LibraryStep, CallerStep, Finished

(* A record under construction in thread_create_c is seen by its creator   *)
(* only, until pthread_create.                                             *)
LEMMA PrivateStep == IInv /\ [Next]_vars => PrivateInv'
<1> SUFFICES ASSUME IInv, [Next]_vars PROVE PrivateInv'
  OBVIOUS
<1> USE NullAssumption, MainAssumption DEF IInv, TypeOK, LockInv, PrivateInv, OwnInv, FoundInv, TreeInv, Owns, Goto, Pcs, RunPcs, EndPcs, LockPcs, DerefPcs, SelfPcs, DeletePcs, CreatePcs, OwnPcs, FoundPcs
<1>1. ASSUME NEW t \in Thread, MutexLock(t)
      PROVE  PrivateInv'
  BY <1>1 DEF MutexLock
<1>2. ASSUME NEW t \in Thread, CreateReadId(t)
      PROVE  PrivateInv'
  BY <1>2 DEF CreateReadId
<1>3. ASSUME NEW t \in Thread, CreateIncId(t)
      PROVE  PrivateInv'
  BY <1>3 DEF CreateIncId
<1>4. ASSUME NEW t \in Thread, SpawnFail(t)
      PROVE  PrivateInv'
  BY <1>4 DEF SpawnFail, Drop
<1>5. ASSUME NEW t \in Thread, NEW h \in Handle, Spawn(t, h)
      PROVE  PrivateInv'
  BY <1>5 DEF Spawn, Usable
<1>6. ASSUME NEW t \in Thread, SetName(t)
      PROVE  PrivateInv'
  BY <1>6 DEF SetName, Drop
<1>7. ASSUME NEW t \in Thread, StartInsert(t)
      PROVE  PrivateInv'
  BY <1>7 DEF StartInsert
<1>8. ASSUME NEW t \in Thread, SelfScan(t)
      PROVE  PrivateInv'
  BY <1>8 DEF SelfScan, Matches, FirstMatch
<1>9. ASSUME NEW t \in Thread, Rename(t)
      PROVE  PrivateInv'
  BY <1>9 DEF Rename, Drop
<1>10. ASSUME NEW t \in Thread, ExitCheck(t)
      PROVE  PrivateInv'
  BY <1>10 DEF ExitCheck
<1>11. ASSUME NEW t \in Thread, Delete(t)
      PROVE  PrivateInv'
  BY <1>11 DEF Delete, Drop
<1>12. ASSUME NEW t \in Thread, PthreadExit(t)
      PROVE  PrivateInv'
  BY <1>12 DEF PthreadExit, Joinable
<1>13. ASSUME NEW t \in Thread, PthreadJoin(t)
      PROVE  PrivateInv'
  BY <1>13 DEF PthreadJoin
<1>14. ASSUME NEW t \in Thread, BadUse(t)
      PROVE  PrivateInv'
  BY <1>14 DEF BadUse, Dangling
<1>15. ASSUME NEW t \in Thread, NEW n \in Thread, NEW d \in BOOLEAN, ThreadCreate(t, n, d)
      PROVE  PrivateInv'
  BY <1>15 DEF ThreadCreate
<1>16. ASSUME NEW t \in Thread, CallRename(t)
      PROVE  PrivateInv'
  BY <1>16 DEF CallRename
<1>17. ASSUME NEW t \in Thread, CallExit(t)
      PROVE  PrivateInv'
  BY <1>17 DEF CallExit
<1>18. ASSUME NEW t \in Thread, ReturnFromRoutine(t)
      PROVE  PrivateInv'
  BY <1>18 DEF ReturnFromRoutine
<1>19. ASSUME NEW t \in Thread, NEW n \in Thread, ThreadJoin(t, n)
      PROVE  PrivateInv'
  BY <1>19 DEF ThreadJoin
<1>20. ASSUME ThreadShutdown
      PROVE  PrivateInv'
  BY <1>20 DEF ThreadShutdown
<1>21. ASSUME UNCHANGED vars
      PROVE  PrivateInv'
  BY <1>21 DEF vars
<1> HIDE DEF IInv, TypeOK, LockInv, PrivateInv, OwnInv, FoundInv, TreeInv, Owns
<1> QED
  BY <1>1, <1>2, <1>3, <1>4, <1>5, <1>6, <1>7, <1>8, <1>9, <1>10, <1>11, <1>12, <1>13, <1>14, <1>15, <1>16, <1>17, <1>18, <1>19, <1>20, <1>21 DEF Next, LibraryStep, CallerStep, Finished

(* The ids in the records stay different and below _next_thread_id.        *)
LEMMA IdStep == IInv /\ [Next]_vars => IdInv'
<1> SUFFICES ASSUME IInv, [Next]_vars PROVE IdInv'
  OBVIOUS
<1> USE NullAssumption, MainAssumption DEF IInv, TypeOK, LockInv, PrivateInv, IdInv, Issued, OwnInv, FoundInv, Goto, Pcs, RunPcs, EndPcs, LockPcs, DerefPcs, SelfPcs, DeletePcs, CreatePcs, OwnPcs, FoundPcs
<1>1. ASSUME NEW t \in Thread, MutexLock(t)
      PROVE  IdInv'
  BY <1>1 DEF MutexLock
<1>2. ASSUME NEW t \in Thread, CreateReadId(t)
      PROVE  IdInv'
  BY <1>2 DEF CreateReadId
<1>3. ASSUME NEW t \in Thread, CreateIncId(t)
      PROVE  IdInv'
  BY <1>3 DEF CreateIncId
<1>4. ASSUME NEW t \in Thread, SpawnFail(t)
      PROVE  IdInv'
  BY <1>4, SMTT(60) DEF SpawnFail, Drop
<1>5. ASSUME NEW t \in Thread, NEW h \in Handle, Spawn(t, h)
      PROVE  IdInv'
  BY <1>5 DEF Spawn, Usable
<1>6. ASSUME NEW t \in Thread, SetName(t)
      PROVE  IdInv'
  BY <1>6 DEF SetName, Drop
<1>7. ASSUME NEW t \in Thread, StartInsert(t)
      PROVE  IdInv'
  BY <1>7 DEF StartInsert
<1>8. ASSUME NEW t \in Thread, SelfScan(t)
      PROVE  IdInv'
  BY <1>8 DEF SelfScan, Matches, FirstMatch
<1>9. ASSUME NEW t \in Thread, Rename(t)
      PROVE  IdInv'
  BY <1>9 DEF Rename, Drop
<1>10. ASSUME NEW t \in Thread, ExitCheck(t)
      PROVE  IdInv'
  BY <1>10 DEF ExitCheck
<1>11. ASSUME NEW t \in Thread, Delete(t)
      PROVE  IdInv'
  BY <1>11 DEF Delete, Drop
<1>12. ASSUME NEW t \in Thread, PthreadExit(t)
      PROVE  IdInv'
  BY <1>12 DEF PthreadExit, Joinable
<1>13. ASSUME NEW t \in Thread, PthreadJoin(t)
      PROVE  IdInv'
  BY <1>13 DEF PthreadJoin
<1>14. ASSUME NEW t \in Thread, BadUse(t)
      PROVE  IdInv'
  BY <1>14 DEF BadUse, Dangling
<1>15. ASSUME NEW t \in Thread, NEW n \in Thread, NEW d \in BOOLEAN, ThreadCreate(t, n, d)
      PROVE  IdInv'
  BY <1>15 DEF ThreadCreate
<1>16. ASSUME NEW t \in Thread, CallRename(t)
      PROVE  IdInv'
  BY <1>16 DEF CallRename
<1>17. ASSUME NEW t \in Thread, CallExit(t)
      PROVE  IdInv'
  BY <1>17 DEF CallExit
<1>18. ASSUME NEW t \in Thread, ReturnFromRoutine(t)
      PROVE  IdInv'
  BY <1>18 DEF ReturnFromRoutine
<1>19. ASSUME NEW t \in Thread, NEW n \in Thread, ThreadJoin(t, n)
      PROVE  IdInv'
  BY <1>19 DEF ThreadJoin
<1>20. ASSUME ThreadShutdown
      PROVE  IdInv'
  BY <1>20 DEF ThreadShutdown
<1>21. ASSUME UNCHANGED vars
      PROVE  IdInv'
  BY <1>21 DEF vars
<1> HIDE DEF IInv, TypeOK, LockInv, PrivateInv, IdInv, Issued, OwnInv, FoundInv
<1> QED
  BY <1>1, <1>2, <1>3, <1>4, <1>5, <1>6, <1>7, <1>8, <1>9, <1>10, <1>11, <1>12, <1>13, <1>14, <1>15, <1>16, <1>17, <1>18, <1>19, <1>20, <1>21 DEF Next, LibraryStep, CallerStep, Finished

(* Nobody but the thread itself, if detached, or the thread that joins it, *)
(* takes a record out of the tree.                                         *)
LEMMA TreeStep == IInv /\ [Next]_vars => TreeInv'
<1> SUFFICES ASSUME IInv, [Next]_vars PROVE TreeInv'
  OBVIOUS
<1> USE NullAssumption, MainAssumption DEF IInv, TypeOK, LockInv, PrivateInv, IdInv, Issued, TreeInv, OwnInv, FoundInv, Owns, Goto, Pcs, RunPcs, EndPcs, LockPcs, DerefPcs, SelfPcs, DeletePcs, CreatePcs, OwnPcs, FoundPcs
<1>1. ASSUME NEW t \in Thread, MutexLock(t)
      PROVE  TreeInv'
  BY <1>1 DEF MutexLock
<1>2. ASSUME NEW t \in Thread, CreateReadId(t)
      PROVE  TreeInv'
  BY <1>2 DEF CreateReadId
<1>3. ASSUME NEW t \in Thread, CreateIncId(t)
      PROVE  TreeInv'
  BY <1>3 DEF CreateIncId
<1>4. ASSUME NEW t \in Thread, SpawnFail(t)
      PROVE  TreeInv'
  BY <1>4 DEF SpawnFail, Drop
<1>5. ASSUME NEW t \in Thread, NEW h \in Handle, Spawn(t, h)
      PROVE  TreeInv'
  BY <1>5 DEF Spawn, Usable
<1>6. ASSUME NEW t \in Thread, SetName(t)
      PROVE  TreeInv'
  BY <1>6 DEF SetName, Drop
<1>7. ASSUME NEW t \in Thread, StartInsert(t)
      PROVE  TreeInv'
  BY <1>7 DEF StartInsert
<1>8. ASSUME NEW t \in Thread, SelfScan(t)
      PROVE  TreeInv'
  BY <1>8 DEF SelfScan, Matches, FirstMatch
<1>9. ASSUME NEW t \in Thread, Rename(t)
      PROVE  TreeInv'
  BY <1>9 DEF Rename, Drop
<1>10. ASSUME NEW t \in Thread, ExitCheck(t)
      PROVE  TreeInv'
  BY <1>10 DEF ExitCheck
<1>11. ASSUME NEW t \in Thread, Delete(t)
      PROVE  TreeInv'
  BY <1>11 DEF Delete, Drop
<1>12. ASSUME NEW t \in Thread, PthreadExit(t)
      PROVE  TreeInv'
  BY <1>12 DEF PthreadExit, Joinable
<1>13. ASSUME NEW t \in Thread, PthreadJoin(t)
      PROVE  TreeInv'
  BY <1>13 DEF PthreadJoin
<1>14. ASSUME NEW t \in Thread, BadUse(t)
      PROVE  TreeInv'
  BY <1>14 DEF BadUse, Dangling
<1>15. ASSUME NEW t \in Thread, NEW n \in Thread, NEW d \in BOOLEAN, ThreadCreate(t, n, d)
      PROVE  TreeInv'
  BY <1>15 DEF ThreadCreate
<1>16. ASSUME NEW t \in Thread, CallRename(t)
      PROVE  TreeInv'
  BY <1>16 DEF CallRename
<1>17. ASSUME NEW t \in Thread, CallExit(t)
      PROVE  TreeInv'
  BY <1>17 DEF CallExit
<1>18. ASSUME NEW t \in Thread, ReturnFromRoutine(t)
      PROVE  TreeInv'
  BY <1>18 DEF ReturnFromRoutine
<1>19. ASSUME NEW t \in Thread, NEW n \in Thread, ThreadJoin(t, n)
      PROVE  TreeInv'
  BY <1>19 DEF ThreadJoin
<1>20. ASSUME ThreadShutdown
      PROVE  TreeInv'
  BY <1>20 DEF ThreadShutdown
<1>21. ASSUME UNCHANGED vars
      PROVE  TreeInv'
  BY <1>21 DEF vars
<1> HIDE DEF IInv, TypeOK, LockInv, PrivateInv, IdInv, Issued, TreeInv, OwnInv, FoundInv, Owns
<1> QED
  BY <1>1, <1>2, <1>3, <1>4, <1>5, <1>6, <1>7, <1>8, <1>9, <1>10, <1>11, <1>12, <1>13, <1>14, <1>15, <1>16, <1>17, <1>18, <1>19, <1>20, <1>21 DEF Next, LibraryStep, CallerStep, Finished

(* Two threads the kernel knows never have the same pthread_t.             *)
LEMMA HandleStep == IInv /\ [Next]_vars => HandleInv'
<1> SUFFICES ASSUME IInv, [Next]_vars PROVE HandleInv'
  OBVIOUS
<1> USE NullAssumption, MainAssumption DEF IInv, TypeOK, PrivateInv, TreeInv, HandleInv, InKernel, OwnInv, Goto, Pcs, RunPcs, EndPcs, LockPcs, DerefPcs, SelfPcs, DeletePcs, CreatePcs, OwnPcs, FoundPcs
<1>1. ASSUME NEW t \in Thread, MutexLock(t)
      PROVE  HandleInv'
  BY <1>1 DEF MutexLock
<1>2. ASSUME NEW t \in Thread, CreateReadId(t)
      PROVE  HandleInv'
  BY <1>2 DEF CreateReadId
<1>3. ASSUME NEW t \in Thread, CreateIncId(t)
      PROVE  HandleInv'
  BY <1>3 DEF CreateIncId
<1>4. ASSUME NEW t \in Thread, SpawnFail(t)
      PROVE  HandleInv'
  <2>1. arg[t] \in Thread /\ arg[t] # t /\ arg[t] \notin tree
    BY <1>4 DEF SpawnFail
  <2>2. \A u \in Thread : pc'[u] \notin {"unborn", "gone"} => pc[u] \notin {"unborn", "gone"}
    BY <1>4, <2>1 DEF SpawnFail
  <2>3. handle' = handle /\ tree' = tree
    BY <1>4 DEF SpawnFail
  <2> QED
    BY <2>2, <2>3
<1>5. ASSUME NEW t \in Thread, NEW h \in Handle, Spawn(t, h)
      PROVE  HandleInv'
  <2>1. arg[t] \in Thread /\ arg[t] # t /\ arg[t] \notin tree
    BY <1>5 DEF Spawn
  <2>2. \A u \in Thread \ {arg[t]} :
           pc'[u] \notin {"unborn", "gone"} => pc[u] \notin {"unborn", "gone"}
    BY <1>5, <2>1 DEF Spawn
  <2>3. \A u \in Thread : pc[u] \notin {"unborn", "gone"} => handle[u] # h
    BY <1>5 DEF Spawn, Usable
  <2>4. handle' = [handle EXCEPT ![arg[t]] = h] /\ tree' = tree
    BY <1>5 DEF Spawn
  <2> QED
    BY <2>1, <2>2, <2>3, <2>4
<1>6. ASSUME NEW t \in Thread, SetName(t)
      PROVE  HandleInv'
  BY <1>6 DEF SetName, Drop
<1>7. ASSUME NEW t \in Thread, StartInsert(t)
      PROVE  HandleInv'
  BY <1>7 DEF StartInsert
<1>8. ASSUME NEW t \in Thread, SelfScan(t)
      PROVE  HandleInv'
  BY <1>8 DEF SelfScan, Matches, FirstMatch
<1>9. ASSUME NEW t \in Thread, Rename(t)
      PROVE  HandleInv'
  BY <1>9 DEF Rename, Drop
<1>10. ASSUME NEW t \in Thread, ExitCheck(t)
      PROVE  HandleInv'
  BY <1>10 DEF ExitCheck
<1>11. ASSUME NEW t \in Thread, Delete(t)
      PROVE  HandleInv'
  BY <1>11 DEF Delete, Drop
<1>12. ASSUME NEW t \in Thread, PthreadExit(t)
      PROVE  HandleInv'
  BY <1>12 DEF PthreadExit, Joinable
<1>13. ASSUME NEW t \in Thread, PthreadJoin(t)
      PROVE  HandleInv'
  <2>1. arg[t] \in Thread
    BY <1>13 DEF PthreadJoin
  <2>2. \A u \in Thread : pc'[u] \notin {"unborn", "gone"} => pc[u] \notin {"unborn", "gone"}
    BY <1>13, <2>1 DEF PthreadJoin
  <2>3. handle' = handle /\ tree' = tree
    BY <1>13 DEF PthreadJoin
  <2> QED
    BY <2>2, <2>3
<1>14. ASSUME NEW t \in Thread, BadUse(t)
      PROVE  HandleInv'
  BY <1>14 DEF BadUse, Dangling
<1>15. ASSUME NEW t \in Thread, NEW n \in Thread, NEW d \in BOOLEAN, ThreadCreate(t, n, d)
      PROVE  HandleInv'
  BY <1>15 DEF ThreadCreate
<1>16. ASSUME NEW t \in Thread, CallRename(t)
      PROVE  HandleInv'
  BY <1>16 DEF CallRename
<1>17. ASSUME NEW t \in Thread, CallExit(t)
      PROVE  HandleInv'
  BY <1>17 DEF CallExit
<1>18. ASSUME NEW t \in Thread, ReturnFromRoutine(t)
      PROVE  HandleInv'
  BY <1>18 DEF ReturnFromRoutine
<1>19. ASSUME NEW t \in Thread, NEW n \in Thread, ThreadJoin(t, n)
      PROVE  HandleInv'
  BY <1>19 DEF ThreadJoin
<1>20. ASSUME ThreadShutdown
      PROVE  HandleInv'
  BY <1>20 DEF ThreadShutdown
<1>21. ASSUME UNCHANGED vars
      PROVE  HandleInv'
  BY <1>21 DEF vars
<1> HIDE DEF IInv, TypeOK, PrivateInv, TreeInv, HandleInv, InKernel, OwnInv
<1> QED
  BY <1>1, <1>2, <1>3, <1>4, <1>5, <1>6, <1>7, <1>8, <1>9, <1>10, <1>11, <1>12, <1>13, <1>14, <1>15, <1>16, <1>17, <1>18, <1>19, <1>20, <1>21 DEF Next, LibraryStep, CallerStep, Finished

(* An attached thread has one owner at a time, and is joined once.         *)
LEMMA OwnStep == IInv /\ [Next]_vars => OwnInv'
<1> SUFFICES ASSUME IInv, [Next]_vars PROVE OwnInv'
  OBVIOUS
<1> USE NullAssumption, MainAssumption DEF IInv, TypeOK, LockInv, PrivateInv, IdInv, Issued, TreeInv, OwnInv, FoundInv, Owns, Goto, Pcs, RunPcs, EndPcs, LockPcs, DerefPcs, SelfPcs, DeletePcs, CreatePcs, OwnPcs, FoundPcs
<1>1. ASSUME NEW t \in Thread, MutexLock(t)
      PROVE  OwnInv'
  BY <1>1 DEF MutexLock
<1>2. ASSUME NEW t \in Thread, CreateReadId(t)
      PROVE  OwnInv'
  BY <1>2 DEF CreateReadId
<1>3. ASSUME NEW t \in Thread, CreateIncId(t)
      PROVE  OwnInv'
  BY <1>3 DEF CreateIncId
<1>4. ASSUME NEW t \in Thread, SpawnFail(t)
      PROVE  OwnInv'
  BY <1>4 DEF SpawnFail, Drop
<1>5. ASSUME NEW t \in Thread, NEW h \in Handle, Spawn(t, h)
      PROVE  OwnInv'
  <2> DEFINE n == arg[t]
  <2>1. n \in Thread /\ n # t /\ pc[n] = "unborn" /\ n # Main
    BY <1>5 DEF Spawn
  <2>2. /\ pc' = [pc EXCEPT ![t] = "setname", ![n] = "start"]
        /\ UNCHANGED <<arg, kids, tree, detached>>
    BY <1>5 DEF Spawn
  <2>3. \A u \in Thread : ~Owns(u, n)
    BY <2>1
  <2>4. \A u, m \in Thread : Owns(u, m)' <=> Owns(u, m) \/ (u = t /\ m = n)
    BY <1>5, <2>1, <2>2 DEF Spawn
  <2> HIDE DEF n, Owns
  <2>5. \A u, m \in Thread : Owns(u, m)' => m # Main /\ pc'[m] # "unborn"
    BY <2>1, <2>2, <2>4
  <2>6. \A u, v, m \in Thread : Owns(u, m)' /\ Owns(v, m)' => u = v
    BY <2>3, <2>4
  <2>7. \A u, m \in Thread : Owns(u, m)' /\ ~detached'[m] =>
           (pc'[m] = "gone" <=> pc'[u] = "delete_join" /\ arg'[u] = m)
    BY <1>5, <2>1, <2>2, <2>3, <2>4 DEF Spawn
  <2>8. \A u \in Thread : pc'[u] \in OwnPcs => arg'[u] \in Thread /\ arg'[u] \notin kids'[u]
    BY <1>5, <2>1, <2>2, <2>3 DEF Spawn, n, Owns
  <2>9. /\ \A u \in Thread : pc'[u] \in {"join", "delete_join"} => ~detached'[arg'[u]]
        /\ \A u, m \in Thread : m \in kids'[u] => ~detached'[m]
        /\ \A u \in Thread : pc'[u] = "delete_join" => arg'[u] \in tree'
    BY <1>5, <2>1, <2>2 DEF Spawn
  <2> QED
    BY <2>5, <2>6, <2>7, <2>8, <2>9 DEF OwnInv
<1>6. ASSUME NEW t \in Thread, SetName(t)
      PROVE  OwnInv'
  BY <1>6 DEF SetName, Drop
<1>7. ASSUME NEW t \in Thread, StartInsert(t)
      PROVE  OwnInv'
  BY <1>7 DEF StartInsert
<1>8. ASSUME NEW t \in Thread, SelfScan(t)
      PROVE  OwnInv'
  BY <1>8 DEF SelfScan, Matches, FirstMatch
<1>9. ASSUME NEW t \in Thread, Rename(t)
      PROVE  OwnInv'
  BY <1>9 DEF Rename, Drop
<1>10. ASSUME NEW t \in Thread, ExitCheck(t)
      PROVE  OwnInv'
  BY <1>10 DEF ExitCheck
<1>11. ASSUME NEW t \in Thread, Delete(t)
      PROVE  OwnInv'
  BY <1>11 DEF Delete, Drop
<1>12. ASSUME NEW t \in Thread, PthreadExit(t)
      PROVE  OwnInv'
  BY <1>12 DEF PthreadExit, Joinable
<1>13. ASSUME NEW t \in Thread, PthreadJoin(t)
      PROVE  OwnInv'
  <2> DEFINE n == arg[t]
  <2>1. n \in Thread /\ n # t /\ pc[n] = "dead" /\ n \in tree /\ ~detached[n]
    BY <1>13 DEF PthreadJoin
  <2>2. /\ pc' = [pc EXCEPT ![t] = "delete_join", ![n] = "gone"]
        /\ UNCHANGED <<arg, kids, tree, detached>>
    BY <1>13 DEF PthreadJoin
  <2>3. Owns(t, n)
    BY <1>13 DEF PthreadJoin
  <2>4. \A u, m \in Thread : Owns(u, m)' <=> Owns(u, m)
    BY <1>13, <2>1, <2>2 DEF PthreadJoin
  <2> HIDE DEF Owns
  <2>5. \A u, m \in Thread : Owns(u, m)' => m # Main /\ pc'[m] # "unborn"
    BY <2>1, <2>2, <2>4
  <2>6. \A u, v, m \in Thread : Owns(u, m)' /\ Owns(v, m)' => u = v
    BY <2>4
  <2>7. \A u, m \in Thread : Owns(u, m)' /\ ~detached'[m] =>
           (pc'[m] = "gone" <=> pc'[u] = "delete_join" /\ arg'[u] = m)
    BY <1>13, <2>1, <2>2, <2>3, <2>4 DEF PthreadJoin
  <2>8. \A u \in Thread : pc'[u] \in OwnPcs => arg'[u] \in Thread /\ arg'[u] \notin kids'[u]
    BY <1>13, <2>1, <2>2 DEF PthreadJoin
  <2>9. /\ \A u \in Thread : pc'[u] \in {"join", "delete_join"} => ~detached'[arg'[u]]
        /\ \A u, m \in Thread : m \in kids'[u] => ~detached'[m]
        /\ \A u \in Thread : pc'[u] = "delete_join" => arg'[u] \in tree'
    BY <1>13, <2>1, <2>2 DEF PthreadJoin
  <2> QED
    BY <2>5, <2>6, <2>7, <2>8, <2>9 DEF OwnInv
<1>14. ASSUME NEW t \in Thread, BadUse(t)
      PROVE  OwnInv'
  BY <1>14 DEF BadUse, Dangling
<1>15. ASSUME NEW t \in Thread, NEW n \in Thread, NEW d \in BOOLEAN, ThreadCreate(t, n, d)
      PROVE  OwnInv'
  BY <1>15 DEF ThreadCreate
<1>16. ASSUME NEW t \in Thread, CallRename(t)
      PROVE  OwnInv'
  BY <1>16 DEF CallRename
<1>17. ASSUME NEW t \in Thread, CallExit(t)
      PROVE  OwnInv'
  BY <1>17 DEF CallExit
<1>18. ASSUME NEW t \in Thread, ReturnFromRoutine(t)
      PROVE  OwnInv'
  BY <1>18 DEF ReturnFromRoutine
<1>19. ASSUME NEW t \in Thread, NEW n \in Thread, ThreadJoin(t, n)
      PROVE  OwnInv'
  BY <1>19 DEF ThreadJoin
<1>20. ASSUME ThreadShutdown
      PROVE  OwnInv'
  BY <1>20, SMTT(60) DEF ThreadShutdown
<1>21. ASSUME UNCHANGED vars
      PROVE  OwnInv'
  BY <1>21 DEF vars
<1> HIDE DEF IInv, TypeOK, LockInv, PrivateInv, IdInv, Issued, TreeInv, OwnInv, FoundInv, Owns
<1> QED
  BY <1>1, <1>2, <1>3, <1>4, <1>5, <1>6, <1>7, <1>8, <1>9, <1>10, <1>11, <1>12, <1>13, <1>14, <1>15, <1>16, <1>17, <1>18, <1>19, <1>20, <1>21 DEF Next, LibraryStep, CallerStep, Finished

(* What thread_self returned stays the caller's record, or one of a thread *)
(* that is gone, until the call that asked for it is over.                 *)
LEMMA FoundStep == IInv /\ [Next]_vars => FoundInv'
<1> SUFFICES ASSUME IInv, [Next]_vars PROVE FoundInv'
  OBVIOUS
<1> USE NullAssumption, MainAssumption DEF IInv, TypeOK, LockInv, PrivateInv, IdInv, Issued, TreeInv, HandleInv, InKernel, OwnInv, FoundInv, Owns, Goto, Pcs, RunPcs, EndPcs, LockPcs, DerefPcs, SelfPcs, DeletePcs, CreatePcs, OwnPcs, FoundPcs
<1>1. ASSUME NEW t \in Thread, MutexLock(t)
      PROVE  FoundInv'
  BY <1>1 DEF MutexLock
<1>2. ASSUME NEW t \in Thread, CreateReadId(t)
      PROVE  FoundInv'
  BY <1>2 DEF CreateReadId
<1>3. ASSUME NEW t \in Thread, CreateIncId(t)
      PROVE  FoundInv'
  BY <1>3 DEF CreateIncId
<1>4. ASSUME NEW t \in Thread, SpawnFail(t)
      PROVE  FoundInv'
  BY <1>4 DEF SpawnFail, Drop
<1>5. ASSUME NEW t \in Thread, NEW h \in Handle, Spawn(t, h)
      PROVE  FoundInv'
  BY <1>5 DEF Spawn, Usable
<1>6. ASSUME NEW t \in Thread, SetName(t)
      PROVE  FoundInv'
  BY <1>6 DEF SetName, Drop
<1>7. ASSUME NEW t \in Thread, StartInsert(t)
      PROVE  FoundInv'
  BY <1>7 DEF StartInsert
<1>8. ASSUME NEW t \in Thread, SelfScan(t)
      PROVE  FoundInv'
  BY <1>8 DEF SelfScan, Matches, FirstMatch
<1>9. ASSUME NEW t \in Thread, Rename(t)
      PROVE  FoundInv'
  BY <1>9 DEF Rename, Drop
<1>10. ASSUME NEW t \in Thread, ExitCheck(t)
      PROVE  FoundInv'
  BY <1>10 DEF ExitCheck
<1>11. ASSUME NEW t \in Thread, Delete(t)
      PROVE  FoundInv'
  BY <1>11 DEF Delete, Drop
<1>12. ASSUME NEW t \in Thread, PthreadExit(t)
      PROVE  FoundInv'
  BY <1>12 DEF PthreadExit, Joinable
<1>13. ASSUME NEW t \in Thread, PthreadJoin(t)
      PROVE  FoundInv'
  BY <1>13 DEF PthreadJoin
<1>14. ASSUME NEW t \in Thread, BadUse(t)
      PROVE  FoundInv'
  BY <1>14 DEF BadUse, Dangling
<1>15. ASSUME NEW t \in Thread, NEW n \in Thread, NEW d \in BOOLEAN, ThreadCreate(t, n, d)
      PROVE  FoundInv'
  BY <1>15 DEF ThreadCreate
<1>16. ASSUME NEW t \in Thread, CallRename(t)
      PROVE  FoundInv'
  BY <1>16 DEF CallRename
<1>17. ASSUME NEW t \in Thread, CallExit(t)
      PROVE  FoundInv'
  BY <1>17 DEF CallExit
<1>18. ASSUME NEW t \in Thread, ReturnFromRoutine(t)
      PROVE  FoundInv'
  BY <1>18 DEF ReturnFromRoutine
<1>19. ASSUME NEW t \in Thread, NEW n \in Thread, ThreadJoin(t, n)
      PROVE  FoundInv'
  BY <1>19 DEF ThreadJoin
<1>20. ASSUME ThreadShutdown
      PROVE  FoundInv'
  BY <1>20 DEF ThreadShutdown
<1>21. ASSUME UNCHANGED vars
      PROVE  FoundInv'
  BY <1>21 DEF vars
<1> HIDE DEF IInv, TypeOK, LockInv, PrivateInv, IdInv, Issued, TreeInv, HandleInv, InKernel, OwnInv, FoundInv, Owns
<1> QED
  BY <1>1, <1>2, <1>3, <1>4, <1>5, <1>6, <1>7, <1>8, <1>9, <1>10, <1>11, <1>12, <1>13, <1>14, <1>15, <1>16, <1>17, <1>18, <1>19, <1>20, <1>21 DEF Next, LibraryStep, CallerStep, Finished

(* thread_initialize establishes the invariant.                            *)
LEMMA InitIInv == Init => IInv
<1> SUFFICES ASSUME Init PROVE IInv
  OBVIOUS
<1> USE NullAssumption, MainAssumption, MaxRenamesAssumption
        DEF Init, Pcs, RunPcs, EndPcs, LockPcs, DerefPcs, SelfPcs, DeletePcs,
            CreatePcs, OwnPcs, FoundPcs
<1>1. TypeOK
  BY DEF TypeOK
<1>2. LockInv /\ PrivateInv
  BY DEF LockInv, PrivateInv
<1>3. IdInv /\ TreeInv
  BY DEF IdInv, Issued, TreeInv
<1>4. HandleInv
  BY DEF HandleInv, InKernel
<1>5. OwnInv /\ FoundInv
  BY DEF OwnInv, Owns, FoundInv
<1> QED
  BY <1>1, <1>2, <1>3, <1>4, <1>5 DEF IInv

(* IInv is an inductive invariant of the registry.                         *)
THEOREM Inductive == Spec => []IInv
<1>1. Init => IInv
  BY InitIInv
<1>2. IInv /\ [Next]_vars => IInv'
  BY TypeStep, LockStep, PrivateStep, IdStep, TreeStep, HandleStep, OwnStep,
     FoundStep DEF IInv
<1> QED
  BY <1>1, <1>2, PTL DEF Spec

(* The registry's variables keep their types.                              *)
THEOREM TypeCorrect == Spec => []TypeOK
<1>1. IInv => TypeOK
  BY DEF IInv
<1> QED
  BY <1>1, Inductive, PTL

(* avl_delete, which compares ids, can only find the record it was given.  *)
THEOREM IdsAreUnique == Spec => []UniqueIds
<1>1. IInv => UniqueIds
  BY DEF IInv, TypeOK, IdInv, Issued, TreeInv, UniqueIds
<1> QED
  BY <1>1, Inductive, PTL

(* A running thread's record is in the tree and allocated, although        *)
(* pthread_t values are recycled.                                          *)
THEOREM RunningIsRegistered == Spec => []RunningRegistered
<1>1. IInv => RunningRegistered
  BY DEF IInv, TreeInv, RunningRegistered
<1> QED
  BY <1>1, Inductive, PTL

(* thread_join finds the record it is to delete.                           *)
THEOREM JoinDeletesRecord == Spec => []JoinFindsRecord
<1>1. IInv => JoinFindsRecord
  BY DEF IInv, OwnInv, JoinFindsRecord
<1> QED
  BY <1>1, Inductive, PTL

(* thread_self never returns NULL to a registered thread, nor the record   *)
(* of another thread that is still there.                                  *)
THEOREM SelfIsOwnOrGone == Spec => []SelfOwnOrGone
<1>1. IInv => SelfOwnOrGone
  BY NullAssumption DEF IInv, FoundInv, FoundPcs, SelfOwnOrGone
<1> QED
  BY <1>1, Inductive, PTL

(* The two places where a freed record can be used; thread_join and        *)
(* avl_delete are not among them.                                          *)
THEOREM DanglingPlaces == Spec => []DanglingOnlyThere
<1>1. IInv => DanglingOnlyThere
  <2> SUFFICES ASSUME IInv, NEW t \in Thread, pc[t] \in DerefPcs, Dangling(t)
               PROVE  \/ pc[t] = "setname" /\ detached[arg[t]]
                      \/ pc[t] \in {"rename", "exit"} /\ arg[t] # t
    BY DEF DanglingOnlyThere
  <2> USE DEF IInv, DerefPcs, DeletePcs
  <2>1. arg[t] \in Thread /\ rec[arg[t]] = "freed" /\ arg[t] \notin tree
    BY DEF Dangling, TypeOK, TreeInv
  <2>2. CASE pc[t] \in DeletePcs
    BY <2>1, <2>2 DEF OwnInv, FoundInv
  <2>3. CASE pc[t] \in {"rename", "exit"}
    BY <2>1, <2>3 DEF TreeInv, RunPcs
  <2>4. CASE pc[t] \in {"setname", "join"}
    <3>1. pc[Main] # "down"
      BY <2>4, MainAssumption DEF PrivateInv, EndPcs
    <3>2. pc[arg[t]] \notin {"unborn", "start"} \cup RunPcs
      BY <2>1, <2>4 DEF TreeInv, OwnInv, Owns, OwnPcs
    <3>3. pc[arg[t]] # "down"
      BY <3>1, <2>1 DEF PrivateInv
    <3>4. CASE ~detached[arg[t]]
      <4>1. pc[arg[t]] # "gone"
        BY <2>1, <2>4, <3>4 DEF OwnInv, Owns, OwnPcs
      <4>2. pc[arg[t]] \in {"die", "dead"}
        BY <2>1, <3>2, <3>3, <4>1 DEF TypeOK, Pcs, EndPcs
      <4> QED
        BY <2>1, <3>1, <3>4, <4>2 DEF TreeInv
    <3>5. CASE detached[arg[t]]
      BY <2>1, <2>4, <3>5 DEF OwnInv
    <3> QED
      BY <3>4, <3>5
  <2> QED
    BY <2>2, <2>3, <2>4
<1> QED
  BY <1>1, Inductive, PTL

(* Every action frees what it takes out of the tree, and frees it for good. *)
LEMMA KeepsFreedStep == IInv /\ [Next]_vars => KeepsFreed
<1> SUFFICES ASSUME IInv, [Next]_vars PROVE KeepsFreed
  OBVIOUS
<1> USE NullAssumption, MainAssumption DEF IInv, TypeOK, LockInv, PrivateInv, TreeInv, KeepsFreed, Goto, Pcs, RunPcs, EndPcs, LockPcs, DerefPcs, SelfPcs, DeletePcs, CreatePcs, OwnPcs, FoundPcs
<1>1. ASSUME NEW t \in Thread, MutexLock(t)
      PROVE  KeepsFreed
  BY <1>1 DEF MutexLock
<1>2. ASSUME NEW t \in Thread, CreateReadId(t)
      PROVE  KeepsFreed
  BY <1>2 DEF CreateReadId
<1>3. ASSUME NEW t \in Thread, CreateIncId(t)
      PROVE  KeepsFreed
  BY <1>3 DEF CreateIncId
<1>4. ASSUME NEW t \in Thread, SpawnFail(t)
      PROVE  KeepsFreed
  BY <1>4 DEF SpawnFail, Drop
<1>5. ASSUME NEW t \in Thread, NEW h \in Handle, Spawn(t, h)
      PROVE  KeepsFreed
  BY <1>5 DEF Spawn, Usable
<1>6. ASSUME NEW t \in Thread, SetName(t)
      PROVE  KeepsFreed
  BY <1>6 DEF SetName, Drop
<1>7. ASSUME NEW t \in Thread, StartInsert(t)
      PROVE  KeepsFreed
  BY <1>7 DEF StartInsert
<1>8. ASSUME NEW t \in Thread, SelfScan(t)
      PROVE  KeepsFreed
  BY <1>8 DEF SelfScan, Matches, FirstMatch
<1>9. ASSUME NEW t \in Thread, Rename(t)
      PROVE  KeepsFreed
  BY <1>9 DEF Rename, Drop
<1>10. ASSUME NEW t \in Thread, ExitCheck(t)
      PROVE  KeepsFreed
  BY <1>10 DEF ExitCheck
<1>11. ASSUME NEW t \in Thread, Delete(t)
      PROVE  KeepsFreed
  BY <1>11 DEF Delete, Drop
<1>12. ASSUME NEW t \in Thread, PthreadExit(t)
      PROVE  KeepsFreed
  BY <1>12 DEF PthreadExit, Joinable
<1>13. ASSUME NEW t \in Thread, PthreadJoin(t)
      PROVE  KeepsFreed
  BY <1>13 DEF PthreadJoin
<1>14. ASSUME NEW t \in Thread, BadUse(t)
      PROVE  KeepsFreed
  BY <1>14 DEF BadUse, Dangling
<1>15. ASSUME NEW t \in Thread, NEW n \in Thread, NEW d \in BOOLEAN, ThreadCreate(t, n, d)
      PROVE  KeepsFreed
  BY <1>15 DEF ThreadCreate
<1>16. ASSUME NEW t \in Thread, CallRename(t)
      PROVE  KeepsFreed
  BY <1>16 DEF CallRename
<1>17. ASSUME NEW t \in Thread, CallExit(t)
      PROVE  KeepsFreed
  BY <1>17 DEF CallExit
<1>18. ASSUME NEW t \in Thread, ReturnFromRoutine(t)
      PROVE  KeepsFreed
  BY <1>18 DEF ReturnFromRoutine
<1>19. ASSUME NEW t \in Thread, NEW n \in Thread, ThreadJoin(t, n)
      PROVE  KeepsFreed
  BY <1>19 DEF ThreadJoin
<1>20. ASSUME ThreadShutdown
      PROVE  KeepsFreed
  BY <1>20 DEF ThreadShutdown
<1>21. ASSUME UNCHANGED vars
      PROVE  KeepsFreed
  BY <1>21 DEF vars
<1> HIDE DEF IInv, TypeOK, LockInv, PrivateInv, TreeInv, KeepsFreed
<1> QED
  BY <1>1, <1>2, <1>3, <1>4, <1>5, <1>6, <1>7, <1>8, <1>9, <1>10, <1>11, <1>12, <1>13, <1>14, <1>15, <1>16, <1>17, <1>18, <1>19, <1>20, <1>21 DEF Next, LibraryStep, CallerStep, Finished

(* The registry never goes back: ids grow, and a freed record stays out of *)
(* the tree.                                                               *)
THEOREM Monotone == Spec => NoResurrection
<1>1. IInv /\ [Next]_vars => [KeepsFreed]_vars
  BY KeepsFreedStep
<1> QED
  BY <1>1, Inductive, PTL DEF Spec, NoResurrection


(* Without reuse of pthread_t values a thread finds its own record only,   *)
(* and what a detached thread leaves behind is nothing.                    *)
LEMMA FreshStep == ~Recycle /\ IInv /\ FreshInv /\ [Next]_vars => FreshInv'
<1> SUFFICES ASSUME ~Recycle, IInv, FreshInv, [Next]_vars PROVE FreshInv'
  OBVIOUS
<1> USE NullAssumption, MainAssumption, HandleAssumption DEF IInv, TypeOK, LockInv, PrivateInv, IdInv, Issued, TreeInv, HandleInv, InKernel, OwnInv, FoundInv, Owns, FreshInv, NoStaleRecord, RenamesCurrent, Goto, Pcs, RunPcs, EndPcs, LockPcs, DerefPcs, SelfPcs, DeletePcs, CreatePcs, OwnPcs, FoundPcs
<1>1. ASSUME NEW t \in Thread, MutexLock(t)
      PROVE  FreshInv'
  BY <1>1 DEF MutexLock
<1>2. ASSUME NEW t \in Thread, CreateReadId(t)
      PROVE  FreshInv'
  BY <1>2 DEF CreateReadId
<1>3. ASSUME NEW t \in Thread, CreateIncId(t)
      PROVE  FreshInv'
  BY <1>3 DEF CreateIncId
<1>4. ASSUME NEW t \in Thread, SpawnFail(t)
      PROVE  FreshInv'
  <2> DEFINE n == arg[t]
  <2>1. n \in Thread /\ n # t /\ pc[n] = "unborn" /\ n \notin tree /\ pc[t] = "spawn"
    BY <1>4 DEF SpawnFail
  <2>2. /\ pc' = [pc EXCEPT ![t] = "run", ![n] = "gone"]
        /\ arg' = [arg EXCEPT ![t] = NULL]
        /\ UNCHANGED <<tree, handle, namedBy, detached>>
    BY <1>4 DEF SpawnFail, Drop
  <2> HIDE DEF n
  <2>3. \A u \in Thread \ {t, n} : pc'[u] = pc[u] /\ arg'[u] = arg[u]
    BY <2>1, <2>2
  <2>4. pc'[t] = "run" /\ pc'[n] = "gone"
    BY <2>1, <2>2
  <2>5. NoStaleRecord'
    <3> SUFFICES ASSUME NEW r \in tree, pc'[r] = "gone"
                 PROVE  \E u \in Thread : pc'[u] = "delete_join" /\ arg'[u] = r
      BY <2>2
    <3>1. r \in Thread /\ pc[r] = "gone"
      BY <2>1, <2>3, <2>4
    <3>2. PICK u \in Thread : pc[u] = "delete_join" /\ arg[u] = r
      BY <3>1
    <3> QED
      BY <2>1, <3>2, <2>3
  <2>6. \A u \in Thread : pc'[u] \in FoundPcs => arg'[u] = u
    BY <2>3, <2>4
  <2>7. \A u \in Thread : pc'[u] = "die" /\ detached'[u] => u \notin tree'
    BY <2>2, <2>3, <2>4
  <2> QED
    <3>1. RenamesCurrent' /\ \A u, v \in Thread : handle'[u] = handle'[v] /\ handle'[u] # NULL => u = v
      BY <2>2
    <3> HIDE DEF NoStaleRecord, RenamesCurrent, FoundPcs
    <3> QED
      BY <2>5, <2>6, <2>7, <3>1
<1>5. ASSUME NEW t \in Thread, NEW h \in Handle, Spawn(t, h)
      PROVE  FreshInv'
  <2> DEFINE n == arg[t]
  <2>1. n \in Thread /\ n # t /\ pc[n] = "unborn" /\ n \notin tree /\ pc[t] = "spawn"
    BY <1>5 DEF Spawn
  <2>2. /\ pc' = [pc EXCEPT ![t] = "setname", ![n] = "start"]
        /\ handle' = [handle EXCEPT ![n] = h]
        /\ UNCHANGED <<tree, arg, namedBy, detached>>
    BY <1>5 DEF Spawn
  <2>3. \A u \in Thread : handle[u] # h
    BY <1>5 DEF Spawn, Usable
  <2> HIDE DEF n
  <2>4. \A u \in Thread \ {t, n} : pc'[u] = pc[u] /\ arg'[u] = arg[u]
    BY <2>1, <2>2
  <2>5. pc'[t] = "setname" /\ pc'[n] = "start"
    BY <2>1, <2>2
  <2>6. NoStaleRecord'
    <3> SUFFICES ASSUME NEW r \in tree, pc'[r] = "gone"
                 PROVE  \E u \in Thread : pc'[u] = "delete_join" /\ arg'[u] = r
      BY <2>2
    <3>1. r \in Thread /\ pc[r] = "gone"
      BY <2>1, <2>4, <2>5
    <3>2. PICK u \in Thread : pc[u] = "delete_join" /\ arg[u] = r
      BY <3>1
    <3> QED
      BY <2>1, <3>2, <2>4
  <2>7. \A u, v \in Thread : handle'[u] = handle'[v] /\ handle'[u] # NULL => u = v
    BY <2>1, <2>2, <2>3
  <2>8. \A u \in Thread : pc'[u] \in FoundPcs => arg'[u] = u
    BY <2>4, <2>5
  <2>9. \A u \in Thread : pc'[u] = "die" /\ detached'[u] => u \notin tree'
    BY <2>2, <2>4, <2>5
  <2> QED
    BY <2>2, <2>6, <2>7, <2>8, <2>9
<1>6. ASSUME NEW t \in Thread, SetName(t)
      PROVE  FreshInv'
  BY <1>6 DEF SetName, Drop
<1>7. ASSUME NEW t \in Thread, StartInsert(t)
      PROVE  FreshInv'
  BY <1>7 DEF StartInsert
<1>8. ASSUME NEW t \in Thread, SelfScan(t)
      PROVE  FreshInv'
  BY <1>8 DEF SelfScan, Matches, FirstMatch
<1>9. ASSUME NEW t \in Thread, Rename(t)
      PROVE  FreshInv'
  BY <1>9 DEF Rename, Drop
<1>10. ASSUME NEW t \in Thread, ExitCheck(t)
      PROVE  FreshInv'
  BY <1>10 DEF ExitCheck
<1>11. ASSUME NEW t \in Thread, Delete(t)
      PROVE  FreshInv'
  BY <1>11 DEF Delete, Drop
<1>12. ASSUME NEW t \in Thread, PthreadExit(t)
      PROVE  FreshInv'
  BY <1>12 DEF PthreadExit, Joinable
<1>13. ASSUME NEW t \in Thread, PthreadJoin(t)
      PROVE  FreshInv'
  BY <1>13, SMTT(60) DEF PthreadJoin
<1>14. ASSUME NEW t \in Thread, BadUse(t)
      PROVE  FreshInv'
  BY <1>14 DEF BadUse, Dangling
<1>15. ASSUME NEW t \in Thread, NEW n \in Thread, NEW d \in BOOLEAN, ThreadCreate(t, n, d)
      PROVE  FreshInv'
  BY <1>15 DEF ThreadCreate
<1>16. ASSUME NEW t \in Thread, CallRename(t)
      PROVE  FreshInv'
  BY <1>16 DEF CallRename
<1>17. ASSUME NEW t \in Thread, CallExit(t)
      PROVE  FreshInv'
  BY <1>17 DEF CallExit
<1>18. ASSUME NEW t \in Thread, ReturnFromRoutine(t)
      PROVE  FreshInv'
  BY <1>18 DEF ReturnFromRoutine
<1>19. ASSUME NEW t \in Thread, NEW n \in Thread, ThreadJoin(t, n)
      PROVE  FreshInv'
  BY <1>19 DEF ThreadJoin
<1>20. ASSUME ThreadShutdown
      PROVE  FreshInv'
  BY <1>20 DEF ThreadShutdown
<1>21. ASSUME UNCHANGED vars
      PROVE  FreshInv'
  BY <1>21 DEF vars
<1> HIDE DEF IInv, TypeOK, LockInv, PrivateInv, IdInv, Issued, TreeInv, HandleInv, InKernel, OwnInv, FoundInv, Owns, FreshInv, NoStaleRecord, RenamesCurrent
<1> QED
  BY <1>1, <1>2, <1>3, <1>4, <1>5, <1>6, <1>7, <1>8, <1>9, <1>10, <1>11, <1>12, <1>13, <1>14, <1>15, <1>16, <1>17, <1>18, <1>19, <1>20, <1>21 DEF Next, LibraryStep, CallerStep, Finished

(* If no pthread_t value is used twice, the registry keeps no record of a  *)
(* thread that is gone, and thread_rename renames the current thread: both *)
(* failures of the library come from the reuse of handles alone.           *)
THEOREM FreshHandles ==
    ASSUME ~Recycle
    PROVE  Spec => [](NoStaleRecord /\ RenamesCurrent)
<1>1. Init => FreshInv
  BY NullAssumption, MainAssumption
     DEF Init, FreshInv, FoundPcs, NoStaleRecord, RenamesCurrent
<1>2. IInv /\ FreshInv /\ [Next]_vars => FreshInv'
  BY FreshStep
<1>3. FreshInv => NoStaleRecord /\ RenamesCurrent
  BY DEF FreshInv
<1> QED
  BY <1>1, <1>2, <1>3, Inductive, PTL DEF Spec

=============================================================================
