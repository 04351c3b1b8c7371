--------------------------- MODULE LibraryProofs ----------------------------
(***************************************************************************)
(* Proofs about Library, for every set of files, workers and collectors.   *)
(*                                                                         *)
(* The layers of DocumentsProofs without its bases: the types, the rows,   *)
(* the passes, and what holds of a key that nothing has contended for.     *)
(***************************************************************************)
EXTENDS Library, TLAPS

(* How the rows of one upload go together; a request found a session.      *)
RowInv ==
    /\ \A f \in File : session[f] = "none" =>
          /\ file[f] = "none" /\ object[f] = "absent"
          /\ f \notin inflight \cup expired
    /\ \A w \in Worker : pc[w] # "idle" => session[target[w]] # "none"

PassInv == \A g \in Collector :
    phase[g] \in {"idle", "expired"} => todo[g] = {} /\ done[g] = {}

(* A key nothing contends for: its completion is alone and finds no file,  *)
(* a pass holds it for what it is, and it loses its bytes with its file.   *)
Quiet(f) ==
    /\ \A w \in Worker : Completes(w, f) =>
          /\ \A v \in Worker : Completes(v, f) => v = w
          /\ \A g \in Collector : f \notin todo[g] \cup done[g]
          /\ file[f] = "none" /\ session[f] # "completed"
          /\ pc[w] = "insert" => object[f] # "absent"
    /\ file[f] # "none" => session[f] = "completed"
    /\ GetFile(f) => object[f] # "absent"
    /\ \A g \in Collector : f \in todo[g] \cup done[g] =>
          /\ phase[g] = "expire" => file[f] = "none" /\ session[f] # "completed"
          /\ phase[g] = "files" => ~GetFile(f) /\ session[f] = "completed"
    /\ \A g \in Collector : f \in done[g] /\ phase[g] = "files" =>
          object[f] = "absent" \/ f \in late
    /\ session[f] = "completed" /\ file[f] = "none" =>
          object[f] = "absent" \/ f \in late
QuietInv == \A f \in File : f \notin clash => Quiet(f)

IInv == RowInv /\ PassInv /\ QuietInv

(* Steps of Lifecycle, item by item.                                       *)
Same == \A f \in File : LifeOf(f)' = LifeOf(f)
Retires(fs) == \A f \in File : LifeOf(f)' =
    IF f \in fs /\ LifeOf(f) # "contended" THEN "retired" ELSE LifeOf(f)
Contends(fs) == \A f \in File : LifeOf(f)' =
    IF f \in fs THEN "contended" ELSE LifeOf(f)
Publishes(u) == \A f \in File : LifeOf(f)' =
    IF f = u THEN "shown" ELSE LifeOf(f)

-----------------------------------------------------------------------------

(* Every step keeps the types.                                             *)
LEMMA TypeOKNext == TypeOK /\ [Next]_vars => TypeOK'
<1> SUFFICES ASSUME TypeOK, [Next]_vars PROVE TypeOK'
    OBVIOUS
<1> USE DEF TypeOK, SessionState, FileState, ObjectState, Point, Phase, vars,
   rows, store, worker, pass
<1>1. ASSUME NEW f \in File, CreateUploadUrl(f) PROVE TypeOK'
    BY <1>1 DEF CreateUploadUrl, GetUploadSession, CreateUploadSession
<1>2. ASSUME NEW f \in File, DeleteFile(f) PROVE TypeOK'
    BY <1>2 DEF DeleteFile, SoftDeleteFile, GetFile
<1>3. ASSUME NEW f \in File, BeginPut(f) PROVE TypeOK'
    BY <1>3 DEF BeginPut
<1>4. ASSUME NEW f \in File, NEW size \in {"declared", "other"}, LandPut(f,
   size) PROVE TypeOK'
    BY <1>4 DEF LandPut
<1>5. ASSUME NEW f \in File, AbortPut(f) PROVE TypeOK'
    BY <1>5 DEF AbortPut
<1>6. ASSUME NEW f \in File, Expire(f) PROVE TypeOK'
    BY <1>6 DEF Expire
<1>7. ASSUME NEW w \in Worker, NEW f \in File, CompleteUpload(w, f) PROVE
   TypeOK'
    BY <1>7 DEF CompleteUpload, GetUploadSession, Goto
<1>8. ASSUME NEW w \in Worker, NEW f \in File, PreviewFile(w, f) PROVE TypeOK'
    BY <1>8 DEF PreviewFile, GetFile, Goto
<1>9. ASSUME NEW w \in Worker, CompleteExpired(w) PROVE TypeOK'
    BY <1>9 DEF CompleteExpired, SetUploadSessionStatus, Return
<1>10. ASSUME NEW w \in Worker, CompleteStat(w) PROVE TypeOK'
    BY <1>10 DEF CompleteStat, Return, Goto
<1>11. ASSUME NEW w \in Worker, CompleteFailed(w) PROVE TypeOK'
    BY <1>11 DEF CompleteFailed, SetUploadSessionStatus, Goto
<1>12. ASSUME NEW w \in Worker, CompleteRemove(w) PROVE TypeOK'
    BY <1>12 DEF CompleteRemove, Return
<1>13. ASSUME NEW w \in Worker, CompleteInsert(w) PROVE TypeOK'
    BY <1>13 DEF CompleteInsert, CreateFile, SetUploadSessionStatus, Return
<1>14. ASSUME NEW w \in Worker, PreviewRead(w) PROVE TypeOK'
    BY <1>14 DEF PreviewRead, Return
<1>15. ASSUME NEW w \in Worker, Abort(w) PROVE TypeOK'
    BY <1>15 DEF Abort, Return
<1>16. ASSUME NEW g \in Collector, ExpireStaleSessions(g) PROVE TypeOK'
    BY <1>16 DEF ExpireStaleSessions, List, ListExpiredUploadSessions
<1>17. ASSUME NEW g \in Collector, ExpireStaleSessionsCommit(g) PROVE TypeOK'
    BY <1>17 DEF ExpireStaleSessionsCommit, SetUploadSessionStatus, Finish
<1>18. ASSUME NEW g \in Collector, NEW page \in SUBSET File,
   PurgeDeletedFiles(g, page) PROVE TypeOK'
    BY <1>18 DEF PurgeDeletedFiles, List, ListDeleted
<1>19. ASSUME NEW g \in Collector, PurgeDeletedFilesCommit(g) PROVE TypeOK'
    BY <1>19 DEF PurgeDeletedFilesCommit, HardDeleteFile, Finish
<1>20. ASSUME NEW g \in Collector, NEW f \in File, Remove(g, f) PROVE TypeOK'
    BY <1>20 DEF Remove
<1>21. ASSUME NEW g \in Collector, NEW f \in File, RemoveFails(g, f) PROVE
   TypeOK'
    BY <1>21 DEF RemoveFails
<1>22. ASSUME NEW g \in Collector, Crash(g) PROVE TypeOK'
    BY <1>22 DEF Crash
<1>23. CASE UNCHANGED vars
    BY <1>23 DEF vars, rows, store, worker, pass
<1> HIDE DEF TypeOK, SessionState, FileState, ObjectState, Point, Phase, vars,
   rows, store, worker, pass
<1>24. CASE UserStep
    BY <1>24, <1>1, <1>2 DEF UserStep
<1>25. CASE StoreStep
    BY <1>25, <1>3, <1>4, <1>5, <1>6 DEF StoreStep
<1>26. ASSUME NEW w \in Worker, WorkerStep(w) PROVE TypeOK'
    BY <1>26, <1>7, <1>8, <1>9, <1>10, <1>11, <1>12, <1>13, <1>14, <1>15 DEF
       WorkerStep
<1>27. ASSUME NEW g \in Collector, run_storage_gc(g) PROVE TypeOK'
    BY <1>27, <1>16, <1>17, <1>18, <1>19, <1>20, <1>21, <1>22 DEF
       run_storage_gc
<1> QED BY <1>23, <1>24, <1>25, <1>26, <1>27 DEF Next

(* Every variable keeps its type.                                          *)
THEOREM TypeCorrect == Spec => []TypeOK
<1>1. Init => TypeOK
    BY DEF Init, TypeOK, SessionState, FileState, ObjectState, Point, Phase
<1> QED BY <1>1, TypeOKNext, PTL DEF Spec

(* Every step keeps RowInv.                                                *)
LEMMA RowInvNext == TypeOK /\ RowInv /\ [Next]_vars => RowInv'
<1> SUFFICES ASSUME TypeOK, RowInv, [Next]_vars PROVE RowInv'
    OBVIOUS
<1> USE DEF TypeOK, RowInv, vars, rows, store, worker, pass
<1>1. ASSUME NEW f \in File, CreateUploadUrl(f) PROVE RowInv'
    BY <1>1 DEF CreateUploadUrl, GetUploadSession, CreateUploadSession
<1>2. ASSUME NEW f \in File, DeleteFile(f) PROVE RowInv'
    BY <1>2 DEF DeleteFile, SoftDeleteFile, GetFile
<1>3. ASSUME NEW f \in File, BeginPut(f) PROVE RowInv'
    BY <1>3 DEF BeginPut
<1>4. ASSUME NEW f \in File, NEW size \in {"declared", "other"}, LandPut(f,
   size) PROVE RowInv'
    BY <1>4 DEF LandPut
<1>5. ASSUME NEW f \in File, AbortPut(f) PROVE RowInv'
    BY <1>5 DEF AbortPut
<1>6. ASSUME NEW f \in File, Expire(f) PROVE RowInv'
    BY <1>6 DEF Expire
<1>7. ASSUME NEW w \in Worker, NEW f \in File, CompleteUpload(w, f) PROVE
   RowInv'
    BY <1>7 DEF CompleteUpload, GetUploadSession, Goto
<1>8. ASSUME NEW w \in Worker, NEW f \in File, PreviewFile(w, f) PROVE RowInv'
    BY <1>8 DEF PreviewFile, GetFile, Goto
<1>9. ASSUME NEW w \in Worker, CompleteExpired(w) PROVE RowInv'
    BY <1>9 DEF CompleteExpired, SetUploadSessionStatus, Return
<1>10. ASSUME NEW w \in Worker, CompleteStat(w) PROVE RowInv'
    BY <1>10 DEF CompleteStat, Return, Goto
<1>11. ASSUME NEW w \in Worker, CompleteFailed(w) PROVE RowInv'
    BY <1>11 DEF CompleteFailed, SetUploadSessionStatus, Goto
<1>12. ASSUME NEW w \in Worker, CompleteRemove(w) PROVE RowInv'
    BY <1>12 DEF CompleteRemove, Return
<1>13. ASSUME NEW w \in Worker, CompleteInsert(w) PROVE RowInv'
    BY <1>13 DEF CompleteInsert, CreateFile, SetUploadSessionStatus, Return
<1>14. ASSUME NEW w \in Worker, PreviewRead(w) PROVE RowInv'
    BY <1>14 DEF PreviewRead, Return
<1>15. ASSUME NEW w \in Worker, Abort(w) PROVE RowInv'
    BY <1>15 DEF Abort, Return
<1>16. ASSUME NEW g \in Collector, ExpireStaleSessions(g) PROVE RowInv'
    BY <1>16 DEF ExpireStaleSessions, List, ListExpiredUploadSessions
<1>17. ASSUME NEW g \in Collector, ExpireStaleSessionsCommit(g) PROVE RowInv'
    BY <1>17 DEF ExpireStaleSessionsCommit, SetUploadSessionStatus, Finish
<1>18. ASSUME NEW g \in Collector, NEW page \in SUBSET File,
   PurgeDeletedFiles(g, page) PROVE RowInv'
    BY <1>18 DEF PurgeDeletedFiles, List, ListDeleted
<1>19. ASSUME NEW g \in Collector, PurgeDeletedFilesCommit(g) PROVE RowInv'
    BY <1>19 DEF PurgeDeletedFilesCommit, HardDeleteFile, Finish
<1>20. ASSUME NEW g \in Collector, NEW f \in File, Remove(g, f) PROVE RowInv'
    BY <1>20 DEF Remove
<1>21. ASSUME NEW g \in Collector, NEW f \in File, RemoveFails(g, f) PROVE
   RowInv'
    BY <1>21 DEF RemoveFails
<1>22. ASSUME NEW g \in Collector, Crash(g) PROVE RowInv'
    BY <1>22 DEF Crash
<1>23. CASE UNCHANGED vars
    BY <1>23 DEF vars, rows, store, worker, pass
<1> HIDE DEF TypeOK, RowInv, vars, rows, store, worker, pass
<1>24. CASE UserStep
    BY <1>24, <1>1, <1>2 DEF UserStep
<1>25. CASE StoreStep
    BY <1>25, <1>3, <1>4, <1>5, <1>6 DEF StoreStep
<1>26. ASSUME NEW w \in Worker, WorkerStep(w) PROVE RowInv'
    BY <1>26, <1>7, <1>8, <1>9, <1>10, <1>11, <1>12, <1>13, <1>14, <1>15 DEF
       WorkerStep
<1>27. ASSUME NEW g \in Collector, run_storage_gc(g) PROVE RowInv'
    BY <1>27, <1>16, <1>17, <1>18, <1>19, <1>20, <1>21, <1>22 DEF
       run_storage_gc
<1> QED BY <1>23, <1>24, <1>25, <1>26, <1>27 DEF Next

(* Every step keeps PassInv.                                               *)
LEMMA PassInvNext == TypeOK /\ PassInv /\ [Next]_vars => PassInv'
<1> SUFFICES ASSUME TypeOK, PassInv, [Next]_vars PROVE PassInv'
    OBVIOUS
<1> USE DEF TypeOK, PassInv, vars, rows, store, worker, pass
<1>1. ASSUME NEW f \in File, CreateUploadUrl(f) PROVE PassInv'
    BY <1>1 DEF CreateUploadUrl, GetUploadSession, CreateUploadSession
<1>2. ASSUME NEW f \in File, DeleteFile(f) PROVE PassInv'
    BY <1>2 DEF DeleteFile, SoftDeleteFile, GetFile
<1>3. ASSUME NEW f \in File, BeginPut(f) PROVE PassInv'
    BY <1>3 DEF BeginPut
<1>4. ASSUME NEW f \in File, NEW size \in {"declared", "other"}, LandPut(f,
   size) PROVE PassInv'
    BY <1>4 DEF LandPut
<1>5. ASSUME NEW f \in File, AbortPut(f) PROVE PassInv'
    BY <1>5 DEF AbortPut
<1>6. ASSUME NEW f \in File, Expire(f) PROVE PassInv'
    BY <1>6 DEF Expire
<1>7. ASSUME NEW w \in Worker, NEW f \in File, CompleteUpload(w, f) PROVE
   PassInv'
    BY <1>7 DEF CompleteUpload, GetUploadSession, Goto
<1>8. ASSUME NEW w \in Worker, NEW f \in File, PreviewFile(w, f) PROVE
   PassInv'
    BY <1>8 DEF PreviewFile, GetFile, Goto
<1>9. ASSUME NEW w \in Worker, CompleteExpired(w) PROVE PassInv'
    BY <1>9 DEF CompleteExpired, SetUploadSessionStatus, Return
<1>10. ASSUME NEW w \in Worker, CompleteStat(w) PROVE PassInv'
    BY <1>10 DEF CompleteStat, Return, Goto
<1>11. ASSUME NEW w \in Worker, CompleteFailed(w) PROVE PassInv'
    BY <1>11 DEF CompleteFailed, SetUploadSessionStatus, Goto
<1>12. ASSUME NEW w \in Worker, CompleteRemove(w) PROVE PassInv'
    BY <1>12 DEF CompleteRemove, Return
<1>13. ASSUME NEW w \in Worker, CompleteInsert(w) PROVE PassInv'
    BY <1>13 DEF CompleteInsert, CreateFile, SetUploadSessionStatus, Return
<1>14. ASSUME NEW w \in Worker, PreviewRead(w) PROVE PassInv'
    BY <1>14 DEF PreviewRead, Return
<1>15. ASSUME NEW w \in Worker, Abort(w) PROVE PassInv'
    BY <1>15 DEF Abort, Return
<1>16. ASSUME NEW g \in Collector, ExpireStaleSessions(g) PROVE PassInv'
    BY <1>16 DEF ExpireStaleSessions, List, ListExpiredUploadSessions
<1>17. ASSUME NEW g \in Collector, ExpireStaleSessionsCommit(g) PROVE PassInv'
    BY <1>17 DEF ExpireStaleSessionsCommit, SetUploadSessionStatus, Finish
<1>18. ASSUME NEW g \in Collector, NEW page \in SUBSET File,
   PurgeDeletedFiles(g, page) PROVE PassInv'
    BY <1>18 DEF PurgeDeletedFiles, List, ListDeleted
<1>19. ASSUME NEW g \in Collector, PurgeDeletedFilesCommit(g) PROVE PassInv'
    BY <1>19 DEF PurgeDeletedFilesCommit, HardDeleteFile, Finish
<1>20. ASSUME NEW g \in Collector, NEW f \in File, Remove(g, f) PROVE PassInv'
    BY <1>20 DEF Remove
<1>21. ASSUME NEW g \in Collector, NEW f \in File, RemoveFails(g, f) PROVE
   PassInv'
    BY <1>21 DEF RemoveFails
<1>22. ASSUME NEW g \in Collector, Crash(g) PROVE PassInv'
    BY <1>22 DEF Crash
<1>23. CASE UNCHANGED vars
    BY <1>23 DEF vars, rows, store, worker, pass
<1> HIDE DEF TypeOK, PassInv, vars, rows, store, worker, pass
<1>24. CASE UserStep
    BY <1>24, <1>1, <1>2 DEF UserStep
<1>25. CASE StoreStep
    BY <1>25, <1>3, <1>4, <1>5, <1>6 DEF StoreStep
<1>26. ASSUME NEW w \in Worker, WorkerStep(w) PROVE PassInv'
    BY <1>26, <1>7, <1>8, <1>9, <1>10, <1>11, <1>12, <1>13, <1>14, <1>15 DEF
       WorkerStep
<1>27. ASSUME NEW g \in Collector, run_storage_gc(g) PROVE PassInv'
    BY <1>27, <1>16, <1>17, <1>18, <1>19, <1>20, <1>21, <1>22 DEF
       run_storage_gc
<1> QED BY <1>23, <1>24, <1>25, <1>26, <1>27 DEF Next

(* Every step keeps QuietInv.                                              *)
LEMMA QuietInvNext == TypeOK /\ RowInv /\ PassInv /\ QuietInv /\ [Next]_vars
   => QuietInv'
<1> SUFFICES ASSUME TypeOK, RowInv, PassInv, QuietInv, [Next]_vars PROVE
   QuietInv'
    OBVIOUS
<1> USE DEF TypeOK, RowInv, PassInv, QuietInv, Quiet, Completes, GetFile,
   vars, rows, store, worker, pass
<1>1. ASSUME NEW f \in File, CreateUploadUrl(f) PROVE QuietInv'
    BY <1>1 DEF CreateUploadUrl, GetUploadSession, CreateUploadSession
<1>2. ASSUME NEW f \in File, DeleteFile(f) PROVE QuietInv'
    BY <1>2 DEF DeleteFile, SoftDeleteFile
<1>3. ASSUME NEW f \in File, BeginPut(f) PROVE QuietInv'
    BY <1>3 DEF BeginPut
<1>4. ASSUME NEW f \in File, NEW size \in {"declared", "other"}, LandPut(f,
   size) PROVE QuietInv'
    BY <1>4 DEF LandPut
<1>5. ASSUME NEW f \in File, AbortPut(f) PROVE QuietInv'
    BY <1>5 DEF AbortPut
<1>6. ASSUME NEW f \in File, Expire(f) PROVE QuietInv'
    BY <1>6 DEF Expire
<1>7. ASSUME NEW w \in Worker, NEW f \in File, CompleteUpload(w, f) PROVE
   QuietInv'
  <2>1. /\ pc' = [pc EXCEPT ![w] = IF f \in expired THEN "expire" ELSE "stat"]
        /\ target' = [target EXCEPT ![w] = f]
        /\ pc[w] = "idle" /\ session[f] = "initiated"
        /\ clash \subseteq clash'
        /\ UNCHANGED <<session, file, object, todo, done, phase, late>>
    BY <1>7 DEF CompleteUpload, Goto
  <2>2. ASSUME f \notin clash'
        PROVE  /\ \A v \in Worker : ~Completes(v, f)
               /\ \A g \in Collector : f \notin todo[g] \cup done[g]
    BY <1>7, <2>2 DEF CompleteUpload, Completing, Collecting
  <2>3. ASSUME NEW u \in File, u \notin clash'
        PROVE  Quiet(u)'
    <3>1. Quiet(u)
      BY <2>1, <2>3
    <3>2. CASE u = f
      BY <2>1, <2>2, <2>3, <3>1, <3>2
    <3>3. CASE u # f
      BY <2>1, <3>1, <3>3
    <3> QED BY <3>2, <3>3
  <2> QED BY <2>3
<1>8. ASSUME NEW w \in Worker, NEW f \in File, PreviewFile(w, f) PROVE
   QuietInv'
    BY <1>8 DEF PreviewFile, Goto
<1>9. ASSUME NEW w \in Worker, CompleteExpired(w) PROVE QuietInv'
    BY <1>9 DEF CompleteExpired, SetUploadSessionStatus, Return
<1>10. ASSUME NEW w \in Worker, CompleteStat(w) PROVE QuietInv'
    BY <1>10 DEF CompleteStat, Return, Goto
<1>11. ASSUME NEW w \in Worker, CompleteFailed(w) PROVE QuietInv'
    BY <1>11 DEF CompleteFailed, SetUploadSessionStatus, Goto
<1>12. ASSUME NEW w \in Worker, CompleteRemove(w) PROVE QuietInv'
    BY <1>12 DEF CompleteRemove, Return
<1>13. ASSUME NEW w \in Worker, CompleteInsert(w) PROVE QuietInv'
    BY <1>13 DEF CompleteInsert, CreateFile, SetUploadSessionStatus, Return
<1>14. ASSUME NEW w \in Worker, PreviewRead(w) PROVE QuietInv'
    BY <1>14 DEF PreviewRead, Return
<1>15. ASSUME NEW w \in Worker, Abort(w) PROVE QuietInv'
    BY <1>15 DEF Abort, Return
<1>16. ASSUME NEW g \in Collector, ExpireStaleSessions(g) PROVE QuietInv'
    BY <1>16 DEF ExpireStaleSessions, List, ListExpiredUploadSessions,
       Completing
<1>17. ASSUME NEW g \in Collector, ExpireStaleSessionsCommit(g) PROVE
   QuietInv'
    BY <1>17 DEF ExpireStaleSessionsCommit, SetUploadSessionStatus, Finish
<1>18. ASSUME NEW g \in Collector, NEW page \in SUBSET File,
   PurgeDeletedFiles(g, page) PROVE QuietInv'
    BY <1>18 DEF PurgeDeletedFiles, List, ListDeleted, Completing
<1>19. ASSUME NEW g \in Collector, PurgeDeletedFilesCommit(g) PROVE QuietInv'
    BY <1>19 DEF PurgeDeletedFilesCommit, HardDeleteFile, Finish
<1>20. ASSUME NEW g \in Collector, NEW f \in File, Remove(g, f) PROVE
   QuietInv'
  <2>1. /\ object' = [object EXCEPT ![f] = "absent"]
        /\ todo[g]' \cup done[g]' = todo[g] \cup done[g]
        /\ done' = [done EXCEPT ![g] = @ \cup {f}]
        /\ \A h \in Collector : h # g => todo'[h] = todo[h] /\ done'[h] = done[h]
        /\ UNCHANGED <<session, file, pc, target, phase, late, clash>>
    BY <1>20 DEF Remove
  <2>2. ASSUME f \notin clash
        PROVE  ~GetFile(f) /\ \A w \in Worker : ~Completes(w, f)
    <3>1. f \in todo[g] /\ phase[g] \in {"expire", "files"}
      BY <1>20 DEF Remove, Phase
    <3> QED BY <2>2, <3>1
  <2>3. \A h \in Collector : todo'[h] \cup done'[h] = todo[h] \cup done[h]
    BY <2>1
  <2> QED BY <2>1, <2>2, <2>3
<1>21. ASSUME NEW g \in Collector, NEW f \in File, RemoveFails(g, f) PROVE
   QuietInv'
  <2>1. /\ \A h \in Collector : todo'[h] \subseteq todo[h] /\ done'[h] = done[h]
        /\ UNCHANGED <<session, file, object, pc, target, phase, late, clash>>
    BY <1>21 DEF RemoveFails
  <2> QED BY <2>1
<1>22. ASSUME NEW g \in Collector, Crash(g) PROVE QuietInv'
    BY <1>22 DEF Crash
<1>23. CASE UNCHANGED vars
    BY <1>23 DEF vars, rows, store, worker, pass
<1> HIDE DEF TypeOK, RowInv, PassInv, QuietInv, Quiet, Completes, GetFile,
   vars, rows, store, worker, pass
<1>24. CASE UserStep
    BY <1>24, <1>1, <1>2 DEF UserStep
<1>25. CASE StoreStep
    BY <1>25, <1>3, <1>4, <1>5, <1>6 DEF StoreStep
<1>26. ASSUME NEW w \in Worker, WorkerStep(w) PROVE QuietInv'
    BY <1>26, <1>7, <1>8, <1>9, <1>10, <1>11, <1>12, <1>13, <1>14, <1>15 DEF
       WorkerStep
<1>27. ASSUME NEW g \in Collector, run_storage_gc(g) PROVE QuietInv'
    BY <1>27, <1>16, <1>17, <1>18, <1>19, <1>20, <1>21, <1>22 DEF
       run_storage_gc
<1> QED BY <1>23, <1>24, <1>25, <1>26, <1>27 DEF Next

(* The inductive invariant holds in every reachable state.                 *)
THEOREM Invariance == Spec => []IInv
<1>1. Init => IInv
    BY DEF Init, IInv, RowInv, PassInv, QuietInv, Quiet, Completes, GetFile
<1>2. TypeOK /\ IInv /\ [Next]_vars => IInv'
    BY RowInvNext, PassInvNext, QuietInvNext DEF IInv
<1> QED BY <1>1, <1>2, TypeCorrect, PTL DEF Spec

(* A listed file nothing contended for has its bytes, and its session agrees. *)
THEOREM FilesKeepBytes == Spec => []FilesHaveBytes
<1>1. IInv => FilesHaveBytes
    BY DEF IInv, QuietInv, Quiet, FilesHaveBytes
<1> QED BY <1>1, Invariance, PTL

(* A dropped file nothing contended for left no bytes but a late PUT's.    *)
THEOREM PurgesAreComplete == Spec => []PurgedFilesLeaveNothing
<1>1. IInv => PurgedFilesLeaveNothing
    BY DEF IInv, QuietInv, Quiet, PurgedFilesLeaveNothing
<1> QED BY <1>1, Invariance, PTL

(* A preview misses the bytes only of a file deleted or contended for.     *)
THEOREM PreviewsAreServed == Spec => []PreviewsFindBytes
<1>1. TypeOK /\ IInv => PreviewsFindBytes
    BY DEF TypeOK, IInv, QuietInv, Quiet, PreviewsFindBytes
<1> QED BY <1>1, TypeCorrect, Invariance, PTL

-----------------------------------------------------------------------------

(* Changes of this shape are steps of Lifecycle.                           *)
LEMMA LifeSteps ==
    /\ Same => UNCHANGED lifeStatus
    /\ \A fs \in SUBSET File : Retires(fs) \/ Contends(fs) => Life!Next
    /\ \A f \in File : LifeOf(f) = "unpublished" /\ Publishes(f) => Life!Next
<1>1. Same => UNCHANGED lifeStatus
    BY DEF Same, lifeStatus
<1>2. ASSUME NEW fs \in SUBSET File, Retires(fs)
      PROVE  Life!Retire(fs)
    BY <1>2 DEF Retires, lifeStatus, Life!Retire
<1>3. ASSUME NEW fs \in SUBSET File, Contends(fs)
      PROVE  Life!Contend(fs)
    BY <1>3 DEF Contends, lifeStatus, Life!Contend
<1>4. ASSUME NEW f \in File, LifeOf(f) = "unpublished", Publishes(f)
      PROVE  Life!Publish(f)
    <2>1. lifeStatus[f] = "unpublished"
        BY <1>4 DEF lifeStatus
    <2>2. lifeStatus' = [lifeStatus EXCEPT ![f] = "shown"]
        BY <1>4 DEF Publishes, lifeStatus
    <2> QED BY <2>1, <2>2 DEF Life!Publish
<1> QED BY <1>1, <1>2, <1>3, <1>4 DEF Life!Next

(* Every step of Library is a step of Lifecycle or changes nothing of it.  *)
LEMMA LifeNext == TypeOK /\ RowInv /\ PassInv /\ QuietInv /\ [Next]_vars =>
   Life!Next \/ UNCHANGED lifeStatus
<1> SUFFICES ASSUME TypeOK, RowInv, PassInv, QuietInv, [Next]_vars PROVE
   Life!Next \/ UNCHANGED lifeStatus
    OBVIOUS
<1> USE DEF TypeOK, RowInv, PassInv, QuietInv, Quiet, Completes, GetFile,
   vars, rows, store, worker, pass
<1>1. ASSUME NEW f \in File, CreateUploadUrl(f) PROVE Life!Next \/ UNCHANGED
   lifeStatus
  <2>1. Same
    BY <1>1 DEF Same, LifeOf, CreateUploadUrl, GetUploadSession, CreateUploadSession
  <2> QED BY <2>1, LifeSteps
<1>2. ASSUME NEW f \in File, DeleteFile(f) PROVE Life!Next \/ UNCHANGED
   lifeStatus
  <2>1. Retires({f})
    BY <1>2 DEF Retires, LifeOf, DeleteFile, SoftDeleteFile
  <2> QED BY <2>1, LifeSteps
<1>3. ASSUME NEW f \in File, BeginPut(f) PROVE Life!Next \/ UNCHANGED
   lifeStatus
  <2>1. Same
    BY <1>3 DEF Same, LifeOf, BeginPut
  <2> QED BY <2>1, LifeSteps
<1>4. ASSUME NEW f \in File, NEW size \in {"declared", "other"}, LandPut(f,
   size) PROVE Life!Next \/ UNCHANGED lifeStatus
  <2>1. Same
    BY <1>4 DEF Same, LifeOf, LandPut
  <2> QED BY <2>1, LifeSteps
<1>5. ASSUME NEW f \in File, AbortPut(f) PROVE Life!Next \/ UNCHANGED
   lifeStatus
  <2>1. Same
    BY <1>5 DEF Same, LifeOf, AbortPut
  <2> QED BY <2>1, LifeSteps
<1>6. ASSUME NEW f \in File, Expire(f) PROVE Life!Next \/ UNCHANGED lifeStatus
  <2>1. Same
    BY <1>6 DEF Same, LifeOf, Expire
  <2> QED BY <2>1, LifeSteps
<1>7. ASSUME NEW w \in Worker, NEW f \in File, CompleteUpload(w, f) PROVE
   Life!Next \/ UNCHANGED lifeStatus
  <2>1. Contends(clash')
    BY <1>7 DEF Contends, LifeOf, CompleteUpload, GetUploadSession, Goto
  <2>2. clash' \subseteq File
    BY <1>7 DEF CompleteUpload, GetUploadSession, Goto
  <2> QED BY <2>1, <2>2, LifeSteps
<1>8. ASSUME NEW w \in Worker, NEW f \in File, PreviewFile(w, f) PROVE
   Life!Next \/ UNCHANGED lifeStatus
  <2>1. Same
    BY <1>8 DEF Same, LifeOf, PreviewFile, GetFile, Goto
  <2> QED BY <2>1, LifeSteps
<1>9. ASSUME NEW w \in Worker, CompleteExpired(w) PROVE Life!Next \/ UNCHANGED
   lifeStatus
  <2>1. Same
    BY <1>9 DEF Same, LifeOf, CompleteExpired, SetUploadSessionStatus, Return
  <2> QED BY <2>1, LifeSteps
<1>10. ASSUME NEW w \in Worker, CompleteStat(w) PROVE Life!Next \/ UNCHANGED
   lifeStatus
  <2>1. Same
    BY <1>10 DEF Same, LifeOf, CompleteStat, Return, Goto
  <2> QED BY <2>1, LifeSteps
<1>11. ASSUME NEW w \in Worker, CompleteFailed(w) PROVE Life!Next \/ UNCHANGED
   lifeStatus
  <2>1. Same
    BY <1>11 DEF Same, LifeOf, CompleteFailed, SetUploadSessionStatus, Goto
  <2> QED BY <2>1, LifeSteps
<1>12. ASSUME NEW w \in Worker, CompleteRemove(w) PROVE Life!Next \/ UNCHANGED
   lifeStatus
  <2>1. Same
    BY <1>12 DEF Same, LifeOf, CompleteRemove, Return
  <2> QED BY <2>1, LifeSteps
<1>13. ASSUME NEW w \in Worker, CompleteInsert(w) PROVE Life!Next \/ UNCHANGED
   lifeStatus
  <2>1. PICK u \in File : u = target[w] /\ Completes(w, u)
    BY <1>13 DEF CompleteInsert
  <2>2. CASE file[u] # "none" \/ u \in clash
    <3>1. Same
      BY <1>13, <2>1, <2>2 DEF Same, LifeOf, CompleteInsert, CreateFile, SetUploadSessionStatus
    <3> QED BY <3>1, LifeSteps
  <2>3. CASE file[u] = "none" /\ u \notin clash
    <3>1. LifeOf(u) = "unpublished"
      BY <2>1, <2>3 DEF LifeOf
    <3>2. file' = [file EXCEPT ![u] = "live"] /\ UNCHANGED clash
      BY <1>13, <2>1, <2>3 DEF CompleteInsert, CreateFile
    <3>3. /\ session'[u] = "completed"
          /\ \A f \in File : f # u => session'[f] = session[f]
      BY <1>13, <2>1, <2>3 DEF CompleteInsert, SetUploadSessionStatus
    <3>4. Publishes(u)
      BY <2>1, <2>3, <3>2, <3>3 DEF Publishes, LifeOf
    <3> QED BY <3>1, <3>4, LifeSteps
  <2> QED BY <2>2, <2>3
<1>14. ASSUME NEW w \in Worker, PreviewRead(w) PROVE Life!Next \/ UNCHANGED
   lifeStatus
  <2>1. Same
    BY <1>14 DEF Same, LifeOf, PreviewRead, Return
  <2> QED BY <2>1, LifeSteps
<1>15. ASSUME NEW w \in Worker, Abort(w) PROVE Life!Next \/ UNCHANGED
   lifeStatus
  <2>1. Same
    BY <1>15 DEF Same, LifeOf, Abort, Return
  <2> QED BY <2>1, LifeSteps
<1>16. ASSUME NEW g \in Collector, ExpireStaleSessions(g) PROVE Life!Next \/
   UNCHANGED lifeStatus
  <2>1. Contends(clash')
    BY <1>16 DEF Contends, LifeOf, ExpireStaleSessions, List, ListExpiredUploadSessions
  <2>2. clash' \subseteq File
    BY <1>16 DEF ExpireStaleSessions, List, ListExpiredUploadSessions
  <2> QED BY <2>1, <2>2, LifeSteps
<1>17. ASSUME NEW g \in Collector, ExpireStaleSessionsCommit(g) PROVE
   Life!Next \/ UNCHANGED lifeStatus
  <2>1. Same
    BY <1>17 DEF Same, LifeOf, ExpireStaleSessionsCommit, SetUploadSessionStatus, Finish
  <2> QED BY <2>1, LifeSteps
<1>18. ASSUME NEW g \in Collector, NEW page \in SUBSET File,
   PurgeDeletedFiles(g, page) PROVE Life!Next \/ UNCHANGED lifeStatus
  <2>1. Contends(clash')
    BY <1>18 DEF Contends, LifeOf, PurgeDeletedFiles, List, ListDeleted
  <2>2. clash' \subseteq File
    BY <1>18 DEF PurgeDeletedFiles, List, ListDeleted
  <2> QED BY <2>1, <2>2, LifeSteps
<1>19. ASSUME NEW g \in Collector, PurgeDeletedFilesCommit(g) PROVE Life!Next
   \/ UNCHANGED lifeStatus
  <2>1. Same
    BY <1>19 DEF Same, LifeOf, PurgeDeletedFilesCommit, HardDeleteFile, Finish
  <2> QED BY <2>1, LifeSteps
<1>20. ASSUME NEW g \in Collector, NEW f \in File, Remove(g, f) PROVE
   Life!Next \/ UNCHANGED lifeStatus
  <2>1. Same
    BY <1>20 DEF Same, LifeOf, Remove
  <2> QED BY <2>1, LifeSteps
<1>21. ASSUME NEW g \in Collector, NEW f \in File, RemoveFails(g, f) PROVE
   Life!Next \/ UNCHANGED lifeStatus
  <2>1. Same
    BY <1>21 DEF Same, LifeOf, RemoveFails
  <2> QED BY <2>1, LifeSteps
<1>22. ASSUME NEW g \in Collector, Crash(g) PROVE Life!Next \/ UNCHANGED
   lifeStatus
  <2>1. Same
    BY <1>22 DEF Same, LifeOf, Crash
  <2> QED BY <2>1, LifeSteps
<1>23. CASE UNCHANGED vars
  <2>1. Same
    BY <1>23 DEF Same, LifeOf
  <2> QED BY <2>1, LifeSteps
<1> HIDE DEF TypeOK, RowInv, PassInv, QuietInv, Quiet, Completes, GetFile,
   vars, rows, store, worker, pass
<1>24. CASE UserStep
    BY <1>24, <1>1, <1>2 DEF UserStep
<1>25. CASE StoreStep
    BY <1>25, <1>3, <1>4, <1>5, <1>6 DEF StoreStep
<1>26. ASSUME NEW w \in Worker, WorkerStep(w) PROVE Life!Next \/ UNCHANGED lifeStatus
    BY <1>26, <1>7, <1>8, <1>9, <1>10, <1>11, <1>12, <1>13, <1>14, <1>15 DEF
       WorkerStep
<1>27. ASSUME NEW g \in Collector, run_storage_gc(g) PROVE Life!Next \/ UNCHANGED lifeStatus
    BY <1>27, <1>16, <1>17, <1>18, <1>19, <1>20, <1>21, <1>22 DEF
       run_storage_gc
<1> QED BY <1>23, <1>24, <1>25, <1>26, <1>27 DEF Next

(* Library implements Lifecycle: a deleted file is never listed again.     *)
THEOREM Implements == Spec => NeverListedAgain
<1>1. Init => Life!Init
  <2> SUFFICES ASSUME Init PROVE \A f \in File : LifeOf(f) = "unpublished"
    BY DEF Life!Init, lifeStatus
  <2> QED BY DEF Init, LifeOf, GetFile
<1>2. TypeOK /\ IInv /\ [Next]_vars => [Life!Next]_lifeStatus
    BY LifeNext DEF IInv
<1> QED BY <1>1, <1>2, TypeCorrect, Invariance, PTL DEF Spec, NeverListedAgain, Life!Spec
=============================================================================
