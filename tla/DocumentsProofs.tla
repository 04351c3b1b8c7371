--------------------------- MODULE DocumentsProofs ---------------------------
(***************************************************************************)
(* Proofs about Documents, for every set of bases, uploads, workers and    *)
(* collectors and every number of faults.                                  *)
(*                                                                         *)
(* The invariant is built in layers, each inductive given the ones before: *)
(* the types, the rows, the requests, the passes, what the passes have     *)
(* emptied, and last what holds of a key nothing has contended for.        *)
(***************************************************************************)
EXTENDS Documents, TLAPS

Closed == {"deleted", "purged"}

(* How the rows of one upload go together.                                 *)
RowInv == \A u \in Upload :
    /\ session[u] = "none" => object[u] = "absent" /\ u \notin inflight \cup expired
    /\ session[u] = "purged" => kb[BaseOf[u]] = "purged"
    /\ kb[BaseOf[u]] = "absent" => session[u] = "none"
    /\ kb[BaseOf[u]] = "purged" => ~HasSession(u)
    /\ HasDocument(u) => HasSession(u)

(* What a request under way knows for sure of its upload.                  *)
RequestInv == \A w \in Worker : pc[w] # "idle" =>
    /\ kb[BaseOf[target[w]]] # "absent"
    /\ IF pc[w] = "create"
       THEN /\ session[target[w]] = "none"
            /\ \A v \in Worker \ {w} : target[v] # target[w]
       ELSE session[target[w]] # "none"

(* What a collector holds in each phase; the bases it loops over stay      *)
(* closed.                                                                 *)
PassInv == \A g \in Collector :
    /\ phase[g] \in {"idle", "expired", "purged"} => todo[g] = {} /\ done[g] = {}
    /\ phase[g] # "bases" => base[g] = NoBase /\ bases[g] = {} /\ drop[g] = {}
    /\ phase[g] = "bases" => \A u \in todo[g] \cup done[g] : BaseOf[u] = base[g]
    /\ \A b \in bases[g] \cup drop[g] : kb[b] \in Closed
    /\ base[g] # NoBase => kb[base[g]] \in Closed

(* A key no row names, or of a base a pass has emptied, has no object but  *)
(* one PUT after the base was deleted.                                     *)
Emptied(g, u) ==
    BaseOf[u] \in drop[g] \/ (BaseOf[u] = base[g] /\ u \notin todo[g])
EmptiedInv ==
    /\ ObjectsAreNamed
    /\ \A g \in Collector, u \in Upload :
          Emptied(g, u) /\ object[u] # "absent" => u \in late

(* Worker w is completing u.                                               *)
Completes(w, u) == target[w] = u /\ pc[w] \notin {"idle", "create"}

(* What holds of a key that nothing contends for.                          *)
Quiet(u) ==
    /\ \A w \in Worker : Completes(w, u) =>
          /\ \A v \in Worker : Completes(v, u) => v = w
          /\ \A g \in Collector : u \notin todo[g] \cup done[g]
          /\ ~HasDocument(u) /\ session[u] # "completed"
          /\ pc[w] = "insert" => object[u] # "absent"
    /\ HasDocument(u) => session[u] = "completed"
    /\ Visible(u) => object[u] # "absent"
    /\ \A g \in Collector : u \in todo[g] \cup done[g] =>
          /\ phase[g] = "expire" => ~HasDocument(u) /\ session[u] # "completed"
          /\ phase[g] = "docs" => document[u] # "live"
QuietInv == \A u \in Upload : u \notin clash => Quiet(u)

IInv == RowInv /\ RequestInv /\ PassInv /\ EmptiedInv /\ QuietInv

-----------------------------------------------------------------------------

(* Every step keeps the types. *)
LEMMA TypeOKNext ==
    TypeOK /\ [Next]_vars => TypeOK'
<1> SUFFICES ASSUME TypeOK, [Next]_vars
             PROVE  TypeOK'
    OBVIOUS
<1> USE DEF TypeOK, KbState, SessionState, DocumentState, ObjectState, Point, Phase, vars, rows, store, worker, pass, loop
<1>1. ASSUME NEW b \in Base, CreateBase(b)
      PROVE  TypeOK'
    BY <1>1 DEF CreateBase, InsertBase
<1>2. ASSUME NEW b \in Base, DeleteBase(b)
      PROVE  TypeOK'
    BY <1>2 DEF DeleteBase, SoftDeleteBase, GetBase
<1>3. ASSUME NEW u \in Upload, DeleteDocument(u)
      PROVE  TypeOK'
    BY <1>3 DEF DeleteDocument, SoftDeleteDocument, GetDocument
<1>4. ASSUME NEW u \in Upload, BeginPut(u)
      PROVE  TypeOK'
    BY <1>4 DEF BeginPut, TokenAccepted
<1>5. ASSUME NEW u \in Upload, NEW size \in {"declared", "other"}, LandPut(u, size)
      PROVE  TypeOK'
    BY <1>5 DEF LandPut
<1>6. ASSUME NEW u \in Upload, AbortPut(u)
      PROVE  TypeOK'
    BY <1>6 DEF AbortPut
<1>7. ASSUME NEW u \in Upload, Expire(u)
      PROVE  TypeOK'
    BY <1>7 DEF Expire
<1>8. ASSUME NEW w \in Worker, NEW u \in Upload, CreateUploadUrl(w, u)
      PROVE  TypeOK'
    BY <1>8 DEF CreateUploadUrl, Goto
<1>9. ASSUME NEW w \in Worker, NEW u \in Upload, CompleteUpload(w, u)
      PROVE  TypeOK'
    BY <1>9 DEF CompleteUpload, Goto, Completable
<1>10. ASSUME NEW w \in Worker, CreateUploadUrlCommit(w)
      PROVE  TypeOK'
    BY <1>10 DEF CreateUploadUrlCommit, CreateSession, Return, Goto
<1>11. ASSUME NEW w \in Worker, CompleteExpired(w)
      PROVE  TypeOK'
    BY <1>11 DEF CompleteExpired, SetSessionStatus, Return, Goto
<1>12. ASSUME NEW w \in Worker, CompleteStat(w)
      PROVE  TypeOK'
    BY <1>12 DEF CompleteStat, Return, Goto
<1>13. ASSUME NEW w \in Worker, CompleteFailed(w)
      PROVE  TypeOK'
    BY <1>13 DEF CompleteFailed, SetSessionStatus, Goto
<1>14. ASSUME NEW w \in Worker, CompleteRemove(w)
      PROVE  TypeOK'
    BY <1>14 DEF CompleteRemove, Return, Goto
<1>15. ASSUME NEW w \in Worker, CompleteInsert(w)
      PROVE  TypeOK'
    BY <1>15 DEF CompleteInsert, CreateDocument, SetSessionStatus, Return, Goto
<1>16. ASSUME NEW w \in Worker, Abort(w)
      PROVE  TypeOK'
    BY <1>16, FaultsAssumption DEF Abort, Return, Goto
<1>17. ASSUME NEW g \in Collector, ExpireStaleSessions(g)
      PROVE  TypeOK'
    BY <1>17 DEF ExpireStaleSessions, List, ExpiredSessions
<1>18. ASSUME NEW g \in Collector, ExpireStaleSessionsCommit(g)
      PROVE  TypeOK'
    BY <1>18 DEF ExpireStaleSessionsCommit, SetSessionStatus, Finish
<1>19. ASSUME NEW g \in Collector, PurgeDeletedObjects(g)
      PROVE  TypeOK'
    BY <1>19 DEF PurgeDeletedObjects, List, DeletedDocuments
<1>20. ASSUME NEW g \in Collector, PurgeDeletedObjectsCommit(g)
      PROVE  TypeOK'
    BY <1>20 DEF PurgeDeletedObjectsCommit, HardDelete, Finish
<1>21. ASSUME NEW g \in Collector, PurgeDeletedKnowledgeBases(g)
      PROVE  TypeOK'
    BY <1>21 DEF PurgeDeletedKnowledgeBases, SoftDeletedBases
<1>22. ASSUME NEW g \in Collector, NEW b \in Base, PurgeBase(g, b)
      PROVE  TypeOK'
    BY <1>22 DEF PurgeBase, List, KeysOf
<1>23. ASSUME NEW g \in Collector, BaseEmptied(g)
      PROVE  TypeOK'
    BY <1>23 DEF BaseEmptied
<1>24. ASSUME NEW g \in Collector, PurgeDeletedKnowledgeBasesCommit(g)
      PROVE  TypeOK'
    BY <1>24 DEF PurgeDeletedKnowledgeBasesCommit, DeleteRows, DeleteBases, Finish
<1>25. ASSUME NEW g \in Collector, NEW u \in Upload, Remove(g, u)
      PROVE  TypeOK'
    BY <1>25 DEF Remove
<1>26. ASSUME NEW g \in Collector, NEW u \in Upload, RemoveFails(g, u)
      PROVE  TypeOK'
    BY <1>26, FaultsAssumption DEF RemoveFails
<1>27. ASSUME NEW g \in Collector, Crash(g)
      PROVE  TypeOK'
    BY <1>27, FaultsAssumption DEF Crash
<1>28. CASE UNCHANGED vars
    BY <1>28
<1> HIDE DEF TypeOK, KbState, SessionState, DocumentState, ObjectState, Point, Phase, vars, rows, store, worker, pass, loop
<1>29. CASE UserStep
    BY <1>29, <1>1, <1>2, <1>3 DEF UserStep
<1>30. CASE StoreStep
    BY <1>30, <1>4, <1>5, <1>6, <1>7 DEF StoreStep
<1>31. ASSUME NEW w \in Worker, WorkerStep(w)
      PROVE  TypeOK'
    BY <1>31, <1>8, <1>9, <1>10, <1>11, <1>12, <1>13, <1>14, <1>15, <1>16 DEF WorkerStep, RequestStep
<1>32. ASSUME NEW g \in Collector, CollectorStep(g)
      PROVE  TypeOK'
    BY <1>32, <1>17, <1>18, <1>19, <1>20, <1>21, <1>22, <1>23, <1>24, <1>25, <1>26, <1>27 DEF CollectorStep, PassStep
<1> QED
    BY <1>28, <1>29, <1>30, <1>31, <1>32 DEF Next

(* Every variable keeps its type.                                          *)
THEOREM TypeCorrect == Spec => []TypeOK
<1>1. Init => TypeOK
    BY FaultsAssumption DEF Init, TypeOK, KbState, SessionState, DocumentState, ObjectState,
        Point, Phase
<1> QED
    BY <1>1, TypeOKNext, PTL DEF Spec

-----------------------------------------------------------------------------

(* Every step keeps RowInv. *)
LEMMA RowInvNext ==
    TypeOK /\ RowInv /\ RequestInv /\ PassInv /\ [Next]_vars => RowInv'
<1> SUFFICES ASSUME TypeOK, RowInv, RequestInv, PassInv, [Next]_vars
             PROVE  RowInv'
    OBVIOUS
<1> USE DEF TypeOK, KbState, SessionState, DocumentState, ObjectState, Point, Phase, vars, rows, store, worker, pass, loop, RowInv, RequestInv, PassInv, Closed, HasSession, HasDocument, Active, GetBase
<1>1. ASSUME NEW b \in Base, CreateBase(b)
      PROVE  RowInv'
    BY <1>1 DEF CreateBase, InsertBase
<1>2. ASSUME NEW b \in Base, DeleteBase(b)
      PROVE  RowInv'
    BY <1>2 DEF DeleteBase, SoftDeleteBase, GetBase
<1>3. ASSUME NEW u \in Upload, DeleteDocument(u)
      PROVE  RowInv'
    BY <1>3 DEF DeleteDocument, SoftDeleteDocument, GetDocument
<1>4. ASSUME NEW u \in Upload, BeginPut(u)
      PROVE  RowInv'
    BY <1>4 DEF BeginPut, TokenAccepted
<1>5. ASSUME NEW u \in Upload, NEW size \in {"declared", "other"}, LandPut(u, size)
      PROVE  RowInv'
    BY <1>5 DEF LandPut
<1>6. ASSUME NEW u \in Upload, AbortPut(u)
      PROVE  RowInv'
    BY <1>6 DEF AbortPut
<1>7. ASSUME NEW u \in Upload, Expire(u)
      PROVE  RowInv'
    BY <1>7 DEF Expire
<1>8. ASSUME NEW w \in Worker, NEW u \in Upload, CreateUploadUrl(w, u)
      PROVE  RowInv'
    BY <1>8 DEF CreateUploadUrl, Goto
<1>9. ASSUME NEW w \in Worker, NEW u \in Upload, CompleteUpload(w, u)
      PROVE  RowInv'
    BY <1>9 DEF CompleteUpload, Goto, Completable
<1>10. ASSUME NEW w \in Worker, CreateUploadUrlCommit(w)
      PROVE  RowInv'
    BY <1>10 DEF CreateUploadUrlCommit, CreateSession, Return, Goto
<1>11. ASSUME NEW w \in Worker, CompleteExpired(w)
      PROVE  RowInv'
    BY <1>11 DEF CompleteExpired, SetSessionStatus, Return, Goto
<1>12. ASSUME NEW w \in Worker, CompleteStat(w)
      PROVE  RowInv'
    BY <1>12 DEF CompleteStat, Return, Goto
<1>13. ASSUME NEW w \in Worker, CompleteFailed(w)
      PROVE  RowInv'
    BY <1>13 DEF CompleteFailed, SetSessionStatus, Goto
<1>14. ASSUME NEW w \in Worker, CompleteRemove(w)
      PROVE  RowInv'
    BY <1>14 DEF CompleteRemove, Return, Goto
<1>15. ASSUME NEW w \in Worker, CompleteInsert(w)
      PROVE  RowInv'
    BY <1>15 DEF CompleteInsert, CreateDocument, SetSessionStatus, Return, Goto
<1>16. ASSUME NEW w \in Worker, Abort(w)
      PROVE  RowInv'
    BY <1>16 DEF Abort, Return, Goto
<1>17. ASSUME NEW g \in Collector, ExpireStaleSessions(g)
      PROVE  RowInv'
    BY <1>17 DEF ExpireStaleSessions, List, ExpiredSessions
<1>18. ASSUME NEW g \in Collector, ExpireStaleSessionsCommit(g)
      PROVE  RowInv'
    BY <1>18 DEF ExpireStaleSessionsCommit, SetSessionStatus, Finish
<1>19. ASSUME NEW g \in Collector, PurgeDeletedObjects(g)
      PROVE  RowInv'
    BY <1>19 DEF PurgeDeletedObjects, List, DeletedDocuments
<1>20. ASSUME NEW g \in Collector, PurgeDeletedObjectsCommit(g)
      PROVE  RowInv'
    BY <1>20 DEF PurgeDeletedObjectsCommit, HardDelete, Finish
<1>21. ASSUME NEW g \in Collector, PurgeDeletedKnowledgeBases(g)
      PROVE  RowInv'
    BY <1>21 DEF PurgeDeletedKnowledgeBases, SoftDeletedBases
<1>22. ASSUME NEW g \in Collector, NEW b \in Base, PurgeBase(g, b)
      PROVE  RowInv'
    BY <1>22 DEF PurgeBase, List, KeysOf
<1>23. ASSUME NEW g \in Collector, BaseEmptied(g)
      PROVE  RowInv'
    BY <1>23 DEF BaseEmptied
<1>24. ASSUME NEW g \in Collector, PurgeDeletedKnowledgeBasesCommit(g)
      PROVE  RowInv'
    BY <1>24, BaseOfAssumption DEF PurgeDeletedKnowledgeBasesCommit, DeleteRows, DeleteBases, Finish
<1>25. ASSUME NEW g \in Collector, NEW u \in Upload, Remove(g, u)
      PROVE  RowInv'
    BY <1>25 DEF Remove
<1>26. ASSUME NEW g \in Collector, NEW u \in Upload, RemoveFails(g, u)
      PROVE  RowInv'
    BY <1>26 DEF RemoveFails
<1>27. ASSUME NEW g \in Collector, Crash(g)
      PROVE  RowInv'
    BY <1>27 DEF Crash
<1>28. CASE UNCHANGED vars
    BY <1>28
<1> HIDE DEF TypeOK, KbState, SessionState, DocumentState, ObjectState, Point, Phase, vars, rows, store, worker, pass, loop, RowInv, RequestInv, PassInv, Closed, HasSession, HasDocument, Active, GetBase
<1>29. CASE UserStep
    BY <1>29, <1>1, <1>2, <1>3 DEF UserStep
<1>30. CASE StoreStep
    BY <1>30, <1>4, <1>5, <1>6, <1>7 DEF StoreStep
<1>31. ASSUME NEW w \in Worker, WorkerStep(w)
      PROVE  RowInv'
    BY <1>31, <1>8, <1>9, <1>10, <1>11, <1>12, <1>13, <1>14, <1>15, <1>16 DEF WorkerStep, RequestStep
<1>32. ASSUME NEW g \in Collector, CollectorStep(g)
      PROVE  RowInv'
    BY <1>32, <1>17, <1>18, <1>19, <1>20, <1>21, <1>22, <1>23, <1>24, <1>25, <1>26, <1>27 DEF CollectorStep, PassStep
<1> QED
    BY <1>28, <1>29, <1>30, <1>31, <1>32 DEF Next

(* Every step keeps RequestInv. *)
LEMMA RequestInvNext ==
    TypeOK /\ RowInv /\ RequestInv /\ [Next]_vars => RequestInv'
<1> SUFFICES ASSUME TypeOK, RowInv, RequestInv, [Next]_vars
             PROVE  RequestInv'
    OBVIOUS
<1> USE DEF TypeOK, KbState, SessionState, DocumentState, ObjectState, Point, Phase, vars, rows, store, worker, pass, loop, RowInv, RequestInv, HasSession, HasDocument, Active, GetBase
<1>1. ASSUME NEW b \in Base, CreateBase(b)
      PROVE  RequestInv'
    BY <1>1 DEF CreateBase, InsertBase
<1>2. ASSUME NEW b \in Base, DeleteBase(b)
      PROVE  RequestInv'
    BY <1>2 DEF DeleteBase, SoftDeleteBase, GetBase
<1>3. ASSUME NEW u \in Upload, DeleteDocument(u)
      PROVE  RequestInv'
    BY <1>3 DEF DeleteDocument, SoftDeleteDocument, GetDocument
<1>4. ASSUME NEW u \in Upload, BeginPut(u)
      PROVE  RequestInv'
    BY <1>4 DEF BeginPut, TokenAccepted
<1>5. ASSUME NEW u \in Upload, NEW size \in {"declared", "other"}, LandPut(u, size)
      PROVE  RequestInv'
    BY <1>5 DEF LandPut
<1>6. ASSUME NEW u \in Upload, AbortPut(u)
      PROVE  RequestInv'
    BY <1>6 DEF AbortPut
<1>7. ASSUME NEW u \in Upload, Expire(u)
      PROVE  RequestInv'
    BY <1>7 DEF Expire
<1>8. ASSUME NEW w \in Worker, NEW u \in Upload, CreateUploadUrl(w, u)
      PROVE  RequestInv'
    BY <1>8 DEF CreateUploadUrl, Goto
<1>9. ASSUME NEW w \in Worker, NEW u \in Upload, CompleteUpload(w, u)
      PROVE  RequestInv'
    BY <1>9 DEF CompleteUpload, Goto, Completable
<1>10. ASSUME NEW w \in Worker, CreateUploadUrlCommit(w)
      PROVE  RequestInv'
    BY <1>10, NoneAssumption DEF CreateUploadUrlCommit, CreateSession, Return, Goto
<1>11. ASSUME NEW w \in Worker, CompleteExpired(w)
      PROVE  RequestInv'
    BY <1>11, NoneAssumption DEF CompleteExpired, SetSessionStatus, Return, Goto
<1>12. ASSUME NEW w \in Worker, CompleteStat(w)
      PROVE  RequestInv'
    BY <1>12, NoneAssumption DEF CompleteStat, Return, Goto
<1>13. ASSUME NEW w \in Worker, CompleteFailed(w)
      PROVE  RequestInv'
    BY <1>13 DEF CompleteFailed, SetSessionStatus, Goto
<1>14. ASSUME NEW w \in Worker, CompleteRemove(w)
      PROVE  RequestInv'
    BY <1>14, NoneAssumption DEF CompleteRemove, Return, Goto
<1>15. ASSUME NEW w \in Worker, CompleteInsert(w)
      PROVE  RequestInv'
    BY <1>15, NoneAssumption DEF CompleteInsert, CreateDocument, SetSessionStatus, Return, Goto
<1>16. ASSUME NEW w \in Worker, Abort(w)
      PROVE  RequestInv'
    BY <1>16, NoneAssumption DEF Abort, Return, Goto
<1>17. ASSUME NEW g \in Collector, ExpireStaleSessions(g)
      PROVE  RequestInv'
    BY <1>17 DEF ExpireStaleSessions, List, ExpiredSessions
<1>18. ASSUME NEW g \in Collector, ExpireStaleSessionsCommit(g)
      PROVE  RequestInv'
    BY <1>18 DEF ExpireStaleSessionsCommit, SetSessionStatus, Finish
<1>19. ASSUME NEW g \in Collector, PurgeDeletedObjects(g)
      PROVE  RequestInv'
    BY <1>19 DEF PurgeDeletedObjects, List, DeletedDocuments
<1>20. ASSUME NEW g \in Collector, PurgeDeletedObjectsCommit(g)
      PROVE  RequestInv'
    BY <1>20 DEF PurgeDeletedObjectsCommit, HardDelete, Finish
<1>21. ASSUME NEW g \in Collector, PurgeDeletedKnowledgeBases(g)
      PROVE  RequestInv'
    BY <1>21 DEF PurgeDeletedKnowledgeBases, SoftDeletedBases
<1>22. ASSUME NEW g \in Collector, NEW b \in Base, PurgeBase(g, b)
      PROVE  RequestInv'
    BY <1>22 DEF PurgeBase, List, KeysOf
<1>23. ASSUME NEW g \in Collector, BaseEmptied(g)
      PROVE  RequestInv'
    BY <1>23 DEF BaseEmptied
<1>24. ASSUME NEW g \in Collector, PurgeDeletedKnowledgeBasesCommit(g)
      PROVE  RequestInv'
    BY <1>24, BaseOfAssumption DEF PurgeDeletedKnowledgeBasesCommit, DeleteRows, DeleteBases, Finish
<1>25. ASSUME NEW g \in Collector, NEW u \in Upload, Remove(g, u)
      PROVE  RequestInv'
    BY <1>25 DEF Remove
<1>26. ASSUME NEW g \in Collector, NEW u \in Upload, RemoveFails(g, u)
      PROVE  RequestInv'
    BY <1>26 DEF RemoveFails
<1>27. ASSUME NEW g \in Collector, Crash(g)
      PROVE  RequestInv'
    BY <1>27 DEF Crash
<1>28. CASE UNCHANGED vars
    BY <1>28
<1> HIDE DEF TypeOK, KbState, SessionState, DocumentState, ObjectState, Point, Phase, vars, rows, store, worker, pass, loop, RowInv, RequestInv, HasSession, HasDocument, Active, GetBase
<1>29. CASE UserStep
    BY <1>29, <1>1, <1>2, <1>3 DEF UserStep
<1>30. CASE StoreStep
    BY <1>30, <1>4, <1>5, <1>6, <1>7 DEF StoreStep
<1>31. ASSUME NEW w \in Worker, WorkerStep(w)
      PROVE  RequestInv'
    BY <1>31, <1>8, <1>9, <1>10, <1>11, <1>12, <1>13, <1>14, <1>15, <1>16 DEF WorkerStep, RequestStep
<1>32. ASSUME NEW g \in Collector, CollectorStep(g)
      PROVE  RequestInv'
    BY <1>32, <1>17, <1>18, <1>19, <1>20, <1>21, <1>22, <1>23, <1>24, <1>25, <1>26, <1>27 DEF CollectorStep, PassStep
<1> QED
    BY <1>28, <1>29, <1>30, <1>31, <1>32 DEF Next

(* Every step keeps PassInv. *)
LEMMA PassInvNext ==
    TypeOK /\ PassInv /\ [Next]_vars => PassInv'
<1> SUFFICES ASSUME TypeOK, PassInv, [Next]_vars
             PROVE  PassInv'
    OBVIOUS
<1> USE DEF TypeOK, KbState, SessionState, DocumentState, ObjectState, Point, Phase, vars, rows, store, worker, pass, loop, PassInv, Closed, HasSession, HasDocument, Active, GetBase
<1>1. ASSUME NEW b \in Base, CreateBase(b)
      PROVE  PassInv'
    BY <1>1 DEF CreateBase, InsertBase
<1>2. ASSUME NEW b \in Base, DeleteBase(b)
      PROVE  PassInv'
    BY <1>2 DEF DeleteBase, SoftDeleteBase, GetBase
<1>3. ASSUME NEW u \in Upload, DeleteDocument(u)
      PROVE  PassInv'
    BY <1>3 DEF DeleteDocument, SoftDeleteDocument, GetDocument
<1>4. ASSUME NEW u \in Upload, BeginPut(u)
      PROVE  PassInv'
    BY <1>4 DEF BeginPut, TokenAccepted
<1>5. ASSUME NEW u \in Upload, NEW size \in {"declared", "other"}, LandPut(u, size)
      PROVE  PassInv'
    BY <1>5 DEF LandPut
<1>6. ASSUME NEW u \in Upload, AbortPut(u)
      PROVE  PassInv'
    BY <1>6 DEF AbortPut
<1>7. ASSUME NEW u \in Upload, Expire(u)
      PROVE  PassInv'
    BY <1>7 DEF Expire
<1>8. ASSUME NEW w \in Worker, NEW u \in Upload, CreateUploadUrl(w, u)
      PROVE  PassInv'
    BY <1>8 DEF CreateUploadUrl, Goto
<1>9. ASSUME NEW w \in Worker, NEW u \in Upload, CompleteUpload(w, u)
      PROVE  PassInv'
    BY <1>9 DEF CompleteUpload, Goto, Completable
<1>10. ASSUME NEW w \in Worker, CreateUploadUrlCommit(w)
      PROVE  PassInv'
    BY <1>10 DEF CreateUploadUrlCommit, CreateSession, Return, Goto
<1>11. ASSUME NEW w \in Worker, CompleteExpired(w)
      PROVE  PassInv'
    BY <1>11 DEF CompleteExpired, SetSessionStatus, Return, Goto
<1>12. ASSUME NEW w \in Worker, CompleteStat(w)
      PROVE  PassInv'
    BY <1>12 DEF CompleteStat, Return, Goto
<1>13. ASSUME NEW w \in Worker, CompleteFailed(w)
      PROVE  PassInv'
    BY <1>13 DEF CompleteFailed, SetSessionStatus, Goto
<1>14. ASSUME NEW w \in Worker, CompleteRemove(w)
      PROVE  PassInv'
    BY <1>14 DEF CompleteRemove, Return, Goto
<1>15. ASSUME NEW w \in Worker, CompleteInsert(w)
      PROVE  PassInv'
    BY <1>15 DEF CompleteInsert, CreateDocument, SetSessionStatus, Return, Goto
<1>16. ASSUME NEW w \in Worker, Abort(w)
      PROVE  PassInv'
    BY <1>16 DEF Abort, Return, Goto
<1>17. ASSUME NEW g \in Collector, ExpireStaleSessions(g)
      PROVE  PassInv'
    BY <1>17 DEF ExpireStaleSessions, List, ExpiredSessions
<1>18. ASSUME NEW g \in Collector, ExpireStaleSessionsCommit(g)
      PROVE  PassInv'
    BY <1>18 DEF ExpireStaleSessionsCommit, SetSessionStatus, Finish
<1>19. ASSUME NEW g \in Collector, PurgeDeletedObjects(g)
      PROVE  PassInv'
    BY <1>19 DEF PurgeDeletedObjects, List, DeletedDocuments
<1>20. ASSUME NEW g \in Collector, PurgeDeletedObjectsCommit(g)
      PROVE  PassInv'
    BY <1>20 DEF PurgeDeletedObjectsCommit, HardDelete, Finish
<1>21. ASSUME NEW g \in Collector, PurgeDeletedKnowledgeBases(g)
      PROVE  PassInv'
    BY <1>21 DEF PurgeDeletedKnowledgeBases, SoftDeletedBases
<1>22. ASSUME NEW g \in Collector, NEW b \in Base, PurgeBase(g, b)
      PROVE  PassInv'
    BY <1>22 DEF PurgeBase, List, KeysOf
<1>23. ASSUME NEW g \in Collector, BaseEmptied(g)
      PROVE  PassInv'
    BY <1>23 DEF BaseEmptied
<1>24. ASSUME NEW g \in Collector, PurgeDeletedKnowledgeBasesCommit(g)
      PROVE  PassInv'
    BY <1>24, BaseOfAssumption, NoneAssumption DEF PurgeDeletedKnowledgeBasesCommit, DeleteRows, DeleteBases, Finish
<1>25. ASSUME NEW g \in Collector, NEW u \in Upload, Remove(g, u)
      PROVE  PassInv'
    BY <1>25 DEF Remove
<1>26. ASSUME NEW g \in Collector, NEW u \in Upload, RemoveFails(g, u)
      PROVE  PassInv'
    BY <1>26 DEF RemoveFails
<1>27. ASSUME NEW g \in Collector, Crash(g)
      PROVE  PassInv'
    BY <1>27 DEF Crash
<1>28. CASE UNCHANGED vars
    BY <1>28
<1> HIDE DEF TypeOK, KbState, SessionState, DocumentState, ObjectState, Point, Phase, vars, rows, store, worker, pass, loop, PassInv, Closed, HasSession, HasDocument, Active, GetBase
<1>29. CASE UserStep
    BY <1>29, <1>1, <1>2, <1>3 DEF UserStep
<1>30. CASE StoreStep
    BY <1>30, <1>4, <1>5, <1>6, <1>7 DEF StoreStep
<1>31. ASSUME NEW w \in Worker, WorkerStep(w)
      PROVE  PassInv'
    BY <1>31, <1>8, <1>9, <1>10, <1>11, <1>12, <1>13, <1>14, <1>15, <1>16 DEF WorkerStep, RequestStep
<1>32. ASSUME NEW g \in Collector, CollectorStep(g)
      PROVE  PassInv'
    BY <1>32, <1>17, <1>18, <1>19, <1>20, <1>21, <1>22, <1>23, <1>24, <1>25, <1>26, <1>27 DEF CollectorStep, PassStep
<1> QED
    BY <1>28, <1>29, <1>30, <1>31, <1>32 DEF Next

(* Every step keeps EmptiedInv. *)
LEMMA EmptiedInvNext ==
    TypeOK /\ RowInv /\ RequestInv /\ PassInv /\ EmptiedInv /\ [Next]_vars => EmptiedInv'
<1> SUFFICES ASSUME TypeOK, RowInv, RequestInv, PassInv, EmptiedInv, [Next]_vars
             PROVE  EmptiedInv'
    OBVIOUS
<1> USE DEF TypeOK, KbState, SessionState, DocumentState, ObjectState, Point, Phase, vars, rows, store, worker, pass, loop, RowInv, RequestInv, PassInv, EmptiedInv, Emptied, ObjectsAreNamed, Closed, HasSession, HasDocument, Active, GetBase
<1>1. ASSUME NEW b \in Base, CreateBase(b)
      PROVE  EmptiedInv'
    BY <1>1 DEF CreateBase, InsertBase
<1>2. ASSUME NEW b \in Base, DeleteBase(b)
      PROVE  EmptiedInv'
    BY <1>2 DEF DeleteBase, SoftDeleteBase, GetBase
<1>3. ASSUME NEW u \in Upload, DeleteDocument(u)
      PROVE  EmptiedInv'
    BY <1>3 DEF DeleteDocument, SoftDeleteDocument, GetDocument
<1>4. ASSUME NEW u \in Upload, BeginPut(u)
      PROVE  EmptiedInv'
    BY <1>4 DEF BeginPut, TokenAccepted
<1>5. ASSUME NEW u \in Upload, NEW size \in {"declared", "other"}, LandPut(u, size)
      PROVE  EmptiedInv'
    <2>1. ASSUME Active(u)
          PROVE  HasSession(u) /\ \A g \in Collector : ~Emptied(g, u)
      <3>1. kb[BaseOf[u]] = "active" /\ session[u] # "none"
        BY <1>5, <2>1 DEF LandPut
      <3>2. HasSession(u)
        BY <3>1
      <3>3. ASSUME NEW g \in Collector
            PROVE  BaseOf[u] \notin drop[g] /\ BaseOf[u] # base[g]
        BY <3>1, BaseOfAssumption, NoneAssumption
      <3> QED
        BY <3>2, <3>3
    <2>2. /\ u \notin late' => Active(u)
          /\ \A v \in Upload : v # u => object'[v] = object[v] /\ (v \in late <=> v \in late')
          /\ UNCHANGED <<session, document, todo, base, drop>>
        BY <1>5 DEF LandPut
    <2> QED
        BY <2>1, <2>2
<1>6. ASSUME NEW u \in Upload, AbortPut(u)
      PROVE  EmptiedInv'
    BY <1>6 DEF AbortPut
<1>7. ASSUME NEW u \in Upload, Expire(u)
      PROVE  EmptiedInv'
    BY <1>7 DEF Expire
<1>8. ASSUME NEW w \in Worker, NEW u \in Upload, CreateUploadUrl(w, u)
      PROVE  EmptiedInv'
    BY <1>8 DEF CreateUploadUrl, Goto
<1>9. ASSUME NEW w \in Worker, NEW u \in Upload, CompleteUpload(w, u)
      PROVE  EmptiedInv'
    BY <1>9 DEF CompleteUpload, Goto, Completable
<1>10. ASSUME NEW w \in Worker, CreateUploadUrlCommit(w)
      PROVE  EmptiedInv'
    BY <1>10 DEF CreateUploadUrlCommit, CreateSession, Return, Goto
<1>11. ASSUME NEW w \in Worker, CompleteExpired(w)
      PROVE  EmptiedInv'
    BY <1>11 DEF CompleteExpired, SetSessionStatus, Return, Goto
<1>12. ASSUME NEW w \in Worker, CompleteStat(w)
      PROVE  EmptiedInv'
    BY <1>12 DEF CompleteStat, Return, Goto
<1>13. ASSUME NEW w \in Worker, CompleteFailed(w)
      PROVE  EmptiedInv'
    BY <1>13 DEF CompleteFailed, SetSessionStatus, Goto
<1>14. ASSUME NEW w \in Worker, CompleteRemove(w)
      PROVE  EmptiedInv'
    BY <1>14 DEF CompleteRemove, Return, Goto
<1>15. ASSUME NEW w \in Worker, CompleteInsert(w)
      PROVE  EmptiedInv'
    BY <1>15 DEF CompleteInsert, CreateDocument, SetSessionStatus, Return, Goto
<1>16. ASSUME NEW w \in Worker, Abort(w)
      PROVE  EmptiedInv'
    BY <1>16 DEF Abort, Return, Goto
<1>17. ASSUME NEW g \in Collector, ExpireStaleSessions(g)
      PROVE  EmptiedInv'
    BY <1>17 DEF ExpireStaleSessions, List, ExpiredSessions
<1>18. ASSUME NEW g \in Collector, ExpireStaleSessionsCommit(g)
      PROVE  EmptiedInv'
    BY <1>18 DEF ExpireStaleSessionsCommit, SetSessionStatus, Finish
<1>19. ASSUME NEW g \in Collector, PurgeDeletedObjects(g)
      PROVE  EmptiedInv'
    BY <1>19 DEF PurgeDeletedObjects, List, DeletedDocuments
<1>20. ASSUME NEW g \in Collector, PurgeDeletedObjectsCommit(g)
      PROVE  EmptiedInv'
    BY <1>20 DEF PurgeDeletedObjectsCommit, HardDelete, Finish
<1>21. ASSUME NEW g \in Collector, PurgeDeletedKnowledgeBases(g)
      PROVE  EmptiedInv'
    BY <1>21 DEF PurgeDeletedKnowledgeBases, SoftDeletedBases
<1>22. ASSUME NEW g \in Collector, NEW b \in Base, PurgeBase(g, b)
      PROVE  EmptiedInv'
    BY <1>22 DEF PurgeBase, List, KeysOf
<1>23. ASSUME NEW g \in Collector, BaseEmptied(g)
      PROVE  EmptiedInv'
    BY <1>23, BaseOfAssumption, NoneAssumption DEF BaseEmptied
<1>24. ASSUME NEW g \in Collector, PurgeDeletedKnowledgeBasesCommit(g)
      PROVE  EmptiedInv'
    BY <1>24 DEF PurgeDeletedKnowledgeBasesCommit, DeleteRows, DeleteBases, Finish
<1>25. ASSUME NEW g \in Collector, NEW u \in Upload, Remove(g, u)
      PROVE  EmptiedInv'
    BY <1>25 DEF Remove
<1>26. ASSUME NEW g \in Collector, NEW u \in Upload, RemoveFails(g, u)
      PROVE  EmptiedInv'
    BY <1>26, BaseOfAssumption, NoneAssumption DEF RemoveFails
<1>27. ASSUME NEW g \in Collector, Crash(g)
      PROVE  EmptiedInv'
    BY <1>27, BaseOfAssumption, NoneAssumption DEF Crash
<1>28. CASE UNCHANGED vars
    BY <1>28
<1> HIDE DEF TypeOK, KbState, SessionState, DocumentState, ObjectState, Point, Phase, vars, rows, store, worker, pass, loop, RowInv, RequestInv, PassInv, EmptiedInv, Emptied, ObjectsAreNamed, Closed, HasSession, HasDocument, Active, GetBase
<1>29. CASE UserStep
    BY <1>29, <1>1, <1>2, <1>3 DEF UserStep
<1>30. CASE StoreStep
    BY <1>30, <1>4, <1>5, <1>6, <1>7 DEF StoreStep
<1>31. ASSUME NEW w \in Worker, WorkerStep(w)
      PROVE  EmptiedInv'
    BY <1>31, <1>8, <1>9, <1>10, <1>11, <1>12, <1>13, <1>14, <1>15, <1>16 DEF WorkerStep, RequestStep
<1>32. ASSUME NEW g \in Collector, CollectorStep(g)
      PROVE  EmptiedInv'
    BY <1>32, <1>17, <1>18, <1>19, <1>20, <1>21, <1>22, <1>23, <1>24, <1>25, <1>26, <1>27 DEF CollectorStep, PassStep
<1> QED
    BY <1>28, <1>29, <1>30, <1>31, <1>32 DEF Next

(* Every step keeps QuietInv. *)
LEMMA QuietInvNext ==
    TypeOK /\ RowInv /\ RequestInv /\ PassInv /\ QuietInv /\ [Next]_vars => QuietInv'
<1> SUFFICES ASSUME TypeOK, RowInv, RequestInv, PassInv, QuietInv, [Next]_vars
             PROVE  QuietInv'
    OBVIOUS
<1> USE DEF TypeOK, KbState, SessionState, DocumentState, ObjectState, Point, Phase, vars, rows, store, worker, pass, loop, RowInv, RequestInv, PassInv, QuietInv, Quiet, Completes, Completing, Collecting, Visible, Closed, HasSession, HasDocument, Active, GetBase
<1>1. ASSUME NEW b \in Base, CreateBase(b)
      PROVE  QuietInv'
    BY <1>1 DEF CreateBase, InsertBase
<1>2. ASSUME NEW b \in Base, DeleteBase(b)
      PROVE  QuietInv'
    BY <1>2 DEF DeleteBase, SoftDeleteBase, GetBase
<1>3. ASSUME NEW u \in Upload, DeleteDocument(u)
      PROVE  QuietInv'
    BY <1>3 DEF DeleteDocument, SoftDeleteDocument, GetDocument
<1>4. ASSUME NEW u \in Upload, BeginPut(u)
      PROVE  QuietInv'
    BY <1>4 DEF BeginPut, TokenAccepted
<1>5. ASSUME NEW u \in Upload, NEW size \in {"declared", "other"}, LandPut(u, size)
      PROVE  QuietInv'
    BY <1>5 DEF LandPut
<1>6. ASSUME NEW u \in Upload, AbortPut(u)
      PROVE  QuietInv'
    BY <1>6 DEF AbortPut
<1>7. ASSUME NEW u \in Upload, Expire(u)
      PROVE  QuietInv'
    BY <1>7 DEF Expire
<1>8. ASSUME NEW w \in Worker, NEW u \in Upload, CreateUploadUrl(w, u)
      PROVE  QuietInv'
    BY <1>8 DEF CreateUploadUrl, Goto
<1>9. ASSUME NEW w \in Worker, NEW u \in Upload, CompleteUpload(w, u)
      PROVE  QuietInv'
    BY <1>9 DEF CompleteUpload, Goto, Completable
<1>10. ASSUME NEW w \in Worker, CreateUploadUrlCommit(w)
      PROVE  QuietInv'
    BY <1>10 DEF CreateUploadUrlCommit, CreateSession, Return, Goto
<1>11. ASSUME NEW w \in Worker, CompleteExpired(w)
      PROVE  QuietInv'
    BY <1>11 DEF CompleteExpired, SetSessionStatus, Return, Goto
<1>12. ASSUME NEW w \in Worker, CompleteStat(w)
      PROVE  QuietInv'
    BY <1>12 DEF CompleteStat, Return, Goto
<1>13. ASSUME NEW w \in Worker, CompleteFailed(w)
      PROVE  QuietInv'
    BY <1>13 DEF CompleteFailed, SetSessionStatus, Goto
<1>14. ASSUME NEW w \in Worker, CompleteRemove(w)
      PROVE  QuietInv'
    BY <1>14 DEF CompleteRemove, Return, Goto
<1>15. ASSUME NEW w \in Worker, CompleteInsert(w)
      PROVE  QuietInv'
    BY <1>15 DEF CompleteInsert, CreateDocument, SetSessionStatus, Return, Goto
<1>16. ASSUME NEW w \in Worker, Abort(w)
      PROVE  QuietInv'
    BY <1>16 DEF Abort, Return, Goto
<1>17. ASSUME NEW g \in Collector, ExpireStaleSessions(g)
      PROVE  QuietInv'
    BY <1>17 DEF ExpireStaleSessions, List, ExpiredSessions
<1>18. ASSUME NEW g \in Collector, ExpireStaleSessionsCommit(g)
      PROVE  QuietInv'
    BY <1>18 DEF ExpireStaleSessionsCommit, SetSessionStatus, Finish
<1>19. ASSUME NEW g \in Collector, PurgeDeletedObjects(g)
      PROVE  QuietInv'
    BY <1>19 DEF PurgeDeletedObjects, List, DeletedDocuments
<1>20. ASSUME NEW g \in Collector, PurgeDeletedObjectsCommit(g)
      PROVE  QuietInv'
    BY <1>20 DEF PurgeDeletedObjectsCommit, HardDelete, Finish
<1>21. ASSUME NEW g \in Collector, PurgeDeletedKnowledgeBases(g)
      PROVE  QuietInv'
    BY <1>21 DEF PurgeDeletedKnowledgeBases, SoftDeletedBases
<1>22. ASSUME NEW g \in Collector, NEW b \in Base, PurgeBase(g, b)
      PROVE  QuietInv'
    BY <1>22 DEF PurgeBase, List, KeysOf
<1>23. ASSUME NEW g \in Collector, BaseEmptied(g)
      PROVE  QuietInv'
    BY <1>23 DEF BaseEmptied
<1>24. ASSUME NEW g \in Collector, PurgeDeletedKnowledgeBasesCommit(g)
      PROVE  QuietInv'
    BY <1>24, BaseOfAssumption DEF PurgeDeletedKnowledgeBasesCommit, DeleteRows, DeleteBases, Finish
<1>25. ASSUME NEW g \in Collector, NEW u \in Upload, Remove(g, u)
      PROVE  QuietInv'
    <2>1. /\ object' = [object EXCEPT ![u] = "absent"]
          /\ todo[g]' \cup done[g]' = todo[g] \cup done[g]
          /\ \A h \in Collector : h # g => todo'[h] = todo[h] /\ done'[h] = done[h]
          /\ UNCHANGED <<kb, session, document, pc, target, phase, clash>>
        BY <1>25 DEF Remove
    <2>2. ASSUME u \notin clash
          PROVE  ~Visible(u) /\ \A w \in Worker : ~Completes(w, u)
      <3>1. u \in todo[g] /\ phase[g] \in {"expire", "docs", "bases"}
        BY <1>25 DEF Remove
      <3>2. CASE phase[g] = "bases"
        <4>1. BaseOf[u] = base[g] /\ base[g] # NoBase
            BY <3>1, <3>2, BaseOfAssumption, NoneAssumption
        <4>2. kb[BaseOf[u]] \in {"deleted", "purged"}
            BY <4>1
        <4> QED
            BY <2>2, <3>1, <4>2
      <3>3. CASE phase[g] # "bases"
        BY <2>2, <3>1, <3>3
      <3> QED
        BY <3>2, <3>3
    <2>3. \A h \in Collector : todo'[h] \cup done'[h] = todo[h] \cup done[h]
        BY <2>1
    <2> QED
        BY <2>1, <2>2, <2>3
<1>26. ASSUME NEW g \in Collector, NEW u \in Upload, RemoveFails(g, u)
      PROVE  QuietInv'
    <2>1. /\ \A h \in Collector : /\ todo'[h] \subseteq todo[h]
                                   /\ done'[h] \subseteq done[h]
          /\ UNCHANGED <<kb, session, document, object, pc, target, phase, clash>>
        BY <1>26 DEF RemoveFails
    <2> QED
        BY <2>1
<1>27. ASSUME NEW g \in Collector, Crash(g)
      PROVE  QuietInv'
    BY <1>27 DEF Crash
<1>28. CASE UNCHANGED vars
    BY <1>28
<1> HIDE DEF TypeOK, KbState, SessionState, DocumentState, ObjectState, Point, Phase, vars, rows, store, worker, pass, loop, RowInv, RequestInv, PassInv, QuietInv, Quiet, Completes, Completing, Collecting, Visible, Closed, HasSession, HasDocument, Active, GetBase
<1>29. CASE UserStep
    BY <1>29, <1>1, <1>2, <1>3 DEF UserStep
<1>30. CASE StoreStep
    BY <1>30, <1>4, <1>5, <1>6, <1>7 DEF StoreStep
<1>31. ASSUME NEW w \in Worker, WorkerStep(w)
      PROVE  QuietInv'
    BY <1>31, <1>8, <1>9, <1>10, <1>11, <1>12, <1>13, <1>14, <1>15, <1>16 DEF WorkerStep, RequestStep
<1>32. ASSUME NEW g \in Collector, CollectorStep(g)
      PROVE  QuietInv'
    BY <1>32, <1>17, <1>18, <1>19, <1>20, <1>21, <1>22, <1>23, <1>24, <1>25, <1>26, <1>27 DEF CollectorStep, PassStep
<1> QED
    BY <1>28, <1>29, <1>30, <1>31, <1>32 DEF Next

(* The initial states satisfy the invariant.                               *)
LEMMA InitIInv == Init => IInv
    BY BaseOfAssumption, NoneAssumption DEF Init, IInv, RowInv, RequestInv, PassInv, EmptiedInv,
        Emptied, ObjectsAreNamed, QuietInv, Quiet, Completes, Visible, HasSession, HasDocument

(* The inductive invariant holds in every reachable state.                 *)
THEOREM Invariance == Spec => []IInv
<1>1. TypeOK /\ IInv /\ [Next]_vars => IInv'
    BY RowInvNext, RequestInvNext, PassInvNext, EmptiedInvNext, QuietInvNext DEF IInv
<1> QED
    BY <1>1, InitIInv, TypeCorrect, PTL DEF Spec

(* A visible document nothing contended for has its bytes.                 *)
THEOREM BytesStay == Spec => []VisibleHasBytes
<1>1. IInv => VisibleHasBytes
    BY DEF IInv, QuietInv, Quiet, VisibleHasBytes
<1> QED
    BY <1>1, Invariance, PTL

(* Its session is completed.                                               *)
THEOREM SessionsAgree == Spec => []SessionAgrees
<1>1. IInv => SessionAgrees
    BY DEF IInv, QuietInv, Quiet, SessionAgrees
<1> QED
    BY <1>1, Invariance, PTL

(* The collector never drops the last name of a stored object.             *)
THEOREM NamesOutliveObjects == Spec => []ObjectsAreNamed
<1>1. IInv => ObjectsAreNamed
    BY DEF IInv, EmptiedInv
<1> QED
    BY <1>1, Invariance, PTL

(* A hard-deleted base has no rows.                                        *)
THEOREM PurgeIsComplete == Spec => []PurgedBaseIsEmpty
<1>1. IInv => PurgedBaseIsEmpty
    BY DEF IInv, RowInv, PurgedBaseIsEmpty
<1> QED
    BY <1>1, Invariance, PTL

-----------------------------------------------------------------------------

(* A step that hides an uncontended document is a delete.                  *)
LEMMA HiddenByDeleteNext ==
    TypeOK /\ PassInv /\ QuietInv /\ [Next]_vars => HiddenByDelete
<1> SUFFICES ASSUME TypeOK, PassInv, QuietInv, [Next]_vars
             PROVE  HiddenByDelete
    OBVIOUS
<1> USE DEF TypeOK, KbState, SessionState, DocumentState, ObjectState, Point, Phase, vars, rows, store, worker, pass, loop, PassInv, QuietInv, Quiet, HiddenByDelete, Visible, Closed, HasSession, HasDocument, Active, GetBase
<1>1. ASSUME NEW b \in Base, CreateBase(b)
      PROVE  HiddenByDelete
    BY <1>1 DEF CreateBase, InsertBase
<1>2. ASSUME NEW b \in Base, DeleteBase(b)
      PROVE  HiddenByDelete
    BY <1>2 DEF DeleteBase, SoftDeleteBase, GetBase
<1>3. ASSUME NEW u \in Upload, DeleteDocument(u)
      PROVE  HiddenByDelete
    BY <1>3 DEF DeleteDocument, SoftDeleteDocument, GetDocument
<1>4. ASSUME NEW u \in Upload, BeginPut(u)
      PROVE  HiddenByDelete
    BY <1>4 DEF BeginPut, TokenAccepted
<1>5. ASSUME NEW u \in Upload, NEW size \in {"declared", "other"}, LandPut(u, size)
      PROVE  HiddenByDelete
    BY <1>5 DEF LandPut
<1>6. ASSUME NEW u \in Upload, AbortPut(u)
      PROVE  HiddenByDelete
    BY <1>6 DEF AbortPut
<1>7. ASSUME NEW u \in Upload, Expire(u)
      PROVE  HiddenByDelete
    BY <1>7 DEF Expire
<1>8. ASSUME NEW w \in Worker, NEW u \in Upload, CreateUploadUrl(w, u)
      PROVE  HiddenByDelete
    BY <1>8 DEF CreateUploadUrl, Goto
<1>9. ASSUME NEW w \in Worker, NEW u \in Upload, CompleteUpload(w, u)
      PROVE  HiddenByDelete
    BY <1>9 DEF CompleteUpload, Goto, Completable
<1>10. ASSUME NEW w \in Worker, CreateUploadUrlCommit(w)
      PROVE  HiddenByDelete
    BY <1>10 DEF CreateUploadUrlCommit, CreateSession, Return, Goto
<1>11. ASSUME NEW w \in Worker, CompleteExpired(w)
      PROVE  HiddenByDelete
    BY <1>11 DEF CompleteExpired, SetSessionStatus, Return, Goto
<1>12. ASSUME NEW w \in Worker, CompleteStat(w)
      PROVE  HiddenByDelete
    BY <1>12 DEF CompleteStat, Return, Goto
<1>13. ASSUME NEW w \in Worker, CompleteFailed(w)
      PROVE  HiddenByDelete
    BY <1>13 DEF CompleteFailed, SetSessionStatus, Goto
<1>14. ASSUME NEW w \in Worker, CompleteRemove(w)
      PROVE  HiddenByDelete
    BY <1>14 DEF CompleteRemove, Return, Goto
<1>15. ASSUME NEW w \in Worker, CompleteInsert(w)
      PROVE  HiddenByDelete
    BY <1>15 DEF CompleteInsert, CreateDocument, SetSessionStatus, Return, Goto
<1>16. ASSUME NEW w \in Worker, Abort(w)
      PROVE  HiddenByDelete
    BY <1>16 DEF Abort, Return, Goto
<1>17. ASSUME NEW g \in Collector, ExpireStaleSessions(g)
      PROVE  HiddenByDelete
    BY <1>17 DEF ExpireStaleSessions, List, ExpiredSessions
<1>18. ASSUME NEW g \in Collector, ExpireStaleSessionsCommit(g)
      PROVE  HiddenByDelete
    BY <1>18 DEF ExpireStaleSessionsCommit, SetSessionStatus, Finish
<1>19. ASSUME NEW g \in Collector, PurgeDeletedObjects(g)
      PROVE  HiddenByDelete
    BY <1>19 DEF PurgeDeletedObjects, List, DeletedDocuments
<1>20. ASSUME NEW g \in Collector, PurgeDeletedObjectsCommit(g)
      PROVE  HiddenByDelete
    BY <1>20 DEF PurgeDeletedObjectsCommit, HardDelete, Finish
<1>21. ASSUME NEW g \in Collector, PurgeDeletedKnowledgeBases(g)
      PROVE  HiddenByDelete
    BY <1>21 DEF PurgeDeletedKnowledgeBases, SoftDeletedBases
<1>22. ASSUME NEW g \in Collector, NEW b \in Base, PurgeBase(g, b)
      PROVE  HiddenByDelete
    BY <1>22 DEF PurgeBase, List, KeysOf
<1>23. ASSUME NEW g \in Collector, BaseEmptied(g)
      PROVE  HiddenByDelete
    BY <1>23 DEF BaseEmptied
<1>24. ASSUME NEW g \in Collector, PurgeDeletedKnowledgeBasesCommit(g)
      PROVE  HiddenByDelete
    BY <1>24, BaseOfAssumption DEF PurgeDeletedKnowledgeBasesCommit, DeleteRows, DeleteBases, Finish
<1>25. ASSUME NEW g \in Collector, NEW u \in Upload, Remove(g, u)
      PROVE  HiddenByDelete
    BY <1>25 DEF Remove
<1>26. ASSUME NEW g \in Collector, NEW u \in Upload, RemoveFails(g, u)
      PROVE  HiddenByDelete
    BY <1>26 DEF RemoveFails
<1>27. ASSUME NEW g \in Collector, Crash(g)
      PROVE  HiddenByDelete
    BY <1>27 DEF Crash
<1>28. CASE UNCHANGED vars
    BY <1>28
<1> HIDE DEF TypeOK, KbState, SessionState, DocumentState, ObjectState, Point, Phase, vars, rows, store, worker, pass, loop, PassInv, QuietInv, Quiet, HiddenByDelete, Visible, Closed, HasSession, HasDocument, Active, GetBase
<1>29. CASE UserStep
    BY <1>29, <1>1, <1>2, <1>3 DEF UserStep
<1>30. CASE StoreStep
    BY <1>30, <1>4, <1>5, <1>6, <1>7 DEF StoreStep
<1>31. ASSUME NEW w \in Worker, WorkerStep(w)
      PROVE  HiddenByDelete
    BY <1>31, <1>8, <1>9, <1>10, <1>11, <1>12, <1>13, <1>14, <1>15, <1>16 DEF WorkerStep, RequestStep
<1>32. ASSUME NEW g \in Collector, CollectorStep(g)
      PROVE  HiddenByDelete
    BY <1>32, <1>17, <1>18, <1>19, <1>20, <1>21, <1>22, <1>23, <1>24, <1>25, <1>26, <1>27 DEF CollectorStep, PassStep
<1> QED
    BY <1>28, <1>29, <1>30, <1>31, <1>32 DEF Next

(* Only deletes hide a document nothing contended for.                     *)
THEOREM OnlyDeletesHideHolds == Spec => OnlyDeletesHide
<1>1. TypeOK /\ IInv /\ [Next]_vars => [HiddenByDelete]_vars
    BY HiddenByDeleteNext DEF IInv
<1> QED
    BY <1>1, TypeCorrect, Invariance, PTL DEF Spec, OnlyDeletesHide

(* Steps of Lifecycle, item by item.                                       *)
Same == \A v \in Upload : LifeOf(v)' = LifeOf(v)
Retires(us) == \A v \in Upload : LifeOf(v)' =
    IF v \in us /\ LifeOf(v) # "contended" THEN "retired" ELSE LifeOf(v)
Contends(us) == \A v \in Upload : LifeOf(v)' =
    IF v \in us THEN "contended" ELSE LifeOf(v)
Publishes(u) == \A v \in Upload : LifeOf(v)' =
    IF v = u THEN "shown" ELSE LifeOf(v)

(* Changes of this shape are steps of Lifecycle.                           *)
LEMMA LifeSteps ==
    /\ Same => UNCHANGED lifeStatus
    /\ \A us \in SUBSET Upload : Retires(us) \/ Contends(us) => Life!Next
    /\ \A u \in Upload : LifeOf(u) = "unpublished" /\ Publishes(u) => Life!Next
<1>1. Same => UNCHANGED lifeStatus
    BY DEF Same, lifeStatus
<1>2. ASSUME NEW us \in SUBSET Upload, Retires(us)
      PROVE  Life!Retire(us)
    BY <1>2 DEF Retires, lifeStatus, Life!Retire
<1>3. ASSUME NEW us \in SUBSET Upload, Contends(us)
      PROVE  Life!Contend(us)
    BY <1>3 DEF Contends, lifeStatus, Life!Contend
<1>4. ASSUME NEW u \in Upload, LifeOf(u) = "unpublished", Publishes(u)
      PROVE  Life!Publish(u)
    <2>1. lifeStatus[u] = "unpublished"
        BY <1>4 DEF lifeStatus
    <2>2. lifeStatus' = [lifeStatus EXCEPT ![u] = "shown"]
        BY <1>4 DEF Publishes, lifeStatus
    <2> QED
        BY <2>1, <2>2 DEF Life!Publish
<1> QED
    BY <1>1, <1>2, <1>3, <1>4 DEF Life!Next

(* Every step of Documents is a step of Lifecycle or changes nothing of it.*)
LEMMA LifeNext ==
    TypeOK /\ RowInv /\ RequestInv /\ PassInv /\ QuietInv /\ [Next]_vars
        => Life!Next \/ UNCHANGED lifeStatus
<1> SUFFICES ASSUME TypeOK, RowInv, RequestInv, PassInv, QuietInv, [Next]_vars
             PROVE  Life!Next \/ UNCHANGED lifeStatus
    OBVIOUS
<1> USE DEF TypeOK, KbState, SessionState, DocumentState, ObjectState, Point, Phase, vars, rows, store, worker, pass, loop, RowInv, RequestInv, PassInv, QuietInv, Quiet, Completes, Visible, Closed, HasSession, HasDocument, Active, GetBase
<1>1. ASSUME NEW b \in Base, CreateBase(b)
      PROVE  Life!Next \/ UNCHANGED lifeStatus
  <2>1. Same
    BY <1>1, BaseOfAssumption DEF Same, LifeOf, CreateBase, InsertBase
  <2> QED
    BY <2>1, LifeSteps
<1>2. ASSUME NEW b \in Base, DeleteBase(b)
      PROVE  Life!Next \/ UNCHANGED lifeStatus
  <2>1. Retires({v \in Upload : BaseOf[v] = b})
    BY <1>2, BaseOfAssumption DEF Retires, LifeOf, DeleteBase, SoftDeleteBase, GetBase
  <2> QED
    BY <2>1, LifeSteps
<1>3. ASSUME NEW u \in Upload, DeleteDocument(u)
      PROVE  Life!Next \/ UNCHANGED lifeStatus
  <2>1. Retires({u})
    BY <1>3, BaseOfAssumption DEF Retires, LifeOf, DeleteDocument, SoftDeleteDocument, GetDocument
  <2> QED
    BY <2>1, LifeSteps
<1>4. ASSUME NEW u \in Upload, BeginPut(u)
      PROVE  Life!Next \/ UNCHANGED lifeStatus
  <2>1. Same
    BY <1>4, BaseOfAssumption DEF Same, LifeOf, BeginPut, TokenAccepted
  <2> QED
    BY <2>1, LifeSteps
<1>5. ASSUME NEW u \in Upload, NEW size \in {"declared", "other"}, LandPut(u, size)
      PROVE  Life!Next \/ UNCHANGED lifeStatus
  <2>1. Same
    BY <1>5, BaseOfAssumption DEF Same, LifeOf, LandPut
  <2> QED
    BY <2>1, LifeSteps
<1>6. ASSUME NEW u \in Upload, AbortPut(u)
      PROVE  Life!Next \/ UNCHANGED lifeStatus
  <2>1. Same
    BY <1>6, BaseOfAssumption DEF Same, LifeOf, AbortPut
  <2> QED
    BY <2>1, LifeSteps
<1>7. ASSUME NEW u \in Upload, Expire(u)
      PROVE  Life!Next \/ UNCHANGED lifeStatus
  <2>1. Same
    BY <1>7, BaseOfAssumption DEF Same, LifeOf, Expire
  <2> QED
    BY <2>1, LifeSteps
<1>8. ASSUME NEW w \in Worker, NEW u \in Upload, CreateUploadUrl(w, u)
      PROVE  Life!Next \/ UNCHANGED lifeStatus
  <2>1. Same
    BY <1>8, BaseOfAssumption DEF Same, LifeOf, CreateUploadUrl, Goto
  <2> QED
    BY <2>1, LifeSteps
<1>9. ASSUME NEW w \in Worker, NEW u \in Upload, CompleteUpload(w, u)
      PROVE  Life!Next \/ UNCHANGED lifeStatus
  <2>1. Contends(clash')
    BY <1>9 DEF Contends, LifeOf, CompleteUpload, Goto, Completable
  <2>2. clash' \subseteq Upload
    BY <1>9 DEF CompleteUpload, Goto, Completable
  <2> QED
    BY <2>1, <2>2, LifeSteps
<1>10. ASSUME NEW w \in Worker, CreateUploadUrlCommit(w)
      PROVE  Life!Next \/ UNCHANGED lifeStatus
  <2>1. Same
    BY <1>10, BaseOfAssumption DEF Same, LifeOf, CreateUploadUrlCommit, CreateSession, Return, Goto
  <2> QED
    BY <2>1, LifeSteps
<1>11. ASSUME NEW w \in Worker, CompleteExpired(w)
      PROVE  Life!Next \/ UNCHANGED lifeStatus
  <2>1. Same
    BY <1>11, BaseOfAssumption DEF Same, LifeOf, CompleteExpired, SetSessionStatus, Return, Goto
  <2> QED
    BY <2>1, LifeSteps
<1>12. ASSUME NEW w \in Worker, CompleteStat(w)
      PROVE  Life!Next \/ UNCHANGED lifeStatus
  <2>1. Same
    BY <1>12, BaseOfAssumption DEF Same, LifeOf, CompleteStat, Return, Goto
  <2> QED
    BY <2>1, LifeSteps
<1>13. ASSUME NEW w \in Worker, CompleteFailed(w)
      PROVE  Life!Next \/ UNCHANGED lifeStatus
  <2>1. Same
    BY <1>13, BaseOfAssumption DEF Same, LifeOf, CompleteFailed, SetSessionStatus, Goto
  <2> QED
    BY <2>1, LifeSteps
<1>14. ASSUME NEW w \in Worker, CompleteRemove(w)
      PROVE  Life!Next \/ UNCHANGED lifeStatus
  <2>1. Same
    BY <1>14, BaseOfAssumption DEF Same, LifeOf, CompleteRemove, Return, Goto
  <2> QED
    BY <2>1, LifeSteps
<1>15. ASSUME NEW w \in Worker, CompleteInsert(w)
      PROVE  Life!Next \/ UNCHANGED lifeStatus
  <2> DEFINE u == target[w]
  <2>1. u \in Upload /\ Completes(w, u)
    BY <1>15 DEF CompleteInsert, CreateDocument, SetSessionStatus, Return, Goto
  <2>2. CASE HasDocument(u) \/ kb[BaseOf[u]] = "purged" \/ ~Active(u) \/ u \in clash
    <3>1. Same
        BY <1>15, <2>1, <2>2, BaseOfAssumption DEF Same, LifeOf, CompleteInsert, CreateDocument, SetSessionStatus, Return, Goto
    <3> QED
        BY <3>1, LifeSteps
  <2>3. CASE ~HasDocument(u) /\ Active(u) /\ u \notin clash
    <3> HIDE DEF u
    <3>1. LifeOf(u) = "unpublished"
        BY <2>1, <2>3, BaseOfAssumption DEF LifeOf
    <3>2. HasSession(u)
        BY <1>15, <2>1, <2>3, BaseOfAssumption DEF CompleteInsert, CreateDocument, u
    <3>3. /\ document' = [document EXCEPT ![u] = "live"]
          /\ session' = [v \in Upload |-> IF v \in {u} /\ HasSession(v)
                                           THEN "completed" ELSE session[v]]
          /\ UNCHANGED <<kb, clash>>
        BY <1>15, <2>1, <2>3, BaseOfAssumption DEF CompleteInsert, CreateDocument, SetSessionStatus, Return, Goto, u
    <3>4. Publishes(u)
        BY <2>1, <2>3, <3>2, <3>3, BaseOfAssumption DEF Publishes, LifeOf
    <3> QED
        BY <2>1, <3>1, <3>4, LifeSteps
  <2> QED
    BY <2>2, <2>3
<1>16. ASSUME NEW w \in Worker, Abort(w)
      PROVE  Life!Next \/ UNCHANGED lifeStatus
  <2>1. Same
    BY <1>16, BaseOfAssumption DEF Same, LifeOf, Abort, Return, Goto
  <2> QED
    BY <2>1, LifeSteps
<1>17. ASSUME NEW g \in Collector, ExpireStaleSessions(g)
      PROVE  Life!Next \/ UNCHANGED lifeStatus
  <2>1. Contends(clash')
    BY <1>17 DEF Contends, LifeOf, ExpireStaleSessions, List, ExpiredSessions
  <2>2. clash' \subseteq Upload
    BY <1>17 DEF ExpireStaleSessions, List, ExpiredSessions
  <2> QED
    BY <2>1, <2>2, LifeSteps
<1>18. ASSUME NEW g \in Collector, ExpireStaleSessionsCommit(g)
      PROVE  Life!Next \/ UNCHANGED lifeStatus
  <2>1. Same
    BY <1>18, BaseOfAssumption DEF Same, LifeOf, ExpireStaleSessionsCommit, SetSessionStatus, Finish
  <2> QED
    BY <2>1, LifeSteps
<1>19. ASSUME NEW g \in Collector, PurgeDeletedObjects(g)
      PROVE  Life!Next \/ UNCHANGED lifeStatus
  <2>1. Contends(clash')
    BY <1>19 DEF Contends, LifeOf, PurgeDeletedObjects, List, DeletedDocuments
  <2>2. clash' \subseteq Upload
    BY <1>19 DEF PurgeDeletedObjects, List, DeletedDocuments
  <2> QED
    BY <2>1, <2>2, LifeSteps
<1>20. ASSUME NEW g \in Collector, PurgeDeletedObjectsCommit(g)
      PROVE  Life!Next \/ UNCHANGED lifeStatus
  <2>1. Same
    BY <1>20, BaseOfAssumption DEF Same, LifeOf, PurgeDeletedObjectsCommit, HardDelete, Finish
  <2> QED
    BY <2>1, LifeSteps
<1>21. ASSUME NEW g \in Collector, PurgeDeletedKnowledgeBases(g)
      PROVE  Life!Next \/ UNCHANGED lifeStatus
  <2>1. Same
    BY <1>21, BaseOfAssumption DEF Same, LifeOf, PurgeDeletedKnowledgeBases, SoftDeletedBases
  <2> QED
    BY <2>1, LifeSteps
<1>22. ASSUME NEW g \in Collector, NEW b \in Base, PurgeBase(g, b)
      PROVE  Life!Next \/ UNCHANGED lifeStatus
  <2>1. Contends(clash')
    BY <1>22 DEF Contends, LifeOf, PurgeBase, List, KeysOf
  <2>2. clash' \subseteq Upload
    BY <1>22 DEF PurgeBase, List, KeysOf
  <2> QED
    BY <2>1, <2>2, LifeSteps
<1>23. ASSUME NEW g \in Collector, BaseEmptied(g)
      PROVE  Life!Next \/ UNCHANGED lifeStatus
  <2>1. Same
    BY <1>23, BaseOfAssumption DEF Same, LifeOf, BaseEmptied
  <2> QED
    BY <2>1, LifeSteps
<1>24. ASSUME NEW g \in Collector, PurgeDeletedKnowledgeBasesCommit(g)
      PROVE  Life!Next \/ UNCHANGED lifeStatus
  <2>1. Same
    BY <1>24, BaseOfAssumption DEF Same, LifeOf, PurgeDeletedKnowledgeBasesCommit, DeleteRows, DeleteBases, Finish
  <2> QED
    BY <2>1, LifeSteps
<1>25. ASSUME NEW g \in Collector, NEW u \in Upload, Remove(g, u)
      PROVE  Life!Next \/ UNCHANGED lifeStatus
  <2>1. Same
    BY <1>25, BaseOfAssumption DEF Same, LifeOf, Remove
  <2> QED
    BY <2>1, LifeSteps
<1>26. ASSUME NEW g \in Collector, NEW u \in Upload, RemoveFails(g, u)
      PROVE  Life!Next \/ UNCHANGED lifeStatus
  <2>1. Same
    BY <1>26, BaseOfAssumption DEF Same, LifeOf, RemoveFails
  <2> QED
    BY <2>1, LifeSteps
<1>27. ASSUME NEW g \in Collector, Crash(g)
      PROVE  Life!Next \/ UNCHANGED lifeStatus
  <2>1. Same
    BY <1>27, BaseOfAssumption DEF Same, LifeOf, Crash
  <2> QED
    BY <2>1, LifeSteps
<1>28. CASE UNCHANGED vars
  <2>1. Same
    BY <1>28 DEF Same, LifeOf
  <2> QED
    BY <2>1, LifeSteps
<1> HIDE DEF TypeOK, KbState, SessionState, DocumentState, ObjectState, Point, Phase, vars, rows, store, worker, pass, loop, RowInv, RequestInv, PassInv, QuietInv, Quiet, Completes, Visible, Closed, HasSession, HasDocument, Active, GetBase
<1>29. CASE UserStep
    BY <1>29, <1>1, <1>2, <1>3 DEF UserStep
<1>30. CASE StoreStep
    BY <1>30, <1>4, <1>5, <1>6, <1>7 DEF StoreStep
<1>31. ASSUME NEW w \in Worker, WorkerStep(w)
      PROVE  Life!Next \/ UNCHANGED lifeStatus
    BY <1>31, <1>8, <1>9, <1>10, <1>11, <1>12, <1>13, <1>14, <1>15, <1>16 DEF WorkerStep, RequestStep
<1>32. ASSUME NEW g \in Collector, CollectorStep(g)
      PROVE  Life!Next \/ UNCHANGED lifeStatus
    BY <1>32, <1>17, <1>18, <1>19, <1>20, <1>21, <1>22, <1>23, <1>24, <1>25, <1>26, <1>27 DEF CollectorStep, PassStep
<1> QED
    BY <1>28, <1>29, <1>30, <1>31, <1>32 DEF Next

(* Documents implements Lifecycle: once retired, never shown again.        *)
THEOREM Implements == Spec => NeverShownAgain
<1>1. Init => Life!Init
  <2> SUFFICES ASSUME Init
               PROVE  \A u \in Upload : LifeOf(u) = "unpublished"
    BY DEF Life!Init, lifeStatus
  <2> QED
    BY BaseOfAssumption DEF Init, LifeOf, Visible
<1>2. TypeOK /\ IInv /\ [Next]_vars => [Life!Next]_lifeStatus
    BY LifeNext DEF IInv
<1> QED
    BY <1>1, <1>2, TypeCorrect, Invariance, PTL DEF Spec, NeverShownAgain, Life!Spec

-----------------------------------------------------------------------------
(* What a lock of the session row, held by completions and by the passes   *)
(* over its key, would give: nothing is contended for, and documents have  *)
(* their bytes and sessions without exception.                             *)
KeysTakeTurns ==
    \A u \in Upload :
        /\ \A v, w \in Worker : Completes(v, u) /\ Completes(w, u) => v = w
        /\ u \in Completing => u \notin Collecting

NoneMissing == \A u \in Upload :
    /\ Visible(u) => object[u] # "absent"
    /\ HasDocument(u) => session[u] = "completed"

(* A clash is two at work on one key in the state it leads to.             *)
LEMMA NoClash ==
    ASSUME TypeOK, KeysTakeTurns', clash = {}, [Next]_vars
    PROVE  clash' = {}
<1>1. ASSUME NEW w \in Worker, NEW u \in Upload, CompleteUpload(w, u)
      PROVE  clash' = {}
    <2>1. Completes(w, u)'
        BY <1>1 DEF CompleteUpload, Goto, Completes, TypeOK
    <2>2. u \in Completing'
        BY <2>1 DEF Completing, Completes
    <2>3. u \notin Collecting
        BY <1>1, <2>2 DEF CompleteUpload, pass, loop, Collecting, KeysTakeTurns
    <2>4. ASSUME NEW v \in Worker, Completes(v, u) PROVE FALSE
        <3>1. v # w /\ Completes(v, u)'
            BY <1>1, <2>4 DEF CompleteUpload, Goto, Completes, TypeOK
        <3> QED BY <2>1, <3>1 DEF KeysTakeTurns
    <2>5. u \notin Completing
        BY <2>4 DEF Completing, Completes
    <2> QED BY <1>1, <2>3, <2>5 DEF CompleteUpload
<1>2. ASSUME NEW g \in Collector, NEW keys \in SUBSET Upload, NEW p, List(g, keys, p),
             UNCHANGED worker
      PROVE  clash' = {}
    <2>1. todo'[g] = keys
        BY <1>2 DEF List, TypeOK
    <2>2. keys \subseteq Collecting'
        BY <2>1 DEF Collecting
    <2>3. Completing' = Completing
        BY <1>2 DEF Completing, worker
    <2>4. keys \cap Completing = {}
        BY <2>2, <2>3 DEF KeysTakeTurns
    <2> QED BY <1>2, <2>4 DEF List
<1>3. ASSUME NEW g \in Collector,
             \/ ExpireStaleSessions(g) \/ PurgeDeletedObjects(g)
             \/ \E b \in Base : PurgeBase(g, b)
      PROVE  clash' = {}
    <2>1. /\ ExpiredSessions \in SUBSET Upload /\ DeletedDocuments \in SUBSET Upload
          /\ \A b : KeysOf(b) \in SUBSET Upload
        BY DEF ExpiredSessions, DeletedDocuments, KeysOf, TypeOK
    <2> QED BY <1>2, <1>3, <2>1 DEF ExpireStaleSessions, PurgeDeletedObjects, PurgeBase
<1>4. ASSUME UserStep \/ StoreStep PROVE clash' = {}
    BY <1>4 DEF UserStep, StoreStep, CreateBase, DeleteBase, DeleteDocument, BeginPut,
       LandPut, AbortPut, Expire
<1>5. ASSUME NEW w \in Worker,
             RequestStep(w) \/ Abort(w) \/ \E u \in Upload : CreateUploadUrl(w, u)
      PROVE  clash' = {}
    BY <1>5 DEF RequestStep, Abort, CreateUploadUrl, CreateUploadUrlCommit, CompleteExpired,
       CompleteStat, CompleteFailed, CompleteRemove, CompleteInsert
<1>6. ASSUME NEW g \in Collector,
             \/ ExpireStaleSessionsCommit(g) \/ PurgeDeletedObjectsCommit(g)
             \/ PurgeDeletedKnowledgeBases(g) \/ BaseEmptied(g)
             \/ PurgeDeletedKnowledgeBasesCommit(g) \/ Crash(g)
             \/ \E u \in Upload : Remove(g, u) \/ RemoveFails(g, u)
      PROVE  clash' = {}
    BY <1>6 DEF ExpireStaleSessionsCommit, PurgeDeletedObjectsCommit,
       PurgeDeletedKnowledgeBases, BaseEmptied, PurgeDeletedKnowledgeBasesCommit, Crash,
       Remove, RemoveFails
<1>7. CASE UNCHANGED vars
    BY <1>7 DEF vars
<1> QED BY <1>1, <1>3, <1>4, <1>5, <1>6, <1>7 DEF Next, WorkerStep, CollectorStep, PassStep

(* Then every document a user can see has its bytes, and every stored one  *)
(* a completed session, in every reachable state.                          *)
THEOREM BytesStayInTurns == Spec /\ []KeysTakeTurns => []NoneMissing
<1> DEFINE Unclashed == clash = {}
<1>1. Init => Unclashed
    BY DEF Init
<1>2. TypeOK /\ KeysTakeTurns' /\ Unclashed /\ [Next]_vars => Unclashed'
    BY NoClash
<1>3. Unclashed /\ VisibleHasBytes /\ SessionAgrees => NoneMissing
    BY DEF VisibleHasBytes, SessionAgrees, NoneMissing
<1> HIDE DEF Unclashed
<1> QED BY <1>1, <1>2, <1>3, TypeCorrect, BytesStay, SessionsAgree, PTL DEF Spec
=============================================================================
