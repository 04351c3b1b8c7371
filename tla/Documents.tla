------------------------------ MODULE Documents ------------------------------
(***************************************************************************)
(* Knowledge-base documents: presigned upload, completion, soft delete and *)
(* the storage garbage collector (document_service.py and the repositories *)
(* below it).                                                              *)
(*                                                                         *)
(* The database is transactional, the object store is not.  A request or a *)
(* collector pass reads rows, calls the store, and only then commits;      *)
(* between those points every other worker process may run.  Each such     *)
(* stretch is one action here, named after the method and the point it     *)
(* reaches.  A transaction's writes take effect at its commit.             *)
(*                                                                         *)
(* An upload session, the document it may become and the object key both   *)
(* name are created together and are in bijection, so one element of       *)
(* Upload stands for all three.                                            *)
(***************************************************************************)
EXTENDS Naturals

CONSTANTS
    Base,        \* knowledge base ids
    Upload,      \* upload session / document / object key ids
    BaseOf,      \* the knowledge base each upload was opened for
    Worker,      \* web workers serving create_upload_url and complete_upload
    Collector,   \* invocations of POST /ops/storage/gc that may overlap
    NoBase, NoUpload,
    MaxFaults    \* bound on store failures and process crashes

ASSUME BaseOfAssumption == BaseOf \in [Upload -> Base]
ASSUME NoneAssumption == NoBase \notin Base /\ NoUpload \notin Upload
ASSUME FaultsAssumption == MaxFaults \in Nat

VARIABLES
    kb,          \* knowledge_bases rows
    session,     \* upload_sessions rows: their status
    document,    \* documents rows
    object,      \* the object stored under the upload's key, by its size
    expired,     \* uploads whose expires_at has passed
    inflight,    \* uploads with a PUT whose URL was accepted and is streaming
    pc, target,  \* per worker: the point its request has reached, on what
    phase,       \* per collector: the pass it is in
    todo, done,  \* per collector: keys left in the pass, keys removed by it
    bases, base, drop,  \* per collector: the loop over soft-deleted bases
    faults,
    late,        \* history: a PUT landed when the base was already deleted
    clash        \* history: a completion overlapped other work on the key

rows == <<kb, session, document>>
store == <<object, expired, inflight>>
worker == <<pc, target>>
pass == <<phase, todo, done>>
loop == <<bases, base, drop>>
vars == <<rows, store, worker, pass, loop, faults, late, clash>>

KbState == {"absent", "active", "deleted", "purged"}
SessionState == {"none", "initiated", "completed", "expired", "failed", "purged"}
DocumentState == {"none", "live", "deleted"}
ObjectState == {"absent", "declared", "other"}
Point == {"idle", "create", "expire", "stat", "fail", "remove", "insert"}
Phase == {"idle", "expire", "expired", "docs", "purged", "bases"}

TypeOK ==
    /\ kb \in [Base -> KbState]
    /\ session \in [Upload -> SessionState]
    /\ document \in [Upload -> DocumentState]
    /\ object \in [Upload -> ObjectState]
    /\ expired \subseteq Upload
    /\ inflight \subseteq Upload
    /\ pc \in [Worker -> Point]
    /\ target \in [Worker -> Upload \cup {NoUpload}]
    /\ \A w \in Worker : pc[w] # "idle" => target[w] \in Upload
    /\ phase \in [Collector -> Phase]
    /\ todo \in [Collector -> SUBSET Upload]
    /\ done \in [Collector -> SUBSET Upload]
    /\ bases \in [Collector -> SUBSET Base]
    /\ base \in [Collector -> Base \cup {NoBase}]
    /\ drop \in [Collector -> SUBSET Base]
    /\ faults \in 0 .. MaxFaults
    /\ late \subseteq Upload
    /\ clash \subseteq Upload

Init ==
    /\ kb = [b \in Base |-> "absent"]
    /\ session = [u \in Upload |-> "none"]
    /\ document = [u \in Upload |-> "none"]
    /\ object = [u \in Upload |-> "absent"]
    /\ expired = {}
    /\ inflight = {}
    /\ pc = [w \in Worker |-> "idle"]
    /\ target = [w \in Worker |-> NoUpload]
    /\ phase = [g \in Collector |-> "idle"]
    /\ todo = [g \in Collector |-> {}]
    /\ done = [g \in Collector |-> {}]
    /\ bases = [g \in Collector |-> {}]
    /\ base = [g \in Collector |-> NoBase]
    /\ drop = [g \in Collector |-> {}]
    /\ faults = 0
    /\ late = {}
    /\ clash = {}

(* The repositories: what their statements find and write.                 *)
GetBase(b) == kb[b] = "active"
InsertBase(b) == kb' = [kb EXCEPT ![b] = "active"]
SoftDeleteBase(b) == GetBase(b) /\ kb' = [kb EXCEPT ![b] = "deleted"]
SoftDeletedBases == {b \in Base : kb[b] = "deleted"}

HasSession(u) == session[u] \notin {"none", "purged"}
CreateSession(u) == session' = [session EXCEPT ![u] = "initiated"]

GetDocument(u) == document[u] = "live"
CreateDocument(u) == document' = [document EXCEPT ![u] = "live"]
SoftDeleteDocument(u) ==
    GetDocument(u) /\ document' = [document EXCEPT ![u] = "deleted"]

HasDocument(u) == document[u] # "none"
Active(u) == GetBase(BaseOf[u])

(* update upload_sessions set status = ... where id = ?  No guard on the   *)
(* present status; a row that is gone is not touched.                      *)
SetSessionStatus(us, status) ==
    session' = [u \in Upload |->
                  IF u \in us /\ HasSession(u) THEN status ELSE session[u]]

(* The deletes of the collector, by id or by base; HardDelete does not     *)
(* look at deleted_at.  A Faulty... operator here and below is a variant   *)
(* of the definition after it with a bug; no specification uses it.        *)
FaultyHardDelete(us) == document' = document
HardDelete(us) == document' = [u \in Upload |-> IF u \in us THEN "none" ELSE document[u]]

FaultyDeleteRows(bs) ==
    /\ document' = [u \in Upload |-> IF BaseOf[u] \in bs THEN "none" ELSE document[u]]
    /\ UNCHANGED session
DeleteRows(bs) ==
    /\ document' = [u \in Upload |-> IF BaseOf[u] \in bs THEN "none" ELSE document[u]]
    /\ session' = [u \in Upload |-> IF BaseOf[u] \in bs /\ HasSession(u)
                                    THEN "purged" ELSE session[u]]

FaultyDeleteBases(bs) == kb' = kb
DeleteBases(bs) == kb' = [b \in Base |-> IF b \in bs THEN "purged" ELSE kb[b]]

(* What the collector's passes select: initiated sessions past expires_at, *)
(* soft-deleted documents, and every key a row of a base names.            *)
FaultyExpiredSessions == expired
FaultyFreshSessions == {u \in Upload \ expired : session[u] = "initiated"}
ExpiredSessions == {u \in expired : session[u] = "initiated"}

FaultyDeletedDocuments == {u \in Upload : HasDocument(u)}
DeletedDocuments == {u \in Upload : document[u] = "deleted"}

KeysOf(b) == {u \in Upload : BaseOf[u] = b /\ (HasSession(u) \/ HasDocument(u))}

(* What complete_upload asks of the session it read.                       *)
FaultyCompletable(u) == Active(u) /\ HasSession(u)
Completable(u) == Active(u) /\ session[u] = "initiated"

(* The keys a completion, or a collector pass, is at work on.              *)
Completing == {u \in Upload : \E w \in Worker :
                  target[w] = u /\ pc[w] \notin {"idle", "create"}}
Collecting == {u \in Upload : \E g \in Collector :
                  \/ u \in todo[g] \cup done[g]
                  \/ BaseOf[u] \in drop[g] \cup {base[g]}}

(***************************************************************************)
(* Knowledge bases and the user's side of documents: one statement each.   *)
(***************************************************************************)

CreateBase(b) ==
    /\ kb[b] = "absent"
    /\ InsertBase(b)
    /\ UNCHANGED <<session, document, store, worker, pass, loop, faults, late, clash>>

DeleteBase(b) ==
    /\ SoftDeleteBase(b)
    /\ UNCHANGED <<session, document, store, worker, pass, loop, faults, late, clash>>

DeleteDocument(u) ==
    /\ Active(u)
    /\ SoftDeleteDocument(u)
    /\ UNCHANGED <<kb, session, store, worker, pass, loop, faults, late, clash>>

(***************************************************************************)
(* The store side: a client PUTs straight to the store.  The URL is        *)
(* checked when the request starts, the object appears when it ends, and   *)
(* nothing ties the written size to the declared one.  A URL may be used   *)
(* again until it expires.                                                 *)
(***************************************************************************)

TokenAccepted(u) == session[u] # "none" /\ u \notin expired

BeginPut(u) ==
    /\ TokenAccepted(u)
    /\ u \notin inflight
    /\ inflight' = inflight \cup {u}
    /\ UNCHANGED <<rows, object, expired, worker, pass, loop, faults, late, clash>>

LandPut(u, size) ==
    /\ u \in inflight
    /\ inflight' = inflight \ {u}
    /\ object' = [object EXCEPT ![u] = size]
    /\ late' = IF Active(u) THEN late ELSE late \cup {u}
    /\ UNCHANGED <<rows, expired, worker, pass, loop, faults, clash>>

AbortPut(u) ==
    /\ u \in inflight
    /\ inflight' = inflight \ {u}
    /\ UNCHANGED <<rows, object, expired, worker, pass, loop, faults, late, clash>>

(* presigned_url_ttl_seconds have passed since the session was created.    *)
Expire(u) ==
    /\ session[u] # "none"
    /\ u \notin expired
    /\ expired' = expired \cup {u}
    /\ UNCHANGED <<rows, object, inflight, worker, pass, loop, faults, late, clash>>

(***************************************************************************)
(* Requests.                                                               *)
(***************************************************************************)

FaultyGoto(w, point, u) == pc' = [pc EXCEPT ![w] = point] /\ UNCHANGED target
Goto(w, point, u) ==
    /\ pc' = [pc EXCEPT ![w] = point]
    /\ target' = [target EXCEPT ![w] = u]

Return(w) == Goto(w, "idle", NoUpload)

(* create_upload_url: the base is read and found active; the ids are fresh.*)
CreateUploadUrl(w, u) ==
    /\ pc[w] = "idle"
    /\ Active(u)
    /\ session[u] = "none"
    /\ \A v \in Worker : target[v] # u
    /\ Goto(w, "create", u)
    /\ UNCHANGED <<rows, store, pass, loop, faults, late, clash>>

(* ... the session is inserted and committed; the foreign key refuses it   *)
(* if the base has been hard-deleted meanwhile.                            *)
CreateUploadUrlCommit(w) ==
    LET u == target[w] IN
    /\ pc[w] = "create"
    /\ IF kb[BaseOf[u]] = "purged" THEN UNCHANGED session ELSE CreateSession(u)
    /\ Return(w)
    /\ UNCHANGED <<kb, document, store, pass, loop, faults, late, clash>>

(* complete_upload: base and session are read; an active, unexpired        *)
(* session goes on to the store, an expired one is marked so.              *)
CompleteUpload(w, u) ==
    /\ pc[w] = "idle"
    /\ Completable(u)
    /\ Goto(w, IF u \in expired THEN "expire" ELSE "stat", u)
    /\ clash' = clash \cup ({u} \cap (Completing \cup Collecting))
    /\ UNCHANGED <<rows, store, pass, loop, faults, late>>

CompleteExpired(w) ==
    /\ pc[w] = "expire"
    /\ SetSessionStatus({target[w]}, "expired")
    /\ Return(w)
    /\ UNCHANGED <<kb, document, store, pass, loop, faults, late, clash>>

(* store.stat: 404 when the object is missing, else the size is compared.  *)
CompleteStat(w) ==
    LET u == target[w] IN
    /\ pc[w] = "stat"
    /\ \/ object[u] = "absent" /\ Return(w)
       \/ object[u] = "declared" /\ Goto(w, "insert", u)
       \/ object[u] = "other" /\ Goto(w, "fail", u)
    /\ UNCHANGED <<rows, store, pass, loop, faults, late, clash>>

CompleteFailed(w) ==
    /\ pc[w] = "fail"
    /\ SetSessionStatus({target[w]}, "failed")
    /\ Goto(w, "remove", target[w])
    /\ UNCHANGED <<kb, document, store, pass, loop, faults, late, clash>>

(* best_effort_remove; a failing store is Abort below.                     *)
CompleteRemove(w) ==
    /\ pc[w] = "remove"
    /\ object' = [object EXCEPT ![target[w]] = "absent"]
    /\ Return(w)
    /\ UNCHANGED <<rows, expired, inflight, pass, loop, faults, late, clash>>

(* The document row and the session status, in one transaction.  A row     *)
(* with this primary key, or a base that is gone, refuses the insert and   *)
(* rolls back.                                                             *)
CompleteInsert(w) ==
    LET u == target[w] IN
    /\ pc[w] = "insert"
    /\ IF HasDocument(u) \/ kb[BaseOf[u]] = "purged"
       THEN UNCHANGED <<document, session>>
       ELSE CreateDocument(u) /\ SetSessionStatus({u}, "completed")
    /\ Return(w)
    /\ UNCHANGED <<kb, store, pass, loop, faults, late, clash>>

(* A worker dies or the store raises: the open transaction rolls back.     *)
Abort(w) ==
    /\ pc[w] # "idle"
    /\ faults < MaxFaults
    /\ faults' = faults + 1
    /\ Return(w)
    /\ UNCHANGED <<rows, store, pass, loop, late, clash>>

(***************************************************************************)
(* The collector: POST /ops/storage/gc runs three document passes, each    *)
(* its own transaction.  The row changes of a pass take effect at its      *)
(* commit, the removals at once.                                           *)
(***************************************************************************)

List(g, keys, p) ==
    /\ todo' = [todo EXCEPT ![g] = keys]
    /\ done' = [done EXCEPT ![g] = {}]
    /\ phase' = [phase EXCEPT ![g] = p]
    /\ clash' = clash \cup (keys \cap Completing)

(* expire_stale_sessions lists the initiated sessions past expires_at.     *)
ExpireStaleSessions(g) ==
    /\ phase[g] = "idle"
    /\ List(g, ExpiredSessions, "expire")
    /\ UNCHANGED <<rows, store, worker, loop, faults, late>>

(* purge_deleted_objects lists the soft-deleted documents.                 *)
PurgeDeletedObjects(g) ==
    /\ phase[g] = "expired"
    /\ List(g, DeletedDocuments, "docs")
    /\ UNCHANGED <<rows, store, worker, loop, faults, late>>

(* purge_deleted_knowledge_bases lists the soft-deleted bases ...          *)
PurgeDeletedKnowledgeBases(g) ==
    /\ phase[g] = "purged"
    /\ phase' = [phase EXCEPT ![g] = "bases"]
    /\ bases' = [bases EXCEPT ![g] = SoftDeletedBases]
    /\ UNCHANGED <<rows, store, worker, todo, done, base, drop, faults, late, clash>>

(* ... and takes them in turn, listing every key a row of the base names.  *)
PurgeBase(g, b) ==
    /\ phase[g] = "bases"
    /\ base[g] = NoBase
    /\ b \in bases[g]
    /\ base' = [base EXCEPT ![g] = b]
    /\ bases' = [bases EXCEPT ![g] = @ \ {b}]
    /\ List(g, KeysOf(b), "bases")
    /\ UNCHANGED <<rows, store, worker, drop, faults, late>>

(* remove_if_present returned True: removed, or already gone.              *)
Remove(g, u) ==
    /\ u \in todo[g]
    /\ object' = [object EXCEPT ![u] = "absent"]
    /\ todo' = [todo EXCEPT ![g] = @ \ {u}]
    /\ done' = [done EXCEPT ![g] = @ \cup {u}]
    /\ UNCHANGED <<rows, expired, inflight, worker, phase, loop, faults, late, clash>>

(* remove_if_present returned False.  The session and document passes skip *)
(* the key; all(...) gives up the rest of the base's keys and the base.    *)
FaultyRemoveFails(g, u) ==
    /\ u \in todo[g]
    /\ faults < MaxFaults
    /\ faults' = faults + 1
    /\ todo' = [todo EXCEPT ![g] = @ \ {u}]
    /\ UNCHANGED <<rows, store, worker, phase, done, loop, late, clash>>
RemoveFails(g, u) ==
    /\ u \in todo[g]
    /\ faults < MaxFaults
    /\ faults' = faults + 1
    /\ IF phase[g] = "bases"
       THEN /\ base' = [base EXCEPT ![g] = NoBase]
            /\ todo' = [todo EXCEPT ![g] = {}]
            /\ done' = [done EXCEPT ![g] = {}]
       ELSE /\ todo' = [todo EXCEPT ![g] = @ \ {u}]
            /\ UNCHANGED <<base, done>>
    /\ UNCHANGED <<rows, store, worker, phase, bases, drop, late, clash>>

Finish(g, p) ==
    /\ phase' = [phase EXCEPT ![g] = p]
    /\ done' = [done EXCEPT ![g] = {}]

ExpireStaleSessionsCommit(g) ==
    /\ phase[g] = "expire"
    /\ todo[g] = {}
    /\ SetSessionStatus(done[g], "expired")
    /\ Finish(g, "expired")
    /\ UNCHANGED <<kb, document, store, worker, todo, loop, faults, late, clash>>

PurgeDeletedObjectsCommit(g) ==
    /\ phase[g] = "docs"
    /\ todo[g] = {}
    /\ HardDelete(done[g])
    /\ Finish(g, "purged")
    /\ UNCHANGED <<kb, session, store, worker, todo, loop, faults, late, clash>>

(* Every key of the base is gone: its rows will be dropped.                *)
BaseEmptied(g) ==
    /\ base[g] # NoBase
    /\ todo[g] = {}
    /\ drop' = [drop EXCEPT ![g] = @ \cup {base[g]}]
    /\ base' = [base EXCEPT ![g] = NoBase]
    /\ done' = [done EXCEPT ![g] = {}]
    /\ UNCHANGED <<rows, store, worker, phase, todo, bases, faults, late, clash>>

(* delete_rows_for_kb and the hard delete of the bases, committed.         *)
PurgeDeletedKnowledgeBasesCommit(g) ==
    /\ phase[g] = "bases"
    /\ bases[g] = {}
    /\ base[g] = NoBase
    /\ DeleteRows(drop[g])
    /\ DeleteBases(drop[g])
    /\ drop' = [drop EXCEPT ![g] = {}]
    /\ Finish(g, "idle")
    /\ UNCHANGED <<store, worker, todo, bases, base, faults, late, clash>>

(* The process running the passes dies: rows roll back, removals stay.     *)
Crash(g) ==
    /\ phase[g] # "idle"
    /\ faults < MaxFaults
    /\ faults' = faults + 1
    /\ phase' = [phase EXCEPT ![g] = "idle"]
    /\ todo' = [todo EXCEPT ![g] = {}]
    /\ done' = [done EXCEPT ![g] = {}]
    /\ bases' = [bases EXCEPT ![g] = {}]
    /\ base' = [base EXCEPT ![g] = NoBase]
    /\ drop' = [drop EXCEPT ![g] = {}]
    /\ UNCHANGED <<rows, store, worker, late, clash>>

-----------------------------------------------------------------------------

UserStep ==
    \/ \E b \in Base : CreateBase(b) \/ DeleteBase(b)
    \/ \E u \in Upload : DeleteDocument(u)

StoreStep ==
    \E u \in Upload :
        \/ BeginPut(u)
        \/ \E size \in {"declared", "other"} : LandPut(u, size)
        \/ AbortPut(u)
        \/ Expire(u)

(* A batch takes its items in turn, each a request and transaction of its  *)
(* own; an item that fails is reported and the next one taken.             *)
RequestStep(w) ==
    \/ CreateUploadUrlCommit(w)
    \/ CompleteExpired(w)
    \/ CompleteStat(w)
    \/ CompleteFailed(w)
    \/ CompleteRemove(w)
    \/ CompleteInsert(w)

WorkerStep(w) ==
    \/ \E u \in Upload : CreateUploadUrl(w, u) \/ CompleteUpload(w, u)
    \/ RequestStep(w)
    \/ Abort(w)

(* What a collector does when no store call fails.                         *)
PassStep(g) ==
    \/ ExpireStaleSessions(g)
    \/ ExpireStaleSessionsCommit(g)
    \/ PurgeDeletedObjects(g)
    \/ PurgeDeletedObjectsCommit(g)
    \/ PurgeDeletedKnowledgeBases(g)
    \/ \E b \in Base : PurgeBase(g, b)
    \/ BaseEmptied(g)
    \/ PurgeDeletedKnowledgeBasesCommit(g)
    \/ \E u \in Upload : Remove(g, u)

CollectorStep(g) ==
    \/ PassStep(g)
    \/ \E u \in Upload : RemoveFails(g, u)
    \/ Crash(g)

Next ==
    \/ UserStep
    \/ StoreStep
    \/ \E w \in Worker : WorkerStep(w)
    \/ \E g \in Collector : CollectorStep(g)

Spec == Init /\ [][Next]_vars

(* The collector is run again and again (a cron calls the endpoint), a     *)
(* request that has begun runs on, a started PUT ends, time passes.        *)
Fairness ==
    /\ \A g \in Collector : WF_vars(PassStep(g))
    /\ \A w \in Worker : WF_vars(RequestStep(w))
    /\ \A u \in Upload : WF_vars(LandPut(u, "declared") \/ AbortPut(u)) /\ WF_vars(Expire(u))

FairSpec == Spec /\ Fairness

-----------------------------------------------------------------------------
(* Safety.                                                                 *)

Visible(u) == document[u] = "live" /\ Active(u)

(* A document a user can list and download has its bytes, as long as its   *)
(* completion overlapped no other completion of the same session and no    *)
(* collector pass over its key: a completion stats the object before it    *)
(* inserts the row, and the collector removes only keys of sessions never  *)
(* completed, documents deleted, or bases deleted.                         *)
VisibleHasBytes == \A u \in Upload :
    Visible(u) /\ u \notin clash => object[u] # "absent"

(* Under the same condition the session of a stored document is, and       *)
(* stays, completed: the unguarded status update of another request or     *)
(* pass never overwrites it.                                               *)
SessionAgrees == \A u \in Upload :
    HasDocument(u) /\ u \notin clash => session[u] = "completed"

(* The collector drops the last row naming a key only after the object is  *)
(* gone, through failing removals, crashes and overlapping passes: an      *)
(* object no row names was PUT after its base had been deleted.            *)
ObjectsAreNamed == \A u \in Upload :
    object[u] # "absent" /\ ~HasSession(u) /\ ~HasDocument(u) => u \in late

(* A hard-deleted base leaves no row behind, and no worker that was under  *)
(* way when it went brings one back.                                       *)
PurgedBaseIsEmpty == \A u \in Upload :
    kb[BaseOf[u]] = "purged" => ~HasSession(u) /\ ~HasDocument(u)

(* Under the same condition only a user's delete takes a document out of   *)
(* sight: no collector pass, crash or losing completion does.              *)
HiddenByDelete == \A u \in Upload :
    u \notin clash /\ Visible(u) /\ ~Visible(u)' =>
        document[u]' = "deleted" \/ kb[BaseOf[u]]' = "deleted"
OnlyDeletesHide == [][HiddenByDelete]_vars

(* The abstract promise these rows keep (Lifecycle): a document that was   *)
(* deleted, or whose base was, is never shown again.  A document row the   *)
(* collector has dropped is known by its completed session.                *)
LifeOf(u) ==
    IF u \in clash THEN "contended"
    ELSE IF Visible(u) THEN "shown"
    ELSE IF \/ kb[BaseOf[u]] \in {"deleted", "purged"}
            \/ document[u] # "live" /\ session[u] = "completed"
         THEN "retired"
    ELSE "unpublished"
lifeStatus == [u \in Upload |-> LifeOf(u)]

Life == INSTANCE Lifecycle WITH Item <- Upload, status <- lifeStatus

(* Documents implements Lifecycle.                                         *)
NeverShownAgain == Life!Spec

(* Liveness, under FairSpec.                                               *)

(* A timed-out session is settled.                                         *)
StaleSessionsSettle == \A u \in Upload :
    (u \in expired /\ session[u] = "initiated") ~> session[u] # "initiated"

(* A soft-deleted document is hard-deleted.                                *)
DeletedDocumentsGo == \A u \in Upload :
    (document[u] = "deleted") ~> (document[u] # "deleted")

(* A soft-deleted base, with all it held, is hard-deleted, whatever was    *)
(* under way in it and whichever removals failed on the way.               *)
DeletedBasesGo == \A b \in Base : (kb[b] = "deleted") ~> (kb[b] = "purged")

(* What expire_stale_sessions documents ("an initiated session and a       *)
(* possibly-orphan MinIO object. This reclaims both") and section 10 of    *)
(* KNOWLEDGE_BASE_STORAGE_AND_BUILD_SPEC.md repeats: once the URL can      *)
(* bring no more bytes, the orphan object of an initiated session goes in  *)
(* some later pass (unless its base is deleted first).                     *)
Orphan(u) == /\ object[u] # "absent" /\ session[u] = "initiated"
             /\ u \in expired /\ u \notin inflight \cup Collecting
OrphansAreReclaimed == \A u \in Upload :
    Orphan(u) ~> (object[u] = "absent" \/ HasDocument(u) \/ ~Active(u))
=============================================================================
