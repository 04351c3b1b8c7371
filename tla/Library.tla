------------------------------- MODULE Library -------------------------------
(***************************************************************************)
(* The user library: a user's own files, uploaded by presigned PUT,        *)
(* completed, previewed, deleted and collected (library_service.py and     *)
(* library_repository.py).                                                 *)
(*                                                                         *)
(* The protocol is that of Documents written a second time, without bases: *)
(* there is no owner that can be deleted under a request, session rows are *)
(* never deleted, a collector pass takes a page of the deleted files, and  *)
(* previews read the stored object.  A session, the file it becomes and    *)
(* its object key share one element of File.  Requests of a user or tenant *)
(* that does not own the row are answered 404 and change nothing.          *)
(***************************************************************************)
CONSTANTS
    File,        \* upload session / file / object key ids
    Worker,      \* web workers serving complete_upload and preview_file
    Collector    \* invocations of POST /ops/storage/gc that may overlap

VARIABLES
    session,     \* library_upload_sessions rows: their status
    file,        \* library_files rows
    object,      \* the object stored under the file's key, by its size
    expired,     \* files whose session's expires_at has passed
    inflight,    \* files with a PUT whose URL was accepted and is streaming
    pc, target,  \* per worker: the point its request has reached, on what
    phase,       \* per collector: the pass it is in
    todo, done,  \* per collector: keys left in the pass, keys removed by it
    late,        \* history: a PUT landed when the file was deleted or gone
    clash        \* history: a completion overlapped other work on the key

rows == <<session, file>>
store == <<object, expired, inflight>>
worker == <<pc, target>>
pass == <<phase, todo, done>>
vars == <<rows, store, worker, pass, late, clash>>

SessionState == {"none", "initiated", "completed", "expired", "failed"}
FileState == {"none", "live", "deleted"}
ObjectState == {"absent", "declared", "other"}
Point == {"idle", "expire", "stat", "fail", "remove", "insert", "read"}
Phase == {"idle", "expire", "expired", "files"}

TypeOK ==
    /\ session \in [File -> SessionState]
    /\ file \in [File -> FileState]
    /\ object \in [File -> ObjectState]
    /\ expired \subseteq File
    /\ inflight \subseteq File
    /\ pc \in [Worker -> Point]
    /\ target \in [Worker -> File]
    /\ phase \in [Collector -> Phase]
    /\ todo \in [Collector -> SUBSET File]
    /\ done \in [Collector -> SUBSET File]
    /\ late \subseteq File
    /\ clash \subseteq File

(* The target of a worker means nothing before its first request.          *)
Init ==
    /\ session = [f \in File |-> "none"]
    /\ file = [f \in File |-> "none"]
    /\ object = [f \in File |-> "absent"]
    /\ expired = {}
    /\ inflight = {}
    /\ pc = [w \in Worker |-> "idle"]
    /\ target \in [Worker -> File]
    /\ phase = [g \in Collector |-> "idle"]
    /\ todo = [g \in Collector |-> {}]
    /\ done = [g \in Collector |-> {}]
    /\ late = {}
    /\ clash = {}

-----------------------------------------------------------------------------
(* The repository: what its statements find and write.                     *)

(* A session row is found by its id; the service compares its owner.       *)
GetUploadSession(f) == session[f] # "none"

(* The file row of this owner, unless it is soft-deleted.                  *)
GetFile(f) == file[f] = "live"

ListExpiredUploadSessions == {f \in expired : session[f] = "initiated"}

(* limit ?: a page of the soft-deleted rows, the oldest first.             *)
ListDeleted == SUBSET {f \in File : file[f] = "deleted"}

CreateUploadSession(f) == session' = [session EXCEPT ![f] = "initiated"]

(* By id: no guard on the status the row has by then.                      *)
SetUploadSessionStatus(fs, status) ==
    session' = [f \in File |-> IF f \in fs /\ session[f] # "none"
                               THEN status ELSE session[f]]

CreateFile(f) == file' = [file EXCEPT ![f] = "live"]

SoftDeleteFile(f) == GetFile(f) /\ file' = [file EXCEPT ![f] = "deleted"]

(* By id: whether the row is soft-deleted is not looked at again.          *)
HardDeleteFile(fs) == file' = [f \in File |-> IF f \in fs THEN "none" ELSE file[f]]

-----------------------------------------------------------------------------

(* The keys a completion, or a collector pass, is at work on.              *)
Completes(w, f) == target[w] = f /\ pc[w] \notin {"idle", "read"}
Completing == {f \in File : \E w \in Worker : Completes(w, f)}
Collecting == UNION {todo[g] \cup done[g] : g \in Collector}

(* The ids are fresh; the URL is signed before the commit, and a store     *)
(* that refuses to sign rolls the session back.                            *)
CreateUploadUrl(f) ==
    /\ ~GetUploadSession(f)
    /\ CreateUploadSession(f)
    /\ UNCHANGED <<file, store, worker, pass, late, clash>>

DeleteFile(f) ==
    /\ SoftDeleteFile(f)
    /\ UNCHANGED <<session, store, worker, pass, late, clash>>

(* The client's PUT, straight to the store, as in Documents.               *)
BeginPut(f) ==
    /\ session[f] # "none"
    /\ f \notin expired \cup inflight
    /\ inflight' = inflight \cup {f}
    /\ UNCHANGED <<rows, object, expired, worker, pass, late, clash>>

LandPut(f, size) ==
    /\ f \in inflight
    /\ inflight' = inflight \ {f}
    /\ object' = [object EXCEPT ![f] = size]
    /\ late' = IF session[f] = "completed" /\ file[f] # "live"
               THEN late \cup {f} ELSE late
    /\ UNCHANGED <<rows, expired, worker, pass, clash>>

AbortPut(f) ==
    /\ f \in inflight
    /\ inflight' = inflight \ {f}
    /\ UNCHANGED <<rows, object, expired, worker, pass, late, clash>>

Expire(f) ==
    /\ session[f] # "none"
    /\ f \notin expired
    /\ expired' = expired \cup {f}
    /\ UNCHANGED <<rows, object, inflight, worker, pass, late, clash>>

-----------------------------------------------------------------------------
(* Requests that call the store between reading and committing.            *)

Goto(w, point, f) ==
    /\ pc' = [pc EXCEPT ![w] = point]
    /\ target' = [target EXCEPT ![w] = f]

Return(w) == pc' = [pc EXCEPT ![w] = "idle"] /\ UNCHANGED target

(* complete_upload: the session is read and must be initiated.             *)
CompleteUpload(w, f) ==
    /\ pc[w] = "idle"
    /\ GetUploadSession(f)
    /\ session[f] = "initiated"
    /\ Goto(w, IF f \in expired THEN "expire" ELSE "stat", f)
    /\ clash' = clash \cup ({f} \cap (Completing \cup Collecting))
    /\ UNCHANGED <<rows, store, pass, late>>

CompleteExpired(w) ==
    /\ pc[w] = "expire"
    /\ SetUploadSessionStatus({target[w]}, "expired")
    /\ Return(w)
    /\ UNCHANGED <<file, store, pass, late, clash>>

(* store.stat: 404 when the object is missing, else the size is compared.  *)
CompleteStat(w) ==
    LET f == target[w] IN
    /\ pc[w] = "stat"
    /\ \/ object[f] = "absent" /\ Return(w)
       \/ object[f] = "declared" /\ Goto(w, "insert", f)
       \/ object[f] = "other" /\ Goto(w, "fail", f)
    /\ UNCHANGED <<rows, store, pass, late, clash>>

CompleteFailed(w) ==
    /\ pc[w] = "fail"
    /\ SetUploadSessionStatus({target[w]}, "failed")
    /\ Goto(w, "remove", target[w])
    /\ UNCHANGED <<file, store, pass, late, clash>>

(* best_effort_remove; a store that fails is Abort.                        *)
CompleteRemove(w) ==
    /\ pc[w] = "remove"
    /\ object' = [object EXCEPT ![target[w]] = "absent"]
    /\ Return(w)
    /\ UNCHANGED <<rows, expired, inflight, pass, late, clash>>

(* File row and session status in one transaction; a row with this id, soft*)
(* deleted or not, refuses the insert: 409, rolled back.                   *)
CompleteInsert(w) ==
    LET f == target[w] IN
    /\ pc[w] = "insert"
    /\ IF file[f] # "none"
       THEN UNCHANGED rows
       ELSE CreateFile(f) /\ SetUploadSessionStatus({f}, "completed")
    /\ Return(w)
    /\ UNCHANGED <<store, pass, late, clash>>

(* preview_file: the row is read, then, for a text or a docx, the object;  *)
(* a client following the URL of the other previews comes later still.     *)
PreviewFile(w, f) ==
    /\ pc[w] = "idle"
    /\ GetFile(f)
    /\ Goto(w, "read", f)
    /\ UNCHANGED <<rows, store, pass, late, clash>>

PreviewRead(w) ==
    /\ pc[w] = "read"
    /\ Return(w)
    /\ UNCHANGED <<rows, store, pass, late, clash>>

(* A worker dies or the store raises: the open transaction rolls back.     *)
Abort(w) ==
    /\ pc[w] # "idle"
    /\ Return(w)
    /\ UNCHANGED <<rows, store, pass, late, clash>>

-----------------------------------------------------------------------------
(* The library's two passes of POST /ops/storage/gc, a transaction each.   *)

List(g, keys, p) ==
    /\ todo' = [todo EXCEPT ![g] = keys]
    /\ phase' = [phase EXCEPT ![g] = p]
    /\ clash' = clash \cup (keys \cap Completing)
    /\ UNCHANGED done

ExpireStaleSessions(g) ==
    /\ phase[g] = "idle"
    /\ List(g, ListExpiredUploadSessions, "expire")
    /\ UNCHANGED <<rows, store, worker, late>>

PurgeDeletedFiles(g, page) ==
    /\ phase[g] = "expired"
    /\ page \in ListDeleted
    /\ List(g, page, "files")
    /\ UNCHANGED <<rows, store, worker, late>>

(* remove_if_present returned True: removed, or already gone.              *)
Remove(g, f) ==
    /\ f \in todo[g]
    /\ object' = [object EXCEPT ![f] = "absent"]
    /\ todo' = [todo EXCEPT ![g] = @ \ {f}]
    /\ done' = [done EXCEPT ![g] = @ \cup {f}]
    /\ UNCHANGED <<rows, expired, inflight, worker, phase, late, clash>>

(* It returned False: the row is kept for a later pass.                    *)
RemoveFails(g, f) ==
    /\ f \in todo[g]
    /\ todo' = [todo EXCEPT ![g] = @ \ {f}]
    /\ UNCHANGED <<rows, store, worker, phase, done, late, clash>>

Finish(g, p) ==
    /\ todo[g] = {}
    /\ phase' = [phase EXCEPT ![g] = p]
    /\ done' = [done EXCEPT ![g] = {}]
    /\ UNCHANGED todo

ExpireStaleSessionsCommit(g) ==
    /\ phase[g] = "expire"
    /\ SetUploadSessionStatus(done[g], "expired")
    /\ Finish(g, "expired")
    /\ UNCHANGED <<file, store, worker, late, clash>>

PurgeDeletedFilesCommit(g) ==
    /\ phase[g] = "files"
    /\ HardDeleteFile(done[g])
    /\ Finish(g, "idle")
    /\ UNCHANGED <<session, store, worker, late, clash>>

(* The process running the passes dies: rows roll back, removals stay.     *)
Crash(g) ==
    /\ phase[g] # "idle"
    /\ phase' = [phase EXCEPT ![g] = "idle"]
    /\ todo' = [todo EXCEPT ![g] = {}]
    /\ done' = [done EXCEPT ![g] = {}]
    /\ UNCHANGED <<rows, store, worker, late, clash>>

-----------------------------------------------------------------------------

UserStep == \E f \in File : CreateUploadUrl(f) \/ DeleteFile(f)

StoreStep ==
    \E f \in File :
        \/ BeginPut(f)
        \/ \E size \in {"declared", "other"} : LandPut(f, size)
        \/ AbortPut(f)
        \/ Expire(f)

WorkerStep(w) ==
    \/ \E f \in File : CompleteUpload(w, f) \/ PreviewFile(w, f)
    \/ CompleteExpired(w)
    \/ CompleteStat(w)
    \/ CompleteFailed(w)
    \/ CompleteRemove(w)
    \/ CompleteInsert(w)
    \/ PreviewRead(w)
    \/ Abort(w)

run_storage_gc(g) ==
    \/ ExpireStaleSessions(g)
    \/ ExpireStaleSessionsCommit(g)
    \/ \E page \in SUBSET File : PurgeDeletedFiles(g, page)
    \/ PurgeDeletedFilesCommit(g)
    \/ \E f \in File : Remove(g, f) \/ RemoveFails(g, f)
    \/ Crash(g)

Next ==
    \/ UserStep
    \/ StoreStep
    \/ \E w \in Worker : WorkerStep(w)
    \/ \E g \in Collector : run_storage_gc(g)

Spec == Init /\ [][Next]_vars

-----------------------------------------------------------------------------

(* A file a user can list has its bytes, and its session stays completed,  *)
(* as long as its completion overlapped no other completion of the session *)
(* and no collector pass over its key.                                     *)
FilesHaveBytes == \A f \in File : f \notin clash =>
    /\ GetFile(f) => object[f] # "absent"
    /\ file[f] # "none" => session[f] = "completed"

(* Under the same condition a file the collector dropped left no bytes     *)
(* behind, through failing removals, crashes and overlapping passes, unless*)
(* a PUT landed after the user's delete: no later pass would find them.    *)
PurgedFilesLeaveNothing == \A f \in File :
    f \notin clash /\ session[f] = "completed" /\ file[f] = "none"
        /\ object[f] # "absent" => f \in late

(* A preview under way misses the bytes only if the file was deleted since *)
(* it read the row.                                                        *)
PreviewsFindBytes == \A w \in Worker :
    pc[w] = "read" /\ object[target[w]] = "absent" =>
        ~GetFile(target[w]) \/ target[w] \in clash

(* The promise of Lifecycle: a deleted file is never listed again.         *)
LifeOf(f) ==
    IF f \in clash THEN "contended"
    ELSE IF GetFile(f) THEN "shown"
    ELSE IF session[f] = "completed" THEN "retired"
    ELSE "unpublished"
lifeStatus == [f \in File |-> LifeOf(f)]

Life == INSTANCE Lifecycle WITH Item <- File, status <- lifeStatus

(* Library implements Lifecycle.                                           *)
NeverListedAgain == Life!Spec
=============================================================================
