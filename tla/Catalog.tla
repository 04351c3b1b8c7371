------------------------------ MODULE Catalog ------------------------------
(***************************************************************************)
(* The experts and what they are put together from: skills, whose files    *)
(* lie in the object store (skill_service.py), categories                  *)
(* (expert_category_service.py) and knowledge bases (expert_service.py).   *)
(*                                                                         *)
(* Requests run in different worker processes, each in a READ COMMITTED    *)
(* transaction whose writes take effect with its commit; files are written *)
(* and removed one at a time and at once.  An UPDATE, DELETE or INSERT of  *)
(* a row another transaction has written, or a reference to it, waits for  *)
(* that one to end.  A foreign-key violation aborts.                       *)
(***************************************************************************)
EXTENDS FiniteSets, Naturals

CONSTANTS
    Skill,      \* slugs
    File,       \* what an upload of a skill consists of
    Category,   \* categories that will ever be created
    Base,       \* knowledge bases
    Expert,     \* experts that will ever be created
    Request,    \* requests that may be under way at once
    NoOp, NoCategory

ASSUME CategoryAssumption == NoCategory \notin Category

VARIABLES
    skills,     \* skills: slugs with a row
    files,      \* <<slug, file>>: the objects in the store
    categories, \* expert_categories
    bases,      \* knowledge_bases with deleted_at null
    categoryOf, \* experts.category_id, NoCategory without a row
    skillsOf,   \* expert_skills
    basesOf,    \* expert_knowledge_bases
    retired,    \* categories and experts whose rows were deleted
    op,         \* per request: what it is doing and how far it has got
    clobbered,  \* history: slugs that lost files to a request that does not
                \* hold their row, or to a delete that failed
    stale       \* history, per request: its expert was written since it read

catalog == <<categories, bases, categoryOf, skillsOf, basesOf, retired>>
vars == <<skills, files, catalog, op, clobbered, stale>>

Keep == {{"keep"}}  \* a list the request leaves out
ExpertOp ==
    [kind : {"create"}, at : {"checked"}, expert : Expert, category : Category,
     skills : SUBSET Skill, bases : SUBSET Base]
    \cup [kind : {"update"}, at : {"checked", "locked"}, expert : Expert,
          category : Category, keeps : BOOLEAN, skills : (SUBSET Skill) \cup Keep,
          bases : (SUBSET Base) \cup Keep, seen : (SUBSET Skill) \X (SUBSET Base)]
SkillOp ==  \* left: the files still to be put or removed; row: there was one to delete
    [kind : {"upload"}, at : {"checked", "inserted", "failed", "removing"}, skill : Skill,
     left : SUBSET File]
    \cup [kind : {"delete"}, at : {"found", "deleted", "removing"}, skill : Skill,
          left : SUBSET File, row : BOOLEAN]
Op ==
    SkillOp
    \cup [kind : {"category"}, at : {"checked"}, category : Category]
    \cup ExpertOp

TypeOK ==
    /\ skills \subseteq Skill
    /\ files \subseteq Skill \X File
    /\ categories \subseteq Category
    /\ bases \subseteq Base
    /\ categoryOf \in [Expert -> Category \cup {NoCategory}]
    /\ skillsOf \in [Expert -> SUBSET Skill]
    /\ basesOf \in [Expert -> SUBSET Base]
    /\ retired \subseteq Category \cup Expert
    /\ op \in [Request -> Op \cup {NoOp}]
    /\ clobbered \subseteq Skill
    /\ stale \in [Request -> BOOLEAN]

ASSUME NoOpAssumption == NoOp \notin Op

Init ==
    /\ skills = {}
    /\ files = {}
    /\ categories = {}
    /\ bases = Base
    /\ categoryOf = [e \in Expert |-> NoCategory]
    /\ skillsOf = [e \in Expert |-> {}]
    /\ basesOf = [e \in Expert |-> {}]
    /\ retired = {}
    /\ op = [r \in Request |-> NoOp]
    /\ clobbered = {}
    /\ stale = [r \in Request |-> FALSE]

-----------------------------------------------------------------------------
(* Transactions.                                                           *)

Doing(r, kind, at) == op[r] # NoOp /\ op[r].kind = kind /\ op[r].at = at

Begin(r, o) ==
    /\ op[r] = NoOp
    /\ op' = [op EXCEPT ![r] = o]
    /\ stale' = [stale EXCEPT ![r] = FALSE]
Goto(r, at) == op' = [op EXCEPT ![r].at = at]
End(r) == op' = [op EXCEPT ![r] = NoOp]

Live(e) == categoryOf[e] # NoCategory

(* The requests that have read the expert no longer know it.               *)
Outdates(e) == stale' = [q \in Request |-> stale[q]
                  \/ \E at \in {"checked", "locked"} : Doing(q, "update", at) /\ op[q].expert = e]

(* An error or a lost process before anything but rows was written.        *)
Abort(r) ==
    /\ \/ Doing(r, "upload", "checked") \/ Doing(r, "delete", "found")
       \/ Doing(r, "category", "checked") \/ Doing(r, "create", "checked")
       \/ \E at \in {"checked", "locked"} : Doing(r, "update", at)
    /\ End(r)
    /\ UNCHANGED <<skills, files, catalog, clobbered, stale>>

-----------------------------------------------------------------------------
(* Skills.                                                                 *)

(* Whose transaction has written the slug's row, so that others wait: an   *)
(* upload's INSERT, or a delete's DELETE if it found a row.                *)
UploadHolds(q, s) == Doing(q, "upload", "inserted") /\ op[q].skill = s
DeleteHolds(q, s) ==
    /\ Doing(q, "delete", "deleted") \/ Doing(q, "delete", "removing")
    /\ op[q].row /\ op[q].skill = s

(* remove_prefix lists what there is under the slug, whoever wrote it ...  *)
RemovePrefix(r) ==
    /\ op' = [op EXCEPT ![r].at = "removing",
                        ![r].left = {f \in File : <<op[r].skill, f>> \in files}]
    /\ UNCHANGED <<skills, files, catalog, clobbered, stale>>

(* ... and removes one object after the other, also of a committed row or  *)
(* of an upload under way; it may stop at each.                            *)
RemoveFile(r, f) ==
    LET s == op[r].skill IN
    /\ Doing(r, "upload", "removing") \/ Doing(r, "delete", "removing")
    /\ f \in op[r].left
    /\ files' = files \ {<<s, f>>}
    /\ op' = [op EXCEPT ![r].left = @ \ {f}]
    /\ clobbered' = IF \/ s \in skills /\ ~DeleteHolds(r, s)
                       \/ \E q \in Request : UploadHolds(q, s) /\ f \notin op[q].left
                      THEN clobbered \cup {s} ELSE clobbered
    /\ UNCHANGED <<skills, catalog, stale>>

Upload(r, s) ==
    /\ s \notin skills
    /\ Begin(r, [kind |-> "upload", at |-> "checked", skill |-> s, left |-> {}])
    /\ UNCHANGED <<skills, files, catalog, clobbered>>

(* The row goes in before any file; a slug that is taken by now is a 409   *)
(* that leaves the files alone.                                            *)
UploadInsert(r) ==
    LET s == op[r].skill IN
    /\ Doing(r, "upload", "checked")
    /\ \A q \in Request \ {r} : ~UploadHolds(q, s) /\ ~DeleteHolds(q, s)
    /\ IF s \in skills
       THEN End(r) /\ UNCHANGED clobbered
       ELSE /\ op' = [op EXCEPT ![r].at = "inserted", ![r].left = File]
            /\ clobbered' = clobbered \ {s}
    /\ UNCHANGED <<skills, files, catalog, stale>>

UploadPut(r, f) ==
    /\ Doing(r, "upload", "inserted")
    /\ f \in op[r].left
    /\ files' = files \cup {<<op[r].skill, f>>}
    /\ op' = [op EXCEPT ![r].left = @ \ {f}]
    /\ UNCHANGED <<skills, catalog, clobbered, stale>>

(* A Faulty... operator here and below is a variant of the definition      *)
(* after it with a bug; no specification uses it.                          *)
FaultyUploadCommit(r) ==
    /\ Doing(r, "upload", "inserted")
    /\ skills' = skills \cup {op[r].skill}
    /\ End(r)
    /\ UNCHANGED <<files, catalog, clobbered, stale>>
UploadCommit(r) ==
    /\ Doing(r, "upload", "inserted")
    /\ op[r].left = {}
    /\ skills' = skills \cup {op[r].skill}
    /\ End(r)
    /\ UNCHANGED <<files, catalog, clobbered, stale>>

(* Any other error rolls back, which gives the slug up ...                 *)
UploadFails(r) ==
    /\ Doing(r, "upload", "checked") \/ Doing(r, "upload", "inserted")
    /\ Goto(r, "failed")
    /\ UNCHANGED <<skills, files, catalog, clobbered, stale>>

(* ... and _safe_cleanup then removes the files.                           *)
UploadCleanup(r) ==
    /\ Doing(r, "upload", "failed")
    /\ RemovePrefix(r)

(* The clean-up is done, or failed and was given up, or the process died:  *)
(* rows are rolled back, files stay as they are.                           *)
UploadEnds(r) ==
    /\ \E at \in {"inserted", "failed", "removing"} : Doing(r, "upload", at)
    /\ End(r)
    /\ UNCHANGED <<skills, files, catalog, clobbered, stale>>

DeleteSkill(r, s) ==
    /\ s \in skills
    /\ Begin(r, [kind |-> "delete", at |-> "found", skill |-> s, left |-> {}, row |-> FALSE])
    /\ UNCHANGED <<skills, files, catalog, clobbered>>

(* The DELETE waits for another's.  It may then find no row, which nobody  *)
(* looks at, and writes nothing that others would wait for.                *)
DeleteSkillRow(r) ==
    LET s == op[r].skill IN
    /\ Doing(r, "delete", "found")
    /\ \A q \in Request \ {r} : ~DeleteHolds(q, s)
    /\ op' = [op EXCEPT ![r].at = "deleted", ![r].row = (s \in skills)]
    /\ UNCHANGED <<skills, files, catalog, clobbered, stale>>

DeleteSkillFiles(r) ==
    /\ Doing(r, "delete", "deleted")
    /\ RemovePrefix(r)

(* Without delete_files the files stay.  expert_skills cascades.           *)
DeleteSkillCommit(r) ==
    LET gone == IF op[r].row THEN {op[r].skill} ELSE {} IN
    /\ Doing(r, "delete", "deleted") \/ (Doing(r, "delete", "removing") /\ op[r].left = {})
    /\ skills' = skills \ gone
    /\ skillsOf' = [e \in Expert |-> skillsOf[e] \ gone]
    /\ End(r)
    /\ UNCHANGED <<files, categories, bases, categoryOf, basesOf, retired,
                   clobbered, stale>>

(* The removal or the commit fails, or the process dies: the row stays.    *)
DeleteSkillFails(r) ==
    /\ Doing(r, "delete", "deleted") \/ Doing(r, "delete", "removing")
    /\ clobbered' = IF op[r].at = "removing" /\ op[r].row
                      THEN clobbered \cup {op[r].skill} ELSE clobbered
    /\ End(r)
    /\ UNCHANGED <<skills, files, catalog, stale>>

-----------------------------------------------------------------------------
(* Categories and knowledge bases.                                         *)

CreateCategory(c) ==
    /\ c \notin categories \cup retired
    /\ categories' = categories \cup {c}
    /\ UNCHANGED <<skills, files, bases, categoryOf, skillsOf, basesOf, retired,
                   op, clobbered, stale>>

Used(c) == \E e \in Expert : categoryOf[e] = c

DeleteCategory(r, c) ==
    /\ c \in categories
    /\ ~Used(c)
    /\ Begin(r, [kind |-> "category", at |-> "checked", category |-> c])
    /\ UNCHANGED <<skills, files, catalog, clobbered>>

DeleteCategoryCommit(r) ==
    LET c == op[r].category IN
    /\ Doing(r, "category", "checked")
    /\ c \in categories
    /\ ~Used(c)
    /\ categories' = categories \ {c}
    /\ retired' = retired \cup {c}
    /\ End(r)
    /\ UNCHANGED <<skills, files, bases, categoryOf, skillsOf, basesOf,
                   clobbered, stale>>

(* KnowledgeBaseService.delete; links to the base stay, and are not shown. *)
DeleteBase(b) ==
    /\ b \in bases
    /\ bases' = bases \ {b}
    /\ UNCHANGED <<skills, files, categories, categoryOf, skillsOf, basesOf,
                   retired, op, clobbered, stale>>

-----------------------------------------------------------------------------
(* Experts.                                                                *)

(* _require_category, _require_skills and _require_knowledge_bases.        *)
CategoryExists(c) == c \in categories
ExistingSkills(some) == some \subseteq skills
ExistingBases(some) == some \subseteq bases
FaultyBindable(some) == ExistingBases(some)
Bindable(some) == ExistingBases(some) /\ \A a, b \in some : a = b

(* Links to skills are foreign keys: a skill being deleted is waited for.  *)
Linkable(some) == some \subseteq skills /\ \A s \in some, q \in Request : ~DeleteHolds(q, s)

(* The foreign key to the category holds at the INSERT, too.               *)
InsertExpert(o) ==
    /\ ~Live(o.expert) /\ o.expert \notin retired
    /\ o.category \in categories
    /\ categoryOf' = [categoryOf EXCEPT ![o.expert] = o.category]

CreateExpert(r, e, c, ks, bs) ==
    /\ ~Live(e) /\ e \notin retired
    /\ CategoryExists(c)
    /\ ExistingSkills(ks)
    /\ Bindable(bs)
    /\ Begin(r, [kind |-> "create", at |-> "checked", expert |-> e, category |-> c,
                 skills |-> ks, bases |-> bs])
    /\ UNCHANGED <<skills, files, catalog, clobbered>>

CreateExpertCommit(r) ==
    LET o == op[r] IN
    /\ Doing(r, "create", "checked")
    /\ InsertExpert(o)
    /\ Linkable(o.skills)
    /\ skillsOf' = [skillsOf EXCEPT ![o.expert] = o.skills]
    /\ basesOf' = [basesOf EXCEPT ![o.expert] = o.bases]
    /\ End(r)
    /\ UNCHANGED <<skills, files, categories, bases, retired, clobbered, stale>>

(* Without a category in the request, the one read is written back.        *)
FaultyNextCategory(e, c, keeps) == c
NextCategory(e, c, keeps) == IF keeps THEN categoryOf[e] ELSE c

UpdateExpert(r, e, c, keeps, ks, bs) ==
    /\ Live(e)
    /\ CategoryExists(NextCategory(e, c, keeps))
    /\ ks \in Keep \/ ExistingSkills(ks)
    /\ bs \in Keep \/ Bindable(bs)
    /\ Begin(r, [kind |-> "update", at |-> "checked", expert |-> e,
                 category |-> NextCategory(e, c, keeps), keeps |-> keeps,
                 skills |-> ks, bases |-> bs, seen |-> <<{}, {}>>])
    /\ UNCHANGED <<skills, files, catalog, clobbered>>

(* The UPDATE of the expert's row comes first and waits for another's, so  *)
(* that the DELETE of its links begins when those of the other are there.  *)
FaultyRowFree(r, e) == TRUE
RowFree(r, e) == \A q \in Request \ {r} : ~(Doing(q, "update", "locked") /\ op[q].expert = e)

UpdateExpertRow(r) ==
    LET e == op[r].expert IN
    /\ Doing(r, "update", "checked")
    /\ RowFree(r, e)
    /\ op' = [op EXCEPT ![r].at = "locked", ![r].seen = <<skillsOf[e], basesOf[e]>>]
    /\ UNCHANGED <<skills, files, catalog, clobbered, stale>>

(* What is asked for replaces the links the DELETE finds.                  *)
FaultyReplaced(asked, links, seen) == (links \ seen) \cup asked
Replaced(asked, links, seen) ==
    IF asked \in Keep THEN links ELSE (links \ seen) \cup asked

(* The expert, or a skill asked for, may have been deleted: its links then *)
(* violate a foreign key.  A link left from before is a unique violation   *)
(* when it is asked for.                                                   *)
UpdateExpertCommit(r) ==
    LET o == op[r]
        e == o.expert
    IN
    /\ Doing(r, "update", "locked")
    /\ Live(e)
    /\ o.category \in categories
    /\ o.skills \in Keep \/ Linkable(o.skills)
    /\ (skillsOf[e] \ o.seen[1]) \cap o.skills = {}
    /\ (basesOf[e] \ o.seen[2]) \cap o.bases = {}
    /\ categoryOf' = [categoryOf EXCEPT ![e] = o.category]
    /\ skillsOf' = [skillsOf EXCEPT ![e] = Replaced(o.skills, @, o.seen[1])]
    /\ basesOf' = [basesOf EXCEPT ![e] = Replaced(o.bases, @, o.seen[2])]
    /\ End(r)
    /\ Outdates(e)
    /\ UNCHANGED <<skills, files, categories, bases, retired, clobbered>>

(* The links cascade.                                                      *)
DeleteExpert(e) ==
    /\ Live(e)
    /\ \A q \in Request : ~(Doing(q, "update", "locked") /\ op[q].expert = e)
    /\ categoryOf' = [categoryOf EXCEPT ![e] = NoCategory]
    /\ skillsOf' = [skillsOf EXCEPT ![e] = {}]
    /\ basesOf' = [basesOf EXCEPT ![e] = {}]
    /\ retired' = retired \cup {e}
    /\ UNCHANGED <<skills, files, categories, bases, op, clobbered, stale>>

-----------------------------------------------------------------------------
SkillStep(r) ==
    \/ \E s \in Skill : Upload(r, s) \/ DeleteSkill(r, s)
    \/ \E f \in File : UploadPut(r, f) \/ RemoveFile(r, f)
    \/ UploadInsert(r) \/ UploadCommit(r) \/ UploadFails(r) \/ UploadCleanup(r) \/ UploadEnds(r)
    \/ DeleteSkillRow(r) \/ DeleteSkillFiles(r) \/ DeleteSkillCommit(r) \/ DeleteSkillFails(r)

ExpertStep(r) ==
    \/ \E e \in Expert, c \in Category :
          \/ \E ks \in SUBSET Skill, bs \in SUBSET Base : CreateExpert(r, e, c, ks, bs)
          \/ \E keeps \in BOOLEAN, ks \in (SUBSET Skill) \cup Keep, bs \in (SUBSET Base) \cup Keep :
                UpdateExpert(r, e, c, keeps, ks, bs)
    \/ CreateExpertCommit(r) \/ UpdateExpertRow(r) \/ UpdateExpertCommit(r)

CategoryStep(r) ==
    \/ \E c \in Category : DeleteCategory(r, c)
    \/ DeleteCategoryCommit(r)
    \/ Abort(r)

Next ==
    \/ \E r \in Request : SkillStep(r) \/ ExpertStep(r) \/ CategoryStep(r)
    \/ \E c \in Category : CreateCategory(c)
    \/ \E b \in Base : DeleteBase(b)
    \/ \E e \in Expert : DeleteExpert(e)

Spec == Init /\ [][Next]_vars

-----------------------------------------------------------------------------
(* An expert is bound to one knowledge base at most, whatever updates      *)
(* overlap: the unlocked check of a request's own list is enough because   *)
(* the expert's row is written before its links are replaced               *)
(* (ExpertService.update, ExpertRepository.replace_knowledge_bases).       *)
OneBase == \A e \in Expert : \A a, b \in basesOf[e] : a = b

(* A skill that can be read has all its files, however uploads, deletes    *)
(* and their removals by slug overlap, fail or die midway: while a delete  *)
(* that holds the row removes them, files may be gone; otherwise only      *)
(* where, since the skill's upload, a removal by a request that does not   *)
(* hold the row met them (the clean-up of a failed upload, or a delete     *)
(* that found no row), or a delete failed after it had begun to remove     *)
(* (SkillService.upload and delete, remove_prefix).                        *)
BeingRemoved(s) == \E r \in Request : DeleteHolds(r, s) /\ op[r].at = "removing"
SkillsHaveFiles == \A s \in skills \ clobbered :
    BeingRemoved(s) \/ \A f \in File : <<s, f>> \in files

(* An update that names no category leaves the expert's as it is, unless   *)
(* another update was committed since it read the expert.                  *)
UnaskedCategoryStays == [][\A r \in Request :
    UpdateExpertCommit(r) /\ op[r].keeps /\ ~stale[r] => categoryOf' = categoryOf]_vars
=============================================================================
