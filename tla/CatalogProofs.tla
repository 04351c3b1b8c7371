--------------------------- MODULE CatalogProofs ----------------------------
(***************************************************************************)
(* Proofs about Catalog, for every set of skills, categories, knowledge    *)
(* bases, experts and requests.                                            *)
(***************************************************************************)
EXTENDS Catalog, TLAPS

Updating(r) == Doing(r, "update", "checked") \/ Doing(r, "update", "locked")

(* An expert being updated is or was there, and at most one update has     *)
(* written its row and seen its links.                                     *)
LockedInv ==
    /\ \A r \in Request : Updating(r) => Live(op[r].expert) \/ op[r].expert \in retired
    /\ \A r, q \in Request :
          Doing(r, "update", "locked") /\ Doing(q, "update", "locked")
              /\ op[r].expert = op[q].expert => r = q

Single(some) == \A a, b \in some : a = b

(* Lists that passed the check are short, and replace all there is.        *)
BaseInv ==
    /\ OneBase
    /\ \A r \in Request : Doing(r, "create", "checked") => Single(op[r].bases)
    /\ \A r \in Request : Updating(r) => op[r].bases \in Keep \/ Single(op[r].bases)
    /\ \A r \in Request : Doing(r, "update", "locked") =>
          basesOf[op[r].expert] \subseteq op[r].seen[2]

(* One upload or delete at a time holds a slug's row: an upload while no   *)
(* one else sees a row, a delete while all do.                             *)
SlugInv ==
    /\ \A s \in Skill : \A r, q \in Request :
          /\ UploadHolds(r, s) /\ UploadHolds(q, s) => r = q
          /\ DeleteHolds(r, s) /\ DeleteHolds(q, s) => r = q
    /\ \A s \in Skill : \A r \in Request :
          /\ UploadHolds(r, s) => s \notin skills
          /\ DeleteHolds(r, s) => s \in skills

(* What an upload has put is there until its commit.                       *)
FilesInv ==
    /\ SkillsHaveFiles
    /\ \A r \in Request : Doing(r, "upload", "inserted") /\ op[r].skill \notin clobbered =>
          \A f \in File : f \in op[r].left \/ <<op[r].skill, f>> \in files

(* The category an update writes back is the expert's until outdated.      *)
ReadInv == \A r \in Request : Updating(r) /\ op[r].keeps /\ ~stale[r] =>
    op[r].category = categoryOf[op[r].expert] \/ ~Live(op[r].expert)

(* What requests do, one kind at a time.                                   *)
UploadOp == [kind : {"upload"}, at : {"checked", "inserted", "failed", "removing"}, skill : Skill,
            left : SUBSET File]
DeleteOp == [kind : {"delete"}, at : {"found", "deleted", "removing"}, skill : Skill,
            left : SUBSET File, row : BOOLEAN]
CategoryOp == [kind : {"category"}, at : {"checked"}, category : Category]
CreateOp == [kind : {"create"}, at : {"checked"}, expert : Expert, category : Category,
            skills : SUBSET Skill, bases : SUBSET Base]
UpdateOp == [kind : {"update"}, at : {"checked", "locked"}, expert : Expert, category : Category,
            keeps : BOOLEAN, skills : (SUBSET Skill) \cup Keep,
            bases : (SUBSET Base) \cup Keep, seen : (SUBSET Skill) \X (SUBSET Base)]

-----------------------------------------------------------------------------

(* A request of a kind has that kind's fields.                             *)
LEMMA OpKinds ==
    ASSUME NEW o \in Op
    PROVE  /\ o.kind = "upload" => o \in UploadOp
           /\ o.kind = "delete" => o \in DeleteOp
           /\ o.kind = "category" => o \in CategoryOp
           /\ o.kind = "create" => o \in CreateOp
           /\ o.kind = "update" => o \in UpdateOp
<1>1. o \in UploadOp \/ o \in DeleteOp \/ o \in CategoryOp \/ o \in CreateOp \/ o \in UpdateOp
    BY DEF Op, SkillOp, ExpertOp, UploadOp, DeleteOp, CategoryOp, CreateOp, UpdateOp
<1>2. CASE o \in UploadOp
    <2>1. o.kind = "upload"
        BY <1>2 DEF UploadOp
    <2> QED BY <1>2, <2>1
<1>3. CASE o \in DeleteOp
    <2>1. o.kind = "delete"
        BY <1>3 DEF DeleteOp
    <2> QED BY <1>3, <2>1
<1>4. CASE o \in CategoryOp
    <2>1. o.kind = "category"
        BY <1>4 DEF CategoryOp
    <2> QED BY <1>4, <2>1
<1>5. CASE o \in CreateOp
    <2>1. o.kind = "create"
        BY <1>5 DEF CreateOp
    <2> QED BY <1>5, <2>1
<1>6. CASE o \in UpdateOp
    <2>1. o.kind = "update"
        BY <1>6 DEF UpdateOp
    <2> QED BY <1>6, <2>1
<1> QED BY <1>1, <1>2, <1>3, <1>4, <1>5, <1>6

(* A request that begins keeps the types.                                  *)
LEMMA BeginType ==
    ASSUME TypeOK, NEW r \in Request, NEW o \in Op, Begin(r, o),
           UNCHANGED <<skills, files, catalog, clobbered>>
    PROVE  TypeOK'
BY DEF Begin, TypeOK, catalog

(* The end of a request keeps the type of the others.                      *)
LEMMA EndType ==
    ASSUME TypeOK, NEW r \in Request, End(r)
    PROVE  op' \in [Request -> Op \cup {NoOp}]
BY DEF End, TypeOK

(* A request about a skill goes on as one.                                 *)
LEMMA UploadGoesOn ==
    ASSUME NEW o \in UploadOp, NEW at \in {"checked", "inserted", "failed", "removing"},
           NEW left \in SUBSET File
    PROVE  /\ [o EXCEPT !.at = at] \in SkillOp
           /\ [o EXCEPT !.left = left] \in SkillOp
           /\ [o EXCEPT !.at = at, !.left = left] \in SkillOp
<1>1. [o EXCEPT !.at = at] \in UploadOp /\ [o EXCEPT !.left = left] \in UploadOp
    BY DEF UploadOp
<1>2. [o EXCEPT !.at = at, !.left = left] \in UploadOp
    BY DEF UploadOp
<1> QED BY <1>1, <1>2 DEF SkillOp, UploadOp
LEMMA DeleteGoesOn ==
    ASSUME NEW o \in DeleteOp, NEW at \in {"found", "deleted", "removing"},
           NEW left \in SUBSET File, NEW row \in BOOLEAN
    PROVE  /\ [o EXCEPT !.left = left] \in SkillOp
           /\ [o EXCEPT !.at = at, !.left = left] \in SkillOp
           /\ [o EXCEPT !.at = at, !.row = row] \in SkillOp
<1>1. [o EXCEPT !.left = left] \in DeleteOp /\ [o EXCEPT !.at = at, !.left = left] \in DeleteOp
    BY DEF DeleteOp
<1>2. [o EXCEPT !.at = at, !.row = row] \in DeleteOp
    BY DEF DeleteOp
<1> QED BY <1>1, <1>2 DEF SkillOp, DeleteOp

(* A step about a skill leaves other requests alone, and experts, but for  *)
(* links to a skill that is deleted.                                       *)
SkillFrame(r) ==
    /\ \E o \in SkillOp \cup {NoOp} : op' = [op EXCEPT ![r] = o]
    /\ UNCHANGED <<categories, bases, categoryOf, basesOf, retired>>
    /\ \A q \in Request \ {r} : stale'[q] = stale[q]
    /\ skills' \subseteq Skill /\ files' \subseteq Skill \X File /\ clobbered' \subseteq Skill
    /\ skillsOf' \in [Expert -> SUBSET Skill] /\ stale' \in [Request -> BOOLEAN]
LEMMA SkillMoves ==
    ASSUME TypeOK, NEW r \in Request, SkillStep(r)
    PROVE  SkillFrame(r)
<1> USE DEF SkillFrame
<1>1. ASSUME NEW s \in Skill, Upload(r, s) PROVE SkillFrame(r)
  <2>1. [kind |-> "upload", at |-> "checked", skill |-> s, left |-> {}] \in SkillOp
    BY DEF SkillOp
  <2> QED BY <1>1, <2>1 DEF Upload, Begin, catalog, TypeOK
<1>2. ASSUME NEW s \in Skill, DeleteSkill(r, s) PROVE SkillFrame(r)
  <2>1. [kind |-> "delete", at |-> "found", skill |-> s, left |-> {}, row |-> FALSE] \in SkillOp
    BY DEF SkillOp
  <2> QED BY <1>2, <2>1 DEF DeleteSkill, Begin, catalog, TypeOK
<1>3. ASSUME NEW f \in File, UploadPut(r, f) PROVE SkillFrame(r)
  <2> DEFINE o == [op[r] EXCEPT !.left = @ \ {f}]
  <2>1. op[r] \in UploadOp /\ Doing(r, "upload", "inserted")
    BY <1>3, OpKinds DEF UploadPut, Doing, TypeOK
  <2>2. op[r].skill \in Skill /\ op[r].left \ {f} \in SUBSET File
    BY <2>1 DEF UploadOp
  <2>3. o \in SkillOp
    BY <2>1, <2>2, UploadGoesOn
  <2>4. op' = [op EXCEPT ![r] = o]
    BY <1>3 DEF UploadPut
  <2>5. files' \subseteq Skill \X File
    BY <1>3, <2>2 DEF UploadPut, TypeOK
  <2> HIDE DEF o
  <2> QED BY <1>3, <2>3, <2>4, <2>5 DEF UploadPut, catalog, TypeOK
<1>4. ASSUME NEW f \in File, RemoveFile(r, f) PROVE SkillFrame(r)
  <2> DEFINE o == [op[r] EXCEPT !.left = @ \ {f}]
  <2>1. op[r] \in UploadOp \/ op[r] \in DeleteOp
    BY <1>4, OpKinds DEF RemoveFile, Doing, TypeOK
  <2>2. op[r].skill \in Skill /\ op[r].left \ {f} \in SUBSET File
    BY <2>1 DEF UploadOp, DeleteOp
  <2>3. o \in SkillOp
    BY <2>1, <2>2, UploadGoesOn, DeleteGoesOn
  <2>4. op' = [op EXCEPT ![r] = o]
    BY <1>4 DEF RemoveFile
  <2> HIDE DEF o
  <2> QED BY <1>4, <2>2, <2>3, <2>4 DEF RemoveFile, catalog, TypeOK
<1>5. CASE UploadInsert(r)
  <2> DEFINE o == [op[r] EXCEPT !.at = "inserted", !.left = File]
  <2>1. op[r] \in UploadOp
    BY <1>5, OpKinds DEF UploadInsert, Doing, TypeOK
  <2>2. o \in SkillOp
    BY <2>1, UploadGoesOn
  <2>3. op' = [op EXCEPT ![r] = NoOp] \/ op' = [op EXCEPT ![r] = o]
    BY <1>5 DEF UploadInsert, End
  <2> HIDE DEF o
  <2> QED BY <1>5, <2>2, <2>3 DEF UploadInsert, catalog, TypeOK
<1>6. CASE UploadCommit(r)
  <2>1. op[r] \in UploadOp
    BY <1>6, OpKinds DEF UploadCommit, Doing, TypeOK
  <2>2. op[r].skill \in Skill
    BY <2>1 DEF UploadOp
  <2> QED BY <1>6, <2>2 DEF UploadCommit, End, catalog, TypeOK
<1>7. CASE UploadFails(r)
  <2> DEFINE o == [op[r] EXCEPT !.at = "failed"]
  <2>1. op[r] \in UploadOp
    BY <1>7, OpKinds DEF UploadFails, Doing, TypeOK
  <2>2. o \in SkillOp
    BY <2>1, UploadGoesOn
  <2>3. op' = [op EXCEPT ![r] = o]
    BY <1>7 DEF UploadFails, Goto
  <2> HIDE DEF o
  <2> QED BY <1>7, <2>2, <2>3 DEF UploadFails, catalog, TypeOK
<1>8. CASE UploadCleanup(r) \/ DeleteSkillFiles(r)
  <2> DEFINE left == {f \in File : <<op[r].skill, f>> \in files}
             o == [op[r] EXCEPT !.at = "removing", !.left = left]
  <2>1. op[r] \in UploadOp \/ op[r] \in DeleteOp
    BY <1>8, OpKinds DEF UploadCleanup, DeleteSkillFiles, Doing, TypeOK
  <2>2. o \in SkillOp
    BY <2>1, UploadGoesOn, DeleteGoesOn
  <2>3. op' = [op EXCEPT ![r] = o]
    BY <1>8 DEF UploadCleanup, DeleteSkillFiles, RemovePrefix
  <2> HIDE DEF o
  <2> QED BY <1>8, <2>2, <2>3 DEF UploadCleanup, DeleteSkillFiles, RemovePrefix, catalog, TypeOK
<1>9. CASE UploadEnds(r)
    BY <1>9 DEF UploadEnds, End, catalog, TypeOK
<1>10. CASE DeleteSkillRow(r)
  <2> DEFINE row == (op[r].skill \in skills)
             o == [op[r] EXCEPT !.at = "deleted", !.row = row]
  <2>1. op[r] \in DeleteOp /\ row \in BOOLEAN
    BY <1>10, OpKinds DEF DeleteSkillRow, Doing, TypeOK
  <2>2. o \in SkillOp
    <3> HIDE DEF row
    <3> QED BY <2>1, DeleteGoesOn
  <2>3. op' = [op EXCEPT ![r] = o]
    BY <1>10 DEF DeleteSkillRow
  <2> HIDE DEF o
  <2> QED BY <1>10, <2>2, <2>3 DEF DeleteSkillRow, catalog, TypeOK
<1>11. CASE DeleteSkillCommit(r)
    BY <1>11 DEF DeleteSkillCommit, End, TypeOK
<1>12. CASE DeleteSkillFails(r)
  <2>1. op[r] \in DeleteOp
    BY <1>12, OpKinds DEF DeleteSkillFails, Doing, TypeOK
  <2>2. op[r].skill \in Skill
    BY <2>1 DEF DeleteOp
  <2> QED BY <1>12, <2>2 DEF DeleteSkillFails, End, catalog, TypeOK
<1> HIDE DEF SkillFrame
<1> QED BY <1>1, <1>2, <1>3, <1>4, <1>5, <1>6, <1>7, <1>8, <1>9, <1>10, <1>11, <1>12 DEF SkillStep

(* So updates and creations under way are those there were.                *)
LEMMA SkillsAside ==
    ASSUME TypeOK, NEW r \in Request, SkillStep(r)
    PROVE  /\ UNCHANGED <<categories, bases, categoryOf, basesOf, retired>>
           /\ \A q \in Request : \A kind \in {"category", "create", "update"} : \A at :
                 Doing(q, kind, at)' => Doing(q, kind, at) /\ op'[q] = op[q] /\ stale'[q] = stale[q]
<1>1. PICK o \in SkillOp \cup {NoOp} : op' = [op EXCEPT ![r] = o]
    BY SkillMoves DEF SkillFrame
<1>2. o = NoOp \/ o.kind \in {"upload", "delete"}
    BY DEF SkillOp
<1>3. op'[r] = o /\ \A q \in Request \ {r} : op'[q] = op[q] /\ stale'[q] = stale[q]
    BY <1>1, SkillMoves DEF SkillFrame, TypeOK
<1> QED BY <1>2, <1>3, SkillMoves DEF SkillFrame, Doing

(* No step leaves the declared ranges.                                     *)
LEMMA TypeStep == TypeOK /\ [Next]_vars => TypeOK'
<1> SUFFICES ASSUME TypeOK, [Next]_vars PROVE TypeOK'
    OBVIOUS
<1>13. ASSUME NEW r \in Request, NEW e \in Expert, NEW c \in Category, NEW ks
   \in SUBSET Skill, NEW bs \in SUBSET Base, CreateExpert(r, e, c, ks, bs)
   PROVE TypeOK'
  <2>1. PICK o \in Op : Begin(r, o)
    BY <1>13 DEF CreateExpert, Op, ExpertOp
  <2> QED BY <1>13, <2>1, BeginType DEF CreateExpert
<1>14. ASSUME NEW r \in Request, NEW e \in Expert, NEW c \in Category, NEW
   keeps \in BOOLEAN, NEW kks \in (SUBSET Skill) \cup Keep, NEW kbs \in
   (SUBSET Base) \cup Keep, UpdateExpert(r, e, c, keeps, kks, kbs) PROVE
   TypeOK'
  <2> DEFINE o == [kind |-> "update", at |-> "checked", expert |-> e,
                   category |-> NextCategory(e, c, keeps), keeps |-> keeps,
                   skills |-> kks, bases |-> kbs, seen |-> <<{}, {}>>]
  <2>1. NextCategory(e, c, keeps) \in Category /\ <<{}, {}>> \in (SUBSET Skill) \X (SUBSET Base)
    BY <1>14 DEF UpdateExpert, CategoryExists, TypeOK
  <2>2. o \in UpdateOp
    BY <2>1 DEF UpdateOp
  <2>3. o \in Op
    BY <2>2 DEF Op, ExpertOp, UpdateOp
  <2>4. Begin(r, o)
    BY <1>14 DEF UpdateExpert
  <2> QED BY <1>14, <2>3, <2>4, BeginType DEF UpdateExpert
<1>15. ASSUME NEW r \in Request, CreateExpertCommit(r) PROVE TypeOK'
  <2>1. op' \in [Request -> Op \cup {NoOp}]
    BY <1>15, EndType DEF CreateExpertCommit
  <2>2. op[r] \in CreateOp
    BY <1>15, OpKinds DEF CreateExpertCommit, Doing, TypeOK
  <2>3. /\ op[r].category \in Category /\ op[r].skills \subseteq Skill /\ op[r].bases \subseteq Base
    BY <2>2 DEF CreateOp
  <2> QED BY <1>15, <2>1, <2>3 DEF CreateExpertCommit, InsertExpert, TypeOK
<1>16. ASSUME NEW r \in Request, UpdateExpertRow(r) PROVE TypeOK'
  <2>1. op[r] \in UpdateOp
    BY <1>16, OpKinds DEF UpdateExpertRow, Doing, TypeOK
  <2> DEFINE o == [op[r] EXCEPT !.at = "locked", !.seen = <<skillsOf[op[r].expert], basesOf[op[r].expert]>>]
  <2>2. op[r].expert \in Expert
    BY <2>1 DEF UpdateOp
  <2>3. <<skillsOf[op[r].expert], basesOf[op[r].expert]>> \in (SUBSET Skill) \X (SUBSET Base)
    BY <2>2 DEF TypeOK
  <2>4. o \in UpdateOp
    BY <2>1, <2>3 DEF UpdateOp
  <2>5. o \in Op
    BY <2>4 DEF Op, ExpertOp, UpdateOp
  <2>6. op' = [op EXCEPT ![r] = o]
    BY <1>16 DEF UpdateExpertRow
  <2> HIDE DEF o
  <2> QED BY <1>16, <2>5, <2>6 DEF UpdateExpertRow, catalog, TypeOK
<1>17. ASSUME NEW r \in Request, UpdateExpertCommit(r) PROVE TypeOK'
  <2>1. op' \in [Request -> Op \cup {NoOp}]
    BY <1>17, EndType DEF UpdateExpertCommit
  <2>2. op[r] \in UpdateOp
    BY <1>17, OpKinds DEF UpdateExpertCommit, Doing, TypeOK
  <2> DEFINE o == op[r]
  <2>3. /\ o.expert \in Expert /\ o.category \in Category
        /\ o.skills \in (SUBSET Skill) \cup Keep /\ o.bases \in (SUBSET Base) \cup Keep
    BY <2>2 DEF UpdateOp
  <2>4. Replaced(o.skills, skillsOf[o.expert], o.seen[1]) \subseteq Skill
    BY <2>3 DEF Replaced, TypeOK
  <2>5. Replaced(o.bases, basesOf[o.expert], o.seen[2]) \subseteq Base
    BY <2>3 DEF Replaced, TypeOK
  <2>6. stale' \in [Request -> BOOLEAN]
    BY <1>17 DEF UpdateExpertCommit, Outdates, Doing, TypeOK
  <2> HIDE DEF o
  <2>7. /\ categoryOf' = [categoryOf EXCEPT ![o.expert] = o.category]
        /\ skillsOf' = [skillsOf EXCEPT ![o.expert] = Replaced(o.skills, @, o.seen[1])]
        /\ basesOf' = [basesOf EXCEPT ![o.expert] = Replaced(o.bases, @, o.seen[2])]
        /\ UNCHANGED <<skills, files, categories, bases, retired, clobbered>>
    BY <1>17 DEF UpdateExpertCommit, o
  <2> QED BY <2>1, <2>3, <2>4, <2>5, <2>6, <2>7 DEF TypeOK
<1>18. ASSUME NEW r \in Request, NEW c \in Category, DeleteCategory(r, c)
   PROVE TypeOK'
  <2>1. PICK o \in Op : Begin(r, o)
    BY <1>18 DEF DeleteCategory, Op
  <2> QED BY <1>18, <2>1, BeginType DEF DeleteCategory
<1>19. ASSUME NEW r \in Request, DeleteCategoryCommit(r) PROVE TypeOK'
  <2>1. op' \in [Request -> Op \cup {NoOp}]
    BY <1>19, EndType DEF DeleteCategoryCommit
  <2>2. op[r] \in Op
    BY <1>19 DEF DeleteCategoryCommit, Doing, TypeOK
  <2> QED BY <1>19, <2>1, <2>2, OpKinds DEF DeleteCategoryCommit, Doing, UploadOp, DeleteOp, CategoryOp, TypeOK
<1>20. ASSUME NEW r \in Request, Abort(r) PROVE TypeOK'
  <2>1. op' \in [Request -> Op \cup {NoOp}]
    BY <1>20, EndType DEF Abort
  <2>2. op[r] \in Op
    BY <1>20 DEF Abort, Doing, TypeOK
  <2> QED BY <1>20, <2>1, <2>2, OpKinds DEF Abort, Doing, UploadOp, DeleteOp, CategoryOp, catalog, TypeOK
<1>21. ASSUME NEW c \in Category, CreateCategory(c) PROVE TypeOK'
    BY <1>21 DEF CreateCategory, TypeOK
<1>22. ASSUME NEW b \in Base, DeleteBase(b) PROVE TypeOK'
    BY <1>22 DEF DeleteBase, TypeOK
<1>23. ASSUME NEW e \in Expert, DeleteExpert(e) PROVE TypeOK'
    BY <1>23 DEF DeleteExpert, TypeOK
<1>24. CASE UNCHANGED vars
    BY <1>24 DEF vars, catalog, TypeOK
<1>25. ASSUME NEW r \in Request, SkillStep(r) PROVE TypeOK'
  <2>1. PICK o \in Op \cup {NoOp} : op' = [op EXCEPT ![r] = o]
    BY <1>25, SkillMoves DEF SkillFrame, Op
  <2> QED BY <1>25, <2>1, SkillMoves DEF SkillFrame, TypeOK
<1>26. ASSUME NEW r \in Request, ExpertStep(r) PROVE TypeOK'
    BY <1>26, <1>13, <1>14, <1>15, <1>16, <1>17 DEF ExpertStep
<1>27. ASSUME NEW r \in Request, CategoryStep(r) PROVE TypeOK'
    BY <1>27, <1>18, <1>19, <1>20 DEF CategoryStep
<1> QED BY <1>21, <1>22, <1>23, <1>24, <1>25, <1>26, <1>27 DEF Next

(* Writing an expert's row waits for the update that has written it.       *)
LEMMA LockedStep == TypeOK /\ LockedInv /\ [Next]_vars => LockedInv'
<1> SUFFICES ASSUME TypeOK, LockedInv, [Next]_vars PROVE LockedInv'
    OBVIOUS
<1> USE DEF Updating, Doing, Live
<1>13. ASSUME NEW r \in Request, NEW e \in Expert, NEW c \in Category, NEW ks
   \in SUBSET Skill, NEW bs \in SUBSET Base, CreateExpert(r, e, c, ks, bs)
   PROVE LockedInv'
    BY <1>13 DEF CreateExpert, Begin, catalog, TypeOK, LockedInv
<1>14. ASSUME NEW r \in Request, NEW e \in Expert, NEW c \in Category, NEW
   keeps \in BOOLEAN, NEW kks \in (SUBSET Skill) \cup Keep, NEW kbs \in
   (SUBSET Base) \cup Keep, UpdateExpert(r, e, c, keeps, kks, kbs) PROVE
   LockedInv'
    BY <1>14 DEF UpdateExpert, Begin, catalog, TypeOK, LockedInv
<1>15. ASSUME NEW r \in Request, CreateExpertCommit(r) PROVE LockedInv'
    BY <1>15 DEF CreateExpertCommit, InsertExpert, End, TypeOK, LockedInv
<1>16. ASSUME NEW r \in Request, UpdateExpertRow(r) PROVE LockedInv'
    BY <1>16 DEF UpdateExpertRow, catalog, RowFree, TypeOK, LockedInv
<1>17. ASSUME NEW r \in Request, UpdateExpertCommit(r) PROVE LockedInv'
  <2> DEFINE e == op[r].expert
  <2>1. /\ Doing(r, "update", "locked") /\ Live(e) /\ op[r].category \in categories
        /\ categoryOf' = [categoryOf EXCEPT ![e] = op[r].category] /\ retired' = retired
        /\ op' = [op EXCEPT ![r] = NoOp] /\ Outdates(e)
    BY <1>17 DEF UpdateExpertCommit, End
  <2>2. \A x \in Expert : categoryOf'[x] = NoCategory <=> categoryOf[x] = NoCategory
    BY <2>1, CategoryAssumption DEF TypeOK
  <2>3. \A q \in Request : Updating(q)' => q # r /\ op'[q] = op[q] /\ Updating(q)
    BY <2>1 DEF TypeOK
  <2>4. \A q \in Request : Updating(q) => op[q].expert \in Expert
    BY OpKinds DEF TypeOK, UpdateOp
  <2>5. \A q \in Request : Doing(q, "update", "locked")' => q # r /\ op'[q] = op[q] /\ Doing(q, "update", "locked")
    BY <2>1 DEF TypeOK
  <2>6. \A q \in Request : Updating(q)' =>
           categoryOf'[op'[q].expert] # NoCategory \/ op'[q].expert \in retired'
    BY <2>1, <2>2, <2>3, <2>4 DEF LockedInv
  <2> QED BY <2>5, <2>6 DEF LockedInv
<1>18. ASSUME NEW r \in Request, NEW c \in Category, DeleteCategory(r, c)
   PROVE LockedInv'
    BY <1>18 DEF DeleteCategory, Begin, catalog, TypeOK, LockedInv
<1>19. ASSUME NEW r \in Request, DeleteCategoryCommit(r) PROVE LockedInv'
    BY <1>19 DEF DeleteCategoryCommit, End, TypeOK, LockedInv
<1>20. ASSUME NEW r \in Request, Abort(r) PROVE LockedInv'
    BY <1>20 DEF Abort, End, catalog, TypeOK, LockedInv
<1>21. ASSUME NEW c \in Category, CreateCategory(c) PROVE LockedInv'
    BY <1>21 DEF CreateCategory, TypeOK, LockedInv
<1>22. ASSUME NEW b \in Base, DeleteBase(b) PROVE LockedInv'
    BY <1>22 DEF DeleteBase, TypeOK, LockedInv
<1>23. ASSUME NEW e \in Expert, DeleteExpert(e) PROVE LockedInv'
    BY <1>23 DEF DeleteExpert, TypeOK, LockedInv
<1>24. CASE UNCHANGED vars
    BY <1>24 DEF vars, catalog, TypeOK, LockedInv
<1> HIDE DEF Updating, Doing, Live
<1>25. ASSUME NEW r \in Request, SkillStep(r) PROVE LockedInv'
    BY <1>25, SkillsAside DEF LockedInv, Updating, Live
<1>26. ASSUME NEW r \in Request, ExpertStep(r) PROVE LockedInv'
    BY <1>26, <1>13, <1>14, <1>15, <1>16, <1>17 DEF ExpertStep
<1>27. ASSUME NEW r \in Request, CategoryStep(r) PROVE LockedInv'
    BY <1>27, <1>18, <1>19, <1>20 DEF CategoryStep
<1> QED BY <1>21, <1>22, <1>23, <1>24, <1>25, <1>26, <1>27 DEF Next

(* What an update has seen of an expert's links is all there is at its     *)
(* commit.                                                                 *)
LEMMA BaseStep == TypeOK /\ LockedInv /\ BaseInv /\ [Next]_vars => BaseInv'
<1> SUFFICES ASSUME TypeOK, LockedInv, BaseInv, [Next]_vars PROVE BaseInv'
    OBVIOUS
<1> USE DEF Updating, Doing, Live, Single
<1>13. ASSUME NEW r \in Request, NEW e \in Expert, NEW c \in Category, NEW ks
   \in SUBSET Skill, NEW bs \in SUBSET Base, CreateExpert(r, e, c, ks, bs)
   PROVE BaseInv'
    BY <1>13 DEF CreateExpert, Begin, catalog, Bindable, TypeOK, LockedInv,
       BaseInv, OneBase
<1>14. ASSUME NEW r \in Request, NEW e \in Expert, NEW c \in Category, NEW
   keeps \in BOOLEAN, NEW kks \in (SUBSET Skill) \cup Keep, NEW kbs \in
   (SUBSET Base) \cup Keep, UpdateExpert(r, e, c, keeps, kks, kbs) PROVE
   BaseInv'
    BY <1>14 DEF UpdateExpert, Begin, catalog, Bindable, TypeOK, LockedInv,
       BaseInv, OneBase
<1>15. ASSUME NEW r \in Request, CreateExpertCommit(r) PROVE BaseInv'
    BY <1>15 DEF CreateExpertCommit, InsertExpert, End, TypeOK, LockedInv, BaseInv, OneBase
<1>16. ASSUME NEW r \in Request, UpdateExpertRow(r) PROVE BaseInv'
    BY <1>16 DEF UpdateExpertRow, catalog, TypeOK, LockedInv, BaseInv, OneBase
<1>17. ASSUME NEW r \in Request, UpdateExpertCommit(r) PROVE BaseInv'
    BY <1>17 DEF UpdateExpertCommit, End, Outdates, Replaced, TypeOK,
       LockedInv, BaseInv, OneBase
<1>18. ASSUME NEW r \in Request, NEW c \in Category, DeleteCategory(r, c)
   PROVE BaseInv'
    BY <1>18 DEF DeleteCategory, Begin, catalog, TypeOK, LockedInv, BaseInv,
       OneBase
<1>19. ASSUME NEW r \in Request, DeleteCategoryCommit(r) PROVE BaseInv'
    BY <1>19 DEF DeleteCategoryCommit, End, TypeOK, LockedInv, BaseInv,
       OneBase
<1>20. ASSUME NEW r \in Request, Abort(r) PROVE BaseInv'
    BY <1>20 DEF Abort, End, catalog, TypeOK, LockedInv, BaseInv, OneBase
<1>21. ASSUME NEW c \in Category, CreateCategory(c) PROVE BaseInv'
    BY <1>21 DEF CreateCategory, TypeOK, LockedInv, BaseInv, OneBase
<1>22. ASSUME NEW b \in Base, DeleteBase(b) PROVE BaseInv'
    BY <1>22 DEF DeleteBase, TypeOK, LockedInv, BaseInv, OneBase
<1>23. ASSUME NEW e \in Expert, DeleteExpert(e) PROVE BaseInv'
    BY <1>23 DEF DeleteExpert, TypeOK, LockedInv, BaseInv, OneBase
<1>24. CASE UNCHANGED vars
    BY <1>24 DEF vars, catalog, TypeOK, LockedInv, BaseInv, OneBase
<1> HIDE DEF Updating, Doing, Live, Single
<1>25. ASSUME NEW r \in Request, SkillStep(r) PROVE BaseInv'
    BY <1>25, SkillsAside DEF BaseInv, OneBase, Updating
<1>26. ASSUME NEW r \in Request, ExpertStep(r) PROVE BaseInv'
    BY <1>26, <1>13, <1>14, <1>15, <1>16, <1>17 DEF ExpertStep
<1>27. ASSUME NEW r \in Request, CategoryStep(r) PROVE BaseInv'
    BY <1>27, <1>18, <1>19, <1>20 DEF CategoryStep
<1> QED BY <1>21, <1>22, <1>23, <1>24, <1>25, <1>26, <1>27 DEF Next

(* A step about no skill leaves rows, files and all that holds them alone. *)
Same ==
    \A q \in Request : \A kind \in {"upload", "delete"} :
    \A at \in {"inserted", "deleted", "removing"} :
       /\ Doing(q, kind, at)' <=> Doing(q, kind, at)
       /\ Doing(q, kind, at) => op'[q] = op[q]
Aside == UNCHANGED <<skills, files, clobbered>> /\ Same
LEMMA ExpertsAside ==
    ASSUME TypeOK, [Next]_vars, \A r \in Request : ~SkillStep(r)
    PROVE  Aside
<1> USE DEF Aside, Same
<1>1. ASSUME NEW r \in Request, NEW o, op' = [op EXCEPT ![r] = o],
             o = NoOp \/ o.kind \in {"create", "category", "update"},
             op[r] = NoOp \/ op[r].kind \in {"create", "category", "update"}
                 \/ op[r].at \in {"checked", "found"}
      PROVE  Same
  <2>1. op'[r] = o /\ \A q \in Request \ {r} : op'[q] = op[q]
    BY <1>1 DEF TypeOK
  <2> QED BY <1>1, <2>1 DEF Doing
<1>2. ASSUME NEW r \in Request, ExpertStep(r) PROVE Aside
  <2>1. ASSUME NEW e \in Expert, NEW c \in Category, NEW ks \in SUBSET Skill,
               NEW bs \in SUBSET Base, CreateExpert(r, e, c, ks, bs)
        PROVE  Aside
    BY <1>1, <2>1 DEF CreateExpert, Begin
  <2>2. ASSUME NEW e \in Expert, NEW c \in Category, NEW keeps \in BOOLEAN,
               NEW ks \in (SUBSET Skill) \cup Keep, NEW bs \in (SUBSET Base) \cup Keep,
               UpdateExpert(r, e, c, keeps, ks, bs)
        PROVE  Aside
    BY <1>1, <2>2 DEF UpdateExpert, Begin
  <2>3. ASSUME CreateExpertCommit(r) PROVE Aside
    BY <1>1, <2>3 DEF CreateExpertCommit, End, Doing
  <2>4. ASSUME UpdateExpertRow(r) PROVE Aside
    <3> DEFINE o == [op[r] EXCEPT !.at = "locked",
                        !.seen = <<skillsOf[op[r].expert], basesOf[op[r].expert]>>]
    <3>1. op[r] \in UpdateOp
      BY <2>4, OpKinds DEF UpdateExpertRow, Doing, TypeOK
    <3>2. o.kind = "update" /\ op[r].kind = "update"
      BY <3>1 DEF UpdateOp
    <3>3. op' = [op EXCEPT ![r] = o]
      BY <2>4 DEF UpdateExpertRow
    <3> HIDE DEF o, Same
    <3>4. Same
      BY <1>1, <3>2, <3>3
    <3> QED BY <2>4, <3>4 DEF UpdateExpertRow
  <2>5. ASSUME UpdateExpertCommit(r) PROVE Aside
    BY <1>1, <2>5 DEF UpdateExpertCommit, End, Doing
  <2> HIDE DEF Aside, Same
  <2> QED BY <1>2, <2>1, <2>2, <2>3, <2>4, <2>5 DEF ExpertStep
<1>3. ASSUME NEW r \in Request, CategoryStep(r) PROVE Aside
  <2>1. ASSUME NEW c \in Category, DeleteCategory(r, c) PROVE Aside
    BY <1>1, <2>1 DEF DeleteCategory, Begin
  <2>2. ASSUME DeleteCategoryCommit(r) PROVE Aside
    BY <1>1, <2>2 DEF DeleteCategoryCommit, End, Doing
  <2>3. ASSUME Abort(r) PROVE Aside
    BY <1>1, <2>3 DEF Abort, End, Doing
  <2> HIDE DEF Aside, Same
  <2> QED BY <1>3, <2>1, <2>2, <2>3 DEF CategoryStep
<1>4. ASSUME NEW c \in Category, CreateCategory(c) PROVE Aside
    BY <1>4 DEF CreateCategory, Doing
<1>5. ASSUME NEW b \in Base, DeleteBase(b) PROVE Aside
    BY <1>5 DEF DeleteBase, Doing
<1>6. ASSUME NEW e \in Expert, DeleteExpert(e) PROVE Aside
    BY <1>6 DEF DeleteExpert, Doing
<1>7. CASE UNCHANGED vars
    BY <1>7 DEF vars, Doing
<1> HIDE DEF Aside, Same
<1>8. CASE Next
    BY <1>2, <1>3, <1>4, <1>5, <1>6, <1>8 DEF Next
<1> QED BY <1>7, <1>8

(* Where each step about a skill takes its request.                        *)
Goes(r, kind, at) ==
    /\ op'[r] # NoOp /\ op'[r].kind = kind /\ op'[r].at = at
    /\ op'[r].skill = op[r].skill
LEMMA SkillGoes ==
    ASSUME TypeOK, NEW r \in Request, SkillStep(r)
    PROVE  /\ \A q \in Request \ {r} : op'[q] = op[q]
           /\ op[r] # NoOp => op[r].kind = "upload" \/ op[r].kind = "delete"
           /\ op[r] # NoOp => op[r].skill \in Skill
           /\ \A f \in File : UploadPut(r, f) =>
                 Goes(r, "upload", "inserted") /\ op'[r].left = op[r].left \ {f}
           /\ \A f \in File : RemoveFile(r, f) =>
                 Goes(r, op[r].kind, "removing") /\ (op[r].kind = "delete" => op'[r].row = op[r].row)
           /\ UploadInsert(r) => \/ op'[r] = NoOp /\ op[r].skill \in skills
                                    /\ clobbered' = clobbered
                                 \/ /\ Goes(r, "upload", "inserted") /\ op'[r].left = File
                                    /\ op[r].skill \notin skills
                                    /\ clobbered' = clobbered \ {op[r].skill}
           /\ UploadFails(r) => Goes(r, "upload", "failed")
           /\ UploadCleanup(r) => Goes(r, "upload", "removing")
           /\ DeleteSkillFiles(r) => Goes(r, "delete", "removing") /\ op'[r].row = op[r].row
           /\ DeleteSkillRow(r) =>
                 Goes(r, "delete", "deleted") /\ op'[r].row = (op[r].skill \in skills)
<1> USE DEF Goes
<1>1. \A q \in Request \ {r} : op'[q] = op[q]
    BY SkillMoves DEF SkillFrame, TypeOK
<1>2. op'[r] # NoOp => op'[r] \in Op
    BY SkillMoves DEF SkillFrame, TypeOK, Op
<1>3. ASSUME op[r] # NoOp
      PROVE  /\ op[r].kind = "upload" \/ op[r].kind = "delete"
             /\ op[r].skill \in Skill
  <2>1. op[r].kind = "upload" \/ op[r].kind = "delete"
    BY <1>3 DEF SkillStep, Upload, DeleteSkill, Begin, UploadPut, RemoveFile, UploadInsert,
       UploadCommit, UploadFails, UploadCleanup, UploadEnds, DeleteSkillRow, DeleteSkillFiles,
       DeleteSkillCommit, DeleteSkillFails, Doing
  <2>2. op[r] \in UploadOp \/ op[r] \in DeleteOp
    BY <1>3, <2>1, OpKinds DEF TypeOK
  <2> QED BY <2>1, <2>2 DEF UploadOp, DeleteOp
<1>4. op[r] \in UploadOp => NoOp # op[r] /\ NoOp \notin UploadOp
    BY NoOpAssumption DEF Op, SkillOp, UploadOp
<1>5. NoOp \notin DeleteOp
    BY NoOpAssumption DEF Op, SkillOp, DeleteOp
<1>6. ASSUME NEW f \in File, UploadPut(r, f)
      PROVE  Goes(r, "upload", "inserted") /\ op'[r].left = op[r].left \ {f}
  <2>1. op[r] \in UploadOp /\ op[r].at = "inserted"
    BY <1>6, OpKinds DEF UploadPut, Doing, TypeOK
  <2>2. op'[r] = [op[r] EXCEPT !.left = @ \ {f}]
    BY <1>6 DEF UploadPut, TypeOK
  <2>3. op'[r] \in UploadOp
    BY <2>1, <2>2 DEF UploadOp
  <2> QED BY <1>4, <2>1, <2>2, <2>3 DEF UploadOp
<1>7. ASSUME NEW f \in File, RemoveFile(r, f)
      PROVE  /\ Goes(r, op[r].kind, "removing")
             /\ op[r].kind = "delete" => op'[r].row = op[r].row
  <2>1. op[r] \in UploadOp \/ op[r] \in DeleteOp
    BY <1>7, OpKinds DEF RemoveFile, Doing, TypeOK
  <2>2. op'[r] = [op[r] EXCEPT !.left = @ \ {f}] /\ op[r].at = "removing"
    BY <1>7 DEF RemoveFile, Doing, TypeOK
  <2>3. CASE op[r] \in UploadOp
    <3>1. op'[r] \in UploadOp
      BY <2>2, <2>3 DEF UploadOp
    <3> QED BY <1>4, <2>2, <2>3, <3>1 DEF UploadOp
  <2>4. CASE op[r] \in DeleteOp
    <3>1. op'[r] \in DeleteOp
      BY <2>2, <2>4 DEF DeleteOp
    <3> QED BY <1>5, <2>2, <2>4, <3>1 DEF DeleteOp
  <2> QED BY <2>1, <2>3, <2>4
<1>8. ASSUME UploadInsert(r)
      PROVE  \/ op'[r] = NoOp /\ op[r].skill \in skills /\ clobbered' = clobbered
             \/ /\ Goes(r, "upload", "inserted") /\ op'[r].left = File
                /\ op[r].skill \notin skills
                /\ clobbered' = clobbered \ {op[r].skill}
  <2>1. op[r] \in UploadOp
    BY <1>8, OpKinds DEF UploadInsert, Doing, TypeOK
  <2>2. CASE op[r].skill \in skills
    BY <1>8, <2>2 DEF UploadInsert, End, TypeOK
  <2>3. CASE op[r].skill \notin skills
    <3>1. op'[r] = [op[r] EXCEPT !.at = "inserted", !.left = File]
      BY <1>8, <2>3 DEF UploadInsert, TypeOK
    <3>2. op'[r] \in UploadOp
      BY <2>1, <3>1 DEF UploadOp
    <3> QED BY <1>4, <1>8, <2>1, <2>3, <3>1, <3>2 DEF UploadInsert, UploadOp
  <2> QED BY <2>2, <2>3
<1>9. ASSUME UploadFails(r) PROVE Goes(r, "upload", "failed")
  <2>1. op[r] \in UploadOp
    BY <1>9, OpKinds DEF UploadFails, Doing, TypeOK
  <2>2. op'[r] = [op[r] EXCEPT !.at = "failed"]
    BY <1>9 DEF UploadFails, Goto, TypeOK
  <2>3. op'[r] \in UploadOp
    BY <2>1, <2>2 DEF UploadOp
  <2> QED BY <1>4, <2>1, <2>2, <2>3 DEF UploadOp
<1> DEFINE listing == {f \in File : <<op[r].skill, f>> \in files}
<1>10. ASSUME UploadCleanup(r) PROVE Goes(r, "upload", "removing")
  <2>1. op[r] \in UploadOp
    BY <1>10, OpKinds DEF UploadCleanup, Doing, TypeOK
  <2>2. op'[r] = [op[r] EXCEPT !.at = "removing", !.left = listing]
    BY <1>10 DEF UploadCleanup, RemovePrefix, TypeOK
  <2>3. listing \subseteq File
    OBVIOUS
  <2> HIDE DEF listing
  <2>4. op'[r] \in UploadOp
    BY <2>1, <2>2, <2>3 DEF UploadOp
  <2> QED BY <1>4, <2>1, <2>2, <2>4 DEF UploadOp
<1>11. ASSUME DeleteSkillFiles(r) PROVE Goes(r, "delete", "removing") /\ op'[r].row = op[r].row
  <2>1. op[r] \in DeleteOp
    BY <1>11, OpKinds DEF DeleteSkillFiles, Doing, TypeOK
  <2>2. op'[r] = [op[r] EXCEPT !.at = "removing", !.left = listing]
    BY <1>11 DEF DeleteSkillFiles, RemovePrefix, TypeOK
  <2>3. listing \subseteq File
    OBVIOUS
  <2> HIDE DEF listing
  <2>4. op'[r] \in DeleteOp
    BY <2>1, <2>2, <2>3 DEF DeleteOp
  <2> QED BY <1>5, <2>1, <2>2, <2>4 DEF DeleteOp
<1>12. ASSUME DeleteSkillRow(r)
       PROVE  Goes(r, "delete", "deleted") /\ op'[r].row = (op[r].skill \in skills)
  <2> DEFINE row == (op[r].skill \in skills)
  <2>1. op[r] \in DeleteOp /\ row \in BOOLEAN
    BY <1>12, OpKinds DEF DeleteSkillRow, Doing, TypeOK
  <2>2. op'[r] = [op[r] EXCEPT !.at = "deleted", !.row = row]
    BY <1>12 DEF DeleteSkillRow, TypeOK
  <2>3. op'[r] \in DeleteOp /\ op'[r].row = row /\ op'[r].at = "deleted" /\ op'[r].skill = op[r].skill
    <3> HIDE DEF row
    <3> QED BY <2>1, <2>2 DEF DeleteOp
  <2> QED BY <1>5, <2>1, <2>3 DEF DeleteOp
<1> HIDE DEF Goes
<1> QED BY <1>1, <1>3, <1>6, <1>7, <1>8, <1>9, <1>10, <1>11, <1>12

(* Inserting or deleting a row waits for whoever holds it.                 *)
LEMMA SlugStep == TypeOK /\ SlugInv /\ [Next]_vars => SlugInv'
<1> SUFFICES ASSUME TypeOK, SlugInv, [Next]_vars PROVE SlugInv'
    OBVIOUS
<1>1. CASE \A r \in Request : ~SkillStep(r)
    BY <1>1, ExpertsAside DEF Aside, Same, SlugInv, UploadHolds, DeleteHolds
<1>2. ASSUME NEW r \in Request, SkillStep(r) PROVE SlugInv'
  <2>1. /\ \A q \in Request \ {r} : op'[q] = op[q]
        /\ op[r] # NoOp => op[r].skill \in Skill
    BY <1>2, SkillGoes
  <2>2. \A q \in Request \ {r} : \A s \in Skill :
           (UploadHolds(q, s)' <=> UploadHolds(q, s)) /\ (DeleteHolds(q, s)' <=> DeleteHolds(q, s))
    BY <2>1 DEF UploadHolds, DeleteHolds, Doing
  <2> DEFINE Kept == \A s \in Skill :
                (UploadHolds(r, s)' => UploadHolds(r, s)) /\ (DeleteHolds(r, s)' => DeleteHolds(r, s))
  <2>3. ASSUME Kept, UNCHANGED skills PROVE SlugInv'
    BY <2>2, <2>3 DEF SlugInv
  <2>4. ASSUME NEW s \in Skill, Upload(r, s) \/ DeleteSkill(r, s) PROVE SlugInv'
    <3>1. Kept
      BY <2>4 DEF Upload, DeleteSkill, Begin, TypeOK, UploadHolds, DeleteHolds, Doing
    <3> QED BY <2>3, <2>4, <3>1 DEF Upload, DeleteSkill
  <2>5. ASSUME NEW f \in File, UploadPut(r, f) PROVE SlugInv'
    <3>1. Kept
      BY <1>2, <2>5, SkillGoes DEF UploadPut, Goes, UploadHolds, DeleteHolds, Doing
    <3> QED BY <2>3, <2>5, <3>1 DEF UploadPut
  <2>6. ASSUME NEW f \in File, RemoveFile(r, f) PROVE SlugInv'
    <3>1. Kept
      BY <1>2, <2>6, SkillGoes DEF RemoveFile, Goes, UploadHolds, DeleteHolds, Doing
    <3> QED BY <2>3, <2>6, <3>1 DEF RemoveFile
  <2>7. CASE UploadInsert(r)
    <3> DEFINE s == op[r].skill
    <3>1. CASE s \in skills
      <4>1. Kept
        BY <1>2, <2>7, <3>1, SkillGoes DEF UploadHolds, DeleteHolds, Doing, UploadInsert
      <4> QED BY <2>3, <2>7, <4>1 DEF UploadInsert
    <3>2. CASE s \notin skills
      <4>1. Goes(r, "upload", "inserted")
        BY <1>2, <2>7, <3>2, SkillGoes
      <4>2. /\ \A t \in Skill : ~DeleteHolds(r, t)' /\ (UploadHolds(r, t)' => t = s)
            /\ \A q \in Request \ {r} : ~UploadHolds(q, s) /\ ~DeleteHolds(q, s)
            /\ UNCHANGED skills
        BY <2>7, <4>1 DEF UploadInsert, Goes, UploadHolds, DeleteHolds, Doing
      <4> HIDE DEF s
      <4> QED BY <2>2, <3>2, <4>2 DEF SlugInv
    <3> QED BY <3>1, <3>2
  <2>8. CASE UploadCommit(r)
    <3> DEFINE s == op[r].skill
    <3>1. /\ s \in Skill /\ UploadHolds(r, s) /\ skills' = skills \cup {s}
          /\ op' = [op EXCEPT ![r] = NoOp]
      BY <2>1, <2>8 DEF UploadCommit, End, UploadHolds, Doing
    <3>2. \A t \in Skill : ~DeleteHolds(r, t)' /\ ~UploadHolds(r, t)'
      BY <3>1 DEF UploadHolds, DeleteHolds, Doing, TypeOK
    <3> HIDE DEF s
    <3>3. \A q \in Request \ {r} : ~UploadHolds(q, s)
      BY <3>1 DEF SlugInv
    <3> QED BY <2>2, <3>1, <3>2, <3>3 DEF SlugInv
  <2>9. CASE UploadFails(r)
    <3>1. Kept
      BY <1>2, <2>9, SkillGoes DEF Goes, UploadHolds, DeleteHolds, Doing
    <3> QED BY <2>3, <2>9, <3>1 DEF UploadFails
  <2>10. CASE UploadCleanup(r)
    <3>1. Goes(r, "upload", "removing")
      BY <1>2, <2>10, SkillGoes
    <3>2. Kept
      BY <3>1 DEF Goes, UploadHolds, DeleteHolds, Doing
    <3> QED BY <2>3, <2>10, <3>2 DEF UploadCleanup, RemovePrefix
  <2>11. CASE UploadEnds(r) \/ DeleteSkillFails(r)
    <3>1. op'[r] = NoOp
      BY <2>11 DEF UploadEnds, DeleteSkillFails, End, TypeOK
    <3>2. Kept
      BY <3>1 DEF UploadHolds, DeleteHolds, Doing
    <3> QED BY <2>3, <2>11, <3>2 DEF UploadEnds, DeleteSkillFails
  <2>12. CASE DeleteSkillRow(r)
    <3> DEFINE s == op[r].skill
    <3>1. Goes(r, "delete", "deleted") /\ op'[r].row = (s \in skills)
      BY <1>2, <2>12, SkillGoes
    <3>2. /\ \A t \in Skill : ~UploadHolds(r, t)' /\ (DeleteHolds(r, t)' => t = s /\ s \in skills)
          /\ \A q \in Request \ {r} : ~DeleteHolds(q, s)
          /\ UNCHANGED skills
      BY <2>12, <3>1 DEF DeleteSkillRow, Goes, UploadHolds, DeleteHolds, Doing
    <3> HIDE DEF s
    <3> QED BY <2>2, <3>2 DEF SlugInv
  <2>13. CASE DeleteSkillFiles(r)
    <3>1. Goes(r, "delete", "removing") /\ op'[r].row = op[r].row
      BY <1>2, <2>13, SkillGoes
    <3>2. Kept
      BY <2>13, <3>1 DEF DeleteSkillFiles, Goes, UploadHolds, DeleteHolds, Doing
    <3> QED BY <2>3, <2>13, <3>2 DEF DeleteSkillFiles, RemovePrefix
  <2>14. CASE DeleteSkillCommit(r)
    <3> DEFINE gone == IF op[r].row THEN {op[r].skill} ELSE {}
    <3>1. /\ op' = [op EXCEPT ![r] = NoOp] /\ skills' = skills \ gone
          /\ \A t \in gone : DeleteHolds(r, t) /\ t \in Skill
      BY <2>1, <2>14 DEF DeleteSkillCommit, End, DeleteHolds, Doing
    <3>2. \A t \in Skill : ~DeleteHolds(r, t)' /\ ~UploadHolds(r, t)'
      BY <3>1 DEF UploadHolds, DeleteHolds, Doing, TypeOK
    <3> HIDE DEF gone
    <3> QED BY <2>2, <3>1, <3>2 DEF SlugInv
  <2> HIDE DEF Kept
  <2> QED BY <1>2, <2>4, <2>5, <2>6, <2>7, <2>8, <2>9, <2>10, <2>11, <2>12, <2>13, <2>14
          DEF SkillStep
<1> QED BY <1>1, <1>2

(* Files are taken from under a row or an upload only where that is noted. *)
LEMMA FilesStep == TypeOK /\ SlugInv /\ FilesInv /\ [Next]_vars => FilesInv'
<1> SUFFICES ASSUME TypeOK, SlugInv, FilesInv, [Next]_vars PROVE FilesInv'
    OBVIOUS
<1>1. CASE \A r \in Request : ~SkillStep(r)
  <2>1. Aside
    BY <1>1, ExpertsAside
  <2>2. \A s \in Skill : BeingRemoved(s)' <=> BeingRemoved(s)
    BY <2>1 DEF Aside, Same, BeingRemoved, DeleteHolds, Doing
  <2>3. \A q \in Request : Doing(q, "upload", "inserted")' =>
           Doing(q, "upload", "inserted") /\ op'[q] = op[q]
    BY <2>1 DEF Aside, Same
  <2> QED BY <2>1, <2>2, <2>3 DEF Aside, FilesInv, SkillsHaveFiles, TypeOK
<1>2. ASSUME NEW r \in Request, SkillStep(r) PROVE FilesInv'
  <2> DEFINE Removes(s) == DeleteHolds(r, s) /\ op[r].at = "removing"
             s0 == op[r].skill
             Put(q) == \A f \in File : f \in op[q].left \/ <<op[q].skill, f>> \in files
  <2>1. /\ \A q \in Request \ {r} : op'[q] = op[q]
        /\ op[r] # NoOp => s0 \in Skill
    BY <1>2, SkillGoes
  <2>2. /\ \A s \in Skill : BeingRemoved(s) /\ (Removes(s) => Removes(s)') => BeingRemoved(s)'
        /\ \A q \in Request \ {r} : Doing(q, "upload", "inserted")' => Doing(q, "upload", "inserted")
    BY <2>1 DEF BeingRemoved, DeleteHolds, Doing
  <2>3. ASSUME UNCHANGED <<skills, files>>, clobbered \subseteq clobbered',
               \A s \in Skill \ clobbered' : Removes(s) => Removes(s)',
               ~Doing(r, "upload", "inserted")'
        PROVE  FilesInv'
    <3>1. SkillsHaveFiles'
      BY <2>2, <2>3 DEF FilesInv, SkillsHaveFiles, TypeOK
    <3> QED BY <2>1, <2>2, <2>3, <3>1 DEF FilesInv
  <2>4. ASSUME NEW s \in Skill, Upload(r, s) \/ DeleteSkill(r, s) PROVE FilesInv'
    <3>1. op[r] = NoOp /\ ~Doing(r, "upload", "inserted")'
      BY <2>4 DEF Upload, DeleteSkill, Begin, Doing, TypeOK
    <3>2. \A t : ~Removes(t)
      BY <3>1 DEF DeleteHolds, Doing
    <3> QED BY <2>3, <2>4, <3>1, <3>2 DEF Upload, DeleteSkill
  <2>5. ASSUME NEW f \in File, UploadPut(r, f) PROVE FilesInv'
    <3>1. /\ Goes(r, "upload", "inserted") /\ op'[r].left = op[r].left \ {f}
          /\ Doing(r, "upload", "inserted") /\ files' = files \cup {<<s0, f>>}
          /\ UNCHANGED <<skills, clobbered>>
      BY <1>2, <2>5, SkillGoes DEF UploadPut
    <3>2. \A t : ~Removes(t)
      BY <3>1 DEF DeleteHolds, Doing
    <3>3. SkillsHaveFiles'
      BY <2>2, <3>1, <3>2 DEF FilesInv, SkillsHaveFiles, TypeOK
    <3>4. s0 \notin clobbered => Put(r)'
      BY <3>1 DEF FilesInv, Goes
    <3> QED BY <2>1, <2>2, <3>1, <3>3, <3>4 DEF FilesInv, Goes
  <2>6. ASSUME NEW f \in File, RemoveFile(r, f) PROVE FilesInv'
    <3>1. /\ Goes(r, op[r].kind, "removing") /\ (op[r].kind = "delete" => op'[r].row = op[r].row)
          /\ op[r] # NoOp /\ op[r].at = "removing"
      BY <1>2, <2>6, SkillGoes DEF RemoveFile, Doing
    <3>2. /\ files' = files \ {<<s0, f>>} /\ skills' = skills /\ s0 \in Skill
          /\ clobbered \subseteq clobbered'
          /\ s0 \in skills => Removes(s0) \/ s0 \in clobbered'
          /\ \A q \in Request : UploadHolds(q, s0) /\ f \notin op[q].left => s0 \in clobbered'
      BY <2>1, <2>6, <3>1 DEF RemoveFile
    <3>3. \A t \in Skill : Removes(t) => Removes(t)'
      BY <3>1 DEF Goes, DeleteHolds, Doing
    <3>4. \A t \in Skill : Removes(t) => BeingRemoved(t)'
      BY <3>3 DEF BeingRemoved
    <3>5. \A t \in Skill, g \in File : t # s0 /\ <<t, g>> \in files => <<t, g>> \in files'
      BY <3>2
    <3>6. SkillsHaveFiles'
      BY <2>2, <3>2, <3>3, <3>4, <3>5 DEF FilesInv, SkillsHaveFiles, TypeOK
    <3>7. ASSUME NEW q \in Request, Doing(q, "upload", "inserted")', op'[q].skill \notin clobbered'
          PROVE  Put(q)'
      <4>1. q # r /\ op'[q] = op[q] /\ Doing(q, "upload", "inserted")
        BY <2>1, <2>2, <3>1, <3>7 DEF Goes, Doing
      <4>2. op[q].skill = s0 => f \in op[q].left
        BY <3>2, <3>7, <4>1 DEF UploadHolds
      <4>3. \A g \in File : g \in op[q].left \/ <<op[q].skill, g>> \in files
        BY <3>2, <3>7, <4>1 DEF FilesInv
      <4> HIDE DEF s0
      <4> QED BY <3>2, <4>1, <4>2, <4>3
    <3> HIDE DEF Put
    <3>8. \A q \in Request : Doing(q, "upload", "inserted")' /\ op'[q].skill \notin clobbered' => Put(q)'
      BY <3>7
    <3> QED BY <3>6, <3>8 DEF FilesInv, Put
  <2>7. CASE UploadInsert(r)
    <3>1. Doing(r, "upload", "checked") /\ UNCHANGED <<skills, files>> /\ s0 \in Skill
      BY <2>1, <2>7 DEF UploadInsert, Doing
    <3>2. \A t : ~Removes(t)
      BY <3>1 DEF DeleteHolds, Doing
    <3>3. CASE op'[r] = NoOp /\ clobbered' = clobbered
      BY <2>3, <3>1, <3>2, <3>3 DEF Doing
    <3>4. CASE /\ Goes(r, "upload", "inserted") /\ op'[r].left = File
               /\ s0 \notin skills /\ clobbered' = clobbered \ {s0}
      <4>1. SkillsHaveFiles'
        BY <2>2, <3>1, <3>2, <3>4 DEF FilesInv, SkillsHaveFiles, TypeOK
      <4>2. \A q \in Request \ {r} : Doing(q, "upload", "inserted") => op[q].skill # s0
        BY <2>7 DEF UploadInsert, UploadHolds
      <4> HIDE DEF s0
      <4> QED BY <2>1, <2>2, <3>1, <3>4, <4>1, <4>2 DEF FilesInv
    <3> QED BY <1>2, <2>7, <3>3, <3>4, SkillGoes
  <2>8. CASE UploadCommit(r)
    <3>1. /\ Doing(r, "upload", "inserted") /\ op[r].left = {} /\ s0 \in Skill
          /\ skills' = skills \cup {s0} /\ op'[r] = NoOp /\ UNCHANGED <<files, clobbered>>
      BY <2>1, <2>8 DEF UploadCommit, End, Doing, TypeOK
    <3>2. \A t : ~Removes(t)
      BY <3>1 DEF DeleteHolds, Doing
    <3>3. s0 \notin clobbered => \A f \in File : <<s0, f>> \in files
      BY <3>1 DEF FilesInv
    <3>4. ~Doing(r, "upload", "inserted")'
      BY <3>1 DEF Doing
    <3> HIDE DEF s0
    <3>5. SkillsHaveFiles'
      BY <2>2, <3>1, <3>2, <3>3 DEF FilesInv, SkillsHaveFiles, TypeOK
    <3> QED BY <2>1, <2>2, <3>1, <3>4, <3>5 DEF FilesInv
  <2>9. CASE UploadFails(r) \/ UploadCleanup(r)
    <3>1. Goes(r, "upload", "failed") \/ Goes(r, "upload", "removing")
      BY <1>2, <2>9, SkillGoes
    <3>2. Doing(r, "upload", "checked") \/ Doing(r, "upload", "inserted") \/ Doing(r, "upload", "failed")
      BY <2>9 DEF UploadFails, UploadCleanup
    <3>3. ~Doing(r, "upload", "inserted")' /\ \A t : ~Removes(t)
      BY <3>1, <3>2 DEF Goes, Doing, DeleteHolds
    <3> QED BY <2>3, <2>9, <3>3 DEF UploadFails, UploadCleanup, RemovePrefix
  <2>10. CASE UploadEnds(r)
    <3>1. op'[r] = NoOp /\ op[r].kind = "upload"
      BY <2>10 DEF UploadEnds, End, Doing, TypeOK
    <3>2. ~Doing(r, "upload", "inserted")' /\ \A t : ~Removes(t)
      BY <3>1 DEF Doing, DeleteHolds
    <3> QED BY <2>3, <2>10, <3>2 DEF UploadEnds
  <2>11. CASE DeleteSkillRow(r) \/ DeleteSkillFiles(r)
    <3>1. Goes(r, "delete", "deleted") \/ Goes(r, "delete", "removing")
      BY <1>2, <2>11, SkillGoes
    <3>2. Doing(r, "delete", "found") \/ Doing(r, "delete", "deleted")
      BY <2>11 DEF DeleteSkillRow, DeleteSkillFiles
    <3>3. ~Doing(r, "upload", "inserted")' /\ \A t : ~Removes(t)
      BY <3>1, <3>2 DEF Goes, Doing
    <3> QED BY <2>3, <2>11, <3>3 DEF DeleteSkillRow, DeleteSkillFiles, RemovePrefix
  <2>12. CASE DeleteSkillCommit(r)
    <3> DEFINE gone == IF op[r].row THEN {s0} ELSE {}
    <3>1. /\ op'[r] = NoOp /\ skills' = skills \ gone /\ UNCHANGED <<files, clobbered>>
          /\ op[r].kind = "delete"
      BY <2>12 DEF DeleteSkillCommit, End, Doing, TypeOK
    <3>2. \A t : Removes(t) => t \in gone
      BY <3>1 DEF DeleteHolds
    <3>3. ~Doing(r, "upload", "inserted")'
      BY <3>1 DEF Doing
    <3> HIDE DEF gone, Removes
    <3>4. SkillsHaveFiles'
      BY <2>2, <3>1, <3>2 DEF FilesInv, SkillsHaveFiles, TypeOK
    <3> QED BY <2>1, <2>2, <3>1, <3>3, <3>4 DEF FilesInv
  <2>13. CASE DeleteSkillFails(r)
    <3>1. op'[r] = NoOp /\ op[r].kind = "delete" /\ UNCHANGED <<skills, files>>
      BY <2>13 DEF DeleteSkillFails, End, Doing, TypeOK
    <3>2. ~Doing(r, "upload", "inserted")'
      BY <3>1 DEF Doing
    <3>3. clobbered \subseteq clobbered' /\ \A t : Removes(t) => t \in clobbered'
      BY <2>13 DEF DeleteSkillFails, DeleteHolds
    <3> HIDE DEF Removes
    <3> QED BY <2>3, <3>1, <3>2, <3>3
  <2> QED BY <1>2, <2>4, <2>5, <2>6, <2>7, <2>8, <2>9, <2>10, <2>11, <2>12, <2>13
          DEF SkillStep
<1> QED BY <1>1, <1>2

(* A committed update outdates those who have read the expert.             *)
LEMMA ReadStep == TypeOK /\ LockedInv /\ ReadInv /\ [Next]_vars => ReadInv'
<1> SUFFICES ASSUME TypeOK, LockedInv, ReadInv, [Next]_vars PROVE ReadInv'
    OBVIOUS
<1> USE DEF Updating, Doing, Live
<1>13. ASSUME NEW r \in Request, NEW e \in Expert, NEW c \in Category, NEW ks
   \in SUBSET Skill, NEW bs \in SUBSET Base, CreateExpert(r, e, c, ks, bs)
   PROVE ReadInv'
    BY <1>13 DEF CreateExpert, Begin, catalog, TypeOK, LockedInv, ReadInv
<1>14. ASSUME NEW r \in Request, NEW e \in Expert, NEW c \in Category, NEW
   keeps \in BOOLEAN, NEW kks \in (SUBSET Skill) \cup Keep, NEW kbs \in
   (SUBSET Base) \cup Keep, UpdateExpert(r, e, c, keeps, kks, kbs) PROVE
   ReadInv'
    BY <1>14 DEF UpdateExpert, Begin, catalog, NextCategory, TypeOK,
       LockedInv, ReadInv
<1>15. ASSUME NEW r \in Request, CreateExpertCommit(r) PROVE ReadInv'
    BY <1>15 DEF CreateExpertCommit, InsertExpert, End, TypeOK, LockedInv, ReadInv
<1>16. ASSUME NEW r \in Request, UpdateExpertRow(r) PROVE ReadInv'
    BY <1>16 DEF UpdateExpertRow, catalog, TypeOK, LockedInv, ReadInv
<1>17. ASSUME NEW r \in Request, UpdateExpertCommit(r) PROVE ReadInv'
  <2> DEFINE e == op[r].expert
  <2>1. /\ Doing(r, "update", "locked") /\ Live(e) /\ op[r].category \in categories
        /\ categoryOf' = [categoryOf EXCEPT ![e] = op[r].category] /\ retired' = retired
        /\ op' = [op EXCEPT ![r] = NoOp] /\ Outdates(e)
    BY <1>17 DEF UpdateExpertCommit, End
  <2>2. \A x \in Expert : categoryOf'[x] = NoCategory <=> categoryOf[x] = NoCategory
    BY <2>1, CategoryAssumption DEF TypeOK
  <2>3. \A q \in Request : Updating(q)' => q # r /\ op'[q] = op[q] /\ Updating(q)
    BY <2>1 DEF TypeOK
  <2>4. \A q \in Request : Updating(q) => op[q].expert \in Expert
    BY OpKinds DEF TypeOK, UpdateOp
  <2> SUFFICES ASSUME NEW q \in Request, Updating(q)', op'[q].keeps, ~stale'[q]
               PROVE  op'[q].category = categoryOf'[op'[q].expert] \/ categoryOf'[op'[q].expert] = NoCategory
    BY DEF ReadInv
  <2>5. q # r /\ op'[q] = op[q] /\ Updating(q) /\ op[q].expert \in Expert
    BY <2>3, <2>4
  <2>6. op[q].expert # e /\ ~stale[q]
    BY <2>1, <2>5 DEF Outdates
  <2>7. categoryOf'[op[q].expert] = categoryOf[op[q].expert]
    BY <2>1, <2>5, <2>6 DEF TypeOK
  <2>8. categoryOf'[op[q].expert] = NoCategory <=> categoryOf[op[q].expert] = NoCategory
    BY <2>2, <2>5
  <2> QED BY <2>5, <2>6, <2>7, <2>8 DEF ReadInv
<1>18. ASSUME NEW r \in Request, NEW c \in Category, DeleteCategory(r, c)
   PROVE ReadInv'
    BY <1>18 DEF DeleteCategory, Begin, catalog, TypeOK, LockedInv, ReadInv
<1>19. ASSUME NEW r \in Request, DeleteCategoryCommit(r) PROVE ReadInv'
    BY <1>19 DEF DeleteCategoryCommit, End, TypeOK, LockedInv, ReadInv
<1>20. ASSUME NEW r \in Request, Abort(r) PROVE ReadInv'
    BY <1>20 DEF Abort, End, catalog, TypeOK, LockedInv, ReadInv
<1>21. ASSUME NEW c \in Category, CreateCategory(c) PROVE ReadInv'
    BY <1>21 DEF CreateCategory, TypeOK, LockedInv, ReadInv
<1>22. ASSUME NEW b \in Base, DeleteBase(b) PROVE ReadInv'
    BY <1>22 DEF DeleteBase, TypeOK, LockedInv, ReadInv
<1>23. ASSUME NEW e \in Expert, DeleteExpert(e) PROVE ReadInv'
    BY <1>23 DEF DeleteExpert, TypeOK, LockedInv, ReadInv
<1>24. CASE UNCHANGED vars
    BY <1>24 DEF vars, catalog, TypeOK, LockedInv, ReadInv
<1> HIDE DEF Updating, Doing, Live
<1>25. ASSUME NEW r \in Request, SkillStep(r) PROVE ReadInv'
    BY <1>25, SkillsAside DEF ReadInv, Updating, Live
<1>26. ASSUME NEW r \in Request, ExpertStep(r) PROVE ReadInv'
    BY <1>26, <1>13, <1>14, <1>15, <1>16, <1>17 DEF ExpertStep
<1>27. ASSUME NEW r \in Request, CategoryStep(r) PROVE ReadInv'
    BY <1>27, <1>18, <1>19, <1>20 DEF CategoryStep
<1> QED BY <1>21, <1>22, <1>23, <1>24, <1>25, <1>26, <1>27 DEF Next

-----------------------------------------------------------------------------

(* Every variable stays in its declared range.                             *)
THEOREM TypeCorrect == Spec => []TypeOK
<1>1. Init => TypeOK
    BY DEF Init, TypeOK
<1> QED BY <1>1, TypeStep, PTL DEF Spec

(* Of the updates of one expert, at most one has written its row and not yet *)
(* committed.                                                              *)
THEOREM LocksExclude == Spec => []LockedInv
<1>1. Init => LockedInv
    BY DEF Init, LockedInv, Updating, Doing
<1> QED BY <1>1, TypeCorrect, LockedStep, PTL DEF Spec

(* However updates overlap, an expert is bound to one knowledge base at most. *)
THEOREM BoundToOne == Spec => []OneBase
<1>1. Init => BaseInv
    BY DEF Init, BaseInv, OneBase, Updating, Doing, Single
<1>2. BaseInv => OneBase
    BY DEF BaseInv
<1> QED BY <1>1, <1>2, TypeCorrect, LocksExclude, BaseStep, PTL DEF Spec

(* A slug's row is held by one upload or delete at a time, and what an     *)
(* upload holds nobody else sees as a skill.                               *)
THEOREM SlugsAreHeldByOne == Spec => []SlugInv
<1>1. Init => SlugInv
    BY DEF Init, SlugInv, UploadHolds, DeleteHolds, Doing
<1> QED BY <1>1, TypeCorrect, SlugStep, PTL DEF Spec

(* A skill that can be read has all its files, unless a delete that holds  *)
(* its row is removing them, or since its upload a removal by someone who  *)
(* does not hold the row met them, or a delete failed after it had begun   *)
(* to remove them.                                                         *)
THEOREM FilesAreThere == Spec => []SkillsHaveFiles
<1>1. Init => FilesInv
    BY DEF Init, FilesInv, SkillsHaveFiles, Doing
<1>2. FilesInv => SkillsHaveFiles
    BY DEF FilesInv
<1> QED BY <1>1, <1>2, TypeCorrect, SlugsAreHeldByOne, FilesStep, PTL DEF Spec

(* An update that names no category changes none, unless it was outdated.  *)
THEOREM CategoryStays == Spec => UnaskedCategoryStays
<1> DEFINE Stays == \A r \in Request :
              UpdateExpertCommit(r) /\ op[r].keeps /\ ~stale[r] => categoryOf' = categoryOf
<1>1. Init => ReadInv
    BY DEF Init, ReadInv, Updating, Doing
<1>2. TypeOK /\ ReadInv /\ [Next]_vars => [Stays]_vars
  <2> SUFFICES ASSUME TypeOK, ReadInv, NEW r \in Request, UpdateExpertCommit(r),
                      op[r].keeps, ~stale[r]
               PROVE  categoryOf' = categoryOf
    OBVIOUS
  <2>1. op[r].category = categoryOf[op[r].expert]
    BY DEF UpdateExpertCommit, ReadInv, Updating
  <2> QED BY <2>1 DEF UpdateExpertCommit, TypeOK
<1> QED BY <1>1, <1>2, TypeCorrect, LocksExclude, ReadStep, PTL DEF Spec, UnaskedCategoryStays
=============================================================================
