----------------------------- MODULE MCCatalog -----------------------------
(* Instances of Catalog for TLC.                                           *)
EXTENDS Catalog, TLC

MCSymmetry == Permutations(Request) \cup Permutations(Category) \cup Permutations(Base)
                \cup Permutations(File)

(* Skills alone are followed through everything that can happen to them,   *)
(* with experts about them while one request at most is at work on skills  *)
(* and it removes no files.                                                *)
Ops == {op[r] : r \in {q \in Request : op[q] # NoOp}}
SkillsAlone == categories = {} /\ retired = {} /\ bases = Base
SkillsCalm ==
    /\ clobbered = {}
    /\ Cardinality({r \in Request : op[r] \in SkillOp}) <= 1
    /\ \A o \in Ops : o.at \notin {"failed", "removing"}
    /\ Cardinality({r \in Request : op[r] # NoOp}) <= 2
Explored == SkillsAlone \/ SkillsCalm
=============================================================================
