SPECIFICATION Spec
CONSTANTS
    Skill = {k1}
    File = {f1, f2}
    Category = {c1, c2}
    Base = {b1, b2}
    Expert = {e1}
    Request = {r1, r2}
    NoOp = NoOp
    NoCategory = NoCategory
SYMMETRY MCSymmetry
CONSTRAINT Explored
INVARIANTS
    TypeOK
    OneBase
    SkillsHaveFiles
PROPERTIES
    UnaskedCategoryStays
