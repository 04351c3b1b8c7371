SPECIFICATION Spec
CONSTANTS
    b1 = b1
    Base = {b1}
    Upload = {u1, u2}
    BaseOf <- MCBaseOf
    Worker = {w1, w2}
    Collector = {g1, g2}
    NoBase = NoBase
    NoUpload = NoUpload
    MaxFaults = 2
SYMMETRY MCSymmetry
CONSTRAINT Explored
INVARIANTS
    TypeOK
    VisibleHasBytes
    SessionAgrees
    ObjectsAreNamed
    PurgedBaseIsEmpty
PROPERTIES
    OnlyDeletesHide
    NeverShownAgain
