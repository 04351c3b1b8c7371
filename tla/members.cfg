SPECIFICATION Spec
CONSTANTS
    User = {1, 2, 3}
    Request = {r1, r2}
    NoOp = NoOp
SYMMETRY MCSymmetry
INVARIANTS
    TypeOK
    AdminRemains
    ActorStaysAdmin
    NoCircularWait
