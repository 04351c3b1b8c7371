SPECIFICATION Spec
CONSTANTS
    u1 = u1
    User = {u1, u2}
    Role = {"admin"}
    Token = {k1, k2, k3}
    OwnerOf <- MCOwnerOf
    Request = {r1, r2}
    NoOp = NoOp
SYMMETRY MCSymmetry
CONSTRAINT NoRace
INVARIANTS
    TypeOK
    AdminRemains
    SpentOnce
PROPERTIES
    TokensGoToActiveUsers
