SPECIFICATION Spec
CONSTANTS
    u1 = u1
    User = {u1, u2}
    Role = {"admin"}
    Token = {k1}
    OwnerOf <- MCOwnerOf
    Request = {r1, r2}
    NoOp = NoOp
SYMMETRY MCSymmetry
PROPERTIES
    DisableSparesLastAdmin
