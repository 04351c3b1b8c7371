SPECIFICATION Spec
CONSTANTS
    User = {1, 2}
    Request = {r1}
    NoOp = NoOp
INVARIANTS
    TenantKeepsAdmin
