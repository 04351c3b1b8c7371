SPECIFICATION Spec
CONSTANTS
    Plan = {p1, p2}
    Code = {"free", "pro"}
    Period = {"monthly"}
    Sub = {s1, s2}
    Owner = {u1, u2}
    Request = {r1, r2}
    NoOp = NoOp
    NoPlan = NoPlan
SYMMETRY MCSymmetry
CONSTRAINT NoRace
INVARIANTS
    TypeOK
    OneCurrent
    OneRecommended
PROPERTIES
    WritesWhatIsAsked
    FreePlanLostOnRequest
