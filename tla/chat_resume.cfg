SPECIFICATION Spec
CONSTANTS
    Turn = {t1}
    Route = {r1, r2}
    AcpSession = {s1, s2, s3}
    NoSession = NoSession
    Reason = {"null", "end", "cancelled"}
SYMMETRY MCSymmetry
INVARIANTS
    OneAttemptShown
    RecordMatchesStream
CHECK_DEADLOCK FALSE
