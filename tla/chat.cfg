SPECIFICATION Spec
CONSTANTS
    Turn = {t1, t2}
    Route = {r1, r2}
    AcpSession = {s1}
    NoSession = NoSession
    Reason = {"end"}
SYMMETRY MCSymmetry
INVARIANTS
    TypeOK
    OneAttemptShown
    RecordMatchesStream
    BindingFollowsStream
PROPERTIES
    RenameOutlivesNewStreams
    RecordsSettle
CHECK_DEADLOCK FALSE
