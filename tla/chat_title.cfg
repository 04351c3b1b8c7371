SPECIFICATION Spec
CONSTANTS
    Turn = {t1}
    Route = {r1}
    AcpSession = {s1}
    NoSession = NoSession
    Reason = {"end"}
PROPERTIES
    RenameNeverClobbered
CHECK_DEADLOCK FALSE
