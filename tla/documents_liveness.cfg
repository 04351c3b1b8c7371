SPECIFICATION FairSpec
CONSTANTS
    b1 = b1
    Base = {b1}
    Upload = {u1}
    BaseOf <- MCBaseOf
    Worker = {w1, w2}
    Collector = {g1}
    NoBase = NoBase
    NoUpload = NoUpload
    MaxFaults = 2
PROPERTIES
    StaleSessionsSettle
    DeletedDocumentsGo
    DeletedBasesGo
