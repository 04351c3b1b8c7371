SPECIFICATION FairSpec
CONSTANTS
    b1 = b1
    Base = {b1}
    Upload = {u1}
    BaseOf <- MCBaseOf
    Worker = {w1}
    Collector = {g1}
    NoBase = NoBase
    NoUpload = NoUpload
    MaxFaults = 0
PROPERTIES
    OrphansAreReclaimed
