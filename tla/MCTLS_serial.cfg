SPECIFICATION RetrySpec
CONSTANTS
    Generated = {g1}
    Supplied = {s1}
    OnCompute = {}
    Worker = {w1}
    Offered = {"generate", "ensure", "import", "verify"}
    Served = {g1, s1}
    Mortal = {}
    None = None
INVARIANTS
    ServingWasObserved
PROPERTIES
    EnsureResumes
CHECK_DEADLOCK FALSE
