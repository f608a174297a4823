SPECIFICATION Spec
CONSTANTS
    Artifact = {a1, a2}
    Cert = {c1}
    Worker = {w1, w2}
    Offered = {"approve", "publish", "delete", "select"}
    Erring = {"commit", "workflow"}
    MaxCommits = 4
    MaxFaults = 0
    HistoriesFull = FALSE
    None = None
SYMMETRY Symmetry
INVARIANTS
    PublishedIsCommitted
    PointersExist
PROPERTIES
    LogSpec
