SPECIFICATION ReleaseSpec
CONSTANTS
    Artifact = {a1, a2}
    Cert = {c1, c2}
    Worker = {w1}
    Offered = {"publish", "select", "fail", "rollout"}
    Erring = {"commit", "workflow", "dispatch"}
    MaxCommits = 3
    MaxFaults = 1
    Ingested = {TRUE}
    HistoriesFull = FALSE
    None = None
SYMMETRY Interchangeable
INVARIANTS
    ReleaseCommitExact
    CertificateGateExact
    RepeatedCreateAccepted
PROPERTIES
    GatesStayOpen
    LedgerSpec
