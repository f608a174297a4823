SPECIFICATION ReleaseSpec
CONSTANTS
    Artifact = {a1, a2}
    Cert = {c1}
    Worker = {w1}
    Offered = {}
    Erring = {}
    MaxCommits = 4
    MaxFaults = 0
    Ingested = {TRUE}
    HistoriesFull = FALSE
    None = None
SYMMETRY Interchangeable
INVARIANTS
    DeploymentIsExact
