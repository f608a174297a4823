SPECIFICATION Spec
CONSTANTS
    Artifact = {a1, a2}
    Cert = {c1}
    Worker = {w1, w2}
    Offered = {"approve", "publish", "deploy", "refresh", "rollout"}
    Erring = {"dispatch"}
    MaxCommits = 3
    MaxFaults = 1
    HistoriesFull = FALSE
    None = None
SYMMETRY Symmetry
CHECK_DEADLOCK FALSE
INVARIANTS
    DeployedAfterPush
