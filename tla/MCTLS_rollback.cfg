SPECIFICATION Spec
CONSTANTS
    Generated = {g1}
    Supplied = {s1}
    OnCompute = {}
    Worker = {w1}
    Offered = {"generate", "import", "bind"}
    Served = {}
    Mortal = {}
    None = None
INVARIANTS
    SelectionAccepted
