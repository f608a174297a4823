SPECIFICATION Spec
CONSTANTS
    Generated = {g1}
    Supplied = {s1}
    OnCompute = {s1}
    Worker = {w1, w2}
    Offered = {"import", "adopt", "bind", "ensure"}
    Served = {}
    Mortal = {g1}
    None = None
SYMMETRY Workers
INVARIANTS
    TypeOK
    KeysAreVaulted
    BoundIsOnCompute
    OneActive
PROPERTIES
    SelectionSpec
