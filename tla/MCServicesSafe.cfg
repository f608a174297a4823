SPECIFICATION ServicesSpec
CONSTANTS
    AutomationRun = {x1, x2, x3}
    Caller = {p1, p2}
    Triggers = {{"audit_run"}, {"recommendation_run"}}
    MaxLostCalls = 1
    NoRun = NoRun
    Draft = {d1}
    Item = {i1, i2}
    Unset = Unset
    Lead = {x1, x2, x3}
    Message = {m1}
    Phone = {t1}
    Email = {e1}
    PhoneOf <- OnePhone
    EmailOf <- OneEmail
    ManualContact <- ByHand
    Threshold = {1}
    Requested = {"new", "contacted"}
    Handler = {p1, p2}
    Acknowledges = FALSE
    Alerts = TRUE
    MaxRequests = 3
    MaxFailures = 1
    Nil = Nil
    Flow = {f1, f2}
    Worker = {p1, p2}
    KeyVersion = {1, 2}
    Drains = TRUE
    MaxUndone = 1
    NoFlow = NoFlow
    Upload = {a1, a2}
    Image = {g1}
    Editor = {p1, p2}
    MaxUploads = 1
    MaxGenerations = 2
    NoMedia = NoMedia
SYMMETRY Symmetric
CHECK_DEADLOCK FALSE
INVARIANTS
    ServicesTypeOK
    OutputsHaveInputs
    ActiveRunsBounded
    ChainIsWhole
    DuplicatesBounded
    NoticesBounded
    ExchangedOnce
    VersionNamesKey
    UploadsBounded
