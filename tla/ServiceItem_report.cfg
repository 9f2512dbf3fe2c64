SPECIFICATION Spec
CONSTANTS
    Users = {u1, u2, u3}
    Leads = {lead}
    Managers = {pm}
    NoOne = NoOne
    Equipment = {}
    EvidenceKinds = {}
    Files = {f1, f2}
    NoFile = NoFile
    SpecialMethods = {FALSE}
    GatePolicies = {"ADVISORY"}
    MaxRevision = 1
    MaxDeviation = 0
    MaxRequests = 1
    MaxInflight = 2
SYMMETRY Symmetry
INVARIANTS
    RevisionLedger
    DutiesSeparated
PROPERTIES
    UndoneOnlyByApproval
    ImplementsRegister
    IssuedFileVerified
