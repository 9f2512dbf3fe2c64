SPECIFICATION Spec
CONSTANTS
    Users = {u1, u2}
    Leads = {lead}
    Managers = {pm}
    NoOne = NoOne
    Equipment = {}
    EvidenceKinds = {checkin}
    Files = {f1, f2}
    NoFile = NoFile
    SpecialMethods = {TRUE, FALSE}
    GatePolicies = {"ENFORCE"}
    MaxRevision = 0
    MaxDeviation = 0
    MaxRequests = 0
    MaxInflight = 1
SYMMETRY Symmetry
PROPERTY ReviewedFileVerified
