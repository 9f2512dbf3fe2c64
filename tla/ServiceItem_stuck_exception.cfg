SPECIFICATION Spec
CONSTANTS
    Users = {u1, u2}
    Leads = {lead}
    Managers = {pm}
    NoOne = NoOne
    Equipment = {}
    EvidenceKinds = {checkin}
    Files = {f1}
    NoFile = NoFile
    SpecialMethods = {TRUE, FALSE}
    GatePolicies = {"ENFORCE"}
    MaxRevision = 0
    MaxDeviation = 2
    MaxRequests = 0
    MaxInflight = 2
SYMMETRY Symmetry
INVARIANT OpenDeviationReviewable
