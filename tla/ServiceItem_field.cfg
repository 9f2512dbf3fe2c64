SPECIFICATION Spec
CONSTANTS
    Users = {u1, u2}
    Leads = {lead}
    Managers = {pm}
    NoOne = NoOne
    Equipment = {e1}
    EvidenceKinds = {checkin}
    Files = {f1}
    NoFile = NoFile
    SpecialMethods = {TRUE, FALSE}
    GatePolicies = {"ENFORCE", "ADVISORY"}
    MaxRevision = 0
    MaxDeviation = 2
    MaxRequests = 1
    MaxInflight = 2
SYMMETRY Symmetry
INVARIANTS
    PlannedOnlyWhenCleared
    ReservationsMatchPlan
PROPERTIES
    TerminatedForGood
    NoUnexplainedGap
    VersionedCompletionTruthful
