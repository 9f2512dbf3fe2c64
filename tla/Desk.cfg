SPECIFICATION DeskSpec
CONSTANTS
    a1 = a1
    a2 = a2
    u1 = u1
    u2 = u2
    t2 = t2
    t3 = t3
    k1 = k1
    k2 = k2
    r1 = r1
    c1 = c1
    c2 = c2
    Lines = {1, 2}
    Generations = 2
    Clients = {a1, a2}
    NoClient = NoClient
    Scopes = {{2}}
    Sources = {"CONTRACT", "NATIVE"}
    People = {u1, u2}
    Keys = {1, 2}
    Calls = {a1, a2}
    MaxUpdates = 1
    Staff = {t1, t2, t3}
    Managers = {t1}
    Testers = {t1}
    Demands = {a1, a2}
    Nobody = Nobody
    TaskCount = 2
    HandTasks = {2}
    Builds = {a1, a2}
    Operations = {o1}
    NoBuild = NoBuild
    Contracts <- MCContracts
    Projects = {p1, p2}
    Commands = {k1, k2}
    Filings = {a1, a2}
    NoProject = NoProject
    Records = {1, 2}
    Requests <- MCRequests
    ImportKeys = {k1, k2}
    Importers = {a1, a2}
    NoImport = NoImport
    Splitters = {r1}
    Categories = {c1, c2}
    Offers <- MCOffers
    OverrideIds = {1}
    PolicyForms <- MCPolicyForms
    OverrideForms <- MCOverrideForms
    CategoryForms <- MCCategoryForms
    SeedCategories <- MCSeedCategories
    BoardItems = {a1, a2}
    FirstRows <- MCFirstRows
    Rules = {1, 2}
    FirstRules <- MCFirstRules
    PlanEnds <- MCPlanEnds
    Hours = 3
    Scanners = {a1, a2}
    Editors = {u1}
    DayHours = 3
    ExportIds = {1, 2, 3}
    ItemCounts = {1, 2}
    LineSizes = {1, 2, 3}
    BatchSize = 1
    MaxProjects = 2
    MaxServiceItems = 3
    MaxBytes = 5
    MaxLineBytes = 2
    MaxWrites = 2
    FirstBases <- MCFirstBases
SYMMETRY Symmetry
VIEW View
INVARIANTS
    ReportRestsOnDecision
    ImportedOncePerKey
    RulesLostOnlyInMixedGroups
    ViewsAgree
    RemindedOncePerDay
    ExportIsOneMoment
PROPERTIES
    NativeScopeFrozen
    TransferredOncePerKey
    OneProjectPerContract
    UpgradeUnderControl
CHECK_DEADLOCK FALSE
