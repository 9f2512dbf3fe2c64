---------------------------- MODULE ProjectBoard ----------------------------
(***************************************************************************)
(* The status and the report stage of a project are never entered: they    *)
(* are derived from its service items, once in Go for the rows that are    *)
(* shown and once in SQL for filters, counts and pages; and so are the SLA *)
(* breaches of its items.  This module holds both derivations, the rows    *)
(* they read, and what the deliveries do to those rows.  How an item earns *)
(* its steps is in ServiceItem and ProjectScope; here each step may happen *)
(* at any time.                                                            *)
(***************************************************************************)
EXTENDS Integers, FiniteSets, FiniteSetsExt

CONSTANTS BoardItems,   \* identifiers of service items, used or not
          FirstRows,    \* the rows a behaviour may start with
          Rules,        \* identifiers of SLA rules
          FirstRules,   \* the rules a behaviour may start with
          PlanEnds,     \* the ends a plan may name
          Hours         \* bound: the clock stops at this hour

VARIABLES rows,              \* pm_service_item, archived rows included
          supplementStatus,  \* pm_project.supplement_status
          stored,            \* pm_project.status, the cached column
          views,             \* the rows as the first plain reads of transactions saw them
          rules,             \* pm_sla
          clock              \* hours

boardVars == <<rows, supplementStatus, stored, views, rules, clock>>

\* "Legacy" stands for a word that no table of the code knows.
StatusRank == [PendingConfirm |-> 0, PendingReview |-> 0, PendingAssign |-> 1,
               PendingExecution |-> 2, Preparing |-> 3, InProgress |-> 4,
               Exception |-> 5, FieldCompleted |-> 6]
RowStatuses == DOMAIN StatusRank \cup {"Terminated", "Legacy"}

ReportStages == [NONE |-> [phase |-> 0, rank |-> 6],
                 RECTIFYING |-> [phase |-> 1, rank |-> 7],
                 COMPILING |-> [phase |-> 2, rank |-> 7],
                 REVIEWED |-> [phase |-> 3, rank |-> 7],
                 ISSUED |-> [phase |-> 4, rank |-> 7],
                 ARCHIVED |-> [phase |-> 5, rank |-> 8]]
RowReports == DOMAIN ReportStages \cup {"", "Legacy"}

\* What an SLA rule may be about: the catalogue leaves out NONE.
SlaCatalog == DOMAIN StatusRank \cup (DOMAIN ReportStages \ {"NONE"})

\* projectStatusNodes, by rank.
Node == [r \in 0..8 |->
           CASE r = 0 -> "PendingDecomposition" [] r = 1 -> "PendingAllocation"
             [] r = 2 -> "PendingExecution"     [] r = 3 -> "Preparing"
             [] r = 4 -> "InProgress"           [] r = 5 -> "Exception"
             [] r = 6 -> "FieldCompleted"       [] r = 7 -> "Reporting"
             [] r = 8 -> "Completed"]
ProjectStatuses == {Node[r] : r \in 0..8} \cup {"Terminated", "SupplementRequired"}

\* A planned end at NeverDue stands for none.
NeverDue == Hours + 1

Row == [state : {"unused", "live", "archived"}, status : RowStatuses,
        report : RowReports, since : 0..Hours, reported : 0..Hours, due : 0..NeverDue]

Rule == [state : {"unused", "kept", "deleted"}, status : SlaCatalog,
         deadline : Nat, remind : Nat, enabled : BOOLEAN]

ASSUME BoardAssumption ==
    /\ IsFiniteSet(BoardItems)
    /\ Hours \in Nat
    /\ PlanEnds \subseteq 0..Hours
    /\ FirstRows \subseteq Row
    /\ FirstRules \subseteq Rule
    /\ \A rule \in FirstRules : rule.remind < rule.deadline

Used(rs) == {i \in BoardItems : rs[i].state # "unused"}
LiveRows(rs) == {i \in BoardItems : rs[i].state = "live"}

-----------------------------------------------------------------------------
(* The derivation in Go: package domain *)

Reported(row) == row.status = "FieldCompleted" /\ row.report \in DOMAIN ReportStages

LifecycleRank(row) ==
    CASE Reported(row) -> ReportStages[row.report].rank
      [] ~Reported(row) /\ row.status \in DOMAIN StatusRank -> StatusRank[row.status]
      [] OTHER -> 0

Active(rs) == {i \in LiveRows(rs) : rs[i].status # "Terminated"}

DeriveProjectStatus(rs, sup, st) ==
    CASE sup = "REQUIRED" -> "SupplementRequired"
      [] sup # "REQUIRED" /\ LiveRows(rs) = {} -> st
      [] sup # "REQUIRED" /\ LiveRows(rs) # {} /\ Active(rs) = {} -> "Terminated"
      [] OTHER -> Node[Min({LifecycleRank(rs[i]) : i \in Active(rs)})]

\* An empty code counts as NONE.
ReportCode(row) == IF row.report = "" THEN "NONE" ELSE row.report

\* "" stands for no stage: an item is not there yet, or its code is unknown.
DeriveProjectReportStage(rs) ==
    IF /\ Active(rs) # {}
       /\ \A i \in Active(rs) : /\ LifecycleRank(rs[i]) >= 6
                                /\ ReportCode(rs[i]) \in DOMAIN ReportStages
      THEN CHOOSE code \in DOMAIN ReportStages :
             ReportStages[code].phase =
               Min({ReportStages[ReportCode(rs[i])].phase : i \in Active(rs)})
      ELSE ""

\* In per cent of the last rank; what is terminated counts neither as work nor as done.
DeriveProjectProgress(rs) ==
    IF Active(rs) = {} THEN 0
    ELSE LET rank(i) == LifecycleRank(rs[i])
         IN  (MapThenSumSet(rank, Active(rs)) * 100) \div (8 * Cardinality(Active(rs)))

RiskStatuses == {"Exception", "Terminated"}

IsRiskProject(rs, status) == status \in RiskStatuses \/ Active(rs) # LiveRows(rs)

UnknownServiceItemStatuses(rs) == {rs[i].status : i \in Active(rs)} \ DOMAIN StatusRank

\* applyDerivedProjectMetrics: what a row of a list or the page of a project shows.
Metrics ==
    LET status == DeriveProjectStatus(rows, supplementStatus, stored)
    IN  [status |-> status, stage |-> DeriveProjectReportStage(rows),
         progress |-> DeriveProjectProgress(rows), risk |-> IsRiskProject(rows, status)]

\* What the project adds to the counts of the dashboard.
Dashboard ==
    LET status == DeriveProjectStatus(rows, supplementStatus, stored)
    IN  [status |-> status, stage |-> DeriveProjectReportStage(rows),
         inFlight |-> status # "Completed", risk |-> IsRiskProject(rows, status),
         unknown |-> UnknownServiceItemStatuses(rows) # {}]

-----------------------------------------------------------------------------
(* The derivation in SQL: one aggregate joined to the project row *)

\* Mutant: the aggregate counts the archived items too.
AggregatedEver(rs) == Used(rs)

Aggregated(rs) == LiveRows(rs)

SqlRank(row) ==
    CASE row.status = "Terminated" -> 9
      [] Reported(row) -> ReportStages[row.report].rank
      [] row.status \in DOMAIN StatusRank /\ ~Reported(row) -> StatusRank[row.status]
      [] OTHER -> 0

Ended(rs) == {i \in Aggregated(rs) : rs[i].status = "Terminated"}

LowestRank(rs) == Min({SqlRank(rs[i]) : i \in Aggregated(rs)} \cup {9})

FieldDone(rs) == {i \in Aggregated(rs) : rs[i].status = "FieldCompleted"}

SqlPhase(row) ==
    CASE row.report \in DOMAIN ReportStages -> ReportStages[row.report].phase
      [] row.report = "" -> 0
      [] OTHER -> -1

\* MIN passes over the NULLs of the items that are not completed; no value is -1.
LowestReportPhase(rs) ==
    IF FieldDone(rs) = {} THEN -1 ELSE Min({SqlPhase(rs[i]) : i \in FieldDone(rs)})

SqlProjectStatus(rs, sup, st) ==
    CASE sup = "REQUIRED" -> "SupplementRequired"
      [] sup # "REQUIRED" /\ Aggregated(rs) = {} -> st
      [] sup # "REQUIRED" /\ Aggregated(rs) # {} /\ Ended(rs) = Aggregated(rs) -> "Terminated"
      [] OTHER -> Node[LowestRank(rs)]

SqlInStage(rs, code) == /\ Aggregated(rs) # {}
                        /\ LowestRank(rs) \in 6..8
                        /\ LowestReportPhase(rs) = ReportStages[code].phase

\* ListProjects counts and cuts its pages in SQL, and then drops the rows for which Go
\* derives something else.  "" asks for no status, or for no stage.
ListCounted(wanted, code) ==
    /\ wanted # "" => SqlProjectStatus(rows, supplementStatus, stored) = wanted
    /\ code # "" => SqlInStage(rows, code)

-----------------------------------------------------------------------------
(* SLA breaches: computeSlaItems in Go, monitoringSLAPredicate in SQL *)

\* slaBreach: "" when the item is within its time.
BreachKind(rule, since, now) ==
    CASE now - since > rule.deadline -> "STATUS_OVERDUE"
      [] /\ now - since <= rule.deadline
         /\ rule.remind > 0
         /\ rule.deadline - (now - since) <= rule.remind -> "STATUS_APPROACHING"
      [] OTHER -> ""

\* evaluateSlaRule: a report rule looks at the report stage and its own clock.
RuleMatches(row, rule) ==
    IF rule.status \in DOMAIN ReportStages
      THEN row.status = "FieldCompleted" /\ row.report = rule.status
      ELSE row.status = rule.status

RuleSince(row, rule) == IF rule.status \in DOMAIN ReportStages THEN row.reported ELSE row.since

RuleBreach(rs, i, rule, now) ==
    [item |-> i, kind |-> BreachKind(rule, RuleSince(rs[i], rule), now),
     dimension |-> IF rule.status \in DOMAIN ReportStages THEN "REPORT" ELSE "STATUS",
     stage |-> rule.status]

PlanBreach(i) == [item |-> i, kind |-> "PLAN_END_OVERDUE", dimension |-> "PLAN", stage |-> ""]

PlanOverdue(row, now) == row.status # "FieldCompleted" /\ row.due < now

Enabled(rl) == {rl[n] : n \in {m \in Rules : rl[m].state = "kept" /\ rl[m].enabled}}

\* The candidates of ListSlaOverdue and what computeSlaItems makes of them.
Candidates(rs) == {i \in LiveRows(rs) : rs[i].status # "Terminated"}

SlaItems(rs, rl, now) ==
    {PlanBreach(i) : i \in {j \in Candidates(rs) : PlanOverdue(rs[j], now)}}
    \cup {b \in {RuleBreach(rs, c[1], c[2], now) :
                   c \in {d \in Candidates(rs) \X Enabled(rl) : RuleMatches(rs[d[1]], d[2])}} :
            b.kind # ""}

SqlRuleHolds(row, rule, now) ==
    \/ /\ rule.status = row.status
       /\ \/ now - row.since > rule.deadline
          \/ rule.remind > 0 /\ rule.deadline - (now - row.since) <= rule.remind
    \/ /\ row.status = "FieldCompleted"
       /\ row.report \in DOMAIN ReportStages \ {"NONE"}
       /\ rule.status = row.report
       /\ \/ now - row.reported > rule.deadline
          \/ rule.remind > 0 /\ rule.deadline - (now - row.reported) <= rule.remind

MonitoringSla(row, rl, now) ==
    /\ row.status # "Terminated"
    /\ \/ row.status # "FieldCompleted" /\ row.due < now
       \/ \E rule \in Enabled(rl) : SqlRuleHolds(row, rule, now)

-----------------------------------------------------------------------------
(* The monitoring page: one query in SQL, or every project compared in Go *)

NoFilter == [status |-> "", stage |-> "", sla |-> FALSE, risk |-> FALSE]

\* visibleItems reads the table of the items, the archived ones among them.
SlaSelected == \E i \in Used(rows) : MonitoringSla(rows[i], rules, clock)

\* LoadProjectMonitoringPage goes by the stored status.
MonitoringSelected(query) ==
    /\ stored # "Completed"
    /\ query.status # "" => stored = query.status
    /\ query.stage # "" => SqlInStage(rows, query.stage)
    /\ query.sla => SlaSelected
    /\ query.risk => stored \in RiskStatuses \/ Ended(rows) # {} \/ SlaSelected

\* Its counts are grouped by the derived status and the lowest phase.
MonitoringGroup ==
    [status |-> SqlProjectStatus(rows, supplementStatus, stored),
     stage |-> IF LowestRank(rows) \in 6..8 /\ LowestReportPhase(rows) \in 0..5
                 THEN CHOOSE code \in DOMAIN ReportStages :
                        ReportStages[code].phase = LowestReportPhase(rows)
                 ELSE ""]

\* buildMonitoringProject
MonitoringRow == [project |-> Metrics, sla |-> SlaItems(rows, rules, clock)]

\* monitoringMatches, for what ListProjects returns and is not completed.
MonitoringMatches(row, query) ==
    /\ row.project.status # "Completed"
    /\ query.status # "" => row.project.status = query.status
    /\ query.stage # "" => row.project.stage = query.stage
    /\ query.sla => row.sla # {}
    /\ query.risk => row.project.risk \/ row.sla # {}

-----------------------------------------------------------------------------
(* What happens to the rows *)

\* The plain reads of a transaction see the rows as its first one saw them, but for what
\* it has written itself.  A transaction that locks the project before it sees what
\* holds; the first plain read of the others is at any time before that.
ViewTaken ==
    /\ views' = views \cup {rows}
    /\ UNCHANGED <<rows, supplementStatus, stored, rules, clock>>

ViewLeft(view) ==
    /\ views' = views \ {view}
    /\ UNCHANGED <<rows, supplementStatus, stored, rules, clock>>

Views == views \cup {rows}

Seen(view, own) == [i \in BoardItems |-> IF i \in own THEN rows'[i] ELSE view[i]]

\* syncProjectStatusColumn, at the end of an event's transaction, when the project row
\* has been locked and the items are read without a lock.
Synced(seen) == stored' = DeriveProjectStatus(seen, supplementStatus', stored)

Unconfirmed(rs) == {i \in LiveRows(rs) : rs[i].status \in {"PendingConfirm", "PendingReview"}}

\* Every event that assigns a status stamps it, the same status included.
Steps == [PendingAssign |-> {"PendingConfirm", "PendingExecution"},
          PendingExecution |-> {"Preparing", "PendingAssign"},
          Preparing |-> {"Preparing", "InProgress", "PendingExecution"},
          InProgress |-> {"Preparing", "Exception", "FieldCompleted"},
          Exception |-> {"InProgress", "Terminated"}]

\* The items confirmed together; the column follows with the last of them, as far as the
\* transaction sees (the scope of its first statement is a plain read), and a pending
\* supplement only lets that confirmation through when it is met.
RowsConfirmed(chosen, view) ==
    /\ chosen # {}
    /\ \A i \in chosen : rows[i].status \in {"PendingConfirm", "PendingReview", "PendingAssign"}
    /\ rows' = [i \in BoardItems |->
                  IF i \in chosen
                    THEN [rows[i] EXCEPT !.status = "PendingAssign", !.since = clock]
                    ELSE rows[i]]
    /\ IF Unconfirmed(Seen(view, chosen)) = {}
         THEN supplementStatus' = "NONE" /\ Synced(Seen(view, chosen))
         ELSE UNCHANGED <<supplementStatus, stored>>
    /\ UNCHANGED <<views, rules, clock>>

\* A published plan names its end, its revocation takes it back.
PlannedEnds(row, to) ==
    CASE row.status = "PendingAssign" /\ to = "PendingExecution" -> PlanEnds
      [] row.status = "PendingExecution" /\ to = "PendingAssign" -> {NeverDue}
      [] OTHER -> {row.due}

\* The review of a deviation looks the report of it up before it locks anything.
ItemStepped(i, to, view) ==
    /\ rows[i].status \in DOMAIN Steps
    /\ to \in Steps[rows[i].status]
    /\ view = rows \/ rows[i].status = "Exception"
    /\ \E due \in PlannedEnds(rows[i], to) :
         rows' = [rows EXCEPT ![i].status = to, ![i].since = clock, ![i].due = due,
                              ![i].report = IF to = "FieldCompleted" THEN "NONE" ELSE @]
    /\ UNCHANGED <<supplementStatus, views, rules, clock>>
    /\ Synced(Seen(view, {i}))

StageAdvanced(i, phase) ==
    /\ Reported(rows[i])
    /\ ReportStages[phase].phase = ReportStages[rows[i].report].phase + 1
    /\ rows' = [rows EXCEPT ![i].report = phase, ![i].reported = clock]
    /\ UNCHANGED <<supplementStatus, views, rules, clock>>
    /\ Synced(rows')

ReportReworked(i) ==
    /\ Reported(rows[i])
    /\ rows[i].report \in {"RECTIFYING", "COMPILING", "REVIEWED"}
    /\ rows' = [rows EXCEPT ![i].status = "InProgress", ![i].since = clock,
                            ![i].report = "NONE", ![i].reported = clock]
    /\ UNCHANGED <<supplementStatus, views, rules, clock>>
    /\ Synced(rows')

ReportCorrected(i) ==
    /\ Reported(rows[i])
    /\ rows[i].report \in {"ISSUED", "ARCHIVED"}
    /\ rows' = [rows EXCEPT ![i].report = "NONE", ![i].reported = clock]
    /\ UNCHANGED <<supplementStatus, views, rules, clock>>
    /\ Synced(rows')

\* An event that changes none of these columns.  That of a field client looks its
\* operation up after it has locked the item and before the project; the review of a
\* deviation that has been decided, of whatever item, before both.
Noted(view) ==
    /\ UNCHANGED <<rows, supplementStatus, views, rules, clock>>
    /\ Synced(view)

\* DECOMPOSITION_ADJUSTED archives every item and brings new ones; that of a supplement
\* counts what has been confirmed by an older view.
RowsReplaced(brought, view) ==
    /\ LiveRows(view) = Unconfirmed(view)
    /\ brought # {}
    /\ \A i \in brought : rows[i].state = "unused"
    /\ rows' = [i \in BoardItems |->
                  CASE i \in brought -> [state |-> "live", status |-> "PendingConfirm",
                                         report |-> "", since |-> clock,
                                         reported |-> 0, due |-> NeverDue]
                    [] i \in LiveRows(rows) -> [rows[i] EXCEPT !.state = "archived"]
                    [] OTHER -> rows[i]]
    /\ supplementStatus' = "REQUIRED"
    /\ UNCHANGED <<views, rules, clock>>
    /\ Synced(Seen(view, brought \cup LiveRows(rows)))

DriftRecorded ==
    /\ supplementStatus' = "REQUIRED"
    /\ UNCHANGED <<rows, views, rules, clock>>
    /\ Synced(rows)

SupplementLeft ==
    /\ supplementStatus = "REQUIRED"
    /\ supplementStatus' = "NONE"
    /\ UNCHANGED <<rows, views, rules, clock>>
    /\ Synced(rows)

HourPasses ==
    /\ clock < Hours
    /\ clock' = clock + 1
    /\ UNCHANGED <<rows, supplementStatus, stored, views, rules>>

BoardInit ==
    /\ rows \in [BoardItems -> FirstRows]
    /\ supplementStatus \in {"NONE", "REQUIRED"}
    /\ stored = DeriveProjectStatus(rows, supplementStatus, "PendingDecomposition")
    /\ views = {}
    /\ rules \in [Rules -> FirstRules]
    /\ clock \in 0..Hours
    /\ \A i \in BoardItems : rows[i].since <= clock /\ rows[i].reported <= clock

BoardNext ==
    \/ ViewTaken
    \/ \E view \in views : ViewLeft(view)
    \/ \E chosen \in SUBSET LiveRows(rows), view \in Views : RowsConfirmed(chosen, view)
    \/ \E i \in LiveRows(rows), to \in RowStatuses, view \in Views : ItemStepped(i, to, view)
    \/ \E i \in LiveRows(rows), phase \in DOMAIN ReportStages : StageAdvanced(i, phase)
    \/ \E i \in LiveRows(rows) : ReportReworked(i)
    \/ \E i \in LiveRows(rows) : ReportCorrected(i)
    \/ \E view \in Views : Noted(view)
    \/ \E brought \in SUBSET BoardItems, view \in Views : RowsReplaced(brought, view)
    \/ DriftRecorded
    \/ SupplementLeft
    \/ HourPasses

BoardSpec == BoardInit /\ [][BoardNext]_boardVars

-----------------------------------------------------------------------------
(* Properties *)

\* Each filter alone, as they only narrow each other; no other status or stage is that of
\* the project on either path.
MonitoringQueries(project) ==
    {NoFilter, [NoFilter EXCEPT !.sla = TRUE], [NoFilter EXCEPT !.risk = TRUE],
     [NoFilter EXCEPT !.status = stored], [NoFilter EXCEPT !.status = project.status],
     [NoFilter EXCEPT !.stage = MonitoringGroup.stage]}

\* What would be shown if the project had the status of its column.
ByColumn(row) == [row EXCEPT !.project.status = stored,
                             !.project.risk = IsRiskProject(rows, stored)]

\* What SQL selects for a status, a report stage or an SLA breach is what Go derives for
\* the rows it then shows: ListProjects cuts its pages by the first and drops rows by the
\* second, so that a disagreement loses projects; and the counts of the monitoring page
\* are those of the dashboard.  Its rows are not always the same on its two paths, one of
\* which goes by the stored status, and that can lag behind the items (Synced); but the
\* column is all that tells the paths apart, so that they are the same wherever it
\* has the derived status.  (An archived item in breach tells them apart too: the query
\* selects its project, and nothing is shown.)  A project shows 100 per cent if and only
\* if it is completed, but for the supplement.
ViewsAgree ==
    LET row == MonitoringRow
        project == row.project
        dashboard == Dashboard
    IN  /\ ListCounted(project.status, project.stage)
        /\ MonitoringGroup = [status |-> dashboard.status, stage |-> dashboard.stage]
        /\ \A i \in Candidates(rows) :
             MonitoringSla(rows[i], rules, clock) <=> \E b \in row.sla : b.item = i
        /\ (\A i \in Used(rows) \ LiveRows(rows) : ~MonitoringSla(rows[i], rules, clock)) =>
             \A query \in MonitoringQueries(project) :
               MonitoringSelected(query) <=> MonitoringMatches(ByColumn(row), query)
        /\ supplementStatus = "NONE" => (project.progress = 100 <=> ~dashboard.inFlight)

=============================================================================
