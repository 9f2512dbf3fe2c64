----------------------------- MODULE ServiceItem -----------------------------
(***************************************************************************)
(* The delivery of one service item (pm_service_item): from decomposition  *)
(* to the archived report, as the event handlers of the repository layer   *)
(* advance it (mysql/delivery_events.go, applyItemEvent).                  *)
(*                                                                         *)
(* Every handler runs in one transaction that first locks the item row and *)
(* the project row, so an event is one action.  A command of the           *)
(* application layer is two steps where what it decides on is read before  *)
(* that lock is held and not read again under it: the first step puts a    *)
(* command with what it has read in "inflight", the second one applies it. *)
(* Between the two any other event may be applied.                         *)
(***************************************************************************)
EXTENDS Naturals, FiniteSets

CONSTANTS
    Users,          \* accounts that file, decide, prepare, review and issue
    Leads,          \* candidates for the team lead
    Managers,       \* candidates for the project manager
    NoOne,          \* the empty user id
    Equipment,      \* resource ids of the equipment the item may use
    EvidenceKinds,  \* the event types a completed field visit must show
    Files,          \* report files of the file gateway
    NoFile,         \* the empty file id
    SpecialMethods, \* whether an item may be done by a special method
    GatePolicies,   \* how the instances of the service hold the evidence gate
    MaxRevision,    \* bound: the last report revision that is opened
    MaxDeviation,   \* bound: how many deviation reports are ever sent
    MaxRequests,    \* bound: how many rollback or correction requests are filed
    MaxInflight     \* bound: how many commands are between read and lock

ASSUME NoOneAssumption == NoOne \notin Users \cup Leads \cup Managers
ASSUME NoFileAssumption == NoFile \notin Files
ASSUME SpecialMethodsAssumption == SpecialMethods \subseteq BOOLEAN
ASSUME GatePoliciesAssumption == GatePolicies \subseteq {"ENFORCE", "ADVISORY"}
ASSUME BoundsAssumption == /\ MaxRevision \in Nat
                           /\ MaxDeviation \in Nat
                           /\ MaxRequests \in Nat
                           /\ MaxInflight \in Nat

VARIABLES
    item,       \* the locked row: pm_service_item
    plan,       \* pm_impl_plan.equipment: each device "absent", "held" or "returned"
    reserved,   \* devices with rows in pm_equipment_reservation for this item
    ledger,     \* pm_report_revision, by revision number
    evidence,   \* evidence event types in the item's event history
    requests,   \* rollback and correction requests with their decision events
    stamped,    \* deviation reports that have taken their created_at and id
    reported,   \* deviation reports in the event history, in created_at order
    reviewed,   \* deviations whose review changed the item
    inflight,   \* commands that have read and not yet locked
    open        \* observed: the deviation that put the item in its exception

vars == <<item, plan, reserved, ledger, evidence, requests,
          stamped, reported, reviewed, inflight, open>>

-----------------------------------------------------------------------------
(* Values *)

Unconfirmed == {"PendingConfirm", "PendingReview"}
Planned == {"PendingExecution", "Preparing", "InProgress", "Exception",
            "FieldCompleted", "Terminated"}
Statuses == Unconfirmed \cup {"PendingAssign"} \cup Planned

Phases == {"NONE", "RECTIFYING", "COMPILING", "REVIEWED", "ISSUED", "ARCHIVED"}

\* domain.ReportPhaseRank: the phases are left one after the other.
PhaseRank == [p \in Phases |-> CASE p = "NONE" -> 0
                                 [] p = "RECTIFYING" -> 1
                                 [] p = "COMPILING" -> 2
                                 [] p = "REVIEWED" -> 3
                                 [] p = "ISSUED" -> 4
                                 [] p = "ARCHIVED" -> 5]

Revisions == 0..MaxRevision
Deviations == 1..MaxDeviation
RequestIds == 1..MaxRequests
RollbackKinds == {"FIELD_TO_PREPARATION", "REPORT_TO_FIELD"}
RequestKinds == RollbackKinds \cup {"REPORT_CORRECTION"}

AbsentRow == [validity |-> "ABSENT", status |-> "NONE", preparedBy |-> NoOne,
              reviewedBy |-> NoOne, issuedBy |-> NoOne, file |-> NoFile]
NewRow(phase) == [AbsentRow EXCEPT !.validity = "ACTIVE", !.status = phase]

Unfiled == [kind |-> "NONE", by |-> NoOne, revision |-> 0,
            decisions |-> {}, approvedBy |-> NoOne]

Commands ==
         [op : {"advance"}, by : Users, phase : {"REVIEWED", "ISSUED"},
          file : Files, versioned : BOOLEAN]
    \cup [op : {"complete"}, policy : GatePolicies, reason : BOOLEAN, versioned : BOOLEAN]
    \cup [op : {"deviation"}, id : Deviations, versioned : {FALSE}]
    \cup [op : {"review"}, by : Users, id : Deviations, versioned : {FALSE}]
    \cup [op : {"rollback"}, by : Users, kind : RollbackKinds, versioned : BOOLEAN]
    \cup [op : {"correction"}, by : Users, revision : Revisions, versioned : {FALSE}]

-----------------------------------------------------------------------------
(* The transaction frame *)

\* Mutant: no event bumps the version.
UnbumpedSurviving(cmds) == cmds

\* An event that changes the row bumps its version.  A command in flight that
\* carries the version it read can then only end in ErrConflict: it is gone.
Surviving(cmds) == {c \in cmds : ~c.versioned}

\* The step of an event that needs no earlier read.
Bumps == inflight' = Surviving(inflight)

\* The step of command c under the lock.
Applies(c) == c \in inflight /\ inflight' = Surviving(inflight \ {c})

\* An event that only leaves a trace: the version stays as it is.
Records(c) == c \in inflight /\ inflight' = inflight \ {c}

\* The read of a command before its transaction.
Sends(c) == /\ Cardinality(inflight) < MaxInflight
            /\ inflight' = inflight \cup {c}

HeldDevices == {e \in Equipment : plan[e] = "held"}

deviationVars == <<stamped, reported, reviewed, open>>
reportVars == <<ledger, requests>>
equipmentVars == <<plan, reserved>>

Init ==
    /\ item \in [status : Unconfirmed \cup {"PendingAssign"}, special : SpecialMethods,
                 lead : {NoOne}, pm : {NoOne}, conflict : {"UNCHECKED"},
                 review : {"NONE", "PENDING"}, report : {"NONE"}, revision : {0}]
    /\ (item.review = "PENDING") <=> (item.special /\ item.status = "PendingAssign")
    /\ plan = [e \in Equipment |-> "absent"]
    /\ reserved = {}
    /\ ledger = [r \in Revisions |-> AbsentRow]
    /\ evidence = {}
    /\ requests = [r \in RequestIds |-> Unfiled]
    /\ stamped = 0
    /\ reported = {}
    /\ reviewed = {}
    /\ inflight = {}
    /\ open = 0

-----------------------------------------------------------------------------
(* Decomposition, assignment and special-method review *)

\* Confirmation accepts an item that was confirmed before and does not bump
\* the version: commands in flight stay valid across it.
ServiceItemConfirmed ==
    /\ item.status \in Unconfirmed \cup {"PendingAssign"}
    /\ item' = [item EXCEPT
                  !.status = "PendingAssign",
                  !.review = IF item.special /\ @ # "APPROVED" THEN "PENDING" ELSE @]
    /\ UNCHANGED <<equipmentVars, reportVars, evidence, deviationVars, inflight>>

TeamAssigned(lead) ==
    /\ item.status = "PendingAssign"
    /\ item' = [item EXCEPT !.lead = lead]
    /\ Bumps
    /\ UNCHANGED <<equipmentVars, reportVars, evidence, deviationVars>>

TeamAssignmentRevoked ==
    /\ item.status = "PendingAssign"
    /\ item.lead # NoOne
    /\ item' = [item EXCEPT !.lead = NoOne, !.pm = NoOne, !.conflict = "UNCHECKED"]
    /\ Bumps
    /\ UNCHANGED <<equipmentVars, reportVars, evidence, deviationVars>>

DecompositionReturned ==
    /\ item.status = "PendingAssign"
    /\ item' = [item EXCEPT !.status = "PendingConfirm", !.lead = NoOne, !.pm = NoOne,
                            !.conflict = "UNCHECKED", !.review = "NONE"]
    /\ Bumps
    /\ UNCHANGED <<equipmentVars, reportVars, evidence, deviationVars>>

\* AssignExecutionTeam computes the capability check before the transaction and
\* sends its verdict: a conflict is stored, not refused.
Verdicts == {"PASSED", "CONFLICT"}

ExecutionTeamAssigned(pm, verdict) ==
    /\ item.status = "PendingAssign"
    /\ item.lead # NoOne
    /\ item' = [item EXCEPT !.pm = pm, !.conflict = verdict]
    /\ Bumps
    /\ UNCHANGED <<equipmentVars, reportVars, evidence, deviationVars>>

ExecutionAssignmentRevoked ==
    /\ item.status = "PendingAssign"
    /\ item.lead # NoOne
    /\ item.pm # NoOne
    /\ item' = [item EXCEPT !.pm = NoOne, !.conflict = "UNCHECKED"]
    /\ Bumps
    /\ UNCHANGED <<equipmentVars, reportVars, evidence, deviationVars>>

\* Mutant: an approved method may be reviewed again.
SpecialMethodReviewedAgain(decision) ==
    /\ item.special
    /\ item.review # "NONE"
    /\ item' = [item EXCEPT !.review = decision]
    /\ Bumps
    /\ UNCHANGED <<equipmentVars, reportVars, evidence, deviationVars>>

\* The director of technology may review again what was rejected, and nothing
\* in the handler looks at the status of the item.
SpecialMethodReviewed(decision) ==
    /\ item.special
    /\ item.review \in {"PENDING", "REJECTED"}
    /\ item' = [item EXCEPT !.review = decision]
    /\ Bumps
    /\ UNCHANGED <<equipmentVars, reportVars, evidence, deviationVars>>

-----------------------------------------------------------------------------
(* Plan, preparation and equipment *)

\* application.CheckImplementationPlanPrecondition, shared by both layers.
Plannable == /\ item.status = "PendingAssign"
             /\ item.pm # NoOne
             /\ item.conflict = "PASSED"
             /\ item.special => item.review = "APPROVED"

\* The device list of the plan and the day rows, as the four helpers of the
\* handlers write them.  Clearing the plan leaves no list to show.
ClearedPlan == [e \in Equipment |-> "absent"]

\* Every earlier reservation is dropped and the new list takes its place.
Reserves(devices) ==
    /\ plan' = [e \in Equipment |-> IF e \in devices THEN "held" ELSE "absent"]
    /\ reserved' = devices

\* Returning what is not held is accepted and changes neither list.
Returns(e) ==
    IF plan[e] = "held"
      THEN plan' = [plan EXCEPT ![e] = "returned"] /\ reserved' = reserved \ {e}
      ELSE UNCHANGED equipmentVars

ImplementationPlanned ==
    /\ Plannable
    /\ item' = [item EXCEPT !.status = "PendingExecution"]
    /\ Bumps
    /\ UNCHANGED <<equipmentVars, reportVars, evidence, deviationVars>>

ImplementationPlanRevoked ==
    /\ item.status = "PendingExecution"
    /\ item' = [item EXCEPT !.status = "PendingAssign"]
    /\ plan' = ClearedPlan
    /\ Bumps
    /\ UNCHANGED <<reserved, reportVars, evidence, deviationVars>>

\* A device that another item holds on one of the days refuses the event.
PreparationStarted(devices) ==
    /\ item.status \in {"PendingExecution", "Preparing"}
    /\ item' = [item EXCEPT !.status = "Preparing"]
    /\ Reserves(devices)
    /\ Bumps
    /\ UNCHANGED <<reportVars, evidence, deviationVars>>

\* Mutant: the day rows of a revoked preparation are not deleted.
PreparationRevokedOnPaper ==
    /\ item.status = "Preparing"
    /\ item' = [item EXCEPT !.status = "PendingExecution"]
    /\ plan' = ClearedPlan
    /\ Bumps
    /\ UNCHANGED <<reserved, reportVars, evidence, deviationVars>>

PreparationRevoked ==
    /\ item.status = "Preparing"
    /\ item' = [item EXCEPT !.status = "PendingExecution"]
    /\ plan' = ClearedPlan
    /\ reserved' = {}
    /\ Bumps
    /\ UNCHANGED <<reportVars, evidence, deviationVars>>

\* Mutant: devices are returned after the termination too.
EquipmentReturnedAnyTime(e) ==
    /\ item.status \in Planned
    /\ Returns(e)
    /\ Bumps
    /\ UNCHANGED <<item, reportVars, evidence, deviationVars>>

EquipmentReturned(e) ==
    /\ item.status \in Planned \ {"Terminated"}
    /\ Returns(e)
    /\ Bumps
    /\ UNCHANGED <<item, reportVars, evidence, deviationVars>>

-----------------------------------------------------------------------------
(* Field work *)

FieldStarted ==
    /\ item.status = "Preparing"
    /\ item' = [item EXCEPT !.status = "InProgress"]
    /\ Bumps
    /\ UNCHANGED <<equipmentVars, reportVars, evidence, deviationVars>>

\* A check-in, a field record or a signature; what was shown once stays shown,
\* whatever the item goes through afterwards.
FieldEvidenceSubmitted(kind) ==
    /\ item.status = "InProgress"
    /\ evidence' = evidence \cup {kind}
    /\ Bumps
    /\ UNCHANGED <<item, equipmentVars, reportVars, deviationVars>>

EvidenceComplete == evidence = EvidenceKinds

\* The gate of CompleteServiceItemField looks at the evidence before the lock.
\* An instance configured to enforce it asks for a reason where there is a gap,
\* and for none where the chain is complete; an advisory one lets both pass.
SendCompletion(policy, reason, versioned) ==
    /\ policy = "ENFORCE" => (reason <=> ~EvidenceComplete)
    /\ Sends([op |-> "complete", policy |-> policy, reason |-> reason,
              versioned |-> versioned])
    /\ UNCHANGED <<item, equipmentVars, reportVars, evidence, deviationVars>>

\* The row of the current revision is created where it is missing.
EnsuredLedger ==
    IF ledger[item.revision].validity = "ABSENT"
      THEN [ledger EXCEPT ![item.revision] = NewRow(item.report)]
      ELSE ledger

\* Mutant: the handler trusts the gate of the application layer.
FieldCompletedUnchecked(c) ==
    /\ c.op = "complete"
    /\ item.status = "InProgress"
    /\ item' = [item EXCEPT !.status = "FieldCompleted", !.report = "NONE"]
    /\ ledger' = EnsuredLedger
    /\ Applies(c)
    /\ UNCHANGED <<equipmentVars, requests, evidence, deviationVars>>

FieldCompleted(c) ==
    /\ c.op = "complete"
    /\ item.status = "InProgress"
    /\ EvidenceComplete \/ c.reason
    /\ item' = [item EXCEPT !.status = "FieldCompleted", !.report = "NONE"]
    /\ ledger' = EnsuredLedger
    /\ Applies(c)
    /\ UNCHANGED <<equipmentVars, requests, evidence, deviationVars>>

\* deliveryEvent takes created_at and the event id before the transaction:
\* reports are ordered by when they were sent, not by when they commit.
SendDeviation ==
    /\ stamped < MaxDeviation
    /\ stamped' = stamped + 1
    /\ Sends([op |-> "deviation", id |-> stamped + 1, versioned |-> FALSE])
    /\ UNCHANGED <<item, equipmentVars, reportVars, evidence, reported, reviewed, open>>

DeviationReported(c) ==
    /\ c.op = "deviation"
    /\ item.status = "InProgress"
    /\ item' = [item EXCEPT !.status = "Exception"]
    /\ reported' = reported \cup {c.id}
    /\ open' = c.id
    /\ Applies(c)
    /\ UNCHANGED <<equipmentVars, reportVars, evidence, stamped, reviewed>>

\* The deviation a review may be about: the last one by created_at, if no
\* review of it is in the history.
Reviewable(d) == /\ d \in reported
                 /\ \A other \in reported : other <= d
                 /\ d \notin reviewed

\* ApplyDeliveryEvent looks up the reported deviation with a plain read before
\* it locks the item.  Under REPEATABLE READ that read fixes the snapshot, so
\* the checks of the handler see the history as of this step.
SnapshotReview(u, d) ==
    /\ Reviewable(d)
    /\ Sends([op |-> "review", by |-> u, id |-> d, versioned |-> FALSE])
    /\ UNCHANGED <<item, equipmentVars, reportVars, evidence, deviationVars>>

DeviationReviewed(c, decision) ==
    /\ c.op = "review"
    /\ item.status = "Exception"
    /\ item' = [item EXCEPT !.status =
                  IF decision = "TERMINATE" THEN "Terminated" ELSE "InProgress"]
    /\ reserved' = IF decision = "TERMINATE" THEN {} ELSE reserved
    /\ reviewed' = reviewed \cup {c.id}
    /\ open' = 0
    /\ Applies(c)
    /\ UNCHANGED <<plan, reportVars, evidence, stamped, reported>>

-----------------------------------------------------------------------------
(* The report of the current revision *)

\* Mutant: the file of a reviewed report may still be replaced.
ReportArtifactReplaced(file) ==
    /\ item.report \in {"NONE", "COMPILING", "REVIEWED"}
    /\ EnsuredLedger[item.revision].validity = "ACTIVE"
    /\ ledger' = [EnsuredLedger EXCEPT ![item.revision].file = file]
    /\ UNCHANGED <<item, equipmentVars, requests, evidence, deviationVars, inflight>>

\* The status of the item is not asked for, and the version is not bumped.
ReportArtifactRegistered(file) ==
    /\ item.report \in {"NONE", "COMPILING"}
    /\ EnsuredLedger[item.revision].validity = "ACTIVE"
    /\ ledger' = [EnsuredLedger EXCEPT ![item.revision].file = file]
    /\ UNCHANGED <<item, equipmentVars, requests, evidence, deviationVars, inflight>>

\* Mutant: the author of a report may issue it.
MayAdvanceOwn(row, phase, u) ==
    CASE phase = "REVIEWED" -> /\ row.preparedBy \notin {NoOne, u}
                               /\ row.file # NoFile
      [] phase = "ISSUED" -> row.reviewedBy \notin {NoOne, u}
      [] phase = "ARCHIVED" -> row.issuedBy # NoOne
      [] OTHER -> TRUE

\* The duties of a phase: who may take it, and what the row must show.
MayAdvance(row, phase, u) ==
    CASE phase = "REVIEWED" -> /\ row.preparedBy \notin {NoOne, u}
                               /\ row.file # NoFile
      [] phase = "ISSUED" -> /\ row.reviewedBy \notin {NoOne, u}
                             /\ row.preparedBy # u
      [] phase = "ARCHIVED" -> row.issuedBy # NoOne
      [] OTHER -> TRUE

AdvancedRow(row, phase, u) ==
    [row EXCEPT !.status = phase,
                !.preparedBy = IF phase = "COMPILING" THEN u ELSE @,
                !.reviewedBy = IF phase = "REVIEWED" THEN u ELSE @,
                !.issuedBy = IF phase = "ISSUED" THEN u ELSE @]

Advances(phase, u) ==
    LET row == EnsuredLedger[item.revision] IN
    /\ item.status = "FieldCompleted"
    /\ PhaseRank[phase] = PhaseRank[item.report] + 1
    /\ row.validity = "ACTIVE"
    /\ row.status = item.report
    /\ MayAdvance(row, phase, u)
    /\ ledger' = [EnsuredLedger EXCEPT ![item.revision] = AdvancedRow(row, phase, u)]
    /\ item' = [item EXCEPT !.report = phase]
    /\ UNCHANGED <<equipmentVars, requests, evidence, deviationVars>>

ReportStatusUpdated(phase, u) ==
    /\ phase \in {"RECTIFYING", "COMPILING", "ARCHIVED"}
    /\ Advances(phase, u)
    /\ Bumps

\* Before a review or an issue the file of the active revision is verified
\* with the file gateway, outside the transaction.
SendVerifiedAdvance(u, phase, versioned) ==
    LET row == ledger[item.revision] IN
    /\ row.validity = "ACTIVE"
    /\ row.file # NoFile
    /\ Sends([op |-> "advance", by |-> u, phase |-> phase,
              file |-> row.file, versioned |-> versioned])
    /\ UNCHANGED <<item, equipmentVars, reportVars, evidence, deviationVars>>

VerifiedReportStatusUpdated(c) ==
    /\ c.op = "advance"
    /\ Advances(c.phase, c.by)
    /\ Applies(c)

-----------------------------------------------------------------------------
(* Rollback and correction, decided by a second person *)

RollbackAllowed(kind) ==
    \/ kind = "FIELD_TO_PREPARATION" /\ item.status = "InProgress"
    \/ kind = "REPORT_TO_FIELD" /\ item.status = "FieldCompleted"
                                /\ item.report \in {"RECTIFYING", "COMPILING", "REVIEWED"}

\* hasPendingRollback: a request of the kind without a decision event.
PendingRollback(kind) ==
    \E r \in RequestIds : requests[r].kind = kind /\ requests[r].decisions = {}

SendRollbackRequest(u, kind, versioned) ==
    /\ RollbackAllowed(kind)
    /\ ~PendingRollback(kind)
    /\ Sends([op |-> "rollback", by |-> u, kind |-> kind, versioned |-> versioned])
    /\ UNCHANGED <<item, equipmentVars, reportVars, evidence, deviationVars>>

\* Request r is the next one of the history.
FilesAs(r, kind, u, revision) ==
    /\ requests[r].kind = "NONE"
    /\ \A earlier \in RequestIds : earlier < r => requests[earlier].kind # "NONE"
    /\ requests' = [requests EXCEPT ![r] = [Unfiled EXCEPT !.kind = kind, !.by = u,
                                                           !.revision = revision]]

RollbackRequested(c, r) ==
    /\ c.op = "rollback"
    /\ FilesAs(r, c.kind, c.by, item.revision)
    /\ Records(c)
    /\ UNCHANGED <<item, equipmentVars, ledger, evidence, deviationVars>>

\* Mutant: a request can be approved more than once.
UndecidedEver(r, u) == requests[r].kind # "NONE" /\ requests[r].by # u

\* A request that was made by another account and that no event has closed.
Undecided(r, u) == /\ requests[r].kind # "NONE"
                   /\ requests[r].by # u
                   /\ requests[r].decisions = {}

Approved(r, u) ==
    requests' = [requests EXCEPT ![r].decisions = @ \cup {"APPROVED"},
                                 ![r].approvedBy = u]

FieldRollbackApproved(r, u) ==
    /\ requests[r].kind = "FIELD_TO_PREPARATION"
    /\ Undecided(r, u)
    /\ RollbackAllowed("FIELD_TO_PREPARATION")
    /\ item' = [item EXCEPT !.status = "Preparing"]
    /\ Approved(r, u)
    /\ Bumps
    /\ UNCHANGED <<equipmentVars, ledger, evidence, deviationVars>>

\* Mutant: the current revision stays valid beside the next one.
ReopenedBeside(rows, validity) == [rows EXCEPT ![item.revision + 1] = NewRow("NONE")]

\* The ledger once the current revision has become "validity" and the next one
\* is open.
Reopened(rows, validity) ==
    [rows EXCEPT ![item.revision].validity = validity,
                 ![item.revision + 1] = NewRow("NONE")]

ReportRollbackApproved(r, u) ==
    /\ requests[r].kind = "REPORT_TO_FIELD"
    /\ Undecided(r, u)
    /\ RollbackAllowed("REPORT_TO_FIELD")
    /\ item.revision < MaxRevision
    /\ ledger' = Reopened(ledger, "SUPERSEDED")
    /\ item' = [item EXCEPT !.status = "InProgress", !.report = "NONE",
                            !.revision = @ + 1]
    /\ Approved(r, u)
    /\ Bumps
    /\ UNCHANGED <<equipmentVars, evidence, deviationVars>>

\* A rejection is an audit-only event: neither layer looks for an earlier
\* decision on the request.
RequestRejected(r, u) ==
    /\ requests[r].kind # "NONE"
    /\ requests[r].by # u
    /\ requests' = [requests EXCEPT ![r].decisions = @ \cup {"REJECTED"}]
    /\ UNCHANGED <<item, equipmentVars, ledger, evidence, deviationVars, inflight>>

RollbackWithdrawn(r) ==
    /\ requests[r].kind \in RollbackKinds
    /\ requests[r].decisions = {}
    /\ requests' = [requests EXCEPT ![r].decisions = {"WITHDRAWN"}]
    /\ Bumps
    /\ UNCHANGED <<item, equipmentVars, ledger, evidence, deviationVars>>

Correctable == item.status = "FieldCompleted" /\ item.report \in {"ISSUED", "ARCHIVED"}

\* The request carries the revision it was made for and no expected version.
SendCorrectionRequest(u) ==
    /\ Correctable
    /\ Sends([op |-> "correction", by |-> u, revision |-> item.revision,
              versioned |-> FALSE])
    /\ UNCHANGED <<item, equipmentVars, reportVars, evidence, deviationVars>>

ReportCorrectionRequested(c, r) ==
    /\ c.op = "correction"
    /\ FilesAs(r, "REPORT_CORRECTION", c.by, c.revision)
    /\ Records(c)
    /\ UNCHANGED <<item, equipmentVars, ledger, evidence, deviationVars>>

ReportCorrectionApproved(r, u) ==
    /\ requests[r].kind = "REPORT_CORRECTION"
    /\ Undecided(r, u)
    /\ Correctable
    /\ item.revision < MaxRevision
    /\ EnsuredLedger[item.revision].validity = "ACTIVE"
    /\ ledger' = Reopened(EnsuredLedger, "VOID")
    /\ item' = [item EXCEPT !.report = "NONE", !.revision = @ + 1]
    /\ Approved(r, u)
    /\ Bumps
    /\ UNCHANGED <<equipmentVars, evidence, deviationVars>>

\* A command whose check under the lock fails, or whose caller has gone, leaves
\* nothing behind: its transaction rolls back.
Abandoned(c) ==
    /\ Records(c)
    /\ UNCHANGED <<item, equipmentVars, reportVars, evidence, deviationVars>>

-----------------------------------------------------------------------------

Assignment ==
    \/ ServiceItemConfirmed
    \/ \E lead \in Leads : TeamAssigned(lead)
    \/ TeamAssignmentRevoked
    \/ DecompositionReturned
    \/ \E pm \in Managers, verdict \in Verdicts :
           ExecutionTeamAssigned(pm, verdict)
    \/ ExecutionAssignmentRevoked
    \/ \E decision \in {"APPROVED", "REJECTED"} : SpecialMethodReviewed(decision)

Preparation ==
    \/ ImplementationPlanned
    \/ ImplementationPlanRevoked
    \/ \E devices \in SUBSET Equipment : PreparationStarted(devices)
    \/ PreparationRevoked
    \/ \E e \in Equipment : EquipmentReturned(e)

FieldWork ==
    \/ FieldStarted
    \/ \E kind \in EvidenceKinds : FieldEvidenceSubmitted(kind)
    \/ \E policy \in GatePolicies, reason, versioned \in BOOLEAN :
           SendCompletion(policy, reason, versioned)
    \/ \E c \in inflight : FieldCompleted(c)
    \/ SendDeviation
    \/ \E c \in inflight : DeviationReported(c)
    \/ \E u \in Users, d \in Deviations : SnapshotReview(u, d)
    \/ \E c \in inflight, decision \in {"RELEASE", "RETEST", "TERMINATE"} :
           DeviationReviewed(c, decision)

Reporting ==
    \/ \E file \in Files : ReportArtifactRegistered(file)
    \/ \E phase \in Phases, u \in Users : ReportStatusUpdated(phase, u)
    \/ \E u \in Users, phase \in {"REVIEWED", "ISSUED"}, versioned \in BOOLEAN :
           SendVerifiedAdvance(u, phase, versioned)
    \/ \E c \in inflight : VerifiedReportStatusUpdated(c)

Compensation ==
    \/ \E u \in Users, kind \in RollbackKinds, versioned \in BOOLEAN :
           SendRollbackRequest(u, kind, versioned)
    \/ \E c \in inflight, r \in RequestIds : RollbackRequested(c, r)
    \/ \E r \in RequestIds, u \in Users : FieldRollbackApproved(r, u)
    \/ \E r \in RequestIds, u \in Users : ReportRollbackApproved(r, u)
    \/ \E r \in RequestIds, u \in Users : RequestRejected(r, u)
    \/ \E r \in RequestIds : RollbackWithdrawn(r)
    \/ \E u \in Users : SendCorrectionRequest(u)
    \/ \E c \in inflight, r \in RequestIds : ReportCorrectionRequested(c, r)
    \/ \E r \in RequestIds, u \in Users : ReportCorrectionApproved(r, u)

Next == \/ Assignment
        \/ Preparation
        \/ FieldWork
        \/ Reporting
        \/ Compensation
        \/ \E c \in inflight : Abandoned(c)

Spec == Init /\ [][Next]_vars

-----------------------------------------------------------------------------
(* Correctness *)

Rows == [validity : {"ABSENT", "ACTIVE", "SUPERSEDED", "VOID"}, status : Phases,
         preparedBy : Users \cup {NoOne}, reviewedBy : Users \cup {NoOne},
         issuedBy : Users \cup {NoOne}, file : Files \cup {NoFile}]

RequestRecords == [kind : RequestKinds \cup {"NONE"}, by : Users \cup {NoOne},
                   revision : Revisions,
                   decisions : SUBSET {"APPROVED", "REJECTED", "WITHDRAWN"},
                   approvedBy : Users \cup {NoOne}]

Items == [status : Statuses, special : BOOLEAN, lead : Leads \cup {NoOne},
          pm : Managers \cup {NoOne}, conflict : {"UNCHECKED", "PASSED", "CONFLICT"},
          review : {"NONE", "PENDING", "APPROVED", "REJECTED"},
          report : Phases, revision : Revisions]

\* Every variable keeps its type.
TypeOK ==
    /\ item \in Items
    /\ plan \in [Equipment -> {"absent", "held", "returned"}]
    /\ reserved \in SUBSET Equipment
    /\ ledger \in [Revisions -> Rows]
    /\ evidence \in SUBSET EvidenceKinds
    /\ requests \in [RequestIds -> RequestRecords]
    /\ stamped \in 0..MaxDeviation
    /\ reported \in SUBSET Deviations
    /\ reviewed \in SUBSET Deviations
    /\ inflight \in SUBSET Commands
    /\ open \in 0..MaxDeviation

\* From the published plan on, through every revocation, rollback and review,
\* the item has a lead, a project manager whose capability check passed and,
\* for a special method, the approval of the technical director
\* (CheckImplementationPlanPrecondition holds on after it was checked).
PlannedOnlyWhenCleared ==
    item.status \in Planned =>
        /\ item.lead # NoOne
        /\ item.pm # NoOne
        /\ item.conflict = "PASSED"
        /\ item.special => item.review = "APPROVED"

\* The day rows and the plan's device list are written by different handlers
\* and agree in every state: a device is reserved exactly while the plan holds
\* it, no device is listed before preparation, and a terminated item has freed
\* all of its devices although its plan still lists them.
ReservationsMatchPlan ==
    /\ item.status # "Terminated" => reserved = HeldDevices
    /\ item.status = "Terminated" => reserved = {}
    /\ item.status \in Unconfirmed \cup {"PendingAssign", "PendingExecution"} =>
           \A e \in Equipment : plan[e] = "absent"

\* The ledger has one active revision, the current one, in the phase the item
\* shows; every earlier revision is kept and is no longer valid, and a report
\* only has a phase while the field work is complete.
OneActiveRevision ==
    \A r \in Revisions :
        /\ r < item.revision => ledger[r].validity \in {"SUPERSEDED", "VOID"}
        /\ r > item.revision => ledger[r] = AbsentRow
        /\ r = item.revision =>
               \/ ledger[r].validity = "ACTIVE" /\ ledger[r].status = item.report
               \/ ledger[r] = AbsentRow /\ item.report = "NONE"

PhaseOnlyAfterFieldWork == item.status # "FieldCompleted" => item.report = "NONE"

RevisionLedger == OneActiveRevision /\ PhaseOnlyAfterFieldWork

\* In every revision that ever existed: what was reviewed has a file and was
\* prepared by someone else, and what was issued was issued by a third person
\* (advanceReportRevision).
DutiesSeparated ==
    \A r \in Revisions : LET row == ledger[r] IN
        /\ PhaseRank[row.status] >= PhaseRank["REVIEWED"] =>
               /\ row.file # NoFile
               /\ row.preparedBy # NoOne
               /\ row.reviewedBy \notin {NoOne, row.preparedBy}
        /\ PhaseRank[row.status] >= PhaseRank["ISSUED"] =>
               row.issuedBy \notin {NoOne, row.preparedBy, row.reviewedBy}

\* Work is never undone except by the first and only decision on a request of
\* that kind, taken by somebody who did not file it: not by a withdrawn or
\* rejected request, not twice by one request, not by the requester.
Undone(kind) ==
    CASE kind = "FIELD_TO_PREPARATION" ->
             item.status = "InProgress" /\ item'.status = "Preparing"
      [] kind = "REPORT_TO_FIELD" ->
             item.status = "FieldCompleted" /\ item'.status = "InProgress"
      [] kind = "REPORT_CORRECTION" ->
             /\ item.status = "FieldCompleted"
             /\ item'.status = "FieldCompleted"
             /\ item'.revision # item.revision \/ PhaseRank[item'.report] < PhaseRank[item.report]

DecidedBySecondPerson(kind) ==
    \E r \in RequestIds :
        /\ requests[r].kind = kind
        /\ requests[r].decisions = {}
        /\ requests'[r].decisions = {"APPROVED"}
        /\ requests'[r].approvedBy # requests[r].by

UndoneOnlyByApproval ==
    [][\A kind \in RequestKinds : Undone(kind) => DecidedBySecondPerson(kind)]_vars

\* A revision that is no longer active never changes again, and from the
\* review on the file of a revision is the reviewed one.
RevisionEvidenceFrozen ==
    [][\A r \in Revisions :
         /\ ledger[r].validity \in {"SUPERSEDED", "VOID"} => ledger'[r] = ledger[r]
         /\ PhaseRank[ledger[r].status] >= PhaseRank["REVIEWED"] =>
                /\ ledger'[r].file = ledger[r].file
                /\ ledger'[r].preparedBy = ledger[r].preparedBy
                /\ ledger'[r].reviewedBy = ledger[r].reviewedBy]_vars

\* A terminated item is not revived and none of its obligations comes back.
TerminatedForGood ==
    [][item.status = "Terminated" => /\ UNCHANGED <<item, equipmentVars>>
                                     /\ open' = open]_vars

\* The command that a step has applied under the lock.
AppliedNow(c) == c \in inflight /\ inflight' = Surviving(inflight \ {c})

CompletedNow == item.status = "InProgress" /\ item'.status = "FieldCompleted"

\* Field work never completes with a gap nobody explained, whatever was
\* submitted or rolled back between the read of the evidence and the lock.
NoUnexplainedGap ==
    [][CompletedNow /\ ~EvidenceComplete =>
           \E c \in inflight : c.op = "complete" /\ c.reason /\ AppliedNow(c)]_vars

\* With an expected version, what passed an enforcing gate says what the history
\* shows: a reason is recorded exactly when evidence is missing.
VersionedCompletionTruthful ==
    [][\A c \in inflight :
         /\ c.op = "complete" /\ c.policy = "ENFORCE" /\ c.versioned
         /\ CompletedNow /\ AppliedNow(c)
         => (c.reason <=> ~EvidenceComplete)]_vars

\* With an expected version, the file a report is issued with is the one the
\* gateway verified for this issue, across every rollback in between.
IssuedFileVerified ==
    [][\A c \in inflight :
         /\ c.op = "advance" /\ c.phase = "ISSUED" /\ c.versioned /\ AppliedNow(c)
         /\ item.report = "REVIEWED" /\ item'.report = "ISSUED"
         /\ ledger'[item.revision].issuedBy = c.by
         => ledger[item.revision].file = c.file]_vars

\* What a reader is shown of the revisions.  The phase of the current one is that of the
\* item, which is there before the row is.
Shown == [EnsuredLedger EXCEPT ![item.revision].status = item.report]

Register == INSTANCE ReportRegister WITH
    current <- item.revision,
    report <- Shown,
    asked <- [r \in RequestIds |-> requests[r].by],
    approved <- [r \in RequestIds |-> requests[r].approvedBy],
    settled <- {r \in RequestIds : requests[r].decisions # {}}

\* Whatever happens to the item, its field work and the commands in flight, the report
\* (advanceReportRevision, reworkReportRevision, invalidateAndCreateReportRevision) changes
\* like a register: a reviewed file stays, three people sign, a closed revision is closed for
\* good, and the next one is opened by an approval that a second person gave to a request
\* nobody had decided, and by one such approval only.
ImplementsRegister == Register!Spec

=============================================================================
