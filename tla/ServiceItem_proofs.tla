-------------------------- MODULE ServiceItem_proofs --------------------------
(***************************************************************************)
(* Proofs about the delivery of a service item, for every set of accounts, *)
(* devices, evidence kinds and files, every gate policy and every bound.   *)
(***************************************************************************)
EXTENDS ServiceItem, TLAPS

-----------------------------------------------------------------------------
(* What the frame of a transaction leaves in flight *)

\* A step under the lock only removes commands, a read adds the one it made.
LEMMA InflightTyping ==
    ASSUME inflight \in SUBSET Commands, NEW c \in Commands
    PROVE  /\ Bumps => inflight' \in SUBSET Commands
           /\ Applies(c) => inflight' \in SUBSET Commands
           /\ Records(c) => inflight' \in SUBSET Commands
           /\ Sends(c) => inflight' \in SUBSET Commands
    BY DEF Bumps, Applies, Records, Sends, Surviving

\* The row of the current revision is in the ledger after EnsuredLedger.
LEMMA EnsuredTyping ==
    ASSUME TypeOK
    PROVE  EnsuredLedger \in [Revisions -> Rows]
    BY NoOneAssumption, NoFileAssumption
    DEF TypeOK, EnsuredLedger, Items, Rows, NewRow, AbsentRow, Phases

-----------------------------------------------------------------------------
(* Type correctness *)

LEMMA TypeInit == Init => TypeOK
<1> SUFFICES ASSUME Init PROVE TypeOK
    OBVIOUS
<1>1. item \in Items
    <2>1. 0 \in Revisions
        BY BoundsAssumption DEF Revisions
    <2>2. Unconfirmed \cup {"PendingAssign"} \subseteq Statuses /\ "NONE" \in Phases
        BY DEF Statuses, Unconfirmed, Planned, Phases
    <2> QED
        BY <2>1, <2>2, SpecialMethodsAssumption DEF Init, Items
<1>2. ledger \in [Revisions -> Rows]
    BY DEF Init, Rows, AbsentRow, Phases
<1>3. requests \in [RequestIds -> RequestRecords]
    BY BoundsAssumption DEF Init, RequestRecords, Unfiled, Revisions
<1> QED
    BY <1>1, <1>2, <1>3, BoundsAssumption DEF Init, TypeOK

LEMMA AssignmentTyping == TypeOK /\ Assignment => TypeOK'
<1> SUFFICES ASSUME TypeOK, Assignment PROVE TypeOK'
    OBVIOUS
<1> USE DEF TypeOK, Items, Statuses, Unconfirmed, Planned, equipmentVars, reportVars,
            deviationVars, Bumps, Surviving
<1>1. CASE ServiceItemConfirmed
    BY <1>1 DEF ServiceItemConfirmed
<1>2. CASE \E lead \in Leads : TeamAssigned(lead)
    BY <1>2 DEF TeamAssigned
<1>3. CASE TeamAssignmentRevoked
    BY <1>3 DEF TeamAssignmentRevoked
<1>4. CASE DecompositionReturned
    BY <1>4 DEF DecompositionReturned
<1>5. CASE \E pm \in Managers, verdict \in Verdicts :
               ExecutionTeamAssigned(pm, verdict)
    <2>1. PICK pm \in Managers, verdict \in Verdicts : ExecutionTeamAssigned(pm, verdict)
        BY <1>5
    <2>2. item' = [item EXCEPT !.pm = pm, !.conflict = verdict]
        BY <2>1 DEF ExecutionTeamAssigned
    <2>3. item' \in Items
        BY <2>2 DEF Verdicts
    <2> QED
        BY <2>1, <2>3 DEF ExecutionTeamAssigned
<1>6. CASE ExecutionAssignmentRevoked
    BY <1>6 DEF ExecutionAssignmentRevoked
<1>7. CASE \E decision \in {"APPROVED", "REJECTED"} : SpecialMethodReviewed(decision)
    BY <1>7 DEF SpecialMethodReviewed
<1> QED
    BY <1>1, <1>2, <1>3, <1>4, <1>5, <1>6, <1>7 DEF Assignment

LEMMA PreparationTyping == TypeOK /\ Preparation => TypeOK'
<1> SUFFICES ASSUME TypeOK, Preparation PROVE TypeOK'
    OBVIOUS
<1> USE DEF TypeOK, Items, Statuses, Unconfirmed, Planned, equipmentVars, reportVars,
            deviationVars, Bumps, Surviving
<1>1. CASE ImplementationPlanned
    BY <1>1 DEF ImplementationPlanned
<1>2. CASE ImplementationPlanRevoked
    BY <1>2 DEF ImplementationPlanRevoked, ClearedPlan
<1>3. CASE \E devices \in SUBSET Equipment : PreparationStarted(devices)
    BY <1>3 DEF PreparationStarted, Reserves
<1>4. CASE PreparationRevoked
    BY <1>4 DEF PreparationRevoked, ClearedPlan
<1>5. CASE \E e \in Equipment : EquipmentReturned(e)
    BY <1>5 DEF EquipmentReturned, Returns
<1> QED
    BY <1>1, <1>2, <1>3, <1>4, <1>5 DEF Preparation

LEMMA FieldWorkTyping == TypeOK /\ FieldWork => TypeOK'
<1> SUFFICES ASSUME TypeOK, FieldWork PROVE TypeOK'
    OBVIOUS
<1> USE DEF TypeOK, Items, Statuses, Planned, equipmentVars, reportVars,
            deviationVars, Bumps, Sends, Applies, Surviving
<1>1. CASE FieldStarted
    BY <1>1 DEF FieldStarted
<1>2. CASE \E kind \in EvidenceKinds : FieldEvidenceSubmitted(kind)
    BY <1>2 DEF FieldEvidenceSubmitted
<1>3. CASE \E policy \in GatePolicies, reason, versioned \in BOOLEAN :
               SendCompletion(policy, reason, versioned)
    <2>1. PICK policy \in GatePolicies, reason \in BOOLEAN, versioned \in BOOLEAN :
                   SendCompletion(policy, reason, versioned)
        BY <1>3
    <2>2. [op |-> "complete", policy |-> policy, reason |-> reason,
           versioned |-> versioned] \in Commands
        BY DEF Commands
    <2> QED
        BY <2>1, <2>2 DEF SendCompletion
<1>4. CASE \E c \in inflight : FieldCompleted(c)
    <2>1. EnsuredLedger \in [Revisions -> Rows]
        BY EnsuredTyping
    <2>2. PICK c \in inflight : FieldCompleted(c)
        BY <1>4
    <2>3. item' = [item EXCEPT !.status = "FieldCompleted", !.report = "NONE"]
        BY <2>2 DEF FieldCompleted
    <2>4. item' \in Items
        BY <2>3 DEF Phases
    <2> QED
        BY <2>1, <2>2, <2>4 DEF FieldCompleted
<1>5. CASE SendDeviation
    <2>1. stamped + 1 \in Deviations
        BY <1>5, BoundsAssumption DEF SendDeviation, Deviations
    <2>2. [op |-> "deviation", id |-> stamped + 1, versioned |-> FALSE] \in Commands
        BY <2>1 DEF Commands
    <2>3. stamped' \in 0..MaxDeviation
        BY <1>5, BoundsAssumption DEF SendDeviation
    <2> QED
        BY <1>5, <2>2, <2>3 DEF SendDeviation
<1>6. CASE \E c \in inflight : DeviationReported(c)
    <2>1. PICK c \in inflight : DeviationReported(c)
        BY <1>6
    <2>2. c.id \in Deviations
        BY <2>1 DEF DeviationReported, Commands
    <2> QED
        BY <2>1, <2>2, BoundsAssumption DEF DeviationReported, Deviations
<1>7. CASE \E u \in Users, d \in Deviations : SnapshotReview(u, d)
    <2>1. PICK u \in Users, d \in Deviations : SnapshotReview(u, d)
        BY <1>7
    <2>2. [op |-> "review", by |-> u, id |-> d, versioned |-> FALSE] \in Commands
        BY DEF Commands
    <2> QED
        BY <2>1, <2>2 DEF SnapshotReview
<1>8. CASE \E c \in inflight, decision \in {"RELEASE", "RETEST", "TERMINATE"} :
               DeviationReviewed(c, decision)
    <2>1. PICK c \in inflight, decision \in {"RELEASE", "RETEST", "TERMINATE"} :
                   DeviationReviewed(c, decision)
        BY <1>8
    <2>2. c.id \in Deviations
        BY <2>1 DEF DeviationReviewed, Commands
    <2> QED
        BY <2>1, <2>2, BoundsAssumption DEF DeviationReviewed
<1> QED
    BY <1>1, <1>2, <1>3, <1>4, <1>5, <1>6, <1>7, <1>8 DEF FieldWork

\* Advancing the report keeps the types of the row and of the item.
LEMMA AdvanceTyping ==
    ASSUME TypeOK, NEW phase \in Phases, NEW u \in Users, Advances(phase, u)
    PROVE  /\ item' \in Items
           /\ ledger' \in [Revisions -> Rows]
<1>1. EnsuredLedger \in [Revisions -> Rows]
    BY EnsuredTyping
<1>2. item.revision \in Revisions
    BY DEF TypeOK, Items
<1>3. AdvancedRow(EnsuredLedger[item.revision], phase, u) \in Rows
    <2>1. EnsuredLedger[item.revision] \in Rows
        BY <1>1, <1>2
    <2> QED
        BY <2>1 DEF AdvancedRow, Rows
<1>4. item' \in Items
    <2>1. item \in Items /\ item' = [item EXCEPT !.report = phase]
        BY DEF Advances, TypeOK
    <2> QED
        BY <2>1 DEF Items
<1> QED
    BY <1>1, <1>2, <1>3, <1>4 DEF Advances

LEMMA ReportingTyping == TypeOK /\ Reporting => TypeOK'
<1> SUFFICES ASSUME TypeOK, Reporting PROVE TypeOK'
    OBVIOUS
<1> USE DEF TypeOK, equipmentVars, reportVars, deviationVars, Bumps, Sends, Applies, Surviving
<1>1. CASE \E file \in Files : ReportArtifactRegistered(file)
    <2>1. PICK file \in Files : ReportArtifactRegistered(file)
        BY <1>1
    <2>2. EnsuredLedger \in [Revisions -> Rows]
        BY EnsuredTyping
    <2> DEFINE row == [EnsuredLedger[item.revision] EXCEPT !.file = file]
    <2>3. row \in Rows
        BY <2>2 DEF Items, Rows
    <2>4. ledger' = [EnsuredLedger EXCEPT ![item.revision] = row]
        BY <2>1 DEF ReportArtifactRegistered
    <2>5. ledger' \in [Revisions -> Rows]
        BY <2>2, <2>3, <2>4
    <2> QED
        BY <2>1, <2>5 DEF ReportArtifactRegistered
<1>2. CASE \E phase \in Phases, u \in Users : ReportStatusUpdated(phase, u)
    <2>1. PICK phase \in Phases, u \in Users : ReportStatusUpdated(phase, u)
        BY <1>2
    <2>2. item' \in Items /\ ledger' \in [Revisions -> Rows]
        BY <2>1, AdvanceTyping DEF ReportStatusUpdated
    <2> QED
        BY <2>1, <2>2 DEF ReportStatusUpdated, Advances
<1>3. CASE \E u \in Users, phase \in {"REVIEWED", "ISSUED"}, versioned \in BOOLEAN :
               SendVerifiedAdvance(u, phase, versioned)
    <2>1. PICK u \in Users, phase \in {"REVIEWED", "ISSUED"}, versioned \in BOOLEAN :
                   SendVerifiedAdvance(u, phase, versioned)
        BY <1>3
    <2>2. ledger[item.revision].file \in Files
        BY <2>1 DEF SendVerifiedAdvance, Items, Rows
    <2>3. [op |-> "advance", by |-> u, phase |-> phase, file |-> ledger[item.revision].file,
           versioned |-> versioned] \in Commands
        BY <2>2 DEF Commands
    <2> QED
        BY <2>1, <2>3 DEF SendVerifiedAdvance
<1>4. CASE \E c \in inflight : VerifiedReportStatusUpdated(c)
    <2>1. PICK c \in inflight : VerifiedReportStatusUpdated(c)
        BY <1>4
    <2>2. c.phase \in Phases /\ c.by \in Users
        BY <2>1 DEF VerifiedReportStatusUpdated, Commands, Phases
    <2>3. item' \in Items /\ ledger' \in [Revisions -> Rows]
        BY <2>1, <2>2, AdvanceTyping DEF VerifiedReportStatusUpdated
    <2> QED
        BY <2>1, <2>3 DEF VerifiedReportStatusUpdated, Advances
<1> QED
    BY <1>1, <1>2, <1>3, <1>4 DEF Reporting

\* Filing a request and approving it keep the types of the request log.
LEMMA RequestTyping ==
    ASSUME TypeOK, NEW r \in RequestIds
    PROVE  /\ \A u \in Users, kind \in RequestKinds, revision \in Revisions :
                  FilesAs(r, kind, u, revision) =>
                      requests' \in [RequestIds -> RequestRecords]
           /\ \A u \in Users :
                  Approved(r, u) => requests' \in [RequestIds -> RequestRecords]
<1>1. ASSUME NEW u \in Users, NEW kind \in RequestKinds, NEW revision \in Revisions,
             FilesAs(r, kind, u, revision)
      PROVE  requests' \in [RequestIds -> RequestRecords]
    <2>1. [Unfiled EXCEPT !.kind = kind, !.by = u, !.revision = revision] \in RequestRecords
        BY DEF Unfiled, RequestRecords
    <2> QED
        BY <1>1, <2>1 DEF FilesAs, TypeOK
<1>2. ASSUME NEW u \in Users, Approved(r, u)
      PROVE  requests' \in [RequestIds -> RequestRecords]
    <2> DEFINE decided == [requests[r] EXCEPT !.decisions = @ \cup {"APPROVED"},
                                              !.approvedBy = u]
    <2>1. decided \in RequestRecords
        BY DEF TypeOK, RequestRecords
    <2>2. requests' = [requests EXCEPT ![r] = decided]
        BY <1>2 DEF Approved, TypeOK
    <2> QED
        BY <2>1, <2>2 DEF TypeOK
<1> QED
    BY <1>1, <1>2

\* Opening the next revision keeps the type of the ledger.
LEMMA ReopenedTyping ==
    ASSUME TypeOK, item.revision < MaxRevision,
           NEW rows \in [Revisions -> Rows], NEW validity \in {"SUPERSEDED", "VOID"}
    PROVE  /\ item.revision + 1 \in Revisions
           /\ Reopened(rows, validity) \in [Revisions -> Rows]
<1>1. item.revision \in Revisions /\ item.revision + 1 \in Revisions
    BY BoundsAssumption DEF TypeOK, Items, Revisions
<1>2. [rows[item.revision] EXCEPT !.validity = validity] \in Rows
    BY <1>1 DEF Rows
<1>3. NewRow("NONE") \in Rows
    BY DEF NewRow, AbsentRow, Rows, Phases
<1>4. Reopened(rows, validity) =
          [[rows EXCEPT ![item.revision] = [rows[item.revision] EXCEPT !.validity = validity]]
              EXCEPT ![item.revision + 1] = NewRow("NONE")]
    BY <1>1 DEF Reopened
<1> QED
    BY <1>1, <1>2, <1>3, <1>4

LEMMA CompensationTyping == TypeOK /\ Compensation => TypeOK'
<1> SUFFICES ASSUME TypeOK, Compensation PROVE TypeOK'
    OBVIOUS
<1> USE DEF TypeOK, equipmentVars, reportVars, deviationVars, Bumps, Sends, Records, Surviving
<1>1. CASE \E u \in Users, kind \in RollbackKinds, versioned \in BOOLEAN :
               SendRollbackRequest(u, kind, versioned)
    <2>1. PICK u \in Users, kind \in RollbackKinds, versioned \in BOOLEAN :
                   SendRollbackRequest(u, kind, versioned)
        BY <1>1
    <2>2. [op |-> "rollback", by |-> u, kind |-> kind, versioned |-> versioned] \in Commands
        BY DEF Commands
    <2> QED
        BY <2>1, <2>2 DEF SendRollbackRequest
<1>2. CASE \E c \in inflight, r \in RequestIds : RollbackRequested(c, r)
    <2>1. PICK c \in inflight, r \in RequestIds : RollbackRequested(c, r)
        BY <1>2
    <2>2. c.kind \in RequestKinds /\ c.by \in Users /\ item.revision \in Revisions
        BY <2>1 DEF RollbackRequested, Commands, RequestKinds, Items
    <2>3. requests' \in [RequestIds -> RequestRecords]
        BY <2>1, <2>2, RequestTyping DEF RollbackRequested
    <2> QED
        BY <2>1, <2>3 DEF RollbackRequested
<1>3. CASE \E r \in RequestIds, u \in Users : FieldRollbackApproved(r, u)
    <2>1. PICK r \in RequestIds, u \in Users : FieldRollbackApproved(r, u)
        BY <1>3
    <2>2. requests' \in [RequestIds -> RequestRecords]
        BY <2>1, RequestTyping DEF FieldRollbackApproved
    <2>3. item' \in Items
        BY <2>1 DEF FieldRollbackApproved, Items, Statuses, Planned
    <2> QED
        BY <2>1, <2>2, <2>3 DEF FieldRollbackApproved
<1>4. CASE \E r \in RequestIds, u \in Users : ReportRollbackApproved(r, u)
    <2>1. PICK r \in RequestIds, u \in Users : ReportRollbackApproved(r, u)
        BY <1>4
    <2>2. requests' \in [RequestIds -> RequestRecords]
        BY <2>1, RequestTyping DEF ReportRollbackApproved
    <2>3. /\ item.revision + 1 \in Revisions
          /\ ledger' \in [Revisions -> Rows]
        BY <2>1, ReopenedTyping DEF ReportRollbackApproved
    <2>4. item' \in Items
        BY <2>1, <2>3 DEF ReportRollbackApproved, Items, Statuses, Planned, Phases
    <2> QED
        BY <2>1, <2>2, <2>3, <2>4 DEF ReportRollbackApproved
<1>5. CASE \E r \in RequestIds, u \in Users : RequestRejected(r, u)
    <2>1. PICK r \in RequestIds, u \in Users : RequestRejected(r, u)
        BY <1>5
    <2> DEFINE decided == [requests[r] EXCEPT !.decisions = @ \cup {"REJECTED"}]
    <2>2. decided \in RequestRecords
        BY DEF RequestRecords
    <2>3. requests' = [requests EXCEPT ![r] = decided]
        BY <2>1 DEF RequestRejected
    <2> QED
        BY <2>1, <2>2, <2>3 DEF RequestRejected
<1>6. CASE \E r \in RequestIds : RollbackWithdrawn(r)
    <2>1. PICK r \in RequestIds : RollbackWithdrawn(r)
        BY <1>6
    <2> DEFINE withdrawn == [requests[r] EXCEPT !.decisions = {"WITHDRAWN"}]
    <2>2. withdrawn \in RequestRecords
        BY DEF RequestRecords
    <2>3. requests' = [requests EXCEPT ![r] = withdrawn]
        BY <2>1 DEF RollbackWithdrawn
    <2> QED
        BY <2>1, <2>2, <2>3 DEF RollbackWithdrawn
<1>7. CASE \E u \in Users : SendCorrectionRequest(u)
    <2>1. PICK u \in Users : SendCorrectionRequest(u)
        BY <1>7
    <2>2. [op |-> "correction", by |-> u, revision |-> item.revision,
           versioned |-> FALSE] \in Commands
        BY DEF Commands, Items
    <2> QED
        BY <2>1, <2>2 DEF SendCorrectionRequest
<1>8. CASE \E c \in inflight, r \in RequestIds : ReportCorrectionRequested(c, r)
    <2>1. PICK c \in inflight, r \in RequestIds : ReportCorrectionRequested(c, r)
        BY <1>8
    <2>2. "REPORT_CORRECTION" \in RequestKinds /\ c.by \in Users /\ c.revision \in Revisions
        BY <2>1 DEF ReportCorrectionRequested, Commands, RequestKinds
    <2>3. requests' \in [RequestIds -> RequestRecords]
        BY <2>1, <2>2, RequestTyping DEF ReportCorrectionRequested
    <2> QED
        BY <2>1, <2>3 DEF ReportCorrectionRequested
<1>9. CASE \E r \in RequestIds, u \in Users : ReportCorrectionApproved(r, u)
    <2>1. PICK r \in RequestIds, u \in Users : ReportCorrectionApproved(r, u)
        BY <1>9
    <2>2. requests' \in [RequestIds -> RequestRecords]
        BY <2>1, RequestTyping DEF ReportCorrectionApproved
    <2>3. /\ item.revision + 1 \in Revisions
          /\ ledger' \in [Revisions -> Rows]
        BY <2>1, EnsuredTyping, ReopenedTyping DEF ReportCorrectionApproved
    <2>4. item' \in Items
        BY <2>1, <2>3 DEF ReportCorrectionApproved, Items, Phases
    <2> QED
        BY <2>1, <2>2, <2>3, <2>4 DEF ReportCorrectionApproved
<1> QED
    BY <1>1, <1>2, <1>3, <1>4, <1>5, <1>6, <1>7, <1>8, <1>9 DEF Compensation

LEMMA TypeStep == TypeOK /\ [Next]_vars => TypeOK'
<1> SUFFICES ASSUME TypeOK, [Next]_vars PROVE TypeOK'
    OBVIOUS
<1>1. CASE \E c \in inflight : Abandoned(c)
    BY <1>1 DEF Abandoned, Records, TypeOK, equipmentVars, reportVars, deviationVars
<1>2. CASE UNCHANGED vars
    BY <1>2 DEF vars, TypeOK
<1> QED
    BY <1>1, <1>2, AssignmentTyping, PreparationTyping, FieldWorkTyping, ReportingTyping,
       CompensationTyping DEF Next

\* Every variable of the model keeps its type, whatever is in flight.
THEOREM Typing == Spec => []TypeOK
    BY TypeInit, TypeStep, PTL DEF Spec

-----------------------------------------------------------------------------
(* What a planned item was cleared for *)

\* Plannable asks for a project manager and not for a lead: that the lead is
\* there too is what the handlers of the assignment keep.
Clearance == /\ item.pm # NoOne => item.lead # NoOne
             /\ PlannedOnlyWhenCleared

LEMMA ClearanceInit == Init => Clearance
    BY DEF Init, Clearance, PlannedOnlyWhenCleared, Unconfirmed, Planned

LEMMA AssignmentClears == TypeOK /\ Clearance /\ Assignment => Clearance'
<1> SUFFICES ASSUME TypeOK, Clearance, Assignment PROVE Clearance'
    OBVIOUS
<1> USE DEF Clearance, PlannedOnlyWhenCleared, TypeOK, Items, Unconfirmed, Planned
<1>1. CASE ServiceItemConfirmed
    BY <1>1 DEF ServiceItemConfirmed
<1>2. CASE \E lead \in Leads : TeamAssigned(lead)
    BY <1>2, NoOneAssumption DEF TeamAssigned
<1>3. CASE TeamAssignmentRevoked
    BY <1>3 DEF TeamAssignmentRevoked
<1>4. CASE DecompositionReturned
    BY <1>4 DEF DecompositionReturned
<1>5. CASE \E pm \in Managers, verdict \in Verdicts :
               ExecutionTeamAssigned(pm, verdict)
    BY <1>5 DEF ExecutionTeamAssigned
<1>6. CASE ExecutionAssignmentRevoked
    BY <1>6 DEF ExecutionAssignmentRevoked
<1>7. CASE \E decision \in {"APPROVED", "REJECTED"} : SpecialMethodReviewed(decision)
    \* The approval that cleared a planned item cannot be reviewed again.
    BY <1>7 DEF SpecialMethodReviewed
<1> QED
    BY <1>1, <1>2, <1>3, <1>4, <1>5, <1>6, <1>7 DEF Assignment

\* From the preparation on no handler touches what the clearance is about.
ClearanceUntouched == /\ item'.lead = item.lead
                      /\ item'.pm = item.pm
                      /\ item'.conflict = item.conflict
                      /\ item'.special = item.special
                      /\ item'.review = item.review

LEMMA PreparationClears == TypeOK /\ Clearance /\ Preparation => Clearance'
<1> SUFFICES ASSUME TypeOK, Clearance, Preparation PROVE Clearance'
    OBVIOUS
<1> USE DEF TypeOK, Items, Planned
<1>1. CASE ImplementationPlanned
    BY <1>1 DEF ImplementationPlanned, Plannable, Clearance, PlannedOnlyWhenCleared
<1>2. CASE ~ImplementationPlanned
    <2>1. ClearanceUntouched
        <3>1. \/ item' = item
              \/ item' = [item EXCEPT !.status = "PendingAssign"]
              \/ item' = [item EXCEPT !.status = "Preparing"]
              \/ item' = [item EXCEPT !.status = "PendingExecution"]
            BY <1>2 DEF Preparation, ImplementationPlanRevoked, PreparationStarted,
               PreparationRevoked, EquipmentReturned
        <3> QED
            BY <3>1 DEF ClearanceUntouched
    <2>2. item'.status \in Planned => item.status \in Planned
        BY <1>2 DEF Preparation, ImplementationPlanRevoked,
           PreparationStarted, PreparationRevoked, EquipmentReturned
    <2> QED
        BY <2>1, <2>2 DEF Clearance, PlannedOnlyWhenCleared, ClearanceUntouched
<1> QED
    BY <1>1, <1>2

LEMMA ExecutionClears ==
    TypeOK /\ Clearance /\ (FieldWork \/ Reporting \/ Compensation) => Clearance'
<1> SUFFICES ASSUME TypeOK, Clearance, FieldWork \/ Reporting \/ Compensation
             PROVE  ClearanceUntouched /\ (item'.status \in Planned => item.status \in Planned)
    BY DEF Clearance, PlannedOnlyWhenCleared, ClearanceUntouched
<1> USE DEF TypeOK, Items, Planned, ClearanceUntouched
<1>1. CASE FieldWork
    <2>1. \/ item' = item
          \/ /\ item.status \in {"Preparing", "InProgress", "Exception"}
             /\ \/ \E status : item' = [item EXCEPT !.status = status]
                \/ \E status : item' = [item EXCEPT !.status = status, !.report = "NONE"]
        BY <1>1 DEF FieldWork, FieldStarted, FieldEvidenceSubmitted, SendCompletion,
           FieldCompleted, SendDeviation, DeviationReported, SnapshotReview, DeviationReviewed
    <2> QED
        BY <2>1
<1>2. CASE Reporting
    <2>1. item' = item \/ \E phase : item' = [item EXCEPT !.report = phase]
        BY <1>2 DEF Reporting, ReportArtifactRegistered, ReportStatusUpdated,
           SendVerifiedAdvance, VerifiedReportStatusUpdated, Advances
    <2> QED
        BY <2>1
<1>3. CASE Compensation
    <2>1. \/ item' = item
          \/ /\ item.status \in {"InProgress", "FieldCompleted"}
             /\ \/ item' = [item EXCEPT !.status = "Preparing"]
                \/ \E n : item' = [item EXCEPT !.status = "InProgress", !.report = "NONE",
                                               !.revision = n]
                \/ \E n : item' = [item EXCEPT !.report = "NONE", !.revision = n]
        BY <1>3 DEF Compensation, RollbackAllowed, Correctable, SendRollbackRequest,
           RollbackRequested, FieldRollbackApproved, ReportRollbackApproved, RequestRejected,
           RollbackWithdrawn, SendCorrectionRequest, ReportCorrectionRequested,
           ReportCorrectionApproved
    <2> QED
        BY <2>1
<1> QED
    BY <1>1, <1>2, <1>3

LEMMA ClearanceStep == TypeOK /\ Clearance /\ [Next]_vars => Clearance'
<1> SUFFICES ASSUME TypeOK, Clearance, [Next]_vars PROVE Clearance'
    OBVIOUS
<1>1. CASE UNCHANGED item
    BY <1>1 DEF Clearance, PlannedOnlyWhenCleared
<1>2. (\E c \in inflight : Abandoned(c)) \/ UNCHANGED vars => UNCHANGED item
    BY DEF Abandoned, vars
<1> QED
    BY <1>1, <1>2, AssignmentClears, PreparationClears, ExecutionClears DEF Next

\* A planned item has its lead, its checked project manager and, where its
\* method is special, the approval: in every state of every behaviour.
THEOREM PlannedIsCleared == Spec => []PlannedOnlyWhenCleared
<1>1. Spec => [](TypeOK /\ Clearance)
    BY TypeInit, TypeStep, ClearanceInit, ClearanceStep, PTL DEF Spec
<1>2. TypeOK /\ Clearance => PlannedOnlyWhenCleared
    BY DEF Clearance
<1> QED
    BY <1>1, <1>2, PTL

-----------------------------------------------------------------------------
(* Termination *)

\* No handler moves a terminated item or its devices.  The review of a special
\* method does not ask for the status: only the clearance keeps it out.
LEMMA TerminatedStep ==
    ASSUME TypeOK, Clearance, [Next]_vars, item.status = "Terminated"
    PROVE  UNCHANGED <<item, equipmentVars>> /\ open' = open
<1> USE DEF TypeOK, Items, equipmentVars, deviationVars
<1>1. CASE Assignment
    <2>1. ~SpecialMethodReviewed("APPROVED") /\ ~SpecialMethodReviewed("REJECTED")
        BY DEF Clearance, PlannedOnlyWhenCleared, Planned, SpecialMethodReviewed
    <2> QED
        BY <1>1, <2>1 DEF Assignment, Unconfirmed, ServiceItemConfirmed, TeamAssigned,
           TeamAssignmentRevoked, DecompositionReturned, ExecutionTeamAssigned,
           ExecutionAssignmentRevoked
<1>2. CASE Preparation
    BY <1>2 DEF Preparation, ImplementationPlanned, Plannable, ImplementationPlanRevoked,
       PreparationStarted, PreparationRevoked, EquipmentReturned
<1>3. CASE FieldWork
    BY <1>3 DEF FieldWork, FieldStarted, FieldEvidenceSubmitted, SendCompletion,
       FieldCompleted, SendDeviation, DeviationReported, SnapshotReview, DeviationReviewed
<1>4. CASE Reporting
    BY <1>4 DEF Reporting, ReportArtifactRegistered, ReportStatusUpdated,
       SendVerifiedAdvance, VerifiedReportStatusUpdated, Advances
<1>5. CASE Compensation
    BY <1>5 DEF Compensation, RollbackAllowed, Correctable, SendRollbackRequest,
       RollbackRequested, FieldRollbackApproved, ReportRollbackApproved, RequestRejected,
       RollbackWithdrawn, SendCorrectionRequest, ReportCorrectionRequested,
       ReportCorrectionApproved
<1>6. CASE (\E c \in inflight : Abandoned(c)) \/ UNCHANGED vars
    BY <1>6 DEF Abandoned, vars
<1> QED
    BY <1>1, <1>2, <1>3, <1>4, <1>5, <1>6 DEF Next

\* The termination of an item is final.
THEOREM TerminationIsFinal == Spec => TerminatedForGood
<1>1. Spec => [](TypeOK /\ Clearance)
    BY TypeInit, TypeStep, ClearanceInit, ClearanceStep, PTL DEF Spec
<1>2. TypeOK /\ Clearance /\ [Next]_vars =>
          [item.status = "Terminated" => /\ UNCHANGED <<item, equipmentVars>>
                                         /\ open' = open]_vars
    BY TerminatedStep
<1> QED
    BY <1>1, <1>2, PTL DEF Spec, TerminatedForGood

-----------------------------------------------------------------------------
(* Day rows and device list *)

\* The handlers that write neither list keep their agreement, unless they end
\* an item or bring one back to before its preparation.
LEMMA ReservationsKept ==
    ASSUME ReservationsMatchPlan, UNCHANGED equipmentVars,
           (item.status # "Terminated" /\ item'.status # "Terminated") \/ UNCHANGED item,
           item'.status \in Unconfirmed \cup {"PendingAssign", "PendingExecution"} =>
               item.status \in Unconfirmed \cup {"PendingAssign", "PendingExecution"}
    PROVE  ReservationsMatchPlan'
    BY DEF ReservationsMatchPlan, HeldDevices, equipmentVars

LEMMA PreparationReserves == TypeOK /\ ReservationsMatchPlan /\ Preparation =>
                                 ReservationsMatchPlan'
<1> SUFFICES ASSUME TypeOK, ReservationsMatchPlan, Preparation
             PROVE  ReservationsMatchPlan'
    OBVIOUS
<1> USE DEF TypeOK, Items, Statuses, Planned, Unconfirmed, ReservationsMatchPlan, HeldDevices
<1>1. CASE ImplementationPlanned
    BY <1>1 DEF ImplementationPlanned, Plannable, equipmentVars
<1>2. CASE ImplementationPlanRevoked
    BY <1>2 DEF ImplementationPlanRevoked, ClearedPlan
<1>3. CASE \E devices \in SUBSET Equipment : PreparationStarted(devices)
    BY <1>3 DEF PreparationStarted, Reserves
<1>4. CASE PreparationRevoked
    BY <1>4 DEF PreparationRevoked, ClearedPlan
<1>5. CASE \E e \in Equipment : EquipmentReturned(e)
    BY <1>5 DEF EquipmentReturned, Returns, equipmentVars
<1> QED
    BY <1>1, <1>2, <1>3, <1>4, <1>5 DEF Preparation

LEMMA FieldWorkReserves == TypeOK /\ ReservationsMatchPlan /\ FieldWork =>
                               ReservationsMatchPlan'
<1> SUFFICES ASSUME TypeOK, ReservationsMatchPlan, FieldWork
             PROVE  ReservationsMatchPlan'
    OBVIOUS
<1> USE DEF TypeOK, Items, Unconfirmed
<1>1. CASE \E c \in inflight, decision \in {"RELEASE", "RETEST", "TERMINATE"} :
               DeviationReviewed(c, decision)
    BY <1>1 DEF DeviationReviewed, ReservationsMatchPlan, HeldDevices
<1>2. CASE ~\E c \in inflight, decision \in {"RELEASE", "RETEST", "TERMINATE"} :
                DeviationReviewed(c, decision)
    BY <1>2, ReservationsKept DEF FieldWork, equipmentVars, FieldStarted,
       FieldEvidenceSubmitted, SendCompletion, FieldCompleted, SendDeviation,
       DeviationReported, SnapshotReview
<1> QED
    BY <1>1, <1>2

LEMMA OthersReserve ==
    TypeOK /\ ReservationsMatchPlan /\ (Assignment \/ Reporting \/ Compensation) =>
        ReservationsMatchPlan'
<1> SUFFICES ASSUME TypeOK, ReservationsMatchPlan, Assignment \/ Reporting \/ Compensation
             PROVE  ReservationsMatchPlan'
    OBVIOUS
<1> USE ReservationsKept DEF TypeOK, Items, Unconfirmed, equipmentVars
<1>1. CASE Assignment
    <2>1. \A decision : SpecialMethodReviewed(decision) => item'.status = item.status
        BY DEF SpecialMethodReviewed
    <2>2. \A decision : SpecialMethodReviewed(decision) => ReservationsMatchPlan'
        BY <2>1 DEF SpecialMethodReviewed, ReservationsMatchPlan, HeldDevices
    <2> QED
        BY <1>1, <2>2 DEF Assignment, ServiceItemConfirmed, TeamAssigned,
           TeamAssignmentRevoked, DecompositionReturned, ExecutionTeamAssigned,
           ExecutionAssignmentRevoked
<1>2. CASE Reporting
    <2>1. UNCHANGED <<item, equipmentVars>> \/ \E phase, u : Advances(phase, u)
        BY <1>2 DEF Reporting, ReportArtifactRegistered, ReportStatusUpdated,
           SendVerifiedAdvance, VerifiedReportStatusUpdated
    <2>2. \A phase, u : Advances(phase, u) =>
              /\ UNCHANGED equipmentVars
              /\ item.status = "FieldCompleted" /\ item'.status = "FieldCompleted"
        BY DEF Advances
    <2> QED
        BY <2>1, <2>2
<1>3. CASE Compensation
    <2>1. /\ UNCHANGED equipmentVars
          /\ \/ UNCHANGED item
             \/ /\ item.status \in {"InProgress", "FieldCompleted"}
                /\ item'.status \in {"Preparing", "InProgress", "FieldCompleted"}
        BY <1>3 DEF Compensation, RollbackAllowed, Correctable, SendRollbackRequest,
           RollbackRequested, FieldRollbackApproved, ReportRollbackApproved, RequestRejected,
           RollbackWithdrawn, SendCorrectionRequest, ReportCorrectionRequested,
           ReportCorrectionApproved
    <2> QED
        BY <2>1
<1> QED
    BY <1>1, <1>2, <1>3

\* The day rows and the plan agree in every state.
THEOREM ReservationsAgree == Spec => []ReservationsMatchPlan
<1>1. Init => ReservationsMatchPlan
    BY DEF Init, ReservationsMatchPlan, HeldDevices, Unconfirmed
<1>2. TypeOK /\ ReservationsMatchPlan /\ [Next]_vars => ReservationsMatchPlan'
    <2>1. (\E c \in inflight : Abandoned(c)) \/ UNCHANGED vars =>
              UNCHANGED <<item, plan, reserved>>
        BY DEF Abandoned, vars, equipmentVars
    <2>2. ReservationsMatchPlan /\ UNCHANGED <<item, plan, reserved>> => ReservationsMatchPlan'
        BY DEF ReservationsMatchPlan, HeldDevices
    <2> QED
        BY <2>1, <2>2, PreparationReserves, FieldWorkReserves, OthersReserve DEF Next
<1> QED
    BY <1>1, <1>2, TypeInit, TypeStep, PTL DEF Spec

=============================================================================
