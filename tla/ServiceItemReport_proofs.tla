----------------------- MODULE ServiceItemReport_proofs -----------------------
(***************************************************************************)
(* Proofs about the report of a service item: the ledger of its revisions, *)
(* the duties of the people who sign it, what is frozen by a review, what  *)
(* may undo work, and what a command may still do that was sent earlier.   *)
(***************************************************************************)
EXTENDS ServiceItem_proofs

-----------------------------------------------------------------------------
(* The ledger *)

\* Under the invariant the ensured row is the active one in the item's phase,
\* and nothing else of the ledger differs.
LEMMA EnsuredRow ==
    ASSUME TypeOK, RevisionLedger
    PROVE  /\ item.revision \in Revisions
           /\ EnsuredLedger \in [Revisions -> Rows]
           /\ EnsuredLedger[item.revision].validity = "ACTIVE"
           /\ EnsuredLedger[item.revision].status = item.report
           /\ \A r \in Revisions : r # item.revision => EnsuredLedger[r] = ledger[r]
           /\ \/ EnsuredLedger = ledger
              \/ /\ ledger[item.revision] = AbsentRow
                 /\ item.report = "NONE"
                 /\ EnsuredLedger[item.revision] = NewRow("NONE")
<1>1. item.revision \in Revisions
    BY DEF TypeOK, Items
<1>2. EnsuredLedger \in [Revisions -> Rows]
    BY EnsuredTyping
<1>3. CASE ledger[item.revision] = AbsentRow /\ item.report = "NONE"
    BY <1>1, <1>2, <1>3 DEF TypeOK, EnsuredLedger, NewRow, AbsentRow
<1>4. CASE ledger[item.revision].validity = "ACTIVE" /\ ledger[item.revision].status = item.report
    BY <1>1, <1>2, <1>4 DEF EnsuredLedger
<1> QED
    BY <1>1, <1>2, <1>3, <1>4 DEF RevisionLedger, OneActiveRevision

\* A step that writes only the active row, in the phase the item gets.
LEMMA CurrentRowWritten ==
    ASSUME TypeOK, RevisionLedger, item'.revision = item.revision,
           \A r \in Revisions : r # item.revision => ledger'[r] = ledger[r],
           ledger'[item.revision].validity = "ACTIVE",
           ledger'[item.revision].status = item'.report,
           item'.status # "FieldCompleted" => item'.report = "NONE"
    PROVE  RevisionLedger'
<1>1. \A r \in Revisions : r \in Nat
    BY BoundsAssumption DEF Revisions
<1>2. item.revision \in Revisions
    BY DEF TypeOK, Items
<1> QED
    BY <1>1, <1>2 DEF RevisionLedger, OneActiveRevision, PhaseOnlyAfterFieldWork

\* Advancing the report moves the active row and the item together.
LEMMA AdvanceLedger ==
    ASSUME TypeOK, RevisionLedger, NEW phase \in Phases, NEW u \in Users, Advances(phase, u)
    PROVE  RevisionLedger'
<1> DEFINE old == EnsuredLedger[item.revision]
           new == AdvancedRow(old, phase, u)
<1>1. /\ ledger' = [EnsuredLedger EXCEPT ![item.revision] = new]
      /\ item' = [item EXCEPT !.report = phase]
      /\ item.status = "FieldCompleted"
    BY DEF Advances
<1>2. /\ item'.revision = item.revision /\ item'.report = phase
      /\ item'.status = "FieldCompleted"
    BY <1>1 DEF TypeOK, Items
<1>3. new.validity = "ACTIVE" /\ new.status = phase
    BY EnsuredRow DEF AdvancedRow, Rows
<1>4. ledger'[item.revision] = new /\ \A r \in Revisions : r # item.revision => ledger'[r] = ledger[r]
    BY <1>1, EnsuredRow
<1> QED
    BY <1>2, <1>3, <1>4, CurrentRowWritten

\* Opening the next revision closes the current one and only that.
LEMMA ReopenLedger ==
    ASSUME TypeOK, RevisionLedger, item.revision < MaxRevision,
           NEW rows \in {ledger, EnsuredLedger}, NEW validity \in {"SUPERSEDED", "VOID"},
           ledger' = Reopened(rows, validity),
           item'.report = "NONE", item'.revision = item.revision + 1
    PROVE  RevisionLedger'
<1>1. rows \in [Revisions -> Rows] /\ \A r \in Revisions : r # item.revision => rows[r] = ledger[r]
    BY EnsuredRow DEF TypeOK
<1>2. item.revision \in Nat /\ item.revision \in Revisions /\ item.revision + 1 \in Revisions
    BY BoundsAssumption DEF TypeOK, Items, Revisions
<1>3. /\ ledger'[item.revision].validity = validity
      /\ ledger'[item.revision + 1] = NewRow("NONE")
      /\ \A r \in Revisions : r \notin {item.revision, item.revision + 1} => ledger'[r] = ledger[r]
    BY <1>1, <1>2 DEF Reopened, Rows
<1>4. NewRow("NONE").validity = "ACTIVE" /\ NewRow("NONE").status = "NONE"
    BY DEF NewRow, AbsentRow
<1> QED
    BY <1>2, <1>3, <1>4 DEF RevisionLedger, OneActiveRevision, PhaseOnlyAfterFieldWork, Revisions

\* A step that leaves the ledger alone, and the revision and phase of the item.
LEMMA LedgerKept ==
    ASSUME RevisionLedger, UNCHANGED ledger,
           item'.revision = item.revision, item'.report = item.report,
           item.status = "FieldCompleted" => item'.status = "FieldCompleted"
    PROVE  RevisionLedger'
    BY DEF RevisionLedger, OneActiveRevision, PhaseOnlyAfterFieldWork

LEMMA EarlyLedger ==
    TypeOK /\ RevisionLedger /\ (Assignment \/ Preparation) => RevisionLedger'
<1> SUFFICES ASSUME TypeOK, RevisionLedger, Assignment \/ Preparation
             PROVE  RevisionLedger'
    OBVIOUS
<1> USE LedgerKept DEF TypeOK, Items, reportVars
<1>1. CASE Assignment
    BY <1>1 DEF Assignment, Unconfirmed, ServiceItemConfirmed, TeamAssigned,
       TeamAssignmentRevoked, DecompositionReturned, ExecutionTeamAssigned,
       ExecutionAssignmentRevoked, SpecialMethodReviewed
<1>2. CASE Preparation
    BY <1>2 DEF Preparation, ImplementationPlanned, Plannable, ImplementationPlanRevoked,
       PreparationStarted, PreparationRevoked, EquipmentReturned
<1> QED
    BY <1>1, <1>2

LEMMA FieldWorkLedger == TypeOK /\ RevisionLedger /\ FieldWork => RevisionLedger'
<1> SUFFICES ASSUME TypeOK, RevisionLedger, FieldWork PROVE RevisionLedger'
    OBVIOUS
<1>1. CASE \E c \in inflight : FieldCompleted(c)
    <2>1. /\ item.report = "NONE" /\ item'.report = "NONE" /\ item'.revision = item.revision
          /\ ledger' = EnsuredLedger
        BY <1>1 DEF FieldCompleted, TypeOK, Items, RevisionLedger, PhaseOnlyAfterFieldWork
    <2> QED
        BY <2>1, EnsuredRow, CurrentRowWritten
<1>2. CASE ~\E c \in inflight : FieldCompleted(c)
    BY <1>2, LedgerKept DEF TypeOK, Items, reportVars, FieldWork, FieldStarted,
       FieldEvidenceSubmitted, SendCompletion, SendDeviation, DeviationReported,
       SnapshotReview, DeviationReviewed
<1> QED
    BY <1>1, <1>2

LEMMA ReportingLedger == TypeOK /\ RevisionLedger /\ Reporting => RevisionLedger'
<1> SUFFICES ASSUME TypeOK, RevisionLedger, Reporting PROVE RevisionLedger'
    OBVIOUS
<1>1. CASE \E file \in Files : ReportArtifactRegistered(file)
    <2>1. PICK file \in Files : ReportArtifactRegistered(file)
        BY <1>1
    <2>2. /\ ledger'[item.revision] = [EnsuredLedger[item.revision] EXCEPT !.file = file]
          /\ \A r \in Revisions : r # item.revision => ledger'[r] = ledger[r]
          /\ UNCHANGED item
        BY <2>1, EnsuredRow DEF ReportArtifactRegistered
    <2>3. /\ ledger'[item.revision].validity = "ACTIVE"
          /\ ledger'[item.revision].status = item.report
        BY <2>2, EnsuredRow DEF Rows
    <2>4. item.status # "FieldCompleted" => item.report = "NONE"
        BY DEF RevisionLedger, PhaseOnlyAfterFieldWork
    <2> QED
        BY <2>2, <2>3, <2>4, CurrentRowWritten
<1>2. CASE \E phase \in Phases, u \in Users : ReportStatusUpdated(phase, u)
    BY <1>2, AdvanceLedger DEF ReportStatusUpdated
<1>3. CASE \E u \in Users, phase \in {"REVIEWED", "ISSUED"}, versioned \in BOOLEAN :
               SendVerifiedAdvance(u, phase, versioned)
    BY <1>3, LedgerKept DEF SendVerifiedAdvance, reportVars
<1>4. CASE \E c \in inflight : VerifiedReportStatusUpdated(c)
    <2>1. PICK c \in inflight : VerifiedReportStatusUpdated(c)
        BY <1>4
    <2>2. c.phase \in Phases /\ c.by \in Users
        BY <2>1 DEF VerifiedReportStatusUpdated, TypeOK, Commands, Phases
    <2> QED
        BY <2>1, <2>2, AdvanceLedger DEF VerifiedReportStatusUpdated
<1> QED
    BY <1>1, <1>2, <1>3, <1>4 DEF Reporting

LEMMA CompensationLedger == TypeOK /\ RevisionLedger /\ Compensation => RevisionLedger'
<1> SUFFICES ASSUME TypeOK, RevisionLedger, Compensation PROVE RevisionLedger'
    OBVIOUS
<1>1. CASE \E r \in RequestIds, u \in Users : ReportRollbackApproved(r, u)
    BY <1>1, ReopenLedger DEF ReportRollbackApproved, TypeOK, Items
<1>2. CASE \E r \in RequestIds, u \in Users : ReportCorrectionApproved(r, u)
    BY <1>2, ReopenLedger DEF ReportCorrectionApproved, TypeOK, Items
<1>3. CASE \E r \in RequestIds, u \in Users : FieldRollbackApproved(r, u)
    BY <1>3, LedgerKept DEF FieldRollbackApproved, RollbackAllowed, TypeOK, Items
<1>4. CASE UNCHANGED <<item, ledger>>
    BY <1>4, LedgerKept
<1> QED
    BY <1>1, <1>2, <1>3, <1>4 DEF Compensation, reportVars, SendRollbackRequest,
       RollbackRequested, RequestRejected, RollbackWithdrawn, SendCorrectionRequest,
       ReportCorrectionRequested

LEMMA LedgerStep == TypeOK /\ RevisionLedger /\ [Next]_vars => RevisionLedger'
<1> SUFFICES ASSUME TypeOK, RevisionLedger, [Next]_vars PROVE RevisionLedger'
    OBVIOUS
<1>1. (\E c \in inflight : Abandoned(c)) \/ UNCHANGED vars => UNCHANGED <<item, ledger>>
    BY DEF Abandoned, vars, reportVars
<1> QED
    BY <1>1, LedgerKept, EarlyLedger, FieldWorkLedger, ReportingLedger, CompensationLedger
    DEF Next

\* The ledger has one active revision, in the phase of the item, and keeps
\* every earlier one as superseded or void.
THEOREM LedgerIsCoherent == Spec => []RevisionLedger
<1>1. Init => RevisionLedger
    BY BoundsAssumption DEF Init, RevisionLedger, OneActiveRevision, PhaseOnlyAfterFieldWork,
       Revisions, AbsentRow
<1> QED
    BY <1>1, LedgerStep, TypeInit, TypeStep, PTL DEF Spec

-----------------------------------------------------------------------------
(* The duties of the people who sign *)

LEMMA PhaseOrder ==
    /\ PhaseRank["NONE"] = 0 /\ PhaseRank["RECTIFYING"] = 1 /\ PhaseRank["COMPILING"] = 2
    /\ PhaseRank["REVIEWED"] = 3 /\ PhaseRank["ISSUED"] = 4 /\ PhaseRank["ARCHIVED"] = 5
    /\ \A p \in Phases : PhaseRank[p] \in 0..5
    BY DEF PhaseRank, Phases

\* The claim of DutiesSeparated about one row, by the phases it is about.
SignedProperly(row) ==
    /\ row.status \in {"REVIEWED", "ISSUED", "ARCHIVED"} =>
           /\ row.file # NoFile
           /\ row.preparedBy # NoOne
           /\ row.reviewedBy \notin {NoOne, row.preparedBy}
    /\ row.status \in {"ISSUED", "ARCHIVED"} =>
           row.issuedBy \notin {NoOne, row.preparedBy, row.reviewedBy}

LEMMA DutiesByRow ==
    ASSUME ledger \in [Revisions -> Rows]
    PROVE  DutiesSeparated <=> \A r \in Revisions : SignedProperly(ledger[r])
<1>1. \A p \in Phases :
          /\ PhaseRank[p] >= PhaseRank["REVIEWED"] <=> p \in {"REVIEWED", "ISSUED", "ARCHIVED"}
          /\ PhaseRank[p] >= PhaseRank["ISSUED"] <=> p \in {"ISSUED", "ARCHIVED"}
    BY PhaseOrder DEF Phases
<1>2. \A r \in Revisions : ledger[r].status \in Phases
    BY DEF Rows
<1> QED
    BY <1>1, <1>2 DEF DutiesSeparated, SignedProperly

\* A row of an early phase, and a row that is new, signs nothing.
LEMMA Unsigned ==
    /\ SignedProperly(NewRow("NONE"))
    /\ \A row \in Rows : row.status \in {"NONE", "RECTIFYING", "COMPILING"} => SignedProperly(row)
    BY DEF SignedProperly, NewRow, AbsentRow

LEMMA EnsuredSigned ==
    ASSUME TypeOK, RevisionLedger, \A r \in Revisions : SignedProperly(ledger[r])
    PROVE  \A r \in Revisions : SignedProperly(EnsuredLedger[r])
    BY EnsuredRow, Unsigned

\* The phase before the target, and so the duties already done.
LEMMA AdvanceSigned ==
    ASSUME TypeOK, RevisionLedger, \A r \in Revisions : SignedProperly(ledger[r]),
           NEW phase \in Phases, NEW u \in Users, Advances(phase, u)
    PROVE  \A r \in Revisions : SignedProperly(ledger'[r])
<1> DEFINE old == EnsuredLedger[item.revision]
           new == AdvancedRow(old, phase, u)
<1>1. /\ ledger' = [EnsuredLedger EXCEPT ![item.revision] = new]
      /\ MayAdvance(old, phase, u)
      /\ old.status = item.report
      /\ PhaseRank[phase] = PhaseRank[item.report] + 1
    BY DEF Advances
<1>2. old \in Rows /\ SignedProperly(old) /\ item.report \in Phases
    BY EnsuredRow, EnsuredSigned DEF TypeOK, Items
<1>3. /\ phase = "REVIEWED" => old.status = "COMPILING"
      /\ phase = "ISSUED" => old.status = "REVIEWED"
      /\ phase = "ARCHIVED" => old.status = "ISSUED"
    BY <1>1, <1>2, PhaseOrder DEF Phases
<1>4. /\ new.status = phase /\ new.file = old.file
      /\ phase # "COMPILING" => new.preparedBy = old.preparedBy
      /\ new.reviewedBy = IF phase = "REVIEWED" THEN u ELSE old.reviewedBy
      /\ new.issuedBy = IF phase = "ISSUED" THEN u ELSE old.issuedBy
    BY <1>2 DEF AdvancedRow, Rows
<1>5. u # NoOne
    BY NoOneAssumption
<1>6. SignedProperly(new)
    <2>1. CASE phase = "REVIEWED"
        BY <1>1, <1>4, <1>5, <2>1 DEF MayAdvance, SignedProperly
    <2>2. CASE phase = "ISSUED"
        BY <1>1, <1>2, <1>3, <1>4, <1>5, <2>2 DEF MayAdvance, SignedProperly
    <2>3. CASE phase = "ARCHIVED"
        BY <1>2, <1>3, <1>4, <2>3 DEF SignedProperly
    <2>4. CASE phase \notin {"REVIEWED", "ISSUED", "ARCHIVED"}
        BY <1>4, <2>4 DEF SignedProperly
    <2> QED
        BY <2>1, <2>2, <2>3, <2>4
<1> QED
    BY <1>1, <1>6, EnsuredRow, EnsuredSigned

LEMMA ReopenSigned ==
    ASSUME TypeOK, RevisionLedger, \A r \in Revisions : SignedProperly(ledger[r]),
           item.revision < MaxRevision,
           NEW rows \in {ledger, EnsuredLedger}, NEW validity \in {"SUPERSEDED", "VOID"},
           ledger' = Reopened(rows, validity)
    PROVE  \A r \in Revisions : SignedProperly(ledger'[r])
<1>1. rows \in [Revisions -> Rows] /\ \A r \in Revisions : SignedProperly(rows[r])
    BY EnsuredRow, EnsuredSigned DEF TypeOK
<1> DEFINE closed == [rows[item.revision] EXCEPT !.validity = validity]
<1>2. item.revision \in Revisions
    BY DEF TypeOK, Items
<1>3. /\ closed.status = rows[item.revision].status
      /\ closed.file = rows[item.revision].file
      /\ closed.preparedBy = rows[item.revision].preparedBy
      /\ closed.reviewedBy = rows[item.revision].reviewedBy
      /\ closed.issuedBy = rows[item.revision].issuedBy
    BY <1>1, <1>2 DEF Rows
<1>4. SignedProperly(closed)
    BY <1>1, <1>2, <1>3 DEF SignedProperly
<1>5. \A r \in Revisions : ledger'[r] \in {rows[r], closed, NewRow("NONE")}
    BY <1>1, <1>2 DEF Reopened
<1> QED
    BY <1>1, <1>4, <1>5, Unsigned

\* The handlers that write the ledger, by how they write it.
LedgerWrites ==
    \/ UNCHANGED ledger
    \/ ledger' = EnsuredLedger
    \/ \E file \in Files : ReportArtifactRegistered(file)
    \/ \E phase \in Phases, u \in Users : Advances(phase, u)
    \/ /\ item.revision < MaxRevision
       /\ \E rows \in {ledger, EnsuredLedger}, validity \in {"SUPERSEDED", "VOID"} :
              ledger' = Reopened(rows, validity)

LEMMA EveryLedgerWrite == TypeOK /\ [Next]_vars => LedgerWrites
<1> SUFFICES ASSUME TypeOK, [Next]_vars PROVE LedgerWrites
    OBVIOUS
<1> USE DEF reportVars
<1>1. CASE Assignment
    BY <1>1 DEF LedgerWrites, Assignment, ServiceItemConfirmed, TeamAssigned,
       TeamAssignmentRevoked, DecompositionReturned, ExecutionTeamAssigned,
       ExecutionAssignmentRevoked, SpecialMethodReviewed
<1>2. CASE Preparation
    BY <1>2 DEF LedgerWrites, Preparation, ImplementationPlanned, ImplementationPlanRevoked,
       PreparationStarted, PreparationRevoked, EquipmentReturned
<1>3. CASE FieldWork
    BY <1>3 DEF LedgerWrites, FieldWork, FieldStarted, FieldEvidenceSubmitted, SendCompletion,
       FieldCompleted, SendDeviation, DeviationReported, SnapshotReview, DeviationReviewed
<1>4. CASE Reporting
    <2>1. \A c \in inflight : VerifiedReportStatusUpdated(c) =>
              c.phase \in Phases /\ c.by \in Users /\ Advances(c.phase, c.by)
        BY DEF VerifiedReportStatusUpdated, TypeOK, Commands, Phases
    <2> QED
        BY <1>4, <2>1 DEF LedgerWrites, Reporting, ReportStatusUpdated, SendVerifiedAdvance
<1>5. CASE Compensation
    BY <1>5 DEF LedgerWrites, Compensation, SendRollbackRequest, RollbackRequested,
       FieldRollbackApproved, ReportRollbackApproved, RequestRejected, RollbackWithdrawn,
       SendCorrectionRequest, ReportCorrectionRequested, ReportCorrectionApproved
<1>6. CASE (\E c \in inflight : Abandoned(c)) \/ UNCHANGED vars
    BY <1>6 DEF LedgerWrites, Abandoned, vars
<1> QED
    BY <1>1, <1>2, <1>3, <1>4, <1>5, <1>6 DEF Next

LEMMA DutiesStep ==
    TypeOK /\ RevisionLedger /\ DutiesSeparated /\ [Next]_vars => DutiesSeparated'
<1> SUFFICES ASSUME TypeOK, RevisionLedger, DutiesSeparated, [Next]_vars
             PROVE  DutiesSeparated'
    OBVIOUS
<1>1. \A r \in Revisions : SignedProperly(ledger[r])
    BY DutiesByRow DEF TypeOK
<1>2. (\A r \in Revisions : SignedProperly(ledger'[r])) => DutiesSeparated'
    <2>1. TypeOK'
        BY TypeStep
    <2> QED
        BY <2>1 DEF TypeOK, SignedProperly, DutiesSeparated, Rows, PhaseRank, Phases
<1>3. CASE UNCHANGED ledger \/ ledger' = EnsuredLedger
    BY <1>1, <1>2, <1>3, EnsuredSigned
<1>4. CASE \E file \in Files : ReportArtifactRegistered(file)
    <2>1. PICK file \in Files : ReportArtifactRegistered(file)
        BY <1>4
    <2> DEFINE row == [EnsuredLedger[item.revision] EXCEPT !.file = file]
    <2>2. row.status \in {"NONE", "COMPILING"}
        BY <2>1, EnsuredRow DEF ReportArtifactRegistered, Rows
    <2>3. ledger' = [EnsuredLedger EXCEPT ![item.revision] = row]
        BY <2>1 DEF ReportArtifactRegistered
    <2>4. SignedProperly(row)
        BY <2>2 DEF SignedProperly
    <2>5. \A r \in Revisions : ledger'[r] \in {EnsuredLedger[r], row}
        BY <2>3, EnsuredRow
    <2> QED
        BY <1>1, <1>2, <2>4, <2>5, EnsuredSigned
<1>5. CASE \E phase \in Phases, u \in Users : Advances(phase, u)
    BY <1>1, <1>2, <1>5, AdvanceSigned
<1>6. CASE /\ item.revision < MaxRevision
           /\ \E rows \in {ledger, EnsuredLedger}, validity \in {"SUPERSEDED", "VOID"} :
                  ledger' = Reopened(rows, validity)
    BY <1>1, <1>2, <1>6, ReopenSigned
<1> QED
    BY <1>3, <1>4, <1>5, <1>6, EveryLedgerWrite DEF LedgerWrites

\* Nobody signs a report twice, in any revision there ever was.
THEOREM DutiesStaySeparated == Spec => []DutiesSeparated
<1>1. Init => DutiesSeparated
    BY PhaseOrder DEF Init, DutiesSeparated, AbsentRow
<1> QED
    BY <1>1, DutiesStep, LedgerStep, LedgerIsCoherent, TypeInit, TypeStep, Typing, PTL DEF Spec

-----------------------------------------------------------------------------
(* What a review freezes *)

LEMMA FrozenStep ==
    ASSUME TypeOK, RevisionLedger, [Next]_vars, NEW r \in Revisions
    PROVE  /\ ledger[r].validity \in {"SUPERSEDED", "VOID"} => ledger'[r] = ledger[r]
           /\ PhaseRank[ledger[r].status] >= PhaseRank["REVIEWED"] =>
                  /\ ledger'[r].file = ledger[r].file
                  /\ ledger'[r].preparedBy = ledger[r].preparedBy
                  /\ ledger'[r].reviewedBy = ledger[r].reviewedBy
<1> DEFINE signed == {"REVIEWED", "ISSUED", "ARCHIVED"}
<1>1. /\ ledger[r] \in Rows
      /\ PhaseRank[ledger[r].status] >= PhaseRank["REVIEWED"] => ledger[r].status \in signed
    BY PhaseOrder DEF TypeOK, Rows, Phases
<1>2. SUFFICES /\ ledger[r].validity \in {"SUPERSEDED", "VOID"} => ledger'[r] = ledger[r]
               /\ ledger[r].status \in signed =>
                      /\ ledger'[r].file = ledger[r].file
                      /\ ledger'[r].preparedBy = ledger[r].preparedBy
                      /\ ledger'[r].reviewedBy = ledger[r].reviewedBy
    BY <1>1
<1>3. ledger[r].validity \in {"SUPERSEDED", "VOID"} \/ ledger[r].status \in signed =>
          EnsuredLedger[r] = ledger[r]
    BY EnsuredRow DEF AbsentRow
<1>4. CASE UNCHANGED ledger \/ ledger' = EnsuredLedger
    BY <1>3, <1>4
<1>5. CASE \E file \in Files : ReportArtifactRegistered(file)
    BY <1>3, <1>5, EnsuredRow DEF ReportArtifactRegistered
<1>6. CASE \E phase \in Phases, u \in Users : Advances(phase, u)
    <2>1. PICK phase \in Phases, u \in Users : Advances(phase, u)
        BY <1>6
    <2> DEFINE new == AdvancedRow(EnsuredLedger[item.revision], phase, u)
    <2>2. ledger' = [EnsuredLedger EXCEPT ![item.revision] = new]
        BY <2>1 DEF Advances
    <2>3. CASE r # item.revision
        BY <1>3, <2>2, <2>3, EnsuredRow
    <2>4. CASE r = item.revision
        <3>1. ledger'[r] = new /\ EnsuredLedger[r].validity = "ACTIVE"
            BY <2>2, <2>4, EnsuredRow
        <3>2. EnsuredLedger[r].status \in signed => phase \notin {"COMPILING", "REVIEWED"}
            BY <2>1, <2>4, EnsuredRow, PhaseOrder DEF Advances
        <3>3. phase \notin {"COMPILING", "REVIEWED"} =>
                  /\ new.file = EnsuredLedger[r].file
                  /\ new.preparedBy = EnsuredLedger[r].preparedBy
                  /\ new.reviewedBy = EnsuredLedger[r].reviewedBy
            BY <2>4, EnsuredRow DEF AdvancedRow, Rows
        <3> QED
            BY <1>3, <3>1, <3>2, <3>3
    <2> QED
        BY <2>3, <2>4
<1>7. CASE /\ item.revision < MaxRevision
           /\ \E rows \in {ledger, EnsuredLedger}, validity \in {"SUPERSEDED", "VOID"} :
                  ledger' = Reopened(rows, validity)
    <2>1. PICK rows \in {ledger, EnsuredLedger}, validity \in {"SUPERSEDED", "VOID"} :
                   ledger' = Reopened(rows, validity)
        BY <1>7
    <2>2. rows \in [Revisions -> Rows] /\ item.revision \in Revisions /\ item.revision \in Nat
        BY BoundsAssumption, EnsuredRow DEF TypeOK, Revisions
    <2>3. CASE r = item.revision + 1
        BY <1>7, <2>2, <2>3 DEF RevisionLedger, OneActiveRevision, AbsentRow
    <2>4. CASE r = item.revision
        <3>1. ledger[r].validity \notin {"SUPERSEDED", "VOID"}
            BY <2>4 DEF RevisionLedger, OneActiveRevision, AbsentRow
        <3>2. ledger'[r] = [rows[r] EXCEPT !.validity = validity]
            BY <2>1, <2>2, <2>4 DEF Reopened
        <3>3. ledger[r].status \in signed => rows[r] = ledger[r]
            BY <1>3
        <3> QED
            BY <1>1, <3>1, <3>2, <3>3 DEF Rows
    <2>5. CASE r \notin {item.revision, item.revision + 1}
        BY <1>3, <2>1, <2>2, <2>5 DEF Reopened
    <2> QED
        BY <2>3, <2>4, <2>5
<1> QED
    BY <1>4, <1>5, <1>6, <1>7, EveryLedgerWrite DEF LedgerWrites

\* What was reviewed is not replaced, and what was closed is not reopened.
THEOREM ReviewedEvidenceIsFrozen == Spec => RevisionEvidenceFrozen
<1>1. TypeOK /\ RevisionLedger /\ [Next]_vars =>
          [\A r \in Revisions :
             /\ ledger[r].validity \in {"SUPERSEDED", "VOID"} => ledger'[r] = ledger[r]
             /\ PhaseRank[ledger[r].status] >= PhaseRank["REVIEWED"] =>
                    /\ ledger'[r].file = ledger[r].file
                    /\ ledger'[r].preparedBy = ledger[r].preparedBy
                    /\ ledger'[r].reviewedBy = ledger[r].reviewedBy]_vars
    BY FrozenStep
<1> QED
    BY <1>1, Typing, LedgerIsCoherent, PTL DEF Spec, RevisionEvidenceFrozen

-----------------------------------------------------------------------------
(* What undoes work *)

\* An approval is the first decision on its request, and by another account.
LEMMA ApprovalDecides ==
    ASSUME TypeOK, NEW r \in RequestIds, NEW u \in Users, NEW kind \in RequestKinds,
           requests[r].kind = kind, Undecided(r, u), Approved(r, u)
    PROVE  DecidedBySecondPerson(kind)
<1>1. /\ requests'[r].decisions = {"APPROVED"}
      /\ requests'[r].approvedBy = u
    BY DEF Approved, Undecided, TypeOK, RequestRecords
<1> QED
    BY <1>1 DEF DecidedBySecondPerson, Undecided

\* Work is undone by a change of the item: of its status, of its revision or
\* of the phase of its report.
ItemMovesBack ==
    \/ item.status = "InProgress" /\ item'.status = "Preparing"
    \/ item.status = "FieldCompleted" /\ item'.status = "InProgress"
    \/ /\ item.status = "FieldCompleted" /\ item'.status = "FieldCompleted"
       /\ item'.revision # item.revision \/ item'.report # item.report

LEMMA UndoneMovesBack ==
    ASSUME TypeOK, NEW kind \in RequestKinds, Undone(kind)
    PROVE  ItemMovesBack
<1>1. CASE kind = "FIELD_TO_PREPARATION"
    BY <1>1 DEF Undone, ItemMovesBack
<1>2. CASE kind = "REPORT_TO_FIELD"
    BY <1>2 DEF Undone, ItemMovesBack
<1>3. CASE kind = "REPORT_CORRECTION"
    <2>1. item.report \in Phases /\ ~(PhaseRank[item.report] < PhaseRank[item.report])
        BY PhaseOrder DEF TypeOK, Items
    <2> QED
        BY <1>3, <2>1 DEF Undone, ItemMovesBack
<1> QED
    BY <1>1, <1>2, <1>3 DEF RequestKinds, RollbackKinds

LEMMA UndoStep ==
    ASSUME TypeOK, [Next]_vars, NEW kind \in RequestKinds, Undone(kind)
    PROVE  DecidedBySecondPerson(kind)
<1> USE DEF RequestKinds, RollbackKinds, TypeOK, Items
<1>1. CASE \E r \in RequestIds, u \in Users : FieldRollbackApproved(r, u)
    <2>1. kind = "FIELD_TO_PREPARATION"
        BY <1>1 DEF FieldRollbackApproved, RollbackAllowed, Undone
    <2> QED
        BY <1>1, <2>1, ApprovalDecides DEF FieldRollbackApproved
<1>2. CASE \E r \in RequestIds, u \in Users : ReportRollbackApproved(r, u)
    <2>1. kind = "REPORT_TO_FIELD"
        BY <1>2 DEF ReportRollbackApproved, RollbackAllowed, Undone
    <2> QED
        BY <1>2, <2>1, ApprovalDecides DEF ReportRollbackApproved
<1>3. CASE \E r \in RequestIds, u \in Users : ReportCorrectionApproved(r, u)
    <2>1. kind = "REPORT_CORRECTION"
        BY <1>3 DEF ReportCorrectionApproved, Correctable, Undone
    <2> QED
        BY <1>3, <2>1, ApprovalDecides DEF ReportCorrectionApproved
<1>4. CASE UNCHANGED item
    BY <1>4, UndoneMovesBack DEF ItemMovesBack
<1>5. CASE Assignment
    <2>1. ~ItemMovesBack
        BY <1>5 DEF ItemMovesBack, Assignment, Unconfirmed, ServiceItemConfirmed, TeamAssigned,
           TeamAssignmentRevoked, DecompositionReturned, ExecutionTeamAssigned,
           ExecutionAssignmentRevoked, SpecialMethodReviewed
    <2> QED
        BY <2>1, UndoneMovesBack
<1>6. CASE Preparation
    <2>1. ~ItemMovesBack
        BY <1>6 DEF ItemMovesBack, Preparation, ImplementationPlanned, Plannable,
           ImplementationPlanRevoked, PreparationStarted, PreparationRevoked, EquipmentReturned
    <2> QED
        BY <2>1, UndoneMovesBack
<1>7. CASE FieldWork
    <2>1. ~ItemMovesBack
        BY <1>7 DEF ItemMovesBack, FieldWork, FieldStarted, FieldEvidenceSubmitted,
           SendCompletion, FieldCompleted, SendDeviation, DeviationReported, SnapshotReview,
           DeviationReviewed
    <2> QED
        BY <2>1, UndoneMovesBack
<1>8. CASE \E phase \in Phases, u \in Users : Advances(phase, u)
    <2>1. PICK phase \in Phases, u \in Users : Advances(phase, u)
        BY <1>8
    <2>2. /\ item'.status = "FieldCompleted" /\ item'.revision = item.revision
          /\ PhaseRank[item'.report] = PhaseRank[item.report] + 1
          /\ item.report \in Phases /\ item.status = "FieldCompleted"
        BY <2>1 DEF Advances
    <2>3. ~(PhaseRank[item'.report] < PhaseRank[item.report])
        BY <2>2, PhaseOrder
    <2>4. CASE kind = "REPORT_CORRECTION"
        BY <2>2, <2>3, <2>4 DEF Undone
    <2>5. CASE kind # "REPORT_CORRECTION"
        BY <2>2, <2>5 DEF Undone
    <2> QED
        BY <2>4, <2>5
<1>9. CASE Reporting
    <2>1. \A c \in inflight : VerifiedReportStatusUpdated(c) =>
              c.phase \in Phases /\ c.by \in Users /\ Advances(c.phase, c.by)
        BY DEF VerifiedReportStatusUpdated, Commands, Phases
    <2> QED
        BY <1>4, <1>8, <1>9, <2>1 DEF Reporting, ReportArtifactRegistered,
           ReportStatusUpdated, SendVerifiedAdvance
<1>10. CASE Compensation
    BY <1>1, <1>2, <1>3, <1>4, <1>10 DEF Compensation, SendRollbackRequest, RollbackRequested,
       RequestRejected, RollbackWithdrawn, SendCorrectionRequest, ReportCorrectionRequested
<1>11. CASE (\E c \in inflight : Abandoned(c)) \/ UNCHANGED vars
    BY <1>4, <1>11 DEF Abandoned, vars
<1> QED
    BY <1>5, <1>6, <1>7, <1>9, <1>10, <1>11 DEF Next

\* Only the first decision of a second person undoes work.
THEOREM WorkUndoneOnlyByApproval == Spec => UndoneOnlyByApproval
<1>1. TypeOK /\ [Next]_vars =>
          [\A kind \in RequestKinds : Undone(kind) => DecidedBySecondPerson(kind)]_vars
    BY UndoStep
<1> QED
    BY <1>1, Typing, PTL DEF Spec, UndoneOnlyByApproval

-----------------------------------------------------------------------------
(* What a command in flight still knows *)

\* Where the report stands before its issue, the active row has the file that
\* every versioned command to issue it has verified.
VerifiedFilesCurrent ==
    \A c \in inflight :
        c.op = "advance" /\ c.phase = "ISSUED" /\ c.versioned /\ item.report = "REVIEWED" =>
            ledger[item.revision].file = c.file

\* A versioned completion that passed an enforcing gate still has it right.
GatedCompletionsTrue ==
    \A c \in inflight :
        c.op = "complete" /\ c.policy = "ENFORCE" /\ c.versioned =>
            (c.reason <=> ~EvidenceComplete)

CommandKnowledge == VerifiedFilesCurrent /\ GatedCompletionsTrue

\* A step that bumps the version leaves no versioned command behind.
LEMMA BumpForgets ==
    ASSUME NEW cmds, inflight' = Surviving(cmds)
    PROVE  CommandKnowledge'
    BY DEF Surviving, CommandKnowledge, VerifiedFilesCurrent, GatedCompletionsTrue

\* A step that drops commands, and writes nothing they know of, keeps it.
LEMMA KnowledgeKept ==
    ASSUME CommandKnowledge, inflight' \subseteq inflight, UNCHANGED evidence,
           item'.report = item.report,
           item'.revision = item.revision,
           item.report = "REVIEWED" => ledger'[item.revision].file = ledger[item.revision].file
    PROVE  CommandKnowledge'
    BY DEF CommandKnowledge, VerifiedFilesCurrent, GatedCompletionsTrue, EvidenceComplete

\* A command that reads knows what it has read.
LEMMA SendKnows ==
    ASSUME CommandKnowledge, UNCHANGED <<item, ledger, evidence>>, NEW c, Sends(c),
           c.op = "advance" => ledger[item.revision].file = c.file,
           c.op = "complete" /\ c.policy = "ENFORCE" => (c.reason <=> ~EvidenceComplete)
    PROVE  CommandKnowledge'
    BY DEF CommandKnowledge, VerifiedFilesCurrent, GatedCompletionsTrue, EvidenceComplete, Sends

LEMMA FieldWorkKnowledge == TypeOK /\ CommandKnowledge /\ FieldWork => CommandKnowledge'
<1> SUFFICES ASSUME TypeOK, CommandKnowledge, FieldWork PROVE CommandKnowledge'
    OBVIOUS
<1> USE DEF equipmentVars, reportVars, deviationVars
<1>1. CASE \E policy \in GatePolicies, reason, versioned \in BOOLEAN :
               SendCompletion(policy, reason, versioned)
    <2>1. PICK policy \in GatePolicies, reason \in BOOLEAN, versioned \in BOOLEAN :
                   SendCompletion(policy, reason, versioned)
        BY <1>1
    <2> DEFINE c == [op |-> "complete", policy |-> policy, reason |-> reason,
                     versioned |-> versioned]
    <2>2. Sends(c) /\ UNCHANGED <<item, ledger, evidence>>
        BY <2>1 DEF SendCompletion
    <2>3. c.policy = "ENFORCE" => (c.reason <=> ~EvidenceComplete)
        BY <2>1 DEF SendCompletion
    <2> QED
        BY <2>2, <2>3, SendKnows
<1>2. CASE SendDeviation
    <2> DEFINE c == [op |-> "deviation", id |-> stamped + 1, versioned |-> FALSE]
    <2>1. Sends(c) /\ UNCHANGED <<item, ledger, evidence>>
        BY <1>2 DEF SendDeviation
    <2> QED
        BY <2>1, SendKnows
<1>3. CASE \E u \in Users, d \in Deviations : SnapshotReview(u, d)
    <2>1. PICK u \in Users, d \in Deviations : SnapshotReview(u, d)
        BY <1>3
    <2> DEFINE c == [op |-> "review", by |-> u, id |-> d, versioned |-> FALSE]
    <2>2. Sends(c) /\ UNCHANGED <<item, ledger, evidence>>
        BY <2>1 DEF SnapshotReview
    <2> QED
        BY <2>2, SendKnows
<1>4. CASE \E cmds : inflight' = Surviving(cmds)
    BY <1>4, BumpForgets
<1> QED
    BY <1>1, <1>2, <1>3, <1>4 DEF FieldWork, Bumps, Applies, FieldStarted,
       FieldEvidenceSubmitted, FieldCompleted, DeviationReported, DeviationReviewed

LEMMA ReportingKnowledge == TypeOK /\ CommandKnowledge /\ Reporting => CommandKnowledge'
<1> SUFFICES ASSUME TypeOK, CommandKnowledge, Reporting PROVE CommandKnowledge'
    OBVIOUS
<1> USE DEF equipmentVars, reportVars, deviationVars
<1>1. CASE \E file \in Files : ReportArtifactRegistered(file)
    \* A file is only registered before the review.
    BY <1>1, KnowledgeKept DEF ReportArtifactRegistered
<1>2. CASE \E u \in Users, phase \in {"REVIEWED", "ISSUED"}, versioned \in BOOLEAN :
               SendVerifiedAdvance(u, phase, versioned)
    <2>1. PICK u \in Users, phase \in {"REVIEWED", "ISSUED"}, versioned \in BOOLEAN :
                   SendVerifiedAdvance(u, phase, versioned)
        BY <1>2
    <2> DEFINE c == [op |-> "advance", by |-> u, phase |-> phase,
                     file |-> ledger[item.revision].file, versioned |-> versioned]
    <2>2. Sends(c) /\ UNCHANGED <<item, ledger, evidence>>
        BY <2>1 DEF SendVerifiedAdvance
    <2> QED
        BY <2>2, SendKnows
<1>3. CASE \E cmds : inflight' = Surviving(cmds)
    BY <1>3, BumpForgets
<1> QED
    BY <1>1, <1>2, <1>3 DEF Reporting, Bumps, Applies, ReportStatusUpdated,
       VerifiedReportStatusUpdated

LEMMA CompensationKnowledge ==
    TypeOK /\ CommandKnowledge /\ Compensation => CommandKnowledge'
<1> SUFFICES ASSUME TypeOK, CommandKnowledge, Compensation PROVE CommandKnowledge'
    OBVIOUS
<1> USE DEF equipmentVars, reportVars, deviationVars
<1>1. CASE \E u \in Users, kind \in RollbackKinds, versioned \in BOOLEAN :
               SendRollbackRequest(u, kind, versioned)
    <2>1. PICK u \in Users, kind \in RollbackKinds, versioned \in BOOLEAN :
                   SendRollbackRequest(u, kind, versioned)
        BY <1>1
    <2> DEFINE c == [op |-> "rollback", by |-> u, kind |-> kind, versioned |-> versioned]
    <2>2. Sends(c) /\ UNCHANGED <<item, ledger, evidence>>
        BY <2>1 DEF SendRollbackRequest
    <2> QED
        BY <2>2, SendKnows
<1>2. CASE \E u \in Users : SendCorrectionRequest(u)
    <2>1. PICK u \in Users : SendCorrectionRequest(u)
        BY <1>2
    <2> DEFINE c == [op |-> "correction", by |-> u, revision |-> item.revision,
                     versioned |-> FALSE]
    <2>2. Sends(c) /\ UNCHANGED <<item, ledger, evidence>>
        BY <2>1 DEF SendCorrectionRequest
    <2> QED
        BY <2>2, SendKnows
<1>3. CASE \E cmds : inflight' = Surviving(cmds)
    BY <1>3, BumpForgets
<1>4. CASE UNCHANGED <<item, ledger, evidence>> /\ inflight' \subseteq inflight
    BY <1>4, KnowledgeKept
<1> QED
    BY <1>1, <1>2, <1>3, <1>4 DEF Compensation, Bumps, Records, RollbackRequested,
       FieldRollbackApproved, ReportRollbackApproved, RequestRejected, RollbackWithdrawn,
       ReportCorrectionRequested, ReportCorrectionApproved

LEMMA KnowledgeStep == TypeOK /\ CommandKnowledge /\ [Next]_vars => CommandKnowledge'
<1> SUFFICES ASSUME TypeOK, CommandKnowledge, [Next]_vars PROVE CommandKnowledge'
    OBVIOUS
<1>1. CASE Assignment \/ Preparation
    <2>1. CASE ServiceItemConfirmed
        BY <2>1, KnowledgeKept DEF ServiceItemConfirmed, TypeOK, Items, reportVars
    <2>2. CASE \E cmds : inflight' = Surviving(cmds)
        BY <2>2, BumpForgets
    <2> QED
        BY <1>1, <2>1, <2>2 DEF Assignment, Preparation, Bumps, TeamAssigned,
           TeamAssignmentRevoked, DecompositionReturned, ExecutionTeamAssigned,
           ExecutionAssignmentRevoked, SpecialMethodReviewed, ImplementationPlanned,
           ImplementationPlanRevoked, PreparationStarted, PreparationRevoked, EquipmentReturned
<1>2. CASE (\E c \in inflight : Abandoned(c)) \/ UNCHANGED vars
    BY <1>2, KnowledgeKept DEF Abandoned, Records, vars, reportVars
<1> QED
    BY <1>1, <1>2, FieldWorkKnowledge, ReportingKnowledge, CompensationKnowledge DEF Next

LEMMA KnowledgeAlways == Spec => [](TypeOK /\ CommandKnowledge)
<1>1. Init => CommandKnowledge
    BY DEF Init, CommandKnowledge, VerifiedFilesCurrent, GatedCompletionsTrue
<1> QED
    BY <1>1, KnowledgeStep, TypeInit, TypeStep, PTL DEF Spec

\* A report is issued with the file that was verified for its issue.
THEOREM IssuesVerifiedFile == Spec => IssuedFileVerified
<1>1. TypeOK /\ CommandKnowledge /\ [Next]_vars =>
          [\A c \in inflight :
             /\ c.op = "advance" /\ c.phase = "ISSUED" /\ c.versioned /\ AppliedNow(c)
             /\ item.report = "REVIEWED" /\ item'.report = "ISSUED"
             /\ ledger'[item.revision].issuedBy = c.by
             => ledger[item.revision].file = c.file]_vars
    BY DEF CommandKnowledge, VerifiedFilesCurrent
<1> QED
    BY <1>1, KnowledgeAlways, PTL DEF Spec, IssuedFileVerified

\* A completion that passed an enforcing gate and kept its version is true.
THEOREM GatedCompletionsAreTruthful == Spec => VersionedCompletionTruthful
<1>1. TypeOK /\ CommandKnowledge /\ [Next]_vars =>
          [\A c \in inflight :
             /\ c.op = "complete" /\ c.policy = "ENFORCE" /\ c.versioned
             /\ CompletedNow /\ AppliedNow(c)
             => (c.reason <=> ~EvidenceComplete)]_vars
    BY DEF CommandKnowledge, GatedCompletionsTrue
<1> QED
    BY <1>1, KnowledgeAlways, PTL DEF Spec, VersionedCompletionTruthful

\* Field work completes in one handler only.
LEMMA OnlyCompletion ==
    ASSUME TypeOK, [Next]_vars, CompletedNow
    PROVE  \E c \in inflight : FieldCompleted(c)
<1> USE DEF CompletedNow, TypeOK, Items
<1>1. CASE Assignment
    BY <1>1 DEF Assignment, Unconfirmed, ServiceItemConfirmed, TeamAssigned,
       TeamAssignmentRevoked, DecompositionReturned, ExecutionTeamAssigned,
       ExecutionAssignmentRevoked, SpecialMethodReviewed
<1>2. CASE Preparation
    BY <1>2 DEF Preparation, ImplementationPlanned, Plannable, ImplementationPlanRevoked,
       PreparationStarted, PreparationRevoked, EquipmentReturned
<1>3. CASE FieldWork
    BY <1>3 DEF FieldWork, FieldStarted, FieldEvidenceSubmitted, SendCompletion,
       SendDeviation, DeviationReported, SnapshotReview, DeviationReviewed
<1>4. CASE Reporting
    BY <1>4 DEF Reporting, ReportArtifactRegistered, ReportStatusUpdated,
       SendVerifiedAdvance, VerifiedReportStatusUpdated, Advances
<1>5. CASE Compensation
    BY <1>5 DEF Compensation, RollbackAllowed, Correctable, SendRollbackRequest,
       RollbackRequested, FieldRollbackApproved, ReportRollbackApproved, RequestRejected,
       RollbackWithdrawn, SendCorrectionRequest, ReportCorrectionRequested,
       ReportCorrectionApproved
<1>6. CASE (\E c \in inflight : Abandoned(c)) \/ UNCHANGED vars
    BY <1>6 DEF Abandoned, vars
<1> QED
    BY <1>1, <1>2, <1>3, <1>4, <1>5, <1>6 DEF Next

\* No field work completes with a gap that nobody explained.
THEOREM GapsAreExplained == Spec => NoUnexplainedGap
<1>1. TypeOK /\ [Next]_vars =>
          [CompletedNow /\ ~EvidenceComplete =>
               \E c \in inflight : c.op = "complete" /\ c.reason /\ AppliedNow(c)]_vars
    BY OnlyCompletion DEF FieldCompleted, Applies, AppliedNow
<1> QED
    BY <1>1, Typing, PTL DEF Spec, NoUnexplainedGap

-----------------------------------------------------------------------------
(* The register *)

\* Who has asked, who has approved and what is settled, as the register is told.
AskedBy == [r \in RequestIds |-> requests[r].by]
ApprovedBy == [r \in RequestIds |-> requests[r].approvedBy]
SettledOnes == {r \in RequestIds : requests[r].decisions # {}}

\* Nobody has signed for a duty whose turn has not come.
InTurn(row) ==
    /\ row.status \in {"NONE", "RECTIFYING"} => row.preparedBy = NoOne
    /\ row.status \in {"NONE", "RECTIFYING", "COMPILING"} => row.reviewedBy = NoOne
    /\ row.status \notin {"ISSUED", "ARCHIVED"} => row.issuedBy = NoOne

SignedInTurn == \A r \in Revisions : InTurn(ledger[r])

\* A request is blank or somebody has made it.
RequestsFiled ==
    \A r \in RequestIds : /\ requests[r].kind = "NONE" => requests[r] = Unfiled
                          /\ requests[r].kind # "NONE" => requests[r].by \in Users

RegisterInv == TypeOK /\ RevisionLedger /\ DutiesSeparated /\ SignedInTurn /\ RequestsFiled

\* A step that leaves the report as it is shown.
Kept == item'.revision = item.revision /\ ledger' \in {ledger, EnsuredLedger}

\* A decision on a request other than an approval.
Decided(r) ==
    /\ requests[r].kind # "NONE"
    /\ \E decisions \in SUBSET {"APPROVED", "REJECTED", "WITHDRAWN"} :
           decisions # {} /\ requests' = [requests EXCEPT ![r].decisions = decisions]

\* The handlers, by what they write that the register is told.
ReportSteps ==
    \/ Kept /\ UNCHANGED requests
    \/ Kept /\ \E r \in RequestIds, kind \in RequestKinds, u \in Users, revision \in Revisions :
                   FilesAs(r, kind, u, revision)
    \/ Kept /\ \E r \in RequestIds : Decided(r)
    \/ Kept /\ \E r \in RequestIds, u \in Users :
                   Undecided(r, u) /\ Approved(r, u) /\ item.report = "NONE"
    \/ \E file \in Files : ReportArtifactRegistered(file)
    \/ UNCHANGED requests /\ \E phase \in Phases, u \in Users : Advances(phase, u)
    \/ \E r \in RequestIds, u \in Users :
           ReportRollbackApproved(r, u) \/ ReportCorrectionApproved(r, u)

LEMMA EveryReportStep == TypeOK /\ RevisionLedger /\ [Next]_vars => ReportSteps
<1> SUFFICES ASSUME TypeOK, RevisionLedger, [Next]_vars PROVE ReportSteps
    OBVIOUS
<1> USE DEF reportVars
<1>1. CASE Assignment
    BY <1>1 DEF TypeOK, Items, ReportSteps, Kept, Assignment, ServiceItemConfirmed, TeamAssigned,
       TeamAssignmentRevoked, DecompositionReturned, ExecutionTeamAssigned,
       ExecutionAssignmentRevoked, SpecialMethodReviewed
<1>2. CASE Preparation
    BY <1>2 DEF TypeOK, Items, ReportSteps, Kept, Preparation, ImplementationPlanned,
       ImplementationPlanRevoked, PreparationStarted, PreparationRevoked, EquipmentReturned
<1>3. CASE FieldWork
    BY <1>3 DEF TypeOK, Items, ReportSteps, Kept, FieldWork, FieldStarted,
       FieldEvidenceSubmitted, SendCompletion, FieldCompleted, SendDeviation,
       DeviationReported, SnapshotReview, DeviationReviewed
<1>4. CASE Reporting
    <2>1. \A c \in inflight : VerifiedReportStatusUpdated(c) =>
              c.phase \in Phases /\ c.by \in Users /\ Advances(c.phase, c.by)
        BY DEF VerifiedReportStatusUpdated, TypeOK, Commands, Phases
    <2>2. \A phase \in Phases, u \in Users : Advances(phase, u) => UNCHANGED requests
        BY DEF Advances
    <2> QED
        BY <1>4, <2>1, <2>2 DEF ReportSteps, Kept, Reporting, ReportStatusUpdated,
           SendVerifiedAdvance
<1>5. CASE Compensation
    <2>1. CASE \E u \in Users, kind \in RollbackKinds, versioned \in BOOLEAN :
                   SendRollbackRequest(u, kind, versioned)
        BY <2>1 DEF ReportSteps, Kept, SendRollbackRequest
    <2>2. CASE \E c \in inflight, r \in RequestIds : RollbackRequested(c, r)
        <3>1. PICK c \in inflight, r \in RequestIds : RollbackRequested(c, r)
            BY <2>2
        <3>2. c.kind \in RequestKinds /\ c.by \in Users /\ item.revision \in Revisions
            BY <3>1 DEF RollbackRequested, TypeOK, Items, Commands, RequestKinds
        <3> QED
            BY <3>1, <3>2 DEF ReportSteps, Kept, RollbackRequested
    <2>3. CASE \E r \in RequestIds, u \in Users : FieldRollbackApproved(r, u)
        <3>1. PICK r \in RequestIds, u \in Users : FieldRollbackApproved(r, u)
            BY <2>3
        <3>2. item.report = "NONE"
            BY <3>1 DEF FieldRollbackApproved, RollbackAllowed, RevisionLedger,
               PhaseOnlyAfterFieldWork
        <3>3. Kept
            BY <3>1 DEF FieldRollbackApproved, Kept, TypeOK, Items
        <3> QED
            BY <3>1, <3>2, <3>3 DEF ReportSteps, FieldRollbackApproved
    <2>4. CASE \E r \in RequestIds, u \in Users : ReportRollbackApproved(r, u)
        BY <2>4 DEF ReportSteps
    <2>5. CASE \E r \in RequestIds, u \in Users : RequestRejected(r, u)
        <3>1. PICK r \in RequestIds, u \in Users : RequestRejected(r, u)
            BY <2>5
        <3>2. requests[r].decisions \cup {"REJECTED"} \in
                  SUBSET {"APPROVED", "REJECTED", "WITHDRAWN"}
            BY DEF TypeOK, RequestRecords
        <3>3. Decided(r)
            BY <3>1, <3>2 DEF RequestRejected, Decided
        <3> QED
            BY <3>1, <3>3 DEF ReportSteps, Kept, RequestRejected
    <2>6. CASE \E r \in RequestIds : RollbackWithdrawn(r)
        <3>1. PICK r \in RequestIds : RollbackWithdrawn(r)
            BY <2>6
        <3>2. Decided(r)
            BY <3>1 DEF RollbackWithdrawn, Decided, RollbackKinds
        <3> QED
            BY <3>1, <3>2 DEF ReportSteps, Kept, RollbackWithdrawn
    <2>7. CASE \E u \in Users : SendCorrectionRequest(u)
        BY <2>7 DEF ReportSteps, Kept, SendCorrectionRequest
    <2>8. CASE \E c \in inflight, r \in RequestIds : ReportCorrectionRequested(c, r)
        <3>1. PICK c \in inflight, r \in RequestIds : ReportCorrectionRequested(c, r)
            BY <2>8
        <3>2. "REPORT_CORRECTION" \in RequestKinds /\ c.by \in Users /\ c.revision \in Revisions
            BY <3>1 DEF ReportCorrectionRequested, TypeOK, Commands, RequestKinds
        <3> QED
            BY <3>1, <3>2 DEF ReportSteps, Kept, ReportCorrectionRequested
    <2>9. CASE \E r \in RequestIds, u \in Users : ReportCorrectionApproved(r, u)
        BY <2>9 DEF ReportSteps
    <2> QED
        BY <1>5, <2>1, <2>2, <2>3, <2>4, <2>5, <2>6, <2>7, <2>8, <2>9 DEF Compensation
<1>6. CASE (\E c \in inflight : Abandoned(c)) \/ UNCHANGED vars
    BY <1>6 DEF ReportSteps, Kept, Abandoned, vars
<1> QED
    BY <1>1, <1>2, <1>3, <1>4, <1>5, <1>6 DEF Next

\* A request is made once, and by somebody.
LEMMA FiledStep == RequestsFiled /\ TypeOK /\ ReportSteps => RequestsFiled'
<1> SUFFICES ASSUME RequestsFiled, TypeOK, ReportSteps PROVE RequestsFiled'
    OBVIOUS
<1>1. CASE UNCHANGED requests
    BY <1>1 DEF RequestsFiled
<1>2. ASSUME NEW r \in RequestIds, NEW kind \in RequestKinds, NEW u \in Users,
             NEW revision \in Revisions, FilesAs(r, kind, u, revision)
      PROVE  RequestsFiled'
    <2>1. kind # "NONE"
        BY DEF RequestKinds, RollbackKinds
    <2>2. [Unfiled EXCEPT !.kind = kind, !.by = u, !.revision = revision].kind = kind
          /\ [Unfiled EXCEPT !.kind = kind, !.by = u, !.revision = revision].by = u
        BY DEF Unfiled
    <2> QED
        BY <1>2, <2>1, <2>2 DEF FilesAs, RequestsFiled, TypeOK
<1>3. ASSUME NEW r \in RequestIds, Decided(r)
      PROVE  RequestsFiled'
    BY <1>3 DEF Decided, RequestsFiled, TypeOK, RequestRecords
<1>4. ASSUME NEW r \in RequestIds, NEW u \in Users, Undecided(r, u), Approved(r, u)
      PROVE  RequestsFiled'
    BY <1>4 DEF Undecided, Approved, RequestsFiled, TypeOK, RequestRecords
<1> QED
    BY <1>1, <1>2, <1>3, <1>4 DEF ReportSteps, ReportArtifactRegistered, ReportRollbackApproved,
       ReportCorrectionApproved

\* An early row has no signatures, a new one none at all.
LEMMA BlankInTurn == InTurn(NewRow("NONE")) /\ InTurn(AbsentRow)
    BY DEF InTurn, NewRow, AbsentRow

LEMMA EnsuredInTurn ==
    ASSUME TypeOK, RevisionLedger, SignedInTurn
    PROVE  \A r \in Revisions : InTurn(EnsuredLedger[r])
    BY EnsuredRow, BlankInTurn DEF SignedInTurn

\* Every signature is given with the phase that asks for it.
LEMMA InTurnStep == TypeOK /\ RevisionLedger /\ SignedInTurn /\ [Next]_vars => SignedInTurn'
<1> SUFFICES ASSUME TypeOK, RevisionLedger, SignedInTurn, [Next]_vars
             PROVE  \A r \in Revisions : InTurn(ledger'[r])
    BY DEF SignedInTurn, InTurn
<1> DEFINE now == EnsuredLedger[item.revision]
<1>1. /\ item.revision \in Revisions
      /\ EnsuredLedger \in [Revisions -> Rows] /\ now \in Rows
      /\ \A r \in Revisions : InTurn(EnsuredLedger[r])
    BY EnsuredRow, EnsuredInTurn
<1>2. CASE UNCHANGED ledger \/ ledger' = EnsuredLedger
    BY <1>1, <1>2 DEF SignedInTurn
<1>3. CASE \E file \in Files : ReportArtifactRegistered(file)
    <2>1. PICK file \in Files : ReportArtifactRegistered(file)
        BY <1>3
    <2>2. InTurn([now EXCEPT !.file = file])
        BY <1>1 DEF InTurn, Rows
    <2>3. ledger' = [EnsuredLedger EXCEPT ![item.revision] = [now EXCEPT !.file = file]]
        BY <2>1 DEF ReportArtifactRegistered
    <2> QED
        BY <1>1, <2>2, <2>3
<1>4. CASE \E phase \in Phases, u \in Users : Advances(phase, u)
    <2>1. PICK phase \in Phases, u \in Users : Advances(phase, u)
        BY <1>4
    <2>2. /\ PhaseRank[phase] = PhaseRank[now.status] + 1 /\ now.status \in Phases
          /\ ledger' = [EnsuredLedger EXCEPT ![item.revision] = AdvancedRow(now, phase, u)]
        BY <1>1, <2>1 DEF Advances, Rows
    <2>3. InTurn(now)
        BY <1>1
    <2>4. InTurn(AdvancedRow(now, phase, u))
        BY <1>1, <2>2, <2>3, PhaseOrder DEF InTurn, AdvancedRow, Rows, Phases
    <2> QED
        BY <1>1, <2>2, <2>4
<1>5. CASE /\ item.revision < MaxRevision
           /\ \E rows \in {ledger, EnsuredLedger}, validity \in {"SUPERSEDED", "VOID"} :
                  ledger' = Reopened(rows, validity)
    <2>1. PICK rows \in {ledger, EnsuredLedger}, validity \in {"SUPERSEDED", "VOID"} :
                   ledger' = Reopened(rows, validity)
        BY <1>5
    <2> DEFINE closed == [rows[item.revision] EXCEPT !.validity = validity]
    <2>2. rows \in [Revisions -> Rows] /\ \A r \in Revisions : InTurn(rows[r])
        BY <1>1 DEF TypeOK, SignedInTurn
    <2>3. InTurn(closed)
        BY <1>1, <2>2 DEF InTurn, Rows
    <2>4. \A r \in Revisions : ledger'[r] \in {rows[r], closed, NewRow("NONE")}
        BY <1>1, <2>1, <2>2 DEF Reopened
    <2> QED
        BY <2>2, <2>3, <2>4, BlankInTurn
<1> QED
    BY <1>2, <1>3, <1>4, <1>5, EveryLedgerWrite DEF LedgerWrites

\* What is shown is the ledger with a new row where the current one is missing.
LEMMA ShownRows ==
    /\ TypeOK /\ RevisionLedger =>
           /\ Shown = EnsuredLedger
           /\ item.revision \in Revisions
    /\ TypeOK' /\ RevisionLedger' =>
           Shown' = IF ledger'[item'.revision] = AbsentRow
                      THEN [ledger' EXCEPT ![item'.revision] = NewRow("NONE")]
                      ELSE ledger'
<1>1. ASSUME TypeOK, RevisionLedger
      PROVE  Shown = EnsuredLedger /\ item.revision \in Revisions
    <2>1. /\ item.revision \in Revisions /\ EnsuredLedger \in [Revisions -> Rows]
          /\ EnsuredLedger[item.revision].status = item.report
        BY <1>1, EnsuredRow
    <2>2. [EnsuredLedger[item.revision] EXCEPT !.status = item.report] = EnsuredLedger[item.revision]
        BY <2>1 DEF Rows
    <2> QED
        BY <2>1, <2>2 DEF Shown
<1>2. ASSUME TypeOK', RevisionLedger'
      PROVE  Shown' = IF ledger'[item'.revision] = AbsentRow
                        THEN [ledger' EXCEPT ![item'.revision] = NewRow("NONE")]
                        ELSE ledger'
    <2> DEFINE row == ledger'[item'.revision]
    <2>1. /\ item'.revision \in Revisions /\ ledger' \in [Revisions -> Rows]
          /\ row \in Rows
          /\ \/ row.validity = "ACTIVE" /\ row.status = item'.report
             \/ row = AbsentRow /\ item'.report = "NONE"
        BY <1>2 DEF TypeOK, Items, RevisionLedger, OneActiveRevision
    <2>2. CASE row = AbsentRow /\ item'.report = "NONE"
        <3>1. EnsuredLedger' = [ledger' EXCEPT ![item'.revision] = NewRow("NONE")]
            BY <2>2 DEF EnsuredLedger, AbsentRow
        <3>2. [NewRow("NONE") EXCEPT !.status = "NONE"] = NewRow("NONE")
            BY DEF NewRow, AbsentRow
        <3> QED
            BY <2>1, <2>2, <3>1, <3>2 DEF Shown
    <2>3. CASE row.validity = "ACTIVE" /\ row.status = item'.report
        <3>1. EnsuredLedger' = ledger'
            BY <2>3 DEF EnsuredLedger
        <3>2. [row EXCEPT !.status = item'.report] = row
            BY <2>1, <2>3 DEF Rows
        <3>3. row # AbsentRow
            BY <2>3 DEF AbsentRow
        <3> QED
            BY <2>1, <3>1, <3>2, <3>3 DEF Shown
    <2> QED
        BY <2>1, <2>2, <2>3
<1> QED
    BY <1>1, <1>2

\* A step that keeps the report keeps what is shown of it.
LEMMA KeptShown ==
    ASSUME TypeOK, RevisionLedger, TypeOK', RevisionLedger', Kept
    PROVE  Shown' = Shown
<1> DEFINE n == item.revision
<1>1. /\ item'.revision = n /\ n \in Revisions
      /\ EnsuredLedger[n].validity = "ACTIVE"
      /\ Shown = EnsuredLedger
    BY EnsuredRow, ShownRows DEF Kept
<1>2. CASE ledger[n] = AbsentRow
    <2>1. AbsentRow.validity = "ABSENT" /\ NewRow("NONE") # AbsentRow
        BY DEF NewRow, AbsentRow
    <2>2. item.report = "NONE"
        BY <1>1, <1>2, <2>1 DEF RevisionLedger, OneActiveRevision
    <2>3. EnsuredLedger = [ledger EXCEPT ![n] = NewRow("NONE")]
        BY <1>2, <2>1, <2>2 DEF EnsuredLedger
    <2>4. EnsuredLedger[n] = NewRow("NONE")
        BY <1>1, <2>3 DEF TypeOK
    <2> QED
        BY <1>1, <1>2, <2>1, <2>3, <2>4, ShownRows DEF Kept
<1>3. CASE ledger[n] # AbsentRow
    <2>1. EnsuredLedger = ledger
        BY <1>1, <1>3 DEF EnsuredLedger, RevisionLedger, OneActiveRevision
    <2> QED
        BY <1>1, <1>3, <2>1, ShownRows DEF Kept
<1> QED
    BY <1>2, <1>3

\* Whoever writes an active current row shows the ledger as it writes it.
LEMMA WrittenShown ==
    ASSUME TypeOK', RevisionLedger', ledger'[item'.revision].validity = "ACTIVE"
    PROVE  Shown' = ledger'
    BY ShownRows DEF AbsentRow

LEMMA AskedTold ==
    ASSUME TypeOK, RequestsFiled, NEW r \in RequestIds, NEW kind \in RequestKinds,
           NEW u \in Users, NEW revision \in Revisions, FilesAs(r, kind, u, revision)
    PROVE  /\ AskedBy[r] = NoOne
           /\ AskedBy' = [AskedBy EXCEPT ![r] = u]
           /\ UNCHANGED <<ApprovedBy, SettledOnes>>
<1> DEFINE filed == [Unfiled EXCEPT !.kind = kind, !.by = u, !.revision = revision]
<1>1. requests[r] = Unfiled /\ requests' = [requests EXCEPT ![r] = filed]
    BY DEF FilesAs, RequestsFiled
<1>2. /\ filed.by = u /\ filed.approvedBy = NoOne /\ filed.decisions = {}
      /\ Unfiled.by = NoOne /\ Unfiled.approvedBy = NoOne /\ Unfiled.decisions = {}
    BY DEF Unfiled
<1> HIDE DEF filed
<1> QED
    BY <1>1, <1>2 DEF AskedBy, ApprovedBy, SettledOnes, TypeOK

LEMMA DecidedTold ==
    ASSUME TypeOK, RequestsFiled, NEW r \in RequestIds, Decided(r)
    PROVE  /\ AskedBy[r] # NoOne
           /\ SettledOnes' = SettledOnes \cup {r}
           /\ UNCHANGED <<AskedBy, ApprovedBy>>
<1>1. PICK decisions \in SUBSET {"APPROVED", "REJECTED", "WITHDRAWN"} :
               decisions # {} /\ requests' = [requests EXCEPT ![r].decisions = decisions]
    BY DEF Decided
<1>2. /\ \A s \in RequestIds : s # r => requests'[s] = requests[s]
      /\ requests'[r].by = requests[r].by /\ requests'[r].approvedBy = requests[r].approvedBy
      /\ requests'[r].decisions # {}
    BY <1>1 DEF TypeOK, RequestRecords
<1>3. requests[r].by # NoOne
    BY NoOneAssumption DEF Decided, RequestsFiled
<1> QED
    BY <1>2, <1>3 DEF AskedBy, ApprovedBy, SettledOnes

LEMMA ApprovedTold ==
    ASSUME TypeOK, RequestsFiled, NEW r \in RequestIds, NEW u \in Users,
           Undecided(r, u), Approved(r, u)
    PROVE  /\ AskedBy[r] \notin {NoOne, u}
           /\ r \notin SettledOnes
           /\ SettledOnes' = SettledOnes \cup {r}
           /\ ApprovedBy' = [ApprovedBy EXCEPT ![r] = u]
           /\ UNCHANGED AskedBy
<1>1. /\ \A s \in RequestIds : s # r => requests'[s] = requests[s]
      /\ requests'[r].by = requests[r].by /\ requests'[r].approvedBy = u
      /\ requests'[r].decisions # {}
    BY DEF Approved, TypeOK, RequestRecords
<1>2. requests[r].by \notin {NoOne, u} /\ requests[r].decisions = {}
    BY NoOneAssumption DEF Undecided, RequestsFiled
<1> QED
    BY <1>1, <1>2 DEF AskedBy, ApprovedBy, SettledOnes

LEMMA SameRequests ==
    ASSUME UNCHANGED requests PROVE UNCHANGED <<AskedBy, ApprovedBy, SettledOnes>>
    BY DEF AskedBy, ApprovedBy, SettledOnes

\* A file is registered (RegisterReportArtifact).
LEMMA FiledInRegister ==
    ASSUME RegisterInv, TypeOK', RevisionLedger', NEW file \in Files,
           ReportArtifactRegistered(file)
    PROVE  Register!Filed(file)
<1> DEFINE n == item.revision
<1>1. /\ n \in Revisions /\ item'.revision = n
      /\ Shown = EnsuredLedger /\ EnsuredLedger \in [Revisions -> Rows]
      /\ EnsuredLedger[n].validity = "ACTIVE" /\ EnsuredLedger[n].status = item.report
      /\ ledger' = [EnsuredLedger EXCEPT ![n].file = file]
    BY EnsuredRow, ShownRows DEF RegisterInv, ReportArtifactRegistered
<1>2. ledger'[n].validity = "ACTIVE"
    BY <1>1 DEF Rows
<1>3. Shown' = [Shown EXCEPT ![n].file = file]
    BY <1>1, <1>2, WrittenShown
<1>4. Shown[n].status \in {"NONE", "COMPILING"}
    BY <1>1 DEF ReportArtifactRegistered
<1>5. UNCHANGED <<AskedBy, ApprovedBy, SettledOnes>>
    BY SameRequests DEF ReportArtifactRegistered
<1> QED
    BY <1>1, <1>3, <1>4, <1>5 DEF Register!Filed, Register!Writes, Register!Now,
       AskedBy, ApprovedBy, SettledOnes

\* The next phase is taken (advanceReportRevision).
LEMMA AdvanceInRegister ==
    ASSUME RegisterInv, TypeOK', RevisionLedger', NEW phase \in Phases, NEW u \in Users,
           Advances(phase, u)
    PROVE  Register!Worked
<1> DEFINE n == item.revision
           now == Shown[n]
           signers == {now.preparedBy, now.reviewedBy, now.issuedBy}
<1>1. /\ n \in Revisions /\ item'.revision = n
      /\ Shown = EnsuredLedger /\ Shown \in [Revisions -> Rows] /\ now \in Rows
      /\ now.validity = "ACTIVE"
      /\ PhaseRank[phase] = PhaseRank[now.status] + 1 /\ now.status \in Phases
      /\ MayAdvance(now, phase, u)
      /\ ledger' = [Shown EXCEPT ![n] = AdvancedRow(now, phase, u)]
    BY EnsuredRow, ShownRows DEF RegisterInv, Advances, TypeOK, Items
<1>2. ledger'[n].validity = "ACTIVE"
    BY <1>1 DEF Rows, AdvancedRow
<1>3. Shown' = [Shown EXCEPT ![n] = AdvancedRow(now, phase, u)]
    BY <1>1, <1>2, WrittenShown
<1>4. InTurn(now) /\ SignedProperly(now) /\ u # NoOne
    <2>1. \A r \in Revisions : SignedProperly(ledger[r])
        BY DutiesByRow DEF RegisterInv, TypeOK
    <2> QED
        BY <1>1, <2>1, EnsuredInTurn, EnsuredSigned, NoOneAssumption DEF RegisterInv
<1>5. UNCHANGED <<AskedBy, ApprovedBy, SettledOnes>> /\ item'.revision = item.revision
    BY <1>1, SameRequests DEF Advances
<1>6. \A row : Shown' = [Shown EXCEPT ![n] = row] => Register!Writes(row)
    BY <1>5 DEF Register!Writes, AskedBy, ApprovedBy, SettledOnes
<1>7. Register!Now = now /\ Register!Signers = signers
    BY DEF Register!Now, Register!Signers
<1> HIDE DEF now
<1>8. CASE phase = "RECTIFYING"
    <2>1. now.status = "NONE"
        BY <1>1, <1>8, PhaseOrder DEF Phases
    <2>2. AdvancedRow(now, phase, u) = [now EXCEPT !.status = "RECTIFYING"]
        BY <1>1, <1>8 DEF AdvancedRow, Rows
    <2>3. Register!Started
        BY <1>3, <1>6, <1>7, <2>1, <2>2 DEF Register!Started
    <2> QED
        BY <2>3 DEF Register!Worked
<1>9. CASE phase = "COMPILING"
    <2>1. now.status = "RECTIFYING"
        BY <1>1, <1>9, PhaseOrder DEF Phases
    <2>2. AdvancedRow(now, phase, u) = [now EXCEPT !.status = "COMPILING", !.preparedBy = u]
        BY <1>1, <1>9 DEF AdvancedRow, Rows
    <2>3. signers = {NoOne}
        BY <1>4, <2>1 DEF InTurn
    <2>4. Register!Prepared(u)
        BY <1>3, <1>6, <1>7, <2>1, <2>2, <2>3 DEF Register!Prepared
    <2> QED
        BY <2>4 DEF Register!Worked
<1>10. CASE phase = "REVIEWED"
    <2>1. now.status = "COMPILING"
        BY <1>1, <1>10, PhaseOrder DEF Phases
    <2>2. AdvancedRow(now, phase, u) = [now EXCEPT !.status = "REVIEWED", !.reviewedBy = u]
        BY <1>1, <1>10 DEF AdvancedRow, Rows
    <2>3. now.file # NoFile /\ now.reviewedBy = NoOne /\ u \notin signers
        BY <1>1, <1>4, <1>10, <2>1 DEF InTurn, MayAdvance
    <2>4. Register!Reviewed(u)
        BY <1>3, <1>6, <1>7, <2>1, <2>2, <2>3 DEF Register!Reviewed
    <2> QED
        BY <2>4 DEF Register!Worked
<1>11. CASE phase = "ISSUED"
    <2>1. now.status = "REVIEWED"
        BY <1>1, <1>11, PhaseOrder DEF Phases
    <2>2. AdvancedRow(now, phase, u) = [now EXCEPT !.status = "ISSUED", !.issuedBy = u]
        BY <1>1, <1>11 DEF AdvancedRow, Rows
    <2>3. now.issuedBy = NoOne /\ u \notin signers
        BY <1>1, <1>4, <1>11, <2>1 DEF InTurn, MayAdvance
    <2>4. Register!Issued(u)
        BY <1>3, <1>6, <1>7, <2>1, <2>2, <2>3 DEF Register!Issued
    <2> QED
        BY <2>4 DEF Register!Worked
<1>12. CASE phase = "ARCHIVED"
    <2>1. now.status = "ISSUED"
        BY <1>1, <1>12, PhaseOrder DEF Phases
    <2>2. AdvancedRow(now, phase, u) = [now EXCEPT !.status = "ARCHIVED"]
        BY <1>1, <1>12 DEF AdvancedRow, Rows
    <2>3. NoOne \notin signers
        BY <1>4, <2>1 DEF SignedProperly
    <2>4. Register!Archived
        BY <1>3, <1>6, <1>7, <2>1, <2>2, <2>3 DEF Register!Archived
    <2> QED
        BY <2>4 DEF Register!Worked
<1>13. phase # "NONE"
    BY <1>1, PhaseOrder
<1> QED
    BY <1>8, <1>9, <1>10, <1>11, <1>12, <1>13 DEF Phases

LEMMA BlankRow ==
    /\ NewRow("NONE") = Register!Blank
    /\ AbsentRow = [Register!Blank EXCEPT !.validity = "ABSENT"]
    /\ Register!Blank.validity = "ACTIVE"
<1> DEFINE blank == [validity |-> "ACTIVE", status |-> "NONE", preparedBy |-> NoOne,
                     reviewedBy |-> NoOne, issuedBy |-> NoOne, file |-> NoFile]
<1>1. Register!Blank = blank
    BY Zenon DEF Register!Blank
<1>2. NewRow("NONE") = blank
    <2>1. [AbsentRow EXCEPT !.validity = "ACTIVE"] = blank
        BY SMT DEF AbsentRow
    <2>2. [blank EXCEPT !.status = "NONE"] = blank
        BY SMT
    <2>3. NewRow("NONE") = [[AbsentRow EXCEPT !.validity = "ACTIVE"] EXCEPT !.status = "NONE"]
        BY Zenon DEF NewRow
    <2> QED
        BY <2>1, <2>2, <2>3
<1>3. AbsentRow = [blank EXCEPT !.validity = "ABSENT"]
    BY SMT DEF AbsentRow
<1> QED
    BY <1>1, <1>2, <1>3

\* The report is replaced (invalidateAndCreateReportRevision): a rework of one that was not
\* issued supersedes it, a correction of one that was makes it void.
LEMMA ReplacedInRegister ==
    ASSUME RegisterInv, TypeOK', RevisionLedger', NEW r \in RequestIds, NEW u \in Users,
           ReportRollbackApproved(r, u) \/ ReportCorrectionApproved(r, u)
    PROVE  Register!Replaced(r, u)
<1> DEFINE n == item.revision
           issued == {"ISSUED", "ARCHIVED"}
           fate == IF item.report \in issued THEN "VOID" ELSE "SUPERSEDED"
<1>1. /\ n \in Revisions /\ n + 1 \in Revisions /\ n + 1 # n
      /\ n < MaxRevision /\ item'.revision = n + 1
      /\ Shown = EnsuredLedger /\ Shown \in [Revisions -> Rows]
      /\ Shown[n].status = item.report
    <2>1. item \in Items /\ n \in Revisions /\ n \in Nat
        BY BoundsAssumption DEF RegisterInv, TypeOK, Items, Revisions
    <2>2. n < MaxRevision /\ item'.revision = n + 1
        BY <2>1 DEF ReportRollbackApproved, ReportCorrectionApproved, Items
    <2>3. n + 1 \in Revisions
        BY <2>1, <2>2, BoundsAssumption DEF Revisions
    <2> QED
        BY <2>1, <2>2, <2>3, EnsuredRow, ShownRows DEF RegisterInv
<1>2. item.report # "NONE" /\ ledger' = Reopened(Shown, fate)
    <2>1. CASE ReportRollbackApproved(r, u)
        <3>1. item.report \in {"RECTIFYING", "COMPILING", "REVIEWED"}
            BY <2>1 DEF ReportRollbackApproved, RollbackAllowed
        <3>2. Shown = ledger
            BY <1>1, <3>1, EnsuredRow DEF RegisterInv
        <3> QED
            BY <2>1, <3>1, <3>2 DEF ReportRollbackApproved
    <2>2. CASE ReportCorrectionApproved(r, u)
        <3>1. item.report \in issued
            BY <2>2 DEF ReportCorrectionApproved, Correctable
        <3> QED
            BY <1>1, <2>2, <3>1 DEF ReportCorrectionApproved
    <2> QED
        BY <2>1, <2>2
<1>3. ledger' = [Shown EXCEPT ![n].validity = fate, ![n + 1] = Register!Blank]
    BY <1>2, BlankRow DEF Reopened
<1>4. ledger'[n + 1].validity = "ACTIVE"
    BY <1>1, <1>3, BlankRow
<1>5. Shown' = ledger'
    BY <1>1, <1>4, WrittenShown
<1>6. Undecided(r, u) /\ Approved(r, u)
    BY DEF ReportRollbackApproved, ReportCorrectionApproved
<1>7. Register!Approves(r, u)
    BY <1>6, ApprovedTold DEF RegisterInv, Register!Approves, AskedBy, ApprovedBy, SettledOnes
<1> QED
    BY <1>1, <1>2, <1>3, <1>5, <1>7 DEF Register!Replaced, Register!Now

\* Every step is a step of the register or none at all.
LEMMA StepOfRegister ==
    ASSUME RegisterInv, TypeOK', RevisionLedger', [Next]_vars
    PROVE  \/ Register!Next
           \/ /\ item'.revision = item.revision
              /\ UNCHANGED <<Shown, AskedBy, ApprovedBy, SettledOnes>>
<1>1. ReportSteps
    BY EveryReportStep DEF RegisterInv
<1>2. Kept => Shown' = Shown /\ item'.revision = item.revision
    BY KeptShown DEF RegisterInv, Kept
<1>3. CASE Kept /\ UNCHANGED requests
    BY <1>2, <1>3, SameRequests
<1>4. CASE Kept /\ \E r \in RequestIds, kind \in RequestKinds, u \in Users,
                      revision \in Revisions : FilesAs(r, kind, u, revision)
    <2>1. PICK r \in RequestIds, kind \in RequestKinds, u \in Users, revision \in Revisions :
                   FilesAs(r, kind, u, revision)
        BY <1>4
    <2>2. Register!Asked(r, u)
        BY <1>2, <1>4, <2>1, AskedTold
        DEF RegisterInv, Register!Asked, AskedBy, ApprovedBy, SettledOnes
    <2> QED
        BY <2>2 DEF Register!Next
<1>5. CASE Kept /\ \E r \in RequestIds : Decided(r)
    <2>1. PICK r \in RequestIds : Decided(r)
        BY <1>5
    <2>2. Register!Settled(r)
        BY <1>2, <1>5, <2>1, DecidedTold
        DEF RegisterInv, Register!Settled, AskedBy, ApprovedBy, SettledOnes
    <2> QED
        BY <2>2 DEF Register!Next
<1>6. CASE Kept /\ \E r \in RequestIds, u \in Users :
                      Undecided(r, u) /\ Approved(r, u) /\ item.report = "NONE"
    <2>1. PICK r \in RequestIds, u \in Users :
                   Undecided(r, u) /\ Approved(r, u) /\ item.report = "NONE"
        BY <1>6
    <2>2. Register!Approves(r, u)
        BY <2>1, ApprovedTold
        DEF RegisterInv, Register!Approves, AskedBy, ApprovedBy, SettledOnes
    <2>3. Shown[item.revision].status = "NONE"
        BY <2>1, EnsuredRow, ShownRows DEF RegisterInv
    <2>4. Register!OtherUndone(r, u)
        BY <1>2, <1>6, <2>2, <2>3 DEF Register!OtherUndone, Register!Now
    <2> QED
        BY <2>4 DEF Register!Next
<1>7. CASE \E file \in Files : ReportArtifactRegistered(file)
    BY <1>7, FiledInRegister DEF Register!Next, Register!Worked
<1>8. CASE UNCHANGED requests /\ \E phase \in Phases, u \in Users : Advances(phase, u)
    BY <1>8, AdvanceInRegister DEF Register!Next
<1>9. CASE \E r \in RequestIds, u \in Users :
               ReportRollbackApproved(r, u) \/ ReportCorrectionApproved(r, u)
    BY <1>9, ReplacedInRegister DEF Register!Next
<1> QED
    BY <1>1, <1>3, <1>4, <1>5, <1>6, <1>7, <1>8, <1>9 DEF ReportSteps

LEMMA RegisterInvInit == Init => RegisterInv
<1>1. Init => DutiesSeparated /\ RevisionLedger
    BY PhaseOrder, BoundsAssumption DEF Init, DutiesSeparated, AbsentRow, RevisionLedger,
       OneActiveRevision, PhaseOnlyAfterFieldWork, Unconfirmed, Revisions
<1>2. Init => SignedInTurn /\ RequestsFiled
    BY BlankInTurn DEF Init, SignedInTurn, RequestsFiled, Unfiled
<1> QED
    BY <1>1, <1>2, TypeInit DEF RegisterInv

LEMMA RegisterInvStep == RegisterInv /\ [Next]_vars => RegisterInv'
    BY TypeStep, LedgerStep, DutiesStep, InTurnStep, FiledStep, EveryReportStep DEF RegisterInv

\* Whatever the number of people, files, revisions, requests and commands in flight, the
\* report of an item implements the register.
THEOREM Implementation == Spec => ImplementsRegister
<1>1. Init => Register!Init
    <2> SUFFICES ASSUME Init PROVE Register!Init
        OBVIOUS
    <2>1. /\ ledger = [r \in Revisions |-> AbsentRow]
          /\ item.revision = 0 /\ item.report = "NONE" /\ 0 \in Revisions
        BY BoundsAssumption DEF Init, Revisions
    <2>2. EnsuredLedger = [ledger EXCEPT ![0] = NewRow("NONE")]
        BY <2>1 DEF EnsuredLedger, AbsentRow
    <2>3. Shown = [r \in Revisions |-> IF r = 0 THEN NewRow("NONE") ELSE AbsentRow]
        BY <2>1, <2>2 DEF Shown, NewRow, AbsentRow
    <2>4. /\ AskedBy = [r \in RequestIds |-> NoOne]
          /\ ApprovedBy = [r \in RequestIds |-> NoOne]
          /\ SettledOnes = {}
        BY DEF Init, Unfiled, AskedBy, ApprovedBy, SettledOnes
    <2> QED
        BY <2>1, <2>3, <2>4, BlankRow DEF Register!Init, AskedBy, ApprovedBy, SettledOnes
<1>2. RegisterInv /\ [Next]_vars => [Register!Next]_(Register!register)
    <2> SUFFICES ASSUME RegisterInv, [Next]_vars PROVE [Register!Next]_(Register!register)
        OBVIOUS
    <2>1. TypeOK' /\ RevisionLedger'
        BY RegisterInvStep DEF RegisterInv
    <2> QED
        BY <2>1, StepOfRegister DEF Register!register, AskedBy, ApprovedBy, SettledOnes
<1> QED
    BY <1>1, <1>2, RegisterInvInit, RegisterInvStep, PTL
    DEF Spec, ImplementsRegister, Register!Spec

=============================================================================
