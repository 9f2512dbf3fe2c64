------------------------- MODULE PenetrationPackage -------------------------
(***************************************************************************)
(* The penetration test inside an equal-protection service item: a work    *)
(* package with a decision, a plan, an execution and a report of its own.  *)
(* Each command is checked outside the transaction, then applied under the *)
(* lock of the package if nobody changed it since it was read; the parent  *)
(* looks at the package before it completes its field work and before it   *)
(* issues and archives its report.                                         *)
(***************************************************************************)
EXTENDS Integers

CONSTANTS
    Staff,        \* people who write, review and issue
    Managers,     \* those of them who manage service items
    Testers,      \* those of them who are qualified for the test
    Demands,      \* commands that can be under way together
    Nobody

ASSUME StaffAssumption ==
    Nobody \notin Staff /\ Managers \subseteq Staff /\ Testers \subseteq Staff

VARIABLES
    chief,        \* project_manager_id of the parent service item
    parent,       \* how far the parent is with its field work and its report
    pack,         \* pm_penetration_work_package
    sheet,        \* pm_report_revision of the package
    demand        \* the command of each client

penetrationVars == <<chief, parent, pack, sheet, demand>>

NoPack == [decision |-> "NONE", execution |-> "NONE", report |-> "NONE", tester |-> Nobody]
NewPack == [decision |-> "PENDING", execution |-> "NOT_STARTED", report |-> "NONE",
            tester |-> Nobody]
NoSheet == [status |-> "NONE", file |-> FALSE, prepared |-> Nobody, reviewed |-> Nobody,
            issued |-> Nobody]
NoDemand == [kind |-> "none"]

\* The report of the package goes through these phases, one after the other.
NextPhase == [NONE |-> "DRAFTING", DRAFTING |-> "SUBMITTED", SUBMITTED |-> "APPROVED",
              APPROVED |-> "ISSUED", ISSUED |-> "ARCHIVED", ARCHIVED |-> "-"]
ReportKinds == {"DRAFTING", "SUBMITTED", "APPROVED", "ISSUED", "ARCHIVED"}

\* A manager assigned before there were packages has none for the item.
PenetrationInit ==
    /\ chief \in {Nobody} \cup Managers
    /\ parent = "FIELD"
    /\ pack = NoPack
    /\ sheet = NoSheet
    /\ demand = [d \in Demands |-> NoDemand]

-----------------------------------------------------------------------------
(* The parent *)

\* ensureEmbeddedPenetrationPackage: made once, with the first manager; a later
\* manager finds it there, whatever it has come to.
PackEnsured == pack' = IF pack = NoPack THEN NewPack ELSE pack

ManagerAssigned(p) ==
    /\ parent = "FIELD"
    /\ chief' = p
    /\ PackEnsured
    /\ UNCHANGED <<parent, sheet, demand>>

\* EnsurePenetrationWorkPackage: the manager asks for the package of an older item.
PackageAsked ==
    /\ chief # Nobody
    /\ PackEnsured
    /\ UNCHANGED <<chief, parent, sheet, demand>>

FieldGate == \/ pack.decision = "NOT_REQUIRED"
             \/ (pack.decision = "REQUIRED" /\ pack.execution = "COMPLETED")
ReportGate(phase) == \/ pack.decision = "NOT_REQUIRED"
                     \/ (phase = "ISSUED" /\ pack.report = "ISSUED")
                     \/ pack.report = "ARCHIVED"

ParentFieldCompleted ==
    /\ parent = "FIELD" /\ FieldGate
    /\ parent' = "COMPLETED"
    /\ UNCHANGED <<chief, pack, sheet, demand>>

ParentReport(phase) ==
    /\ parent = (IF phase = "ISSUED" THEN "COMPLETED" ELSE "ISSUED")
    /\ ReportGate(phase)
    /\ parent' = phase
    /\ UNCHANGED <<chief, pack, sheet, demand>>

\* A correction or a rollback takes the parent back and leaves the package alone.
ParentReopened ==
    /\ parent # "FIELD"
    /\ \/ parent' = "COMPLETED"
       \/ parent = "COMPLETED" /\ parent' = "FIELD"
    /\ UNCHANGED <<chief, pack, sheet, demand>>

-----------------------------------------------------------------------------
(* The check outside the transaction *)

\* A command under a new key.  One that was read earlier than here would be refused
\* by its version later on.
Opened(d, kind, p, tester) ==
    /\ demand[d] = NoDemand
    /\ pack # NoPack
    /\ demand' = [demand EXCEPT ![d] = [kind |-> kind, actor |-> p, tester |-> tester,
                                        fresh |-> TRUE, recorded |-> FALSE]]
    /\ UNCHANGED <<chief, parent, pack, sheet>>

\* requireProjectManager: the manager of the parent as it was read, if it has one.
RequiresManager(p) == chief # Nobody /\ p = chief

Qualified(p) == p \in Testers

DecisionOpen == pack.execution \notin {"IN_PROGRESS", "COMPLETED"} /\ pack.report = "NONE"

\* Whether the decision was taken before does not matter, with a reason for the change.
DecisionDemanded(d, kind, p) ==
    /\ RequiresManager(p)
    /\ DecisionOpen
    /\ Opened(d, kind, p, Nobody)

\* The texts, the times and the conflicts with other work may refuse any plan.
PlanDemanded(d, p, tester) ==
    /\ RequiresManager(p)
    /\ Qualified(tester)
    /\ Opened(d, "PLAN", p, tester)

ExecutionDemanded(d, kind, p) ==
    /\ p = pack.tester
    /\ kind = "START" => Qualified(pack.tester)
    /\ Opened(d, kind, p, Nobody)

CancellationDemanded(d, p) ==
    /\ RequiresManager(p)
    /\ Opened(d, "CANCEL", p, Nobody)

\* Roles alone: the phase is compared under the lock.
ReportDemanded(d, phase, p) == Opened(d, phase, p, Nobody)

\* The file itself was verified before.
ArtifactDemanded(d, p) == Opened(d, "ARTIFACT", p, Nobody)

-----------------------------------------------------------------------------
(* The transaction *)

\* Mutant: the version of the package is not compared.
UnchangedOrNot(d) == ~demand[d].recorded

\* mutatePenetrationPackage: the key is unknown and the version is the expected one.
Unchanged(d) == ~demand[d].recorded /\ demand[d].fresh

\* The event with the key is written and the version of the package rises.
Recorded(d) ==
    demand' = [e \in Demands |->
                 IF e = d THEN [demand[d] EXCEPT !.recorded = TRUE, !.fresh = FALSE]
                 ELSE IF demand[e] = NoDemand THEN NoDemand
                 ELSE [demand[e] EXCEPT !.fresh = FALSE]]

DecisionSaved(d) ==
    /\ demand[d].kind \in {"REQUIRED", "NOT_REQUIRED"} /\ Unchanged(d)
    /\ pack' = IF demand[d].kind = "NOT_REQUIRED"
               THEN [decision |-> "NOT_REQUIRED", execution |-> "CANCELLED", report |-> "NONE",
                     tester |-> Nobody]
               ELSE IF pack.decision = "NOT_REQUIRED"
               THEN [pack EXCEPT !.decision = "REQUIRED", !.execution = "NOT_STARTED",
                                 !.report = "NONE"]
               ELSE [pack EXCEPT !.decision = "REQUIRED"]
    /\ Recorded(d)
    /\ UNCHANGED <<chief, parent, sheet>>

PlanSaved(d) ==
    /\ demand[d].kind = "PLAN" /\ Unchanged(d)
    /\ pack.decision = "REQUIRED" /\ pack.execution \in {"NOT_STARTED", "CANCELLED"}
    /\ pack' = [pack EXCEPT !.tester = demand[d].tester, !.execution = "NOT_STARTED"]
    /\ Recorded(d)
    /\ UNCHANGED <<chief, parent, sheet>>

ExecutionStarted(d) ==
    /\ demand[d].kind = "START" /\ Unchanged(d)
    /\ pack.decision = "REQUIRED" /\ pack.execution = "NOT_STARTED" /\ pack.tester # Nobody
    /\ pack' = [pack EXCEPT !.execution = "IN_PROGRESS"]
    /\ Recorded(d)
    /\ UNCHANGED <<chief, parent, sheet>>

ExecutionCompleted(d) ==
    /\ demand[d].kind = "COMPLETE" /\ Unchanged(d)
    /\ pack.execution = "IN_PROGRESS"
    /\ pack' = [pack EXCEPT !.execution = "COMPLETED"]
    /\ Recorded(d)
    /\ UNCHANGED <<chief, parent, sheet>>

\* A cancelled package keeps its plan.
ExecutionCancelled(d) ==
    /\ demand[d].kind = "CANCEL" /\ Unchanged(d)
    /\ pack.execution # "COMPLETED" /\ pack.report = "NONE"
    /\ pack' = [pack EXCEPT !.decision = "NOT_REQUIRED", !.execution = "CANCELLED"]
    /\ Recorded(d)
    /\ UNCHANGED <<chief, parent, sheet>>

\* What the ledger asks for before the report enters a phase.
Separate(phase, p) ==
    /\ phase = "SUBMITTED" => sheet.prepared # Nobody /\ sheet.file
    /\ phase = "APPROVED" => sheet.prepared \notin {Nobody, p}
    /\ phase = "ISSUED" => sheet.reviewed # Nobody /\ p \notin {sheet.prepared, sheet.reviewed}
    /\ phase = "ARCHIVED" => sheet.issued # Nobody

Signed(phase, p) ==
    [sheet EXCEPT !.status = phase,
                  !.prepared = IF phase = "DRAFTING" THEN p ELSE @,
                  !.reviewed = IF phase = "APPROVED" THEN p ELSE @,
                  !.issued = IF phase = "ISSUED" THEN p ELSE @]

ReportAdvanced(d) ==
    LET phase == demand[d].kind
    IN  /\ phase \in ReportKinds /\ Unchanged(d)
        /\ pack.execution = "COMPLETED"
        /\ phase = NextPhase[pack.report]
        /\ Separate(phase, demand[d].actor)
        /\ sheet' = Signed(phase, demand[d].actor)
        /\ pack' = [pack EXCEPT !.report = phase]
        /\ Recorded(d)
        /\ UNCHANGED <<chief, parent>>

ArtifactRegistered(d) ==
    /\ demand[d].kind = "ARTIFACT" /\ Unchanged(d)
    /\ pack.report = "DRAFTING" /\ sheet.status = "DRAFTING"
    /\ sheet' = [sheet EXCEPT !.file = TRUE]
    /\ Recorded(d)
    /\ UNCHANGED <<chief, parent, pack>>

\* Refused, rolled back, or answered: the client lets the command go.  Sent again under
\* the same key, a recorded command is answered and changes nothing.
DemandEnded(d) ==
    /\ demand[d] # NoDemand
    /\ demand' = [demand EXCEPT ![d] = NoDemand]
    /\ UNCHANGED <<chief, parent, pack, sheet>>

-----------------------------------------------------------------------------

PenetrationNext ==
    \/ \E p \in Managers : ManagerAssigned(p)
    \/ PackageAsked
    \/ ParentFieldCompleted \/ ParentReopened
    \/ \E phase \in {"ISSUED", "ARCHIVED"} : ParentReport(phase)
    \/ \E d \in Demands :
         \/ \E p \in Staff :
              \/ \E kind \in {"REQUIRED", "NOT_REQUIRED"} : DecisionDemanded(d, kind, p)
              \/ \E tester \in Staff : PlanDemanded(d, p, tester)
              \/ \E kind \in {"START", "COMPLETE"} : ExecutionDemanded(d, kind, p)
              \/ CancellationDemanded(d, p)
              \/ \E phase \in ReportKinds : ReportDemanded(d, phase, p)
              \/ ArtifactDemanded(d, p)
         \/ DecisionSaved(d) \/ PlanSaved(d) \/ ExecutionStarted(d) \/ ExecutionCompleted(d)
         \/ ExecutionCancelled(d) \/ ReportAdvanced(d) \/ ArtifactRegistered(d)
         \/ DemandEnded(d)

PenetrationSpec == PenetrationInit /\ [][PenetrationNext]_penetrationVars

-----------------------------------------------------------------------------
(* Properties *)

\* A report of the specialist work never outlives its ground: while there is one, the
\* test is required and completed, the ledger is in the phase of the package, and once
\* it is issued three people have answered for it.  The decision is checked before the
\* transaction that writes it (SavePenetrationDecision), so only the version keeps a
\* late "not required" from a package that has been started meanwhile.
ReportRestsOnDecision ==
    /\ pack.report = sheet.status
    /\ pack.report # "NONE" => pack.decision = "REQUIRED" /\ pack.execution = "COMPLETED"
    /\ pack.execution = "IN_PROGRESS" => pack.decision = "REQUIRED"
    /\ pack.report \in {"ISSUED", "ARCHIVED"} =>
         /\ sheet.file
         /\ Nobody \notin {sheet.prepared, sheet.reviewed, sheet.issued}
         /\ sheet.prepared # sheet.reviewed
         /\ sheet.issued \notin {sheet.prepared, sheet.reviewed}
=============================================================================
