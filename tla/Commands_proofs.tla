--------------------------- MODULE Commands_proofs ---------------------------
(***************************************************************************)
(* Proofs about commands that are looked at first and carried out later:   *)
(* confirmations of imports, work on the penetration package, transfers of *)
(* responsibilities, changes of a project's scope, filings of contracts,   *)
(* upgrades of the background runtime.  Each rests on one fact: what was   *)
(* found is still so while the key, the version, the lock or the operation *)
(* it was found under is the same.  For any number of clients, keys,       *)
(* records and people.                                                     *)
(***************************************************************************)
EXTENDS ImportConfirmation, PenetrationPackage, Handover, ProjectScope, ContractIdentity,
        BackgroundControl, FiniteSetTheorems, TLAPS

-----------------------------------------------------------------------------
(* Imports: the inductive invariant *)

ImportSteps == {"writing", "registered", "replay", "imported", "failed", "conflict"}

AskedType == {NotAsked} \cup
             [step : ImportSteps, key : ImportKeys, request : Requests, done : Nat]

ImportTypeOK == /\ written \in [ImportKeys -> [Records -> Nat]]
                /\ ledger \in [ImportKeys -> Requests \cup {NoImport}]
                /\ asked \in [Importers -> AskedType]

\* A ledger row that waits to be committed is the only one of its key.
FirstOfItsKey == \A c \in Importers : At(c, "registered") =>
                   /\ ledger[asked[c].key] = NoImport
                   /\ \A d \in Importers : At(d, "registered") /\ asked[d].key = asked[c].key
                                             => c = d

ImportInv == ImportTypeOK /\ FirstOfItsKey /\ ImportedOncePerKey

\* How often a request names a record is a number.
LEMMA TimesIsNumber ==
    ASSUME NEW request \in Requests, NEW r \in Records
    PROVE  Times(request, r) \in Nat
  <1>1. PICK n \in Nat : DOMAIN request = 1..n
    BY RequestsAssumption
  <1>2. IsFiniteSet(DOMAIN request)
    BY <1>1, FS_Interval
  <1>3. {m \in DOMAIN request : request[m].record = r} \in SUBSET DOMAIN request
    OBVIOUS
  <1> QED
    BY <1>2, <1>3, FS_Subset, FS_CardinalityType DEF Times

\* A client that has asked for an import is in one of its steps.
LEMMA HasAsked ==
    ASSUME ImportTypeOK, NEW c \in Importers, asked[c].step \in ImportSteps
    PROVE  asked[c] \in [step : ImportSteps, key : ImportKeys, request : Requests, done : Nat]
  BY DEF ImportTypeOK, AskedType, NotAsked, ImportSteps

\* Steps of a client that write nothing: its own state changes, and to what.
LEMMA AskedMoves ==
    ASSUME ImportTypeOK, NEW c \in Importers, asked[c].step \in ImportSteps,
           NEW s \in ImportSteps, Goes(c, s)
    PROVE  /\ asked' \in [Importers -> AskedType]
           /\ asked'[c].step = s /\ asked'[c].key = asked[c].key
           /\ asked'[c].request = asked[c].request
           /\ \A d \in Importers \ {c} : asked'[d] = asked[d]
  <1> DEFINE next == [asked[c] EXCEPT !.step = s]
  <1>1. next \in [step : ImportSteps, key : ImportKeys, request : Requests, done : Nat]
    BY HasAsked
  <1>2. next.step = s /\ next.key = asked[c].key /\ next.request = asked[c].request
    BY HasAsked
  <1>3. asked' = [asked EXCEPT ![c] = next]
    BY DEF Goes
  <1> HIDE DEF next
  <1> QED
    BY <1>1, <1>2, <1>3 DEF ImportTypeOK, AskedType

\* The types hold in the first state, and every step keeps them.
LEMMA ImportStarts == ImportInit => ImportInv
  BY NoImportAssumption DEF ImportInit, ImportInv, ImportTypeOK, FirstOfItsKey,
     ImportedOncePerKey, AskedType, NotAsked, At

\* A step that writes nothing and takes a client to a state that is neither "registered"
\* nor "imported", or leaves it where it is.
LEMMA NothingImported ==
    ASSUME ImportInv, UNCHANGED <<known, written, ledger>>,
           asked' \in [Importers -> AskedType],
           NEW c \in Importers, \A d \in Importers \ {c} : asked'[d] = asked[d],
           asked'[c].step \notin {"registered", "imported"}
    PROVE  ImportInv'
  BY DEF ImportInv, ImportTypeOK, FirstOfItsKey, ImportedOncePerKey, At

\* The commit: the key was free, so nobody else's is touched and the rows are the first
\* under it.
LEMMA CommittedOnce ==
    ASSUME ImportInv, NEW c \in Importers, ImportCommitted(c)
    PROVE  ImportInv'
  <1> DEFINE key == asked[c].key
             request == asked[c].request
  <1>1. /\ ImportTypeOK /\ At(c, "registered")
        /\ asked[c] \in [step : ImportSteps, key : ImportKeys, request : Requests, done : Nat]
    BY HasAsked DEF ImportInv, ImportCommitted, At, ImportSteps
  <1>2. key \in ImportKeys /\ request \in Requests /\ request # NoImport
    BY <1>1, NoImportAssumption
  <1>3. ledger[key] = NoImport /\ \A r \in Records : written[key][r] = 0
    BY <1>1, <1>2 DEF ImportInv, FirstOfItsKey, ImportedOncePerKey
  <1>4. /\ written' = [written EXCEPT ![key] = [r \in Records |-> @[r] + Times(request, r)]]
        /\ ledger' = [ledger EXCEPT ![key] = request]
    BY DEF ImportCommitted
  <1>5. /\ asked' \in [Importers -> AskedType] /\ asked'[c].step = "imported"
        /\ asked'[c].key = key /\ asked'[c].request = request
        /\ \A d \in Importers \ {c} : asked'[d] = asked[d]
    BY <1>1, AskedMoves DEF ImportCommitted, At, ImportSteps
  <1>6. \A r \in Records : written'[key][r] = Times(request, r) /\ Times(request, r) \in Nat
    <2>1. \A r \in Records : Times(request, r) \in Nat /\ 0 + Times(request, r) = Times(request, r)
      BY <1>2, TimesIsNumber
    <2>2. \A r \in Records : written'[key][r] = 0 + Times(request, r)
      BY <1>1, <1>2, <1>3, <1>4 DEF ImportTypeOK
    <2> QED
      BY <2>1, <2>2, Zenon
  <1>7. \A k \in ImportKeys \ {key} : written'[k] = written[k] /\ ledger'[k] = ledger[k]
    BY <1>1, <1>4 DEF ImportTypeOK
  <1>8. ledger'[key] = request
    BY <1>1, <1>2, <1>4 DEF ImportTypeOK
  <1> HIDE DEF key, request
  <1>9. ImportTypeOK'
    <2>1. written'[key] = [r \in Records |-> written'[key][r]]
      BY <1>1, <1>2, <1>4 DEF ImportTypeOK
    <2>2. written'[key] \in [Records -> Nat]
      BY <2>1, <1>6
    <2> QED
      BY <1>1, <1>2, <1>4, <1>5, <1>7, <2>2 DEF ImportTypeOK
  <1>10. \A d \in Importers \ {c} : At(d, "registered")' => asked[d].key # key
    BY <1>1, <1>5 DEF ImportInv, FirstOfItsKey, At, key
  <1>11. FirstOfItsKey'
    BY <1>1, <1>5, <1>7, <1>10, HasAsked DEF ImportInv, FirstOfItsKey, At, ImportSteps
  <1>12. ImportedOncePerKey'
    <2>1. \A d \in Importers \ {c} : At(d, "imported")' =>
             asked[d].key \in ImportKeys /\ asked[d].key # key
      BY <1>1, <1>2, <1>3, <1>5, HasAsked, NoImportAssumption
         DEF ImportInv, ImportedOncePerKey, At, ImportSteps
    <2> QED
      BY <1>2, <1>5, <1>6, <1>7, <1>8, <2>1 DEF ImportInv, ImportedOncePerKey, At
  <1> QED
    BY <1>9, <1>11, <1>12 DEF ImportInv

\* Every step keeps the invariant.
LEMMA ImportKept == ImportInv /\ [ImportNext]_importVars => ImportInv'
  <1> SUFFICES ASSUME ImportInv, [ImportNext]_importVars
               PROVE  ImportInv'
    OBVIOUS
  <1> USE DEF ImportSteps
  <1>0. ImportTypeOK
    BY DEF ImportInv
  <1>1. ASSUME NEW c \in Importers, NEW k \in ImportKeys, NEW request \in Requests,
               Confirmed(c, k, request)
        PROVE  ImportInv'
    <2> DEFINE new == [step |-> IF ledger[k] = NoImport THEN "writing" ELSE "replay",
                       key |-> k, request |-> request, done |-> 0]
    <2>1. new \in AskedType /\ new.step \notin {"registered", "imported"}
      BY DEF AskedType
    <2>2. asked' = [asked EXCEPT ![c] = new]
      BY <1>1 DEF Confirmed
    <2> HIDE DEF new
    <2> QED
      BY <1>0, <1>1, <2>1, <2>2, NothingImported DEF Confirmed, ImportTypeOK
  <1>2. ASSUME NEW c \in Importers, RowWritten(c)
        PROVE  ImportInv'
    <2> DEFINE next == [asked[c] EXCEPT !.done = asked[c].done + 1]
    <2>1. next \in AskedType /\ next.step = "writing"
      BY <1>0, <1>2, HasAsked DEF RowWritten, At, AskedType
    <2>2. asked' = [asked EXCEPT ![c] = next]
      BY <1>2 DEF RowWritten
    <2> HIDE DEF next
    <2> QED
      BY <1>0, <1>2, <2>1, <2>2, NothingImported DEF RowWritten, ImportTypeOK
  <1>3. ASSUME NEW c \in Importers, ImportRegistered(c)
        PROVE  ImportInv'
    <2>1. /\ asked' \in [Importers -> AskedType] /\ asked'[c].step = "registered"
          /\ asked'[c].key = asked[c].key
          /\ \A d \in Importers \ {c} : asked'[d] = asked[d]
      BY <1>0, <1>3, AskedMoves DEF ImportRegistered, At
    <2>2. ledger' = ledger /\ written' = written
      BY <1>3 DEF ImportRegistered
    <2>3. /\ ledger[asked[c].key] = NoImport
          /\ \A d \in Importers : asked[d].step = "registered" => asked[d].key # asked[c].key
      BY <1>3 DEF ImportRegistered, KeyFree, At
    <2>4. FirstOfItsKey'
      BY <2>1, <2>2, <2>3 DEF ImportInv, FirstOfItsKey, At
    <2>5. ImportTypeOK' /\ ImportedOncePerKey'
      BY <2>1, <2>2 DEF ImportInv, ImportTypeOK, ImportedOncePerKey, At
    <2> QED
      BY <2>4, <2>5 DEF ImportInv
  <1>4. ASSUME NEW c \in Importers, ImportRolledBack(c)
        PROVE  ImportInv'
    BY <1>0, <1>4, AskedMoves, NothingImported DEF ImportRolledBack, At
  <1>5. ASSUME NEW c \in Importers, Replayed(c)
        PROVE  ImportInv'
    <2> DEFINE s == IF ledger[asked[c].key] = asked[c].request THEN "imported" ELSE "conflict"
    <2>1. /\ asked' \in [Importers -> AskedType] /\ asked'[c].step = s
          /\ asked'[c].key = asked[c].key /\ asked'[c].request = asked[c].request
          /\ \A d \in Importers \ {c} : asked'[d] = asked[d]
      BY <1>0, <1>5, AskedMoves DEF Replayed, At
    <2>2. /\ s # "registered" /\ ledger' = ledger /\ written' = written
          /\ s = "imported" => ledger[asked[c].key] = asked[c].request
      BY <1>5 DEF Replayed
    <2>3. ImportTypeOK /\ FirstOfItsKey /\ ImportedOncePerKey
      BY DEF ImportInv
    <2> HIDE DEF s
    <2>4. ImportTypeOK'
      BY <2>1, <2>2, <2>3 DEF ImportTypeOK
    <2>5. FirstOfItsKey'
      BY <2>1, <2>2, <2>3 DEF FirstOfItsKey, At
    <2>6. ImportedOncePerKey'
      <3>1. \A d \in Importers : asked'[d].step = "imported"
                                   => ledger[asked'[d].key] = asked'[d].request
        BY <2>1, <2>2, <2>3 DEF ImportedOncePerKey, At
      <3> QED
        BY <2>2, <2>3, <3>1 DEF ImportedOncePerKey, At
    <2> QED
      BY <2>4, <2>5, <2>6 DEF ImportInv
  <1>6. ASSUME NEW c \in Importers, Forgotten(c)
        PROVE  ImportInv'
    <2>1. NotAsked \in AskedType /\ NotAsked.step \notin {"registered", "imported"}
      BY DEF AskedType, NotAsked
    <2> QED
      BY <1>0, <1>6, <2>1, NothingImported DEF Forgotten, ImportTypeOK
  <1>7. CASE UNCHANGED importVars
    BY <1>7 DEF importVars, ImportInv, ImportTypeOK, FirstOfItsKey, ImportedOncePerKey, At
  <1> QED
    BY <1>1, <1>2, <1>3, <1>4, <1>5, <1>6, <1>7, CommittedOnce DEF ImportNext

\* The rows a key wrote are those of the request its ledger row keeps, and who hears that his
\* rows are imported has them there (RunImportConfirmation, writeImportOperation).
THEOREM ImportedOnce == ImportSpec => []ImportedOncePerKey
  <1>1. ImportInv => ImportedOncePerKey
    BY DEF ImportInv
  <1> QED
    BY <1>1, ImportStarts, ImportKept, PTL DEF ImportSpec

-----------------------------------------------------------------------------
(* The penetration package: the inductive invariant *)

Person == Staff \cup {Nobody}

PackType == [decision : {"NONE", "PENDING", "REQUIRED", "NOT_REQUIRED"},
             execution : {"NONE", "NOT_STARTED", "IN_PROGRESS", "COMPLETED", "CANCELLED"},
             report : ReportKinds \cup {"NONE"}, tester : Person]

SheetType == [status : ReportKinds \cup {"NONE"}, file : BOOLEAN, prepared : Person,
              reviewed : Person, issued : Person]

DemandKinds == ReportKinds \cup {"REQUIRED", "NOT_REQUIRED", "PLAN", "START", "COMPLETE",
                                  "CANCEL", "ARTIFACT"}

OpenDemand == [kind : DemandKinds, actor : Staff, tester : Person, fresh : BOOLEAN,
               recorded : BOOLEAN]

PackageTypeOK == /\ pack \in PackType
                 /\ sheet \in SheetType
                 /\ demand \in [Demands -> OpenDemand \cup {NoDemand}]

PackageThere == \A d \in Demands : demand[d] # NoDemand => pack # NoPack

\* A decision that was open when it was looked at is so while the version is the same.
StillOpen == \A d \in Demands :
               demand[d].kind \in {"REQUIRED", "NOT_REQUIRED"} /\ Unchanged(d) => DecisionOpen

\* Whoever has signed the report so far.
SignedInOrder ==
    /\ sheet.status \in {"SUBMITTED", "APPROVED", "ISSUED", "ARCHIVED"} =>
         sheet.prepared # Nobody /\ sheet.file
    /\ sheet.status \in {"APPROVED", "ISSUED", "ARCHIVED"} =>
         sheet.reviewed \notin {Nobody, sheet.prepared}

\* A test that was started is a required one, also after its end.
TestRequired == pack.execution \in {"IN_PROGRESS", "COMPLETED"} => pack.decision = "REQUIRED"

PackageInv == PackageTypeOK /\ PackageThere /\ StillOpen /\ SignedInOrder /\ TestRequired
                /\ ReportRestsOnDecision

\* Before it is opened the package rests on nothing.
LEMMA PackageStarts == PenetrationInit => PackageInv
  BY DEF PenetrationInit, PackageInv, PackageTypeOK, PackageThere, StillOpen, SignedInOrder,
     TestRequired, ReportRestsOnDecision, PackType, SheetType, ReportKinds, Person, NoPack,
     NoSheet, NoDemand

\* A command that is carried out makes every other stale (mutatePenetrationPackage).
LEMMA NoneFresh ==
    ASSUME PackageTypeOK, NEW d \in Demands, demand[d] # NoDemand, Recorded(d)
    PROVE  /\ demand' \in [Demands -> OpenDemand \cup {NoDemand}]
           /\ \A e \in Demands : demand'[e].kind # "none" => ~Unchanged(e)'
           /\ \A e \in Demands : demand'[e] # NoDemand => demand[e] # NoDemand
  <1>1. ASSUME NEW e \in Demands, demand[e] # NoDemand
        PROVE  /\ demand'[e] \in OpenDemand
               /\ ~demand'[e].fresh
    <2>1. demand[e] \in OpenDemand
      BY <1>1 DEF PackageTypeOK
    <2>2. /\ [demand[e] EXCEPT !.fresh = FALSE] \in OpenDemand
          /\ [demand[e] EXCEPT !.recorded = TRUE, !.fresh = FALSE] \in OpenDemand
          /\ ~[demand[e] EXCEPT !.fresh = FALSE].fresh
          /\ ~[demand[e] EXCEPT !.recorded = TRUE, !.fresh = FALSE].fresh
      BY <2>1 DEF OpenDemand
    <2>3. \/ demand'[e] = [demand[e] EXCEPT !.fresh = FALSE]
          \/ demand'[e] = [demand[e] EXCEPT !.recorded = TRUE, !.fresh = FALSE]
      BY <1>1 DEF Recorded
    <2> QED
      BY <2>2, <2>3
  <1>2. ASSUME NEW e \in Demands, demand[e] = NoDemand
        PROVE  demand'[e] = NoDemand /\ demand'[e].kind = "none"
    BY <1>2 DEF Recorded, NoDemand
  <1>3. demand' = [e \in Demands |-> demand'[e]]
    BY DEF Recorded
  <1> QED
    BY <1>1, <1>2, <1>3 DEF Unchanged

\* A command that comes in finds the package, and a decision finds it open.
LEMMA OpenedKeeps ==
    ASSUME PackageInv, NEW d \in Demands, NEW kind \in DemandKinds, NEW p \in Staff,
           NEW tester \in Person, Opened(d, kind, p, tester),
           kind \in {"REQUIRED", "NOT_REQUIRED"} => DecisionOpen
    PROVE  PackageInv'
  <1> DEFINE new == [kind |-> kind, actor |-> p, tester |-> tester, fresh |-> TRUE,
                     recorded |-> FALSE]
  <1>1. new \in OpenDemand /\ new.kind = kind
    BY DEF OpenDemand
  <1>2. demand' = [demand EXCEPT ![d] = new] /\ pack # NoPack /\ UNCHANGED <<pack, sheet>>
    BY DEF Opened
  <1> HIDE DEF new
  <1> QED
    BY <1>1, <1>2 DEF PackageInv, PackageTypeOK, PackageThere, StillOpen, SignedInOrder,
       TestRequired,
       ReportRestsOnDecision, Unchanged, DecisionOpen

\* What is left to show of a command that is carried out.
LEMMA CarriedOut ==
    ASSUME PackageInv, NEW d \in Demands, demand[d].kind \in DemandKinds, Recorded(d),
           pack' \in PackType, pack' # NoPack, sheet' \in SheetType,
           SignedInOrder', TestRequired', ReportRestsOnDecision'
    PROVE  PackageInv'
  <1>1. demand[d] # NoDemand
    BY DEF NoDemand, DemandKinds, ReportKinds
  <1>2. PackageTypeOK'
    BY <1>1, NoneFresh DEF PackageInv, PackageTypeOK
  <1>3. PackageThere' /\ StillOpen'
    BY <1>1, NoneFresh DEF PackageInv, PackageThere, StillOpen
  <1> QED
    BY <1>2, <1>3 DEF PackageInv

\* A decision is saved over the one that was looked at (SavePenetrationDecision): without a
\* start or a report in between, there is nothing that rests on it.
LEMMA DecisionKeeps ==
    ASSUME PackageInv, NEW d \in Demands, DecisionSaved(d)
    PROVE  PackageInv'
  <1>1. /\ pack.execution \notin {"IN_PROGRESS", "COMPLETED"} /\ pack.report = "NONE"
        /\ pack \in PackType /\ sheet' = sheet /\ sheet \in SheetType
        /\ demand[d].kind \in DemandKinds
    BY DEF PackageInv, PackageTypeOK, StillOpen, DecisionOpen, DecisionSaved, DemandKinds
  <1>2. /\ pack' \in PackType /\ pack' # NoPack /\ pack'.report = "NONE"
        /\ pack'.execution \notin {"IN_PROGRESS", "COMPLETED"}
    <2>1. CASE demand[d].kind = "NOT_REQUIRED"
      <3>1. pack' = [decision |-> "NOT_REQUIRED", execution |-> "CANCELLED", report |-> "NONE",
                     tester |-> Nobody]
        BY <2>1 DEF DecisionSaved
      <3> QED
        BY <3>1 DEF PackType, NoPack, Person
    <2>2. CASE demand[d].kind # "NOT_REQUIRED" /\ pack.decision = "NOT_REQUIRED"
      <3>1. pack' = [pack EXCEPT !.decision = "REQUIRED", !.execution = "NOT_STARTED",
                                 !.report = "NONE"]
        BY <2>2 DEF DecisionSaved
      <3> QED
        BY <1>1, <3>1 DEF PackType, NoPack
    <2>3. CASE demand[d].kind # "NOT_REQUIRED" /\ pack.decision # "NOT_REQUIRED"
      <3>1. pack' = [pack EXCEPT !.decision = "REQUIRED"]
        BY <2>3 DEF DecisionSaved
      <3> QED
        BY <1>1, <3>1 DEF PackType, NoPack
    <2> QED
      BY <2>1, <2>2, <2>3
  <1>3. SignedInOrder' /\ TestRequired' /\ ReportRestsOnDecision'
    BY <1>1, <1>2 DEF PackageInv, SignedInOrder, TestRequired, ReportRestsOnDecision
  <1> QED
    BY <1>1, <1>2, <1>3, CarriedOut DEF DecisionSaved

\* The plan, the start, the completion and the cancellation of the test: each asks for what
\* the report rests on, under the lock of the package.
LEMMA ExecutionKeeps ==
    ASSUME PackageInv, NEW d \in Demands,
           PlanSaved(d) \/ ExecutionStarted(d) \/ ExecutionCompleted(d) \/ ExecutionCancelled(d)
    PROVE  PackageInv'
  <1>1. /\ pack \in PackType /\ sheet' = sheet /\ sheet \in SheetType /\ Recorded(d)
        /\ demand[d].kind \in DemandKinds
    BY DEF PackageInv, PackageTypeOK, PlanSaved, ExecutionStarted, ExecutionCompleted,
       ExecutionCancelled, DemandKinds
  <1>2. CASE PlanSaved(d)
    <2>1. demand[d].tester \in Person
      BY <1>2 DEF PackageInv, PackageTypeOK, OpenDemand, NoDemand, PlanSaved
    <2>2. pack' = [pack EXCEPT !.tester = demand[d].tester, !.execution = "NOT_STARTED"]
      BY <1>2 DEF PlanSaved
    <2>3. /\ pack' \in PackType /\ pack' # NoPack /\ pack'.execution = "NOT_STARTED"
          /\ pack'.report = pack.report /\ pack'.decision = pack.decision
      BY <1>1, <2>1, <2>2 DEF PackType, NoPack
    <2>4. SignedInOrder' /\ TestRequired' /\ ReportRestsOnDecision'
      BY <1>1, <1>2, <2>3 DEF PlanSaved, PackageInv, SignedInOrder, TestRequired,
         ReportRestsOnDecision
    <2> QED
      BY <1>1, <2>3, <2>4, CarriedOut
  <1>3. CASE ExecutionStarted(d)
    <2>1. pack' = [pack EXCEPT !.execution = "IN_PROGRESS"]
      BY <1>3 DEF ExecutionStarted
    <2>2. /\ pack' \in PackType /\ pack' # NoPack /\ pack'.execution = "IN_PROGRESS"
          /\ pack'.report = pack.report /\ pack'.decision = pack.decision
      BY <1>1, <2>1 DEF PackType, NoPack
    <2>3. SignedInOrder' /\ TestRequired' /\ ReportRestsOnDecision'
      BY <1>1, <1>3, <2>2 DEF ExecutionStarted, PackageInv, SignedInOrder, TestRequired,
         ReportRestsOnDecision
    <2> QED
      BY <1>1, <2>2, <2>3, CarriedOut
  <1>4. CASE ExecutionCompleted(d)
    <2>1. pack' = [pack EXCEPT !.execution = "COMPLETED"]
      BY <1>4 DEF ExecutionCompleted
    <2>2. /\ pack' \in PackType /\ pack' # NoPack /\ pack'.execution = "COMPLETED"
          /\ pack'.report = pack.report /\ pack'.decision = pack.decision
      BY <1>1, <2>1 DEF PackType, NoPack
    <2>3. SignedInOrder' /\ TestRequired' /\ ReportRestsOnDecision'
      BY <1>1, <1>4, <2>2 DEF ExecutionCompleted, PackageInv, SignedInOrder, TestRequired,
                              ReportRestsOnDecision
    <2> QED
      BY <1>1, <2>2, <2>3, CarriedOut
  <1>5. CASE ExecutionCancelled(d)
    <2>1. pack' = [pack EXCEPT !.decision = "NOT_REQUIRED", !.execution = "CANCELLED"]
      BY <1>5 DEF ExecutionCancelled
    <2>2. /\ pack' \in PackType /\ pack' # NoPack /\ pack'.execution = "CANCELLED"
          /\ pack'.report = pack.report
      BY <1>1, <2>1 DEF PackType, NoPack
    <2>3. SignedInOrder' /\ TestRequired' /\ ReportRestsOnDecision'
      BY <1>1, <1>5, <2>2 DEF ExecutionCancelled, PackageInv, SignedInOrder, TestRequired,
                              ReportRestsOnDecision
    <2> QED
      BY <1>1, <2>2, <2>3, CarriedOut
  <1> QED
    BY <1>2, <1>3, <1>4, <1>5

\* The report enters its next phase and takes a signature, or its file is registered.
LEMMA ReportKeeps ==
    ASSUME PackageInv, NEW d \in Demands, ReportAdvanced(d) \/ ArtifactRegistered(d)
    PROVE  PackageInv'
  <1>1. pack \in PackType /\ sheet \in SheetType /\ demand[d].kind \in DemandKinds
    BY DEF PackageInv, PackageTypeOK, ReportAdvanced, ArtifactRegistered, DemandKinds
  <1>2. demand[d].actor \in Person /\ demand[d].actor # Nobody
    BY <1>1, StaffAssumption
       DEF PackageInv, PackageTypeOK, OpenDemand, NoDemand, Person, DemandKinds, ReportKinds
  <1>3. CASE ReportAdvanced(d)
    <2> DEFINE phase == demand[d].kind
               p == demand[d].actor
    <2>1. /\ phase \in ReportKinds /\ phase = NextPhase[pack.report] /\ Separate(phase, p)
          /\ pack' = [pack EXCEPT !.report = phase] /\ sheet' = Signed(phase, p)
          /\ pack.execution = "COMPLETED" /\ Recorded(d)
      BY <1>3 DEF ReportAdvanced
    <2> HIDE DEF phase, p
    <2>2. /\ pack' \in PackType /\ pack' # NoPack /\ pack'.report = phase
          /\ pack'.execution = "COMPLETED" /\ pack'.decision = pack.decision
      BY <1>1, <2>1 DEF PackType, NoPack, ReportKinds
    <2>3. /\ sheet' \in SheetType /\ sheet'.status = phase /\ sheet'.file = sheet.file
          /\ sheet'.prepared = IF phase = "DRAFTING" THEN p ELSE sheet.prepared
          /\ sheet'.reviewed = IF phase = "APPROVED" THEN p ELSE sheet.reviewed
          /\ sheet'.issued = IF phase = "ISSUED" THEN p ELSE sheet.issued
      BY <1>1, <1>2, <2>1 DEF SheetType, Signed, p
    <2>4. /\ pack.report = sheet.status
          /\ phase \in {"APPROVED", "ISSUED", "ARCHIVED"} =>
               sheet.status \in {"SUBMITTED", "APPROVED", "ISSUED", "ARCHIVED"}
          /\ phase \in {"ISSUED", "ARCHIVED"} => sheet.status \in {"APPROVED", "ISSUED", "ARCHIVED"}
          /\ phase = "ARCHIVED" => pack.report = "ISSUED"
      BY <1>1, <2>1 DEF PackageInv, ReportRestsOnDecision, NextPhase, PackType, ReportKinds
    <2>5. SignedInOrder' /\ TestRequired'
      BY <1>2, <2>1, <2>2, <2>3, <2>4 DEF PackageInv, SignedInOrder, TestRequired, Separate, p
    <2>6. ReportRestsOnDecision'
      <3>1. pack'.report = sheet'.status /\ pack.decision = "REQUIRED"
        BY <2>1, <2>2, <2>3, <2>4 DEF PackageInv, TestRequired, ReportRestsOnDecision
      <3>2. phase \in {"ISSUED", "ARCHIVED"} =>
              /\ sheet'.file
              /\ Nobody \notin {sheet'.prepared, sheet'.reviewed, sheet'.issued}
              /\ sheet'.prepared # sheet'.reviewed
              /\ sheet'.issued \notin {sheet'.prepared, sheet'.reviewed}
        <4>1. CASE phase = "ISSUED"
          BY <4>1, <1>2, <2>1, <2>3, <2>4 DEF PackageInv, SignedInOrder, Separate, p
        <4>2. CASE phase = "ARCHIVED"
          BY <4>2, <1>2, <2>1, <2>3, <2>4 DEF PackageInv, ReportRestsOnDecision
        <4> QED
          BY <4>1, <4>2
      <3> QED
        BY <3>1, <3>2, <2>2 DEF ReportRestsOnDecision
    <2> QED
      BY <1>1, <2>1, <2>2, <2>3, <2>5, <2>6, CarriedOut
  <1>4. CASE ArtifactRegistered(d)
    <2>1. sheet' = [sheet EXCEPT !.file = TRUE] /\ pack' = pack /\ Recorded(d)
          /\ pack.report = "DRAFTING"
      BY <1>4 DEF ArtifactRegistered
    <2>2. /\ sheet' \in SheetType /\ sheet'.status = sheet.status /\ sheet'.file
          /\ sheet'.prepared = sheet.prepared /\ sheet'.reviewed = sheet.reviewed
          /\ sheet'.issued = sheet.issued
      BY <1>1, <2>1 DEF SheetType
    <2>3. SignedInOrder' /\ TestRequired' /\ ReportRestsOnDecision' /\ pack' # NoPack
      BY <2>1, <2>2 DEF PackageInv, SignedInOrder, TestRequired, ReportRestsOnDecision, NoPack
    <2> QED
      BY <1>1, <2>1, <2>2, <2>3, CarriedOut
  <1> QED
    BY <1>3, <1>4

\* The parent and the manager leave a package alone that is there.
LEMMA ParentKeeps ==
    ASSUME PackageInv,
           \/ PackEnsured /\ UNCHANGED <<sheet, demand>>
           \/ UNCHANGED <<pack, sheet, demand>>
    PROVE  PackageInv'
  <1>1. CASE UNCHANGED <<pack, sheet, demand>>
    BY <1>1 DEF PackageInv, PackageTypeOK, PackageThere, StillOpen, SignedInOrder, TestRequired,
       ReportRestsOnDecision, Unchanged, DecisionOpen
  <1>2. CASE pack = NoPack /\ pack' = NewPack /\ UNCHANGED <<sheet, demand>>
    <2>1. \A d \in Demands : demand[d].kind = "none"
      BY <1>2 DEF PackageInv, PackageThere, NoDemand
    <2>2. NewPack \in PackType
      BY DEF NewPack, PackType, Person
    <2> QED
      BY <1>2, <2>1, <2>2 DEF PackageInv, PackageTypeOK, PackageThere, StillOpen, SignedInOrder,
         TestRequired,
         ReportRestsOnDecision, NewPack, NoPack
  <1> QED
    BY <1>1, <1>2 DEF PackEnsured

\* Every step keeps the invariant.
LEMMA PackageKept == PackageInv /\ [PenetrationNext]_penetrationVars => PackageInv'
  <1> SUFFICES ASSUME PackageInv, [PenetrationNext]_penetrationVars
               PROVE  PackageInv'
    OBVIOUS
  <1>1. ASSUME NEW p \in Managers, ManagerAssigned(p)
        PROVE  PackageInv'
    BY <1>1, ParentKeeps DEF ManagerAssigned
  <1>2. CASE PackageAsked
    BY <1>2, ParentKeeps DEF PackageAsked
  <1>3. CASE ParentFieldCompleted \/ ParentReopened
    BY <1>3, ParentKeeps DEF ParentFieldCompleted, ParentReopened
  <1>4. ASSUME NEW phase \in {"ISSUED", "ARCHIVED"}, ParentReport(phase)
        PROVE  PackageInv'
    BY <1>4, ParentKeeps DEF ParentReport
  <1>5. ASSUME NEW d \in Demands, NEW p \in Staff, NEW kind \in {"REQUIRED", "NOT_REQUIRED"},
               DecisionDemanded(d, kind, p)
        PROVE  PackageInv'
    BY <1>5, OpenedKeeps DEF DecisionDemanded, DemandKinds, Person
  <1>6. ASSUME NEW d \in Demands, NEW p \in Staff, NEW tester \in Staff,
               PlanDemanded(d, p, tester)
        PROVE  PackageInv'
    BY <1>6, OpenedKeeps DEF PlanDemanded, DemandKinds, Person
  <1>7. ASSUME NEW d \in Demands, NEW p \in Staff, NEW kind \in {"START", "COMPLETE"},
               ExecutionDemanded(d, kind, p)
        PROVE  PackageInv'
    BY <1>7, OpenedKeeps DEF ExecutionDemanded, DemandKinds, Person
  <1>8. ASSUME NEW d \in Demands, NEW p \in Staff,
               CancellationDemanded(d, p) \/ ArtifactDemanded(d, p)
        PROVE  PackageInv'
    BY <1>8, OpenedKeeps DEF CancellationDemanded, ArtifactDemanded, DemandKinds, Person
  <1>9. ASSUME NEW d \in Demands, NEW p \in Staff, NEW phase \in ReportKinds,
               ReportDemanded(d, phase, p)
        PROVE  PackageInv'
    BY <1>9, OpenedKeeps DEF ReportDemanded, DemandKinds, Person, ReportKinds
  <1>10. ASSUME NEW d \in Demands, DemandEnded(d)
         PROVE  PackageInv'
    <2>1. demand' = [demand EXCEPT ![d] = NoDemand] /\ UNCHANGED <<pack, sheet>>
      BY <1>10 DEF DemandEnded
    <2> QED
      BY <2>1 DEF PackageInv, PackageTypeOK, PackageThere, StillOpen, SignedInOrder, TestRequired,
         ReportRestsOnDecision, Unchanged, DecisionOpen, NoDemand
  <1>11. CASE UNCHANGED penetrationVars
    BY <1>11, ParentKeeps DEF penetrationVars
  <1> QED
    BY <1>1, <1>2, <1>3, <1>4, <1>5, <1>6, <1>7, <1>8, <1>9, <1>10, <1>11, DecisionKeeps,
       ExecutionKeeps, ReportKeeps DEF PenetrationNext

\* While there is a report of the specialist work the test is required and completed, and an
\* issued one carries three people's signatures (mutatePenetrationPackage).
THEOREM ReportKeepsItsGround == PenetrationSpec => []ReportRestsOnDecision
  <1>1. PackageInv => ReportRestsOnDecision
    BY DEF PackageInv
  <1> QED
    BY <1>1, PackageStarts, PackageKept, PTL DEF PenetrationSpec


-----------------------------------------------------------------------------
(* Transfers: the inductive invariant *)

OrderType == [resource : Resources, from : People, to : People, version : Nat]

CallType == {NoCall} \cup [step : {"checked", "begun"}, key : Keys]
                     \cup [step : {"assign"}, person : People]

HandoverTypeOK == /\ ended \in BOOLEAN
                  /\ updated \in [Resources -> Nat]
                  /\ receipt \in [Keys -> {"NONE", "APPLIED", "REJECTED"}]
                  /\ transfer \in [Keys -> {NotOrdered} \cup OrderType]
                  /\ call \in [Calls -> CallType]

Ordered(k) == transfer[k] # NotOrdered

\* Only what was ordered is asked for.
CallsNameOrders == \A c \in Calls : call[c].step \in {"checked", "begun"} => Ordered(call[c].key)

\* The listed version is at most the one there is, and while nobody has written since, the
\* one who hands over is still there.
NotAhead == \A k \in Keys : Ordered(k) => transfer[k].version <= updated[transfer[k].resource]

Stands(t) == IF t.resource = "project" THEN manager = t.from
                                       ELSE t.from = lead \/ t.from \in engineers

UnwrittenStands == \A k \in Keys :
    Ordered(k) /\ transfer[k].version = updated[transfer[k].resource] => Stands(transfer[k])

\* What is answered can never be carried out again: somebody has written since, or the
\* project has ended.
AnsweredForGood == \A k \in Keys : receipt[k] # "NONE" =>
    /\ Ordered(k)
    /\ \/ transfer[k].version < updated[transfer[k].resource]
       \/ transfer[k].resource = "project" /\ ended

HandoverInv == HandoverTypeOK /\ CallsNameOrders /\ NotAhead /\ UnwrittenStands /\ AnsweredForGood

\* No order, no call and no receipt at first.
LEMMA HandoverStarts == HandoverInit => HandoverInv
  <1> SUFFICES ASSUME HandoverInit
               PROVE  HandoverInv
    OBVIOUS
  <1>1. HandoverTypeOK
    BY DEF HandoverInit, HandoverTypeOK, CallType
  <1>2. CallsNameOrders
    BY DEF HandoverInit, CallsNameOrders, NoCall
  <1>3. NotAhead /\ UnwrittenStands /\ AnsweredForGood
    BY DEF HandoverInit, NotAhead, UnwrittenStands, AnsweredForGood, Ordered
  <1> QED
    BY <1>1, <1>2, <1>3 DEF HandoverInv

\* An order is never taken back, and its version is a number.
LEMMA OrderIsOrder ==
    ASSUME HandoverTypeOK, NEW k \in Keys, Ordered(k)
    PROVE  transfer[k] \in OrderType
  BY DEF HandoverTypeOK, Ordered

\* A call that is under way on a key.
LEMMA CallHasKey ==
    ASSUME HandoverTypeOK, NEW c \in Calls, call[c].step \in {"checked", "begun"}
    PROVE  call[c] \in [step : {"checked", "begun"}, key : Keys]
  BY DEF HandoverTypeOK, CallType, NoCall

\* Steps that only move a call, change a freeze or end the project.
LEMMA NothingHandedOver ==
    ASSUME HandoverInv, UNCHANGED <<manager, lead, engineers, updated, receipt, transfer>>,
           ended' \in BOOLEAN, ended => ended', call' \in [Calls -> CallType], CallsNameOrders'
    PROVE  HandoverInv'
  BY DEF HandoverInv, HandoverTypeOK, NotAhead, UnwrittenStands, AnsweredForGood, Ordered, Stands

\* A call that ends names no order any more.
LEMMA CallEnds ==
    ASSUME HandoverInv, NEW c \in Calls, call' = [call EXCEPT ![c] = NoCall],
           UNCHANGED transfer
    PROVE  call' \in [Calls -> CallType] /\ CallsNameOrders'
  <1>1. /\ call' \in [Calls -> CallType] /\ call'[c].step = "none"
        /\ \A d \in Calls \ {c} : call'[d] = call[d]
    BY DEF HandoverInv, HandoverTypeOK, CallType, NoCall
  <1> QED
    BY <1>1 DEF HandoverInv, CallsNameOrders, Ordered

\* An order comes with the version of the moment, under a key nobody has used.
LEMMA OrderKept ==
    ASSUME HandoverInv, NEW k \in Keys, NEW r \in Resources, NEW from \in People,
           NEW to \in People, TransferOrdered(k, r, from, to)
    PROVE  HandoverInv'
  <1> DEFINE given == [resource |-> r, from |-> from, to |-> to, version |-> updated[r]]
  <1>1. /\ HandoverTypeOK /\ ~Ordered(k) /\ r \in Responsible(from)
        /\ transfer' = [transfer EXCEPT ![k] = given]
        /\ UNCHANGED <<manager, ended, lead, engineers, updated, freeze, receipt, call>>
    BY DEF HandoverInv, TransferOrdered, Ordered
  <1>2. given \in OrderType /\ given # NotOrdered
    BY <1>1 DEF HandoverTypeOK, OrderType, NotOrdered, Resources
  <1>3. given.resource = r /\ given.version = updated[r] /\ updated[r] \in Nat /\ given.from = from
    BY <1>1 DEF HandoverTypeOK
  <1>4. Stands(given)
    BY <1>1 DEF Responsible, Stands
  <1> HIDE DEF given
  <1>5. transfer'[k] = given /\ \A j \in Keys \ {k} : transfer'[j] = transfer[j]
    BY <1>1 DEF HandoverTypeOK
  <1>6. HandoverTypeOK'
    BY <1>1, <1>2 DEF HandoverTypeOK
  <1>7. CallsNameOrders'
    BY <1>1, <1>2, <1>5, CallHasKey DEF HandoverInv, CallsNameOrders, Ordered
  <1>8. NotAhead'
    BY <1>1, <1>3, <1>5 DEF HandoverInv, NotAhead, Ordered
  <1>9. UnwrittenStands'
    BY <1>1, <1>4, <1>5 DEF HandoverInv, UnwrittenStands, Ordered, Stands
  <1>10. AnsweredForGood'
    BY <1>1, <1>5 DEF HandoverInv, AnsweredForGood, Ordered
  <1> QED
    BY <1>6, <1>7, <1>8, <1>9, <1>10 DEF HandoverInv

\* Whoever writes a resource counts its version up: orders for it are stale from then on,
\* and those for the other one are not concerned.
LEMMA WriteKept ==
    ASSUME HandoverInv, NEW r \in Resources, updated' = [updated EXCEPT ![r] = @ + 1],
           UNCHANGED <<ended, transfer>>,
           r = "project" \/ UNCHANGED manager,
           r = "service_item" \/ UNCHANGED <<lead, engineers>>
    PROVE  /\ updated' \in [Resources -> Nat] /\ NotAhead' /\ UnwrittenStands'
           /\ \A k \in Keys : Ordered(k) /\ transfer[k].resource = r
                                 => transfer[k].version < updated'[r]
           /\ \A k \in Keys : receipt[k] # "NONE" =>
                 /\ Ordered(k)
                 /\ \/ transfer[k].version < updated'[transfer[k].resource]
                    \/ transfer[k].resource = "project" /\ ended
  <1>1. /\ HandoverTypeOK /\ updated'[r] = updated[r] + 1 /\ updated' \in [Resources -> Nat]
        /\ \A s \in Resources \ {r} : updated'[s] = updated[s]
    BY DEF HandoverInv, HandoverTypeOK
  <1>2. \A k \in Keys : Ordered(k) => /\ transfer[k].resource \in Resources
                                    /\ transfer[k].version \in Nat
                                    /\ transfer[k].version <= updated[transfer[k].resource]
    BY <1>1, OrderIsOrder DEF OrderType, HandoverInv, NotAhead
  <1>3. \A k \in Keys : Ordered(k) /\ transfer[k].resource = r
                           => transfer[k].version < updated'[r]
    BY <1>1, <1>2 DEF HandoverTypeOK
  <1>4. NotAhead'
    BY <1>1, <1>2, <1>3 DEF NotAhead, Ordered, HandoverTypeOK
  <1>5. UnwrittenStands'
    <2> SUFFICES ASSUME NEW k \in Keys, Ordered(k),
                        transfer[k].version = updated'[transfer[k].resource]
                 PROVE  Stands(transfer[k])'
      BY DEF UnwrittenStands, Ordered
    <2>1. transfer[k].resource # r /\ transfer[k].resource \in Resources
      BY <1>1, <1>2, <1>3
    <2>2. Stands(transfer[k])
      BY <1>1, <2>1 DEF HandoverInv, UnwrittenStands
    <2> QED
      BY <2>1, <2>2 DEF Stands, Resources
  <1>6. \A k \in Keys : receipt[k] # "NONE" =>
                 /\ Ordered(k)
                 /\ \/ transfer[k].version < updated'[transfer[k].resource]
                    \/ transfer[k].resource = "project" /\ ended
    BY <1>1, <1>2, <1>3 DEF HandoverInv, AnsweredForGood
  <1> QED
    BY <1>1, <1>3, <1>4, <1>5, <1>6

\* A transfer that is carried out writes the resource and answers a key that had no answer.
LEMMA AppliedOnce ==
    ASSUME HandoverInv, NEW c \in Calls, TransferApplied(c)
    PROVE  /\ HandoverInv'
           /\ call[c].key \in Keys /\ receipt[call[c].key] = "NONE"
           /\ receipt' = [receipt EXCEPT ![call[c].key] = "APPLIED"]
  <1> DEFINE k == call[c].key
             r == transfer[k].resource
  <1>1. /\ HandoverTypeOK /\ call[c] \in [step : {"checked", "begun"}, key : Keys] /\ Ordered(k)
    BY CallHasKey DEF HandoverInv, TransferApplied, CallsNameOrders
  <1>2. k \in Keys /\ r \in Resources /\ transfer[k].version \in Nat
    BY <1>1, OrderIsOrder DEF OrderType
  <1>3. updated[r] = transfer[k].version /\ updated[r] \in Nat /\ ~(r = "project" /\ ended)
    BY <1>1, <1>2 DEF TransferApplied, Hits, Responsible, HandoverTypeOK
  <1>4. receipt[k] = "NONE"
    BY <1>2, <1>3 DEF HandoverInv, AnsweredForGood
  <1>5. receipt' = [receipt EXCEPT ![k] = "APPLIED"]
    BY <1>4 DEF TransferApplied
  <1>6. /\ updated' = [updated EXCEPT ![r] = @ + 1] /\ UNCHANGED <<ended, transfer>>
        /\ call' = [call EXCEPT ![c] = NoCall]
        /\ r = "project" \/ UNCHANGED manager
        /\ r = "service_item" \/ UNCHANGED <<lead, engineers>>
    BY <1>2 DEF TransferApplied, Resources
  <1>7. call' \in [Calls -> CallType] /\ CallsNameOrders'
    BY <1>6, CallEnds
  <1> HIDE DEF r
  <1>8. /\ updated' \in [Resources -> Nat] /\ NotAhead' /\ UnwrittenStands'
        /\ \A j \in Keys : Ordered(j) /\ transfer[j].resource = r
                              => transfer[j].version < updated'[r]
        /\ \A j \in Keys : receipt[j] # "NONE" =>
              /\ Ordered(j)
              /\ \/ transfer[j].version < updated'[transfer[j].resource]
                 \/ transfer[j].resource = "project" /\ ended
    BY <1>2, <1>6, WriteKept
  <1>9. transfer[k].version < updated'[transfer[k].resource]
    BY <1>1, <1>2, <1>8 DEF r
  <1> HIDE DEF k
  <1>10. AnsweredForGood'
    BY <1>1, <1>2, <1>5, <1>6, <1>8, <1>9 DEF AnsweredForGood, Ordered, HandoverTypeOK
  <1>11. HandoverTypeOK'
    BY <1>1, <1>2, <1>5, <1>6, <1>7, <1>8 DEF HandoverTypeOK
  <1>12. HandoverInv'
    BY <1>7, <1>8, <1>10, <1>11 DEF HandoverInv
  <1> QED
    BY <1>2, <1>4, <1>5, <1>12 DEF k

\* A refused transfer stays refused: somebody has written since the order, or the project
\* has ended.
LEMMA RejectedForGood ==
    ASSUME HandoverInv, NEW c \in Calls, TransferRejected(c)
    PROVE  /\ HandoverInv'
           /\ \A k \in Keys : receipt[k] # "NONE" => receipt'[k] = receipt[k]
  <1> DEFINE k == call[c].key
             t == transfer[k]
  <1>1. /\ HandoverTypeOK /\ call[c] \in [step : {"checked", "begun"}, key : Keys] /\ Ordered(k)
    BY CallHasKey DEF HandoverInv, TransferRejected, CallsNameOrders
  <1>2. /\ k \in Keys /\ t.resource \in Resources /\ t.version \in Nat
        /\ updated[t.resource] \in Nat
    BY <1>1, OrderIsOrder DEF OrderType, HandoverTypeOK
  <1>3. t.version < updated[t.resource] \/ (t.resource = "project" /\ ended)
    <2>1. CASE updated[t.resource] = t.version
      <3>1. Stands(t) /\ t.resource \notin Responsible(t.from)
        BY <1>1, <1>2, <2>1 DEF HandoverInv, UnwrittenStands, TransferRejected, Hits
      <3>2. t.resource # "project" => t.resource \in Responsible(t.from)
        BY <1>2, <3>1 DEF Stands, Responsible
      <3>3. t.resource = "project" /\ ~ended => t.resource \in Responsible(t.from)
        BY <1>2, <3>1 DEF Stands, Responsible
      <3> QED
        BY <3>1, <3>2, <3>3
    <2>2. CASE updated[t.resource] # t.version
      BY <1>1, <1>2, <2>2 DEF HandoverInv, NotAhead
    <2> QED
      BY <2>1, <2>2
  <1>4. /\ UNCHANGED <<manager, ended, lead, engineers, updated, transfer>>
        /\ call' = [call EXCEPT ![c] = NoCall]
        /\ receipt' = [receipt EXCEPT ![k] = IF @ = "NONE" THEN "REJECTED" ELSE @]
    BY DEF TransferRejected
  <1>5. call' \in [Calls -> CallType] /\ CallsNameOrders'
    BY <1>4, CallEnds
  <1> HIDE DEF k
  <1>6. /\ receipt' \in [Keys -> {"NONE", "APPLIED", "REJECTED"}]
        /\ \A j \in Keys \ {k} : receipt'[j] = receipt[j]
        /\ receipt[k] # "NONE" => receipt'[k] = receipt[k]
    BY <1>1, <1>2, <1>4 DEF HandoverTypeOK
  <1>7. NotAhead' /\ UnwrittenStands'
    BY <1>4 DEF HandoverInv, NotAhead, UnwrittenStands, Ordered, Stands
  <1>8. AnsweredForGood'
    BY <1>1, <1>2, <1>3, <1>4, <1>6 DEF HandoverInv, AnsweredForGood, Ordered
  <1>9. HandoverInv'
    BY <1>1, <1>4, <1>5, <1>6, <1>7, <1>8 DEF HandoverInv, HandoverTypeOK
  <1> QED
    BY <1>6, <1>9

\* A person is assigned by the business: a write of the service item like any other.
LEMMA AssignedKept ==
    ASSUME HandoverInv, NEW c \in Calls, Assigned(c)
    PROVE  HandoverInv'
  <1>1. /\ updated' = [updated EXCEPT !["service_item"] = @ + 1]
        /\ UNCHANGED <<manager, ended, receipt, transfer>> /\ call' = [call EXCEPT ![c] = NoCall]
        /\ HandoverTypeOK /\ "service_item" \in Resources
    BY DEF Assigned, HandoverInv, Resources
  <1>2. call' \in [Calls -> CallType] /\ CallsNameOrders'
    BY <1>1, CallEnds
  <1>3. /\ updated' \in [Resources -> Nat] /\ NotAhead' /\ UnwrittenStands'
        /\ \A k \in Keys : receipt[k] # "NONE" =>
              /\ Ordered(k)
              /\ \/ transfer[k].version < updated'[transfer[k].resource]
                 \/ transfer[k].resource = "project" /\ ended
    BY <1>1, WriteKept
  <1>4. AnsweredForGood'
    BY <1>1, <1>3 DEF AnsweredForGood, Ordered
  <1> QED
    BY <1>1, <1>2, <1>3, <1>4 DEF HandoverInv, HandoverTypeOK

\* A call goes on to its next step, under the key it was opened with.
LEMMA CallMoves ==
    ASSUME HandoverInv, NEW c \in Calls, NEW next \in CallType,
           next.step \in {"checked", "begun"} => Ordered(next.key),
           call' = [call EXCEPT ![c] = next],
           UNCHANGED <<manager, ended, lead, engineers, updated, freeze, receipt, transfer>>
    PROVE  HandoverInv'
  <1>1. /\ call' \in [Calls -> CallType] /\ call'[c] = next
        /\ \A d \in Calls \ {c} : call'[d] = call[d]
    BY DEF HandoverInv, HandoverTypeOK
  <1>2. CallsNameOrders'
    BY <1>1 DEF HandoverInv, CallsNameOrders, Ordered
  <1> QED
    BY <1>1, <1>2, NothingHandedOver DEF HandoverInv, HandoverTypeOK

\* Every step keeps the invariant.
LEMMA HandoverKept == HandoverInv /\ [HandoverNext]_handoverVars => HandoverInv'
  <1> SUFFICES ASSUME HandoverInv, [HandoverNext]_handoverVars
               PROVE  HandoverInv'
    OBVIOUS
  <1>1. CASE ProjectEnded
    <2>1. CallsNameOrders' /\ call' \in [Calls -> CallType]
      BY <1>1 DEF ProjectEnded, HandoverInv, HandoverTypeOK, CallsNameOrders, Ordered
    <2> QED
      BY <1>1, <2>1, NothingHandedOver DEF ProjectEnded
  <1>2. ASSUME NEW p \in People, Frozen(p) \/ Completed(p)
        PROVE  HandoverInv'
    <2>1. UNCHANGED <<manager, ended, lead, engineers, updated, receipt, transfer, call>>
      BY <1>2 DEF Frozen, Completed
    <2> QED
      BY <2>1 DEF HandoverInv, HandoverTypeOK, CallsNameOrders, NotAhead, UnwrittenStands,
         AnsweredForGood, Ordered, Stands
  <1>3. ASSUME NEW k \in Keys, NEW r \in Resources, NEW from \in People, NEW to \in People,
               TransferOrdered(k, r, from, to)
        PROVE  HandoverInv'
    BY <1>3, OrderKept
  <1>4. ASSUME NEW c \in Calls, NEW k \in Keys, TransferChecked(c, k)
        PROVE  HandoverInv'
    <2> DEFINE next == [step |-> "checked", key |-> k]
    <2>1. next \in CallType /\ next.key = k /\ Ordered(k)
      BY <1>4 DEF TransferChecked, CallType, Ordered
    <2>2. call' = [call EXCEPT ![c] = next]
      BY <1>4 DEF TransferChecked
    <2> HIDE DEF next
    <2> QED
      BY <1>4, <2>1, <2>2, CallMoves DEF TransferChecked
  <1>5. ASSUME NEW c \in Calls, NEW p \in People, AssignmentChecked(c, p)
        PROVE  HandoverInv'
    <2> DEFINE next == [step |-> "assign", person |-> p]
    <2>1. next \in CallType /\ next.step = "assign"
      BY DEF CallType
    <2>2. call' = [call EXCEPT ![c] = next]
      BY <1>5 DEF AssignmentChecked
    <2> HIDE DEF next
    <2> QED
      BY <1>5, <2>1, <2>2, CallMoves DEF AssignmentChecked
  <1>6. ASSUME NEW c \in Calls, TransferBegun(c)
        PROVE  HandoverInv'
    <2> DEFINE next == IF receipt[call[c].key] = "NONE"
                       THEN [call[c] EXCEPT !.step = "begun"] ELSE NoCall
    <2>1. /\ call[c] \in [step : {"checked", "begun"}, key : Keys] /\ Ordered(call[c].key)
      BY <1>6, CallHasKey DEF TransferBegun, HandoverInv, CallsNameOrders
    <2>2. next \in CallType /\ (next.step \in {"checked", "begun"} => Ordered(next.key))
      BY <2>1 DEF CallType, NoCall
    <2>3. call' = [call EXCEPT ![c] = next]
      BY <1>6 DEF TransferBegun
    <2> HIDE DEF next
    <2> QED
      BY <1>6, <2>2, <2>3, CallMoves DEF TransferBegun
  <1>7. ASSUME NEW c \in Calls, CallLost(c)
        PROVE  HandoverInv'
    <2>1. call' \in [Calls -> CallType] /\ CallsNameOrders'
      BY <1>7, CallEnds DEF CallLost
    <2> QED
      BY <1>7, <2>1, NothingHandedOver DEF CallLost, HandoverInv, HandoverTypeOK
  <1>8. CASE UNCHANGED handoverVars
    BY <1>8 DEF handoverVars, HandoverInv, HandoverTypeOK, CallsNameOrders, NotAhead,
       UnwrittenStands, AnsweredForGood, Ordered, Stands
  <1> QED
    BY <1>1, <1>2, <1>3, <1>4, <1>5, <1>6, <1>7, <1>8, AppliedOnce, RejectedForGood, AssignedKept
       DEF HandoverNext

\* Whoever moves a responsibility is a transfer under a key without an answer, or the
\* business, and no step changes an answer.
LEMMA TransferStep ==
    HandoverInv /\ [HandoverNext]_handoverVars =>
    [/\ \/ UNCHANGED <<manager, lead, engineers>>
        \/ \E k \in Keys : receipt[k] = "NONE" /\ receipt'[k] = "APPLIED"
        \/ \E c \in Calls : call[c].step = "assign" /\ call'[c] = NoCall
     /\ \A k \in Keys : receipt[k] # "NONE" => receipt'[k] = receipt[k]]_handoverVars
  <1> DEFINE A == /\ \/ UNCHANGED <<manager, lead, engineers>>
                     \/ \E k \in Keys : receipt[k] = "NONE" /\ receipt'[k] = "APPLIED"
                     \/ \E c \in Calls : call[c].step = "assign" /\ call'[c] = NoCall
                  /\ \A k \in Keys : receipt[k] # "NONE" => receipt'[k] = receipt[k]
  <1> SUFFICES ASSUME HandoverInv, HandoverNext
               PROVE  A
    OBVIOUS
  <1>1. ASSUME NEW c \in Calls, TransferApplied(c)
        PROVE  A
    <2>1. receipt \in [Keys -> {"NONE", "APPLIED", "REJECTED"}]
      BY DEF HandoverInv, HandoverTypeOK
    <2> QED
      BY <1>1, <2>1, AppliedOnce
  <1>2. ASSUME NEW c \in Calls, TransferRejected(c)
        PROVE  A
    BY <1>2, RejectedForGood DEF TransferRejected
  <1>3. ASSUME NEW c \in Calls, Assigned(c)
        PROVE  A
    BY <1>3 DEF Assigned, HandoverInv, HandoverTypeOK
  <1>4. CASE UNCHANGED <<manager, lead, engineers, receipt>>
    BY <1>4
  <1> HIDE DEF A
  <1> QED
    BY <1>1, <1>2, <1>3, <1>4 DEF HandoverNext, ProjectEnded, Frozen, Completed, TransferOrdered,
       TransferChecked, AssignmentChecked, TransferBegun, CallLost

\* However often and in whatever order its calls are delivered, a transfer is carried out at
\* most once, with its first receipt, also when the responsibility has come back meanwhile
\* (TransferOwnership).
THEOREM TransfersApplyOnce == HandoverSpec => TransferredOncePerKey
  <1> QED
    BY HandoverStarts, HandoverKept, TransferStep, PTL DEF HandoverSpec, TransferredOncePerKey

-----------------------------------------------------------------------------
(* The scope of a project: the inductive invariant *)

ItemStatuses == {"none", "ToConfirm", "ToAssign", "Working", "Terminated"}

ChangeType == [status : {"NONE", "PENDING", "APPROVED", "REJECTED", "WITHDRAWN"},
               by : Clients \cup {NoClient}, base : Nat, lines : SUBSET Lines]

WorkType == [op : {"none", "detect", "confirm", "adjust", "close", "advance", "return",
                   "review", "request", "approve", "reject", "withdraw"},
             begun : BOOLEAN, rows : SUBSET Rows, lines : SUBSET Lines,
             view : [item : [Rows -> ItemStatuses], adjusted : SUBSET Lines],
             proposal : ChangeType]

ScopeTypeOK == /\ source \in Sources
               /\ item \in [Rows -> ItemStatuses]
               /\ generation \in Nat
               /\ adjusted \subseteq Lines
               /\ change \in ChangeType
               /\ headHolder \in Clients \cup {NoClient}
               /\ work \in [Clients -> WorkType]

\* The lock on the project belongs to an operation, and one that is about to change an item
\* has found no pending change under it.
HeadHeld == \A c \in Clients : headHolder = c =>
              /\ work[c].op # "none"
              /\ work[c].op \in ItemsFirst => change.status # "PENDING"

\* Adjustments are for contracts, scope changes for native projects.
OwnKindOnly == /\ \A c \in Clients : work[c].op = "adjust" => source = "CONTRACT"
               /\ change.status = "PENDING" => source = "NATIVE"

ScopeInv == ScopeTypeOK /\ HeadHeld /\ OwnKindOnly

\* What a client or a project starts with has its type.
LEMMA IdleIsWork == Idle \in WorkType /\ NoChange \in ChangeType
  BY DEF Idle, WorkType, NoChange, ChangeType, NoSnapshot, ItemStatuses

\* The invariant holds in every first state.
LEMMA ScopeStarts == ScopeInit => ScopeInv
  <1> SUFFICES ASSUME ScopeInit PROVE ScopeInv
    OBVIOUS
  <1>1. adjusted \subseteq Lines /\ item \in [Rows -> ItemStatuses]
    BY DEF ScopeInit, ItemStatuses
  <1>2. /\ source \in Sources /\ generation \in Nat /\ change = NoChange
        /\ headHolder = NoClient /\ work = [c \in Clients |-> Idle]
    BY DEF ScopeInit
  <1>3. Idle.op = "none" /\ NoChange.status = "NONE"
    BY DEF Idle, NoChange
  <1> QED
    BY <1>1, <1>2, <1>3, IdleIsWork, ClientsAssumption
    DEF ScopeInv, ScopeTypeOK, HeadHeld, OwnKindOnly

\* A new operation holds nothing yet.
LEMMA AskingKeeps ==
    ASSUME ScopeInv, NEW c \in Clients, NEW asking \in WorkType, Asks(c, asking),
           asking.op # "none", asking.op = "adjust" => source = "CONTRACT"
    PROVE  ScopeInv'
  <1>1. headHolder # c
    BY DEF ScopeInv, HeadHeld, Asks
  <1>2. /\ work' \in [Clients -> WorkType] /\ work'[c] = asking
        /\ \A d \in Clients \ {c} : work'[d] = work[d]
    BY DEF Asks, ScopeInv, ScopeTypeOK
  <1>3. UNCHANGED <<source, item, generation, adjusted, change, headHolder>>
    BY DEF Asks
  <1> HIDE DEF ItemsFirst
  <1> QED
    BY <1>1, <1>2, <1>3 DEF ScopeInv, ScopeTypeOK, HeadHeld, OwnKindOnly

\* An operation that ends gives the project back; a pending change appears, or goes, only
\* under the lock on the project.
LEMMA EndingKeeps ==
    ASSUME ScopeInv, NEW c \in Clients, Done(c), source' = source,
           item' \in [Rows -> ItemStatuses], generation' \in Nat, adjusted' \subseteq Lines,
           change' \in ChangeType, change' = change \/ headHolder = c,
           change'.status = "PENDING" => source = "NATIVE"
    PROVE  ScopeInv'
  <1>1. /\ work' \in [Clients -> WorkType] /\ work'[c].op = "none"
        /\ \A d \in Clients \ {c} : work'[d] = work[d]
    BY IdleIsWork DEF Done, ScopeInv, ScopeTypeOK, Idle
  <1>2. headHolder' \in Clients \cup {NoClient} /\ headHolder' # c
    BY ClientsAssumption DEF Done, ScopeInv, ScopeTypeOK
  <1>3. \A d \in Clients : headHolder' = d => headHolder = d /\ change' = change
    BY <1>2, ClientsAssumption DEF Done
  <1> HIDE DEF ItemsFirst
  <1> QED
    BY <1>1, <1>2, <1>3 DEF ScopeInv, ScopeTypeOK, HeadHeld, OwnKindOnly

\* The lines of live rows are lines, and rows that are written have a status.
LEMMA RowsHaveStatus ==
    ASSUME NEW items \in [Rows -> ItemStatuses]
    PROVE  /\ ScopeOf(items) \subseteq Lines
           /\ \A rows, s : s \in ItemStatuses => With(items, rows, s) \in [Rows -> ItemStatuses]
           /\ \A g, lines : Fresh(g, lines) \in [Rows -> ItemStatuses]
  BY DEF ScopeOf, Live, Rows, With, Fresh, ItemStatuses

\* Whatever a client asks for.
LEMMA ClientKeeps ==
    ASSUME ScopeInv, NEW c \in Clients, ClientAsks(c)
    PROVE  ScopeInv'
  <1>1. ASSUME NEW rows \in SUBSET Rows, ConfirmationAsked(c, rows) PROVE ScopeInv'
    <2>1. \E op \in {"detect", "confirm"} : Asks(c, [Idle EXCEPT !.rows = rows, !.op = op])
      BY <1>1 DEF ConfirmationAsked
    <2>2. PICK op \in {"detect", "confirm"} : Asks(c, [Idle EXCEPT !.rows = rows, !.op = op])
      BY <2>1
    <2> DEFINE asking == [Idle EXCEPT !.rows = rows, !.op = op]
    <2>3. asking \in WorkType /\ asking.op = op
      BY IdleIsWork DEF WorkType
    <2>4. Asks(c, asking)
      BY <2>2
    <2> HIDE DEF asking
    <2> QED
      BY <2>3, <2>4, AskingKeeps
  <1>2. ASSUME NEW lines \in Scopes, AdjustmentAsked(c, lines) PROVE ScopeInv'
    <2> DEFINE asking == [Idle EXCEPT !.op = "adjust", !.lines = lines]
    <2>1. asking \in WorkType /\ asking.op = "adjust"
      BY IdleIsWork, ScopesAssumption DEF WorkType
    <2>2. Asks(c, asking) /\ source = "CONTRACT"
      BY <1>2 DEF AdjustmentAsked
    <2> HIDE DEF asking
    <2> QED
      BY <2>1, <2>2, AskingKeeps
  <1>3. ASSUME NEW lines \in Scopes, ScopeRequestAsked(c, lines) PROVE ScopeInv'
    <2> DEFINE asking == [Idle EXCEPT !.op = "request", !.proposal = Proposal(c, lines)]
    <2>1. Proposal(c, lines) \in ChangeType
      BY ScopesAssumption DEF Proposal, ChangeType, ScopeInv, ScopeTypeOK
    <2>2. asking \in WorkType /\ asking.op = "request"
      BY <2>1, IdleIsWork DEF WorkType
    <2>3. Asks(c, asking)
      BY <1>3 DEF ScopeRequestAsked
    <2> HIDE DEF asking
    <2> QED
      BY <2>2, <2>3, AskingKeeps
  <1>4. CASE ClosingAsked(c)
    <2> DEFINE asking == [Idle EXCEPT !.op = "close", !.lines = ScopeOf(item)]
    <2>1. ScopeOf(item) \in SUBSET Lines
      BY RowsHaveStatus DEF ScopeInv, ScopeTypeOK
    <2>2. asking \in WorkType /\ asking.op = "close"
      BY <2>1, IdleIsWork DEF WorkType
    <2>3. Asks(c, asking)
      BY <1>4 DEF ClosingAsked
    <2> HIDE DEF asking
    <2> QED
      BY <2>2, <2>3, AskingKeeps
  <1>5. ASSUME NEW r \in Rows, NEW op \in {"advance", "return", "review"},
               ItemEventAsked(c, r, op)
        PROVE  ScopeInv'
    <2> DEFINE asking == [Idle EXCEPT !.op = op, !.rows = {r}]
    <2>1. asking \in WorkType /\ asking.op = op
      BY IdleIsWork DEF WorkType
    <2>2. Asks(c, asking)
      BY <1>5 DEF ItemEventAsked
    <2> HIDE DEF asking
    <2> QED
      BY <2>1, <2>2, AskingKeeps
  <1>6. ASSUME NEW op \in {"approve", "reject", "withdraw"}, DecisionAsked(c, op)
        PROVE  ScopeInv'
    <2> DEFINE asking == [Idle EXCEPT !.op = op, !.proposal = change]
    <2>1. asking \in WorkType /\ asking.op = op
      BY IdleIsWork DEF WorkType, ScopeInv, ScopeTypeOK
    <2>2. Asks(c, asking)
      BY <1>6 DEF DecisionAsked
    <2> HIDE DEF asking
    <2> QED
      BY <2>1, <2>2, AskingKeeps
  <1> QED
    BY <1>1, <1>2, <1>3, <1>4, <1>5, <1>6 DEF ClientAsks

\* Whatever commits.
LEMMA CommitKeeps ==
    ASSUME ScopeInv, NEW c \in Clients, Commits(c)
    PROVE  ScopeInv'
  <1>1. /\ item \in [Rows -> ItemStatuses] /\ generation \in Nat /\ adjusted \subseteq Lines
        /\ change \in ChangeType /\ work[c] \in WorkType
        /\ change.status = "PENDING" => source = "NATIVE"
    BY DEF ScopeInv, ScopeTypeOK, OwnKindOnly
  <1>2. /\ work[c].lines \subseteq Lines /\ work[c].proposal \in ChangeType
    BY <1>1 DEF WorkType
  <1>3. {"ToConfirm", "ToAssign", "Working", "Terminated"} \subseteq ItemStatuses
    BY DEF ItemStatuses
  <1>4. \A s \in {"APPROVED", "REJECTED", "WITHDRAWN"} :
          [change EXCEPT !.status = s] \in ChangeType /\ [change EXCEPT !.status = s].status = s
    BY <1>1 DEF ChangeType
  <1>5. CASE ItemsConfirmed(c)
    BY <1>1, <1>3, <1>5, EndingKeeps, RowsHaveStatus DEF ItemsConfirmed
  <1>6. CASE ScopeChangeDetected(c) \/ SupplementClosed(c)
    BY <1>1, <1>6, EndingKeeps DEF ScopeChangeDetected, SupplementClosed, ClosingRecorded
  <1>7. CASE DecompositionAdjusted(c)
    BY <1>1, <1>2, <1>7, EndingKeeps, RowsHaveStatus
    DEF DecompositionAdjusted, AdjustmentRecorded
  <1>8. ASSUME NEW op, NEW from, NEW to \in {"ToConfirm", "Working", "Terminated"},
               ItemMoves(c, op, from, to)
        PROVE  ScopeInv'
    BY <1>1, <1>3, <1>8, EndingKeeps, RowsHaveStatus DEF ItemMoves
  <1>9. CASE TeamAssigned(c) \/ ReturnedToDecomposition(c) \/ DeviationReviewed(c)
    BY <1>8, <1>9 DEF TeamAssigned, ReturnedToDecomposition, DeviationReviewed
  <1>10. CASE NativeScopeRequested(c)
    BY <1>1, <1>2, <1>10, EndingKeeps DEF NativeScopeRequested, NativeReady, Ready
  <1>11. CASE NativeScopeApproved(c)
    BY <1>1, <1>4, <1>11, EndingKeeps, RowsHaveStatus
    DEF NativeScopeApproved, NativeReady, Ready
  <1>12. CASE NativeScopeRefused(c)
    BY <1>1, <1>4, <1>12, EndingKeeps DEF NativeScopeRefused, NativeReady, Ready
  <1> QED
    BY <1>5, <1>6, <1>7, <1>9, <1>10, <1>11, <1>12 DEF Commits

\* Every step keeps the invariant.
LEMMA ScopeKept == ScopeInv /\ [ScopeNext]_scopeVars => ScopeInv'
  <1> SUFFICES ASSUME ScopeInv, [ScopeNext]_scopeVars PROVE ScopeInv'
    OBVIOUS
  <1>1. CASE UNCHANGED scopeVars
    BY <1>1 DEF scopeVars, ScopeInv, ScopeTypeOK, HeadHeld, OwnKindOnly
  <1>2. ASSUME NEW c \in Clients, SnapshotTaken(c) PROVE ScopeInv'
    <2> DEFINE next == [work[c] EXCEPT !.begun = TRUE,
                                       !.view = [item |-> item, adjusted |-> adjusted]]
    <2>1. work[c] \in WorkType /\ item \in [Rows -> ItemStatuses] /\ adjusted \subseteq Lines
      BY DEF ScopeInv, ScopeTypeOK
    <2>2. next \in WorkType /\ next.op = work[c].op
      BY <2>1 DEF WorkType
    <2>3. work' = [work EXCEPT ![c] = next]
      BY <1>2 DEF SnapshotTaken
    <2>4. UNCHANGED <<source, item, generation, adjusted, change, headHolder>>
      BY <1>2 DEF SnapshotTaken
    <2> HIDE DEF next, ItemsFirst
    <2> QED
      BY <2>2, <2>3, <2>4 DEF ScopeInv, ScopeTypeOK, HeadHeld, OwnKindOnly
  <1>3. ASSUME NEW c \in Clients, HeadLocked(c) PROVE ScopeInv'
    BY <1>3 DEF HeadLocked, Underway, NoChangePending, ScopeInv, ScopeTypeOK, HeadHeld,
       OwnKindOnly
  <1>4. ASSUME NEW c \in Clients, RolledBack(c) PROVE ScopeInv'
    BY <1>4, EndingKeeps DEF RolledBack, ScopeInv, ScopeTypeOK, OwnKindOnly
  <1>5. ASSUME NEW c \in Clients, NEW r \in Rows, RowLocked(c, r) PROVE ScopeInv'
    BY <1>5 DEF RowLocked, ScopeInv, ScopeTypeOK, HeadHeld, OwnKindOnly
  <1> QED
    BY <1>1, <1>2, <1>3, <1>4, <1>5, ClientKeeps, CommitKeeps DEF ScopeNext

\* What a step does to the items while a change waits for its decision.
LEMMA FrozenStep ==
    ASSUME ScopeInv, [ScopeNext]_scopeVars, change.status = "PENDING"
    PROVE  \/ item' = item
           \/ change'.status = "APPROVED" /\ change.base = generation /\ Eligible
  <1>1. CASE UNCHANGED scopeVars
    BY <1>1 DEF scopeVars
  <1>2. ASSUME NEW c \in Clients, Commits(c)
        PROVE  \/ item' = item
               \/ change'.status = "APPROVED" /\ change.base = generation /\ Eligible
    <2>1. ASSUME NEW op \in ItemsFirst PROVE ~Ready(c, op)
      BY <2>1 DEF Ready, ScopeInv, HeadHeld
    <2>2. ~Ready(c, "adjust")
      BY DEF Ready, ScopeInv, OwnKindOnly
    <2>3. ~ItemsConfirmed(c) /\ ~DecompositionAdjusted(c)
      BY <2>1, <2>2 DEF ItemsConfirmed, DecompositionAdjusted, ItemsFirst
    <2>4. ~TeamAssigned(c) /\ ~ReturnedToDecomposition(c) /\ ~DeviationReviewed(c)
      BY <2>1 DEF TeamAssigned, ReturnedToDecomposition, DeviationReviewed, ItemMoves,
         ItemsFirst
    <2>5. CASE NativeScopeApproved(c)
      BY <2>5 DEF NativeScopeApproved, ScopeInv, ScopeTypeOK, ChangeType
    <2>6. CASE \/ ScopeChangeDetected(c) \/ SupplementClosed(c)
               \/ NativeScopeRequested(c) \/ NativeScopeRefused(c)
      BY <2>6 DEF ScopeChangeDetected, SupplementClosed, NativeScopeRequested,
         NativeScopeRefused
    <2> QED
      BY <1>2, <2>3, <2>4, <2>5, <2>6 DEF Commits
  <1>3. ASSUME NEW c \in Clients,
               \/ ClientAsks(c) \/ SnapshotTaken(c) \/ HeadLocked(c) \/ RolledBack(c)
               \/ \E r \in Rows : RowLocked(c, r)
        PROVE  item' = item
    BY <1>3 DEF ClientAsks, ConfirmationAsked, AdjustmentAsked, ScopeRequestAsked,
       ClosingAsked, ItemEventAsked, DecisionAsked, Asks, SnapshotTaken, HeadLocked,
       RolledBack, RowLocked
  <1> QED
    BY <1>1, <1>2, <1>3 DEF ScopeNext

\* For any number of items, generations and clients: from the request of a native scope
\* change to its decision nobody changes an item, and an approval replaces the scope the
\* request was made for (guardNativeScopeMutation, DecideNativeScope).
THEOREM PendingScopeIsFrozen == ScopeSpec => NativeScopeFrozen
  <1>1. ScopeInv /\ [ScopeNext]_scopeVars =>
          [change.status = "PENDING" =>
             \/ item' = item
             \/ change'.status = "APPROVED" /\ change.base = generation /\ Eligible]_scopeVars
    BY FrozenStep
  <1> QED
    BY <1>1, ScopeStarts, ScopeKept, PTL DEF ScopeSpec, NativeScopeFrozen

-----------------------------------------------------------------------------
(* Contracts and projects: the inductive invariant *)

\* What a transaction locks: an ordinary supplement is known by its id alone.
Needed(t) == IF t.kind = "SUPPLEMENT" THEN {t.contract.id} ELSE Identities(t.contract)

FilingType == [step : {"locking", "binding", "claiming", "writing"},
               kind : {"NEW", "IMPORT", "SUPPLEMENT"}, contract : Current,
               todo : SUBSET Nat, held : SUBSET Nat, command : Commands \cup {"-"},
               target : Projects \cup {NoProject}]

\* The guard rows are all locked before anything is checked.
FilingShape(t) == /\ t.held \cup t.todo = Needed(t)
                  /\ t.step # "locking" => t.todo = {}
                  /\ t.step = "locking" => t.todo # {}
                  /\ t.kind = "SUPPLEMENT" => t.target \in Projects

BindingType == [contract : Current, project : Projects]

IdentityTypeOK ==
    /\ primary \in [Projects -> Contracts \cup {NoContract}]
    /\ binding \in [Commands -> BindingType \cup {NoBinding}]
    /\ guard \in [AllIdentities -> Projects \cup {NoProject}]
    /\ shared \in [Current -> SUBSET Projects]
    /\ filing \in [Filings -> FilingType \cup {NoFiling}]

LocksComplete == \A f \in Filings : filing[f] # NoFiling => FilingShape(filing[f])

HeldByOne == \A f, g \in Filings : \A i : Holds(f, i) /\ Holds(g, i) => f = g

\* A project that has a contract has its guard rows, but for one older than the guards.
Guarded ==
    /\ \A p \in Projects : primary[p].id # 0 => \A i \in Identities(primary[p]) : guard[i] = p
    /\ \A m \in Commands : binding[m] # NoBinding =>
          \A i \in Identities(binding[m].contract) : guard[i] = binding[m].project

\* What was checked under the locks is still so.
StillClaimable ==
    \A f \in Filings : filing[f] # NoFiling /\ filing[f].step = "writing" =>
        IF filing[f].kind = "SUPPLEMENT" THEN Usable(filing[f].contract, filing[f].target)
                                         ELSE Claimable(filing[f].contract, filing[f].target)

IdentityInv == /\ IdentityTypeOK /\ LocksComplete /\ HeldByOne /\ Guarded /\ StillClaimable
               /\ OneHome

\* The identities of a contract are numbers, and all known.
LEMMA IdentitiesAreNumbers ==
    /\ Current \subseteq Contracts
    /\ \A k \in Current : /\ k.id \in Nat \ {0} /\ k.number \in Nat \ {0}
                          /\ Identities(k) = {k.id, k.number} /\ KeyOf(k) = k.id
    /\ \A k \in Contracts : Identities(k) \subseteq AllIdentities
    /\ \A k \in Contracts \ Current :
          k.id = 0 /\ KeyOf(k) = k.number /\ Identities(k) = {k.number}
    /\ Identities(NoContract) = {} /\ NoContract.id = 0 /\ KeyOf(NoContract) = 0
    /\ AllIdentities \subseteq Nat \ {0}
  <1>1. \A k \in Contracts : k.id \in Nat /\ k.number \in Nat \ {0}
    BY ContractsAssumption
  <1>2. \A k \in Contracts : Identities(k) \subseteq AllIdentities
    BY DEF AllIdentities
  <1>3. AllIdentities \subseteq Nat \ {0}
    BY <1>1 DEF AllIdentities, Identities
  <1> QED
    BY <1>1, <1>2, <1>3 DEF Current, Legacy, Identities, KeyOf, NoContract

\* The first states: old projects with contracts of different numbers.
LEMMA IdentityStarts == IdentityInit => IdentityInv
  <1> SUFFICES ASSUME IdentityInit PROVE IdentityInv
    OBVIOUS
  <1>1. IdentityTypeOK
    BY NoProjectAssumption DEF IdentityInit, IdentityTypeOK, Legacy
  <1>2. LocksComplete /\ HeldByOne /\ StillClaimable
    BY DEF IdentityInit, LocksComplete, HeldByOne, StillClaimable, Holds
  <1>3. Guarded
    BY DEF IdentityInit, Guarded, Legacy, NoContract
  <1>4. ASSUME NEW i \in AllIdentities, NEW p \in Projects, HomeAt(p, i)
        PROVE  primary[p] \in Legacy /\ KeyOf(primary[p]) = i
    <2>1. guard[i] = NoProject /\ \A m \in Commands : binding[m].project = NoProject
      BY DEF IdentityInit, NoBinding
    <2>2. KeyOf(primary[p]) = i
      BY <1>4, <2>1, NoProjectAssumption DEF HomeAt
    <2>3. i # 0
      BY IdentitiesAreNumbers
    <2> QED
      BY <2>2, <2>3, IdentitiesAreNumbers DEF IdentityInit
  <1>5. ASSUME NEW k \in Legacy, NEW l \in Legacy, KeyOf(k) = KeyOf(l) PROVE k = l
    BY <1>5, ContractsAssumption DEF Legacy, KeyOf
  <1>6. \A k \in Legacy : k # NoContract
    BY ContractsAssumption DEF Legacy, NoContract
  <1>7. OneHome
    <2>1. \A p, q \in Projects : primary[p] = primary[q] /\ primary[p] # NoContract => p = q
      BY DEF IdentityInit
    <2> QED
      BY <1>4, <1>5, <1>6, <2>1 DEF OneHome
  <1> QED
    BY <1>1, <1>2, <1>3, <1>7 DEF IdentityInv

\* A step of one transaction that writes nothing.
LEMMA FilingMoves ==
    ASSUME IdentityInv, UNCHANGED <<primary, binding, guard, shared>>,
           NEW f \in Filings, NEW next \in FilingType \cup {NoFiling}, Filed(f, next),
           next # NoFiling => FilingShape(next),
           next # NoFiling => \A i \in next.held : \A g \in Filings \ {f} : ~Holds(g, i),
           next # NoFiling /\ next.step = "writing" =>
             IF next.kind = "SUPPLEMENT" THEN Usable(next.contract, next.target)
                                         ELSE Claimable(next.contract, next.target)
    PROVE  IdentityInv'
  <1>1. /\ filing' \in [Filings -> FilingType \cup {NoFiling}] /\ filing'[f] = next
        /\ \A g \in Filings \ {f} : filing'[g] = filing[g]
    BY DEF Filed, IdentityInv, IdentityTypeOK
  <1>2. IdentityTypeOK' /\ Guarded' /\ OneHome'
    BY <1>1 DEF IdentityInv, IdentityTypeOK, Guarded, OneHome, HomeAt
  <1>3. LocksComplete'
    BY <1>1 DEF IdentityInv, LocksComplete
  <1>4. HeldByOne'
    BY <1>1 DEF IdentityInv, HeldByOne, Holds
  <1>5. StillClaimable'
    BY <1>1 DEF IdentityInv, StillClaimable, Usable, Claimable
  <1> QED
    BY <1>2, <1>3, <1>4, <1>5 DEF IdentityInv

\* A transaction writes that a project has a contract, the project's own or an import.
LEMMA ClaimKeeps ==
    ASSUME IdentityInv, NEW f \in Filings, NEW t \in Projects, NEW k \in Current,
           filing[f] # NoFiling, filing[f].contract = k, filing[f].held = Identities(k),
           Claimable(k, t), Claimed(k, t), Filed(f, NoFiling), UNCHANGED shared,
           primary' \in [Projects -> Contracts \cup {NoContract}],
           \A p \in Projects : primary'[p] = primary[p] \/ (p = t /\ primary'[p] = k),
           binding' \in [Commands -> BindingType \cup {NoBinding}],
           \A m \in Commands : \/ binding'[m] = binding[m]
                               \/ binding'[m] = [contract |-> k, project |-> t]
    PROVE  IdentityInv'
  <1>1. /\ filing' \in [Filings -> FilingType \cup {NoFiling}] /\ filing'[f] = NoFiling
        /\ \A g \in Filings \ {f} : filing'[g] = filing[g]
    BY DEF Filed, IdentityInv, IdentityTypeOK
  <1>2. /\ guard' \in [AllIdentities -> Projects \cup {NoProject}]
        /\ \A i \in Identities(k) : i \in AllIdentities /\ guard'[i] = t
        /\ \A i \in AllIdentities \ Identities(k) : guard'[i] = guard[i]
        /\ \A i \in Identities(k) : guard[i] \in {NoProject, t}
    BY IdentitiesAreNumbers DEF Claimed, Claimable, IdentityInv, IdentityTypeOK
  <1>3. IdentityTypeOK'
    BY <1>1, <1>2 DEF IdentityInv, IdentityTypeOK
  <1>4. LocksComplete' /\ HeldByOne'
    BY <1>1 DEF IdentityInv, LocksComplete, HeldByOne, Holds
  <1>5. \A p \in Projects, i \in AllIdentities : guard[i] = p => guard'[i] = p
    BY <1>2, NoProjectAssumption
  <1>6. Guarded'
    <2>1. ASSUME NEW p \in Projects, (primary[p].id # 0)', NEW i \in Identities(primary'[p])
          PROVE  guard'[i] = p
      <3>1. CASE primary'[p] = primary[p]
        <4>1. primary[p] \in Contracts
          BY <2>1, <3>1, IdentitiesAreNumbers DEF IdentityInv, IdentityTypeOK
        <4>2. i \in AllIdentities
          BY <2>1, <3>1, <4>1, IdentitiesAreNumbers
        <4> QED
          BY <2>1, <3>1, <4>2, <1>5 DEF IdentityInv, Guarded
      <3>2. CASE p = t /\ primary'[p] = k
        BY <2>1, <3>2, <1>2
      <3> QED
        BY <3>1, <3>2
    <2>2. ASSUME NEW m \in Commands, binding'[m] # NoBinding,
                 NEW i \in Identities(binding'[m].contract)
          PROVE  guard'[i] = binding'[m].project
      <3>1. CASE binding'[m] = binding[m]
        <4>1. binding[m] \in BindingType
          BY <2>2, <3>1 DEF IdentityInv, IdentityTypeOK
        <4>2. binding[m].project \in Projects /\ binding[m].contract \in Contracts
          BY <4>1, IdentitiesAreNumbers DEF BindingType
        <4>3. i \in AllIdentities
          BY <2>2, <3>1, <4>2, IdentitiesAreNumbers
        <4> QED
          BY <2>2, <3>1, <4>2, <4>3, <1>5 DEF IdentityInv, Guarded
      <3>2. CASE binding'[m] = [contract |-> k, project |-> t]
        BY <2>2, <3>2, <1>2
      <3> QED
        BY <3>1, <3>2
    <2> QED
      BY <2>1, <2>2 DEF Guarded
  <1>7. StillClaimable'
    <2> SUFFICES ASSUME NEW g \in Filings, filing'[g] # NoFiling, filing'[g].step = "writing",
                        NEW l, l = filing[g].contract, NEW a, a = filing[g].target
                 PROVE  IF filing[g].kind = "SUPPLEMENT" THEN Usable(l, a)' ELSE Claimable(l, a)'
      BY <1>1 DEF StillClaimable, Usable, Claimable
    <2>1. g # f /\ filing'[g] = filing[g] /\ filing[g] # NoFiling /\ filing[g].step = "writing"
      BY <1>1
    <2>2. filing[g] \in FilingType
      BY <2>1 DEF IdentityInv, IdentityTypeOK
    <2>3. l \in Current
      BY <2>2 DEF FilingType
    <2>4. filing[g].held = Needed(filing[g])
      BY <2>1 DEF IdentityInv, LocksComplete, FilingShape
    <2>5. \A i \in Identities(k) : i \notin Needed(filing[g])
      BY <2>1, <2>4 DEF IdentityInv, HeldByOne, Holds
    <2>6. CASE filing[g].kind = "SUPPLEMENT"
      <3>1. l.id \notin Identities(k) /\ Usable(l, a)
        BY <2>1, <2>5, <2>6 DEF Needed, IdentityInv, StillClaimable
      <3>2. k.id \in Identities(k)
        BY IdentitiesAreNumbers
      <3>3. Usable(l, a)'
        BY <3>1, <3>2 DEF Usable
      <3> QED
        BY <2>6, <3>3
    <2>7. CASE filing[g].kind # "SUPPLEMENT"
      <3>1. (\A i \in Identities(k) : i \notin Identities(l)) /\ Claimable(l, a)
        BY <2>1, <2>5, <2>7 DEF Needed, IdentityInv, StillClaimable
      <3>2. k.id \in Identities(k) /\ KeyOf(k) = k.id
        BY IdentitiesAreNumbers
      <3>3. Identities(l) \subseteq AllIdentities
        BY <2>3, IdentitiesAreNumbers
      <3>4. \A p \in Projects \ {a} : KeyOf(primary'[p]) \notin Identities(l)
        BY <3>1, <3>2 DEF Claimable
      <3>5. \A m \in Commands : binding'[m].project \notin {NoProject, a}
                                  => binding'[m].contract.id \notin Identities(l)
        BY <3>1, <3>2 DEF Claimable
      <3>6. \A i \in Identities(l) : guard'[i] \in {NoProject, a}
        BY <3>1, <3>3, <1>2 DEF Claimable
      <3> QED
        BY <2>7, <3>4, <3>5, <3>6 DEF Claimable
    <2> QED
      BY <2>6, <2>7
  <1>8. OneHome'
    <2>1. ASSUME NEW i \in Identities(k), NEW q \in Projects, HomeAt(q, i)' PROVE q = t
      <3> SUFFICES ASSUME q # t PROVE FALSE
        OBVIOUS
      <3>1. primary'[q] = primary[q] /\ guard[i] \in {NoProject, t} /\ i \in AllIdentities
        BY <1>2
      <3>2. KeyOf(primary[q]) # i
        BY DEF Claimable
      <3>3. CASE i \in Identities(primary[q])
        <4>1. primary[q].id # 0
          BY <3>2, <3>3, IdentitiesAreNumbers DEF IdentityInv, IdentityTypeOK
        <4> QED
          BY <3>1, <3>3, <4>1, NoProjectAssumption DEF IdentityInv, Guarded
      <3>4. ASSUME NEW m \in Commands, binding'[m].project = q,
                   i \in Identities(binding'[m].contract)
            PROVE  FALSE
        <4>1. binding'[m] = binding[m]
          BY <3>4
        <4>2. binding[m] # NoBinding
          BY <3>4, <4>1, NoProjectAssumption DEF NoBinding
        <4> QED
          BY <3>1, <3>4, <4>1, <4>2, NoProjectAssumption DEF IdentityInv, Guarded
      <3> QED
        BY <2>1, <3>1, <3>2, <3>3, <3>4 DEF HomeAt
    <2>2. ASSUME NEW i \in AllIdentities \ Identities(k), NEW q \in Projects, HomeAt(q, i)'
          PROVE  HomeAt(q, i)
      <3>1. guard'[i] = guard[i]
        BY <1>2
      <3>5. KeyOf(k) \in Identities(k)
        BY IdentitiesAreNumbers
      <3>2. CASE (i \in Identities(primary[q]) /\ guard[i] # NoProject)'
        BY <2>2, <3>1, <3>2 DEF HomeAt
      <3>3. CASE (KeyOf(primary[q]) = i)'
        BY <3>5, <3>3 DEF HomeAt
      <3>4. ASSUME NEW m \in Commands, binding'[m].project = q,
                   i \in Identities(binding'[m].contract)
            PROVE  HomeAt(q, i)
        BY <2>2, <3>4 DEF HomeAt
      <3> QED
        BY <2>2, <3>2, <3>3, <3>4 DEF HomeAt
    <2>3. OneHome
      BY DEF IdentityInv
    <2> QED
      BY <2>1, <2>2, <2>3 DEF OneHome
  <1> QED
    BY <1>3, <1>4, <1>6, <1>7, <1>8 DEF IdentityInv

\* A transaction that is under way has its shape; in a later step it holds all it needs.
LEMMA UnderWay ==
    ASSUME IdentityInv, NEW f \in Filings, filing[f] # NoFiling
    PROVE  /\ filing[f] \in FilingType /\ FilingShape(filing[f])
           /\ filing[f].contract \in Current
           /\ filing[f].step # "locking" => filing[f].held = Needed(filing[f])
  BY DEF IdentityInv, IdentityTypeOK, LocksComplete, FilingShape, FilingType

\* Of two identities or one there is a first.
LEMMA FirstOfTwo ==
    ASSUME NEW a \in Nat, NEW b \in Nat, NEW S \in SUBSET {a, b}, S # {}
    PROVE  Min(S) \in S
  <1>1. \E x \in S : \A y \in S : x <= y
    <2>1. CASE a \in S /\ b \in S
      BY <2>1
    <2>2. CASE a \notin S
      <3>1. S = {b}
        BY <2>2
      <3> QED
        BY <3>1
    <2>3. CASE b \notin S
      <3>1. S = {a}
        BY <2>3
      <3> QED
        BY <3>1
    <2> QED
      BY <2>1, <2>2, <2>3
  <1> QED
    BY <1>1 DEF Min

\* A request that asks begins with no lock.
LEMMA FilingBegins ==
    ASSUME IdentityInv, NEW f \in Filings, NEW k \in Current,
           NEW kind \in {"NEW", "IMPORT", "SUPPLEMENT"}, NEW m \in Commands \cup {"-"},
           NEW t \in Projects \cup {NoProject}, kind = "SUPPLEMENT" => t \in Projects,
           NEW todo, todo = IF kind = "SUPPLEMENT" THEN {k.id} ELSE Identities(k),
           Filed(f, [step |-> "locking", kind |-> kind, contract |-> k, todo |-> todo,
                     held |-> {}, command |-> m, target |-> t]),
           UNCHANGED <<primary, binding, guard, shared>>
    PROVE  IdentityInv'
  <1> DEFINE new == [step |-> "locking", kind |-> kind, contract |-> k, todo |-> todo,
                     held |-> {}, command |-> m, target |-> t]
  <1>1. todo \in SUBSET Nat /\ todo # {}
    BY IdentitiesAreNumbers
  <1>2. new \in FilingType
    BY <1>1 DEF FilingType
  <1>3. FilingShape(new)
    BY <1>1 DEF FilingShape, Needed
  <1>4. new.held = {} /\ new.step = "locking" /\ Filed(f, new)
    OBVIOUS
  <1> HIDE DEF new
  <1> QED
    BY <1>2, <1>3, <1>4, FilingMoves

\* Every step keeps the invariant.
LEMMA IdentityKept == IdentityInv /\ [IdentityNext]_identityVars => IdentityInv'
  <1> SUFFICES ASSUME IdentityInv, [IdentityNext]_identityVars PROVE IdentityInv'
    OBVIOUS
  <1>1. CASE UNCHANGED identityVars
    BY <1>1 DEF identityVars, IdentityInv, IdentityTypeOK, LocksComplete, HeldByOne, Holds,
       Guarded, StillClaimable, Usable, Claimable, OneHome, HomeAt
  <1>2. ASSUME NEW f \in Filings, NEW k \in Current, ActivationAsked(f, k) \/ CreationAsked(f, k)
        PROVE  IdentityInv'
    <2>1. NewProjectAsked(f, k)
      BY <1>2 DEF ActivationAsked, CreationAsked
    <2> QED
      BY <2>1, FilingBegins DEF NewProjectAsked
  <1>3. ASSUME NEW f \in Filings, NEW k \in Current, NEW m \in Commands,
               NEW p \in Projects \cup {NoProject}, ImportAsked(f, m, k, p)
        PROVE  IdentityInv'
    BY <1>3, FilingBegins DEF ImportAsked
  <1>4. ASSUME NEW f \in Filings, NEW k \in Current, NEW p \in Projects,
               SupplementAsked(f, k, p)
        PROVE  IdentityInv'
    BY <1>4, FilingBegins DEF SupplementAsked
  <1>5. ASSUME NEW f \in Filings, IdentityLocked(f) PROVE IdentityInv'
    <2> DEFINE i == NextIdentity(f)
               next == WithIdentity(f, i)
    <2>1. filing[f].step = "locking" /\ (\A g \in Filings : ~Holds(g, i)) /\ Filed(f, next)
          /\ UNCHANGED <<primary, binding, guard, shared>>
      BY <1>5 DEF IdentityLocked
    <2>2. filing[f] # NoFiling
      BY <2>1 DEF NoFiling
    <2>3. filing[f] \in FilingType /\ FilingShape(filing[f]) /\ filing[f].contract \in Current
      BY <2>2, UnderWay
    <2>4. i \in filing[f].todo
      <3>1. filing[f].todo # {} /\ filing[f].todo \subseteq Needed(filing[f])
        BY <2>1, <2>3 DEF FilingShape
      <3>2. Needed(filing[f]) \subseteq {filing[f].contract.id, filing[f].contract.number}
        BY <2>3, IdentitiesAreNumbers DEF Needed
      <3> DEFINE a == filing[f].contract.id
                 b == filing[f].contract.number
                 S == filing[f].todo
      <3>3. a \in Nat /\ b \in Nat
        BY <2>3, IdentitiesAreNumbers
      <3>4. S \in SUBSET {a, b} /\ S # {}
        BY <3>1, <3>2
      <3>5. Min(S) = i
        BY DEF NextIdentity
      <3> HIDE DEF a, b, S, i
      <3>6. Min(S) \in S
        BY <3>3, <3>4, FirstOfTwo
      <3> QED
        BY <3>5, <3>6 DEF S
    <2>5. /\ next \in FilingType
          /\ next.held = filing[f].held \cup {i} /\ next.todo = filing[f].todo \ {i}
          /\ next.kind = filing[f].kind /\ next.contract = filing[f].contract
          /\ next.target = filing[f].target
          /\ next.step \in {"locking", "binding", "claiming"}
          /\ next.step = "locking" <=> next.todo # {}
      <3> HIDE DEF i
      <3> QED
        BY <2>1, <2>3, <2>4 DEF FilingType, WithIdentity
    <2>6. FilingShape(next) /\ next # NoFiling
      <3> HIDE DEF next, i
      <3> QED
        BY <2>3, <2>4, <2>5 DEF FilingShape, Needed, NoFiling
    <2>7. \A j \in next.held : \A g \in Filings \ {f} : ~Holds(g, j)
      <3> HIDE DEF next, i
      <3> QED
        BY <2>1, <2>2, <2>5 DEF IdentityInv, HeldByOne, Holds
    <2> HIDE DEF next, i
    <2> QED
      BY <2>1, <2>5, <2>6, <2>7, FilingMoves
  <1>6. ASSUME NEW f \in Filings, FilingRolledBack(f) PROVE IdentityInv'
    BY <1>6, FilingMoves DEF FilingRolledBack
  <1>7. ASSUME NEW f \in Filings, NEW s \in {"claiming", "writing"},
               filing[f] # NoFiling, filing[f].step # "locking", Step(f, s),
               s = "writing" =>
                 IF filing[f].kind = "SUPPLEMENT"
                   THEN Usable(filing[f].contract, filing[f].target)
                   ELSE Claimable(filing[f].contract, filing[f].target),
               UNCHANGED <<primary, binding, guard, shared>>
        PROVE  IdentityInv'
    <2> DEFINE next == [filing[f] EXCEPT !.step = s]
    <2>1. filing[f] \in FilingType /\ FilingShape(filing[f])
      BY <1>7, UnderWay
    <2>2. /\ next \in FilingType /\ next.step = s /\ next.held = filing[f].held
          /\ next.todo = filing[f].todo /\ next.kind = filing[f].kind
          /\ next.contract = filing[f].contract /\ next.target = filing[f].target
      BY <2>1 DEF FilingType
    <2>3. Filed(f, next)
      BY <1>7 DEF Step, Filed
    <2> HIDE DEF next
    <2>4. FilingShape(next)
      BY <1>7, <2>1, <2>2 DEF FilingShape, Needed
    <2>5. \A j \in next.held : \A g \in Filings \ {f} : ~Holds(g, j)
      BY <1>7, <2>2 DEF IdentityInv, HeldByOne, Holds
    <2> QED
      BY <1>7, <2>2, <2>3, <2>4, <2>5, FilingMoves
  <1>8. ASSUME NEW f \in Filings, BindingInserted(f) PROVE IdentityInv'
    <2>1. filing[f].step = "binding" /\ filing[f] # NoFiling
      BY <1>8 DEF BindingInserted, NoFiling
    <2>2. CASE Filed(f, NoFiling)
      BY <1>8, <2>2, FilingMoves DEF BindingInserted
    <2>3. CASE Step(f, "claiming")
      BY <1>7, <1>8, <2>1, <2>3 DEF BindingInserted
    <2> QED
      BY <1>8, <2>2, <2>3 DEF BindingInserted
  <1>9. ASSUME NEW f \in Filings, ClaimChecked(f) PROVE IdentityInv'
    BY <1>7, <1>9 DEF ClaimChecked, NoFiling
  <1>10. ASSUME NEW f \in Filings, NEW p \in Projects, ProjectCreated(f, p) PROVE IdentityInv'
    <2> DEFINE k == filing[f].contract
    <2>1. filing[f] # NoFiling /\ filing[f].step = "writing" /\ filing[f].kind # "SUPPLEMENT"
      BY <1>10 DEF ProjectCreated, NoFiling
    <2>2. k \in Current /\ filing[f].held = Identities(k) /\ Claimable(k, NoProject)
      BY <1>10, <2>1, UnderWay DEF Needed, IdentityInv, StillClaimable, ProjectCreated
    <2>3. Claimable(k, p)
      BY <2>2, NoProjectAssumption DEF Claimable
    <2>4. /\ primary' = [primary EXCEPT ![p] = k] /\ Claimed(k, p)
          /\ binding' = [m \in Commands |-> IF m = filing[f].command
                                              THEN [contract |-> k, project |-> p]
                                              ELSE binding[m]]
          /\ Filed(f, NoFiling) /\ UNCHANGED shared
      BY <1>10 DEF ProjectCreated
    <2> HIDE DEF k
    <2>5. /\ primary' \in [Projects -> Contracts \cup {NoContract}]
          /\ \A q \in Projects : primary'[q] = primary[q] \/ (q = p /\ primary'[q] = k)
      BY <2>2, <2>4, IdentitiesAreNumbers DEF IdentityInv, IdentityTypeOK
    <2>6. /\ binding' \in [Commands -> BindingType \cup {NoBinding}]
          /\ \A m \in Commands : \/ binding'[m] = binding[m]
                                 \/ binding'[m] = [contract |-> k, project |-> p]
      BY <2>2, <2>4 DEF IdentityInv, IdentityTypeOK, BindingType
    <2> QED
      BY <2>1, <2>2, <2>3, <2>4, <2>5, <2>6, ClaimKeeps DEF k
  <1>11. ASSUME NEW f \in Filings, ProjectLinked(f) PROVE IdentityInv'
    <2> DEFINE k == filing[f].contract
               t == filing[f].target
    <2>1. filing[f] # NoFiling /\ filing[f].step = "writing" /\ filing[f].kind = "IMPORT"
      BY <1>11 DEF ProjectLinked, NoFiling
    <2>2. /\ k \in Current /\ filing[f].held = Identities(k) /\ Claimable(k, t)
          /\ filing[f] \in FilingType
      BY <2>1, UnderWay DEF Needed, IdentityInv, StillClaimable
    <2>3. t \in Projects
      BY <1>11, <2>2 DEF ProjectLinked, FilingType
    <2>4. /\ Claimed(k, t) /\ Filed(f, NoFiling) /\ UNCHANGED <<primary, shared>>
          /\ binding' = [binding EXCEPT ![filing[f].command] = [contract |-> k, project |-> t]]
      BY <1>11 DEF ProjectLinked
    <2> HIDE DEF k, t
    <2>5. /\ primary' \in [Projects -> Contracts \cup {NoContract}]
          /\ \A q \in Projects : primary'[q] = primary[q] \/ (q = t /\ primary'[q] = k)
      BY <2>4 DEF IdentityInv, IdentityTypeOK
    <2>6. /\ binding' \in [Commands -> BindingType \cup {NoBinding}]
          /\ \A m \in Commands : \/ binding'[m] = binding[m]
                                 \/ binding'[m] = [contract |-> k, project |-> t]
      BY <2>2, <2>3, <2>4 DEF IdentityInv, IdentityTypeOK, BindingType
    <2> QED
      BY <2>1, <2>2, <2>3, <2>4, <2>5, <2>6, ClaimKeeps DEF k
  <1>12. ASSUME NEW f \in Filings, SupplementUsed(f) PROVE IdentityInv'
    <2>1. /\ filing[f] # NoFiling /\ filing[f].kind = "SUPPLEMENT" /\ filing[f] \in FilingType
          /\ filing[f].target \in Projects
      BY <1>12, UnderWay DEF SupplementUsed, NoFiling, FilingShape
    <2>2. shared' \in [Current -> SUBSET Projects]
      BY <1>12, <2>1 DEF SupplementUsed, IdentityInv, IdentityTypeOK
    <2>3. /\ filing' \in [Filings -> FilingType \cup {NoFiling}] /\ filing'[f] = NoFiling
          /\ \A g \in Filings \ {f} : filing'[g] = filing[g]
      BY <1>12 DEF SupplementUsed, Filed, IdentityInv, IdentityTypeOK
    <2>4. UNCHANGED <<primary, binding, guard>>
      BY <1>12 DEF SupplementUsed
    <2>5. IdentityTypeOK' /\ Guarded' /\ OneHome'
      BY <2>2, <2>3, <2>4 DEF IdentityInv, IdentityTypeOK, Guarded, OneHome, HomeAt
    <2>6. LocksComplete' /\ HeldByOne'
      BY <2>3 DEF IdentityInv, LocksComplete, HeldByOne, Holds
    <2>7. StillClaimable'
      BY <2>3, <2>4 DEF IdentityInv, StillClaimable, Usable, Claimable
    <2> QED
      BY <2>5, <2>6, <2>7 DEF IdentityInv
  <1> QED
    BY <1>1, <1>2, <1>3, <1>4, <1>5, <1>6, <1>8, <1>9, <1>10, <1>11, <1>12 DEF IdentityNext

\* A supplement is used where no other project has it by an import.
LEMMA SupplementStep ==
    ASSUME IdentityInv, [IdentityNext]_identityVars,
           NEW k \in Current, NEW p \in shared'[k] \ shared[k], NEW m \in Commands,
           binding'[m].contract.id = k.id
    PROVE  binding'[m].project = p
  <1>1. PICK f \in Filings : SupplementUsed(f)
    <2>1. shared' # shared
      OBVIOUS
    <2> QED
      BY <2>1 DEF IdentityNext, identityVars, ActivationAsked, CreationAsked, NewProjectAsked,
         ImportAsked, SupplementAsked, IdentityLocked, BindingInserted, ClaimChecked,
         ProjectCreated, ProjectLinked, FilingRolledBack
  <1>2. /\ filing[f] # NoFiling /\ filing[f].kind = "SUPPLEMENT" /\ filing[f].step = "writing"
        /\ filing[f].contract \in Current
    BY <1>1, UnderWay DEF SupplementUsed, NoFiling
  <1>3. Usable(filing[f].contract, filing[f].target)
    BY <1>2 DEF IdentityInv, StillClaimable
  <1>4. k = filing[f].contract /\ p = filing[f].target
    BY <1>1, <1>2 DEF SupplementUsed, IdentityInv, IdentityTypeOK
  <1>5. binding' = binding
    BY <1>1 DEF SupplementUsed
  <1> QED
    BY <1>3, <1>4, <1>5 DEF Usable

\* For any number of contracts, projects, imports and transactions under way: a contract is
\* the contract of one project at most, by its id and by its number, as its own or by an
\* import, and an ordinary supplement that a project holds by an import is not adopted by
\* another (lockContractIdentities, claimContractProject, checkOrdinarySupplementImport).
THEOREM ContractHasOneProject == IdentitySpec => OneProjectPerContract
  <1> DEFINE Kept == /\ primary' # primary \/ binding' # binding => OneHome'
                     /\ \A k \in Current : \A p \in shared'[k] \ shared[k] :
                           \A m \in Commands :
                              binding'[m].contract.id = k.id => binding'[m].project = p
  <1>1. IdentityInv /\ [IdentityNext]_identityVars => Kept
    BY SupplementStep, IdentityKept DEF IdentityInv
  <1>2. IdentityInv /\ [IdentityNext]_identityVars => [Kept]_identityVars
    BY <1>1
  <1> QED
    BY <1>2, IdentityStarts, IdentityKept, PTL DEF IdentitySpec, OneProjectPerContract

-----------------------------------------------------------------------------
(* The upgrade of the background: the inductive invariant *)

Notes == {"", "bootstrap", "by hand"}

RecordType == [op : Operations, was : BOOLEAN, note : Notes, original : Builds,
               target : Builds \cup {NoBuild}, restoring : BOOLEAN,
               previous : Builds \cup {NoBuild}]

MemoType == [op : Operations, original : Builds, target : Builds, restoring : BOOLEAN]

PlanType == [there : {TRUE}, conf : Builds, paused : BOOLEAN, note : Notes,
             record : RecordType \cup {NoRecord}, memo : MemoType \cup {NoRecord}]

StartType == [do : {"start"}, stage : {"check"}, at : Tasks]

ControlType == [do : {"pause", "drain", "resume", "ensure", "restore"}, op : Operations,
                stage : {"check", "settle", "write", "promote", "release"}, at : Tasks]

TickType == [step : {"buffered", "running", "looked", "active"}, build : Builds \cup {NoBuild}]

BackgroundTypeOK ==
    /\ plan \in [Tasks -> PlanType \cup {NoPlan}]
    /\ routed \in Builds \cup {NoBuild}
    /\ order \in [Builds -> ControlType \cup StartType \cup {NoOrder}]
    /\ tick \in [Tasks -> TickType \cup {NoTick}]

InControl(b) == order[b].do \notin {"none", "start"}

\* Two processes never work on one operation.
OneToolEach == \A b, c \in Builds :
                 InControl(b) /\ InControl(c) /\ order[b].op = order[c].op => b = c

\* What a schedule shows: one under an operation is paused, and what was paused by hand
\* stays so; one that runs, or will by hand, has the configuration of the routed build.
Showing(p, r) ==
    p.there => /\ p.record # NoRecord =>
                    p.paused /\ (p.record.note = "by hand" => p.record.was)
               /\ p.record = NoRecord /\ p.note = "by hand" => p.paused
               /\ p.record = NoRecord /\ (~p.paused \/ p.note = "by hand") => p.conf = r

\* A resumption goes to the routed build, or finds nothing to resume.
ResumesRouted(b) == order[b].do = "resume" /\ routed # b =>
                      \A k \in Tasks : plan[k].there => plan[k].conf # b

\* A migration begins with the first schedule, has all of them under its operation, and
\* nothing is left to run while it writes.
Migrating(b) ==
    InControl(b) /\ Migrates(b) =>
        /\ order[b].stage \in {"check", "settle"} => order[b].at = 1
        /\ order[b].stage \in {"settle", "write"} =>
              \A k \in Tasks : plan[k].there /\ Held(k) /\ plan[k].record.op = order[b].op
        /\ order[b].stage = "write" => /\ \A k \in Tasks : tick[k] = NoTick
                                       /\ \A k \in Tasks : k < order[b].at => plan[k].conf = b

\* A build is promoted when all schedules have its configuration, and are its own.
Promoting(b) ==
    Controls(b, "promote") =>
        \A k \in Tasks : /\ plan[k].there /\ plan[k].conf = b
                         /\ Held(k) => plan[k].record.op = order[b].op

BackgroundInv == /\ BackgroundTypeOK /\ OneToolEach
                 /\ \A k \in Tasks : Showing(plan[k], routed)
                 /\ \A b \in Builds : ResumesRouted(b) /\ Migrating(b) /\ Promoting(b)

\* There are no schedules at first.
LEMMA BackgroundStarts == BackgroundInit => BackgroundInv
  <1> SUFFICES ASSUME BackgroundInit PROVE BackgroundInv
    OBVIOUS
  <1>1. BackgroundTypeOK
    BY DEF BackgroundInit, BackgroundTypeOK
  <1>2. \A b \in Builds : order[b].do = "none"
    BY DEF BackgroundInit, NoOrder
  <1>3. \A k \in Tasks : ~plan[k].there
    BY DEF BackgroundInit, NoPlan
  <1> QED
    BY <1>1, <1>2, <1>3 DEF BackgroundInv, OneToolEach, InControl, Showing, ResumesRouted,
       Migrating, Promoting, Controls

\* A process whose order is not for a control action is bound by nothing.
LEMMA OrdersApart ==
    ASSUME NEW o \in ControlType \cup StartType \cup {NoOrder}
    PROVE  \/ o \in ControlType /\ o.do \notin {"none", "start"}
           \/ o.do \in {"none", "start"} /\ o.do # "resume"
  BY DEF ControlType, StartType, NoOrder

\* The order of one process changes, and the schedules do not.
LEMMA OrderMoves ==
    ASSUME BackgroundInv, NEW b \in Builds, UNCHANGED <<plan, routed>>,
           NEW next \in ControlType \cup StartType \cup {NoOrder},
           order' = [order EXCEPT ![b] = next],
           tick' \in [Tasks -> TickType \cup {NoTick}],
           \A k \in Tasks : tick[k] = NoTick => tick'[k] = NoTick,
           next.do \notin {"none", "start"} =>
             \A c \in Builds \ {b} : InControl(c) => order[c].op # next.op,
           ResumesRouted(b)', Migrating(b)', Promoting(b)'
    PROVE  BackgroundInv'
  <1>1. /\ order' \in [Builds -> ControlType \cup StartType \cup {NoOrder}]
        /\ order'[b] = next /\ \A c \in Builds \ {b} : order'[c] = order[c]
    BY DEF BackgroundInv, BackgroundTypeOK
  <1>2. BackgroundTypeOK'
    BY <1>1 DEF BackgroundInv, BackgroundTypeOK
  <1>3. OneToolEach'
    BY <1>1 DEF BackgroundInv, OneToolEach, InControl
  <1>4. \A k \in Tasks : Showing(plan'[k], routed')
    BY DEF BackgroundInv
  <1>5. ASSUME NEW c \in Builds \ {b}
        PROVE  (ResumesRouted(c) /\ Migrating(c) /\ Promoting(c))'
    <2>1. ResumesRouted(c) /\ Migrating(c) /\ Promoting(c) /\ order'[c] = order[c]
      BY <1>1 DEF BackgroundInv
    <2> QED
      BY <2>1 DEF ResumesRouted, Migrating, Promoting, InControl, Migrates, Controls, Held
  <1> QED
    BY <1>2, <1>3, <1>4, <1>5 DEF BackgroundInv

\* The order of a process is given up or done.
LEMMA OrderEnds ==
    ASSUME BackgroundInv, NEW b \in Builds, UNCHANGED <<plan, routed>>,
           order' = [order EXCEPT ![b] = NoOrder] \/ order' = order,
           tick' \in [Tasks -> TickType \cup {NoTick}],
           \A k \in Tasks : tick[k] = NoTick => tick'[k] = NoTick
    PROVE  BackgroundInv'
  <1>1. CASE order' = [order EXCEPT ![b] = NoOrder]
    <2>1. order'[b].do = "none" /\ NoOrder.do = "none"
      BY <1>1 DEF BackgroundInv, BackgroundTypeOK, NoOrder
    <2>2. (ResumesRouted(b) /\ Migrating(b) /\ Promoting(b))'
      BY <2>1 DEF ResumesRouted, Migrating, Promoting, InControl, Controls
    <2> QED
      BY <1>1, <2>1, <2>2, OrderMoves
  <1>2. CASE order' = order
    BY <1>2 DEF BackgroundInv, BackgroundTypeOK, OneToolEach, InControl, ResumesRouted,
       Migrating, Promoting, Migrates, Controls, Held
  <1> QED
    BY <1>1, <1>2

\* A tick of a schedule: while a migration writes, there is none and none comes.
LEMMA TickKeeps ==
    ASSUME BackgroundInv, NEW k \in Tasks, UNCHANGED <<plan, routed, daemon, order>>,
           NEW next \in TickType \cup {NoTick}, tick' = [tick EXCEPT ![k] = next],
           tick[k] # NoTick \/ (plan[k].there /\ ~plan[k].paused)
    PROVE  BackgroundInv'
  <1>1. BackgroundTypeOK'
    BY DEF BackgroundInv, BackgroundTypeOK
  <1>2. ASSUME NEW b \in Builds PROVE (ResumesRouted(b) /\ Migrating(b) /\ Promoting(b))'
    <2>1. ResumesRouted(b) /\ Migrating(b) /\ Promoting(b)
      BY DEF BackgroundInv
    <2>2. ResumesRouted(b)' /\ Promoting(b)'
      BY <2>1 DEF ResumesRouted, Promoting, Controls, Held
    <2>3. CASE InControl(b) /\ Migrates(b) /\ order[b].stage = "write"
      <3>1. tick[k] = NoTick /\ plan[k].there /\ Held(k)
        BY <2>1, <2>3 DEF Migrating
      <3>2. plan[k].paused
        BY <3>1 DEF BackgroundInv, Showing, Held
      <3> QED
        BY <3>1, <3>2
    <2>4. CASE ~(InControl(b) /\ Migrates(b) /\ order[b].stage = "write")
      <3>1. Migrating(b)'
        BY <2>1, <2>4 DEF Migrating, InControl, Migrates, Held
      <3> QED
        BY <2>2, <3>1
    <2> QED
      BY <2>3, <2>4
  <1>3. OneToolEach' /\ \A j \in Tasks : Showing(plan'[j], routed')
    BY DEF BackgroundInv, OneToolEach, InControl
  <1> QED
    BY <1>1, <1>2, <1>3 DEF BackgroundInv

\* One schedule is paused or let go by hand.
LEMMA HandKeeps ==
    ASSUME BackgroundInv, NEW k \in Tasks, PausedByHand(k) \/ ReleasedByHand(k)
    PROVE  BackgroundInv'
  <1> DEFINE p == plan[k]
             q == IF PausedByHand(k) THEN [p EXCEPT !.paused = TRUE, !.note = "by hand"]
                                     ELSE [p EXCEPT !.paused = FALSE, !.note = ""]
  <1>1. p.there /\ UNCHANGED <<routed, order, tick>> /\ plan' = [plan EXCEPT ![k] = q]
    BY DEF PausedByHand, ReleasedByHand
  <1>2. p \in PlanType
    BY <1>1 DEF BackgroundInv, BackgroundTypeOK, NoPlan
  <1>3. Showing(p, routed)
    BY DEF BackgroundInv
  <1>4. p.record = NoRecord
    BY <1>1, <1>3 DEF Showing, PausedByHand, ReleasedByHand, Held
  <1>5. q \in PlanType /\ q.there /\ q.conf = p.conf /\ q.record = p.record
    BY <1>2 DEF PlanType, Notes
  <1>6. Showing(q, routed)
    <2>1. CASE PausedByHand(k)
      <3>1. q.paused /\ ~p.paused
        BY <1>2, <2>1 DEF PlanType, PausedByHand
      <3> QED
        BY <1>1, <1>3, <1>4, <1>5, <3>1 DEF Showing
    <2>2. CASE ~PausedByHand(k)
      <3>1. p.note = "by hand" /\ q.note = ""
        BY <1>2, <2>2 DEF PlanType, ReleasedByHand
      <3> QED
        BY <1>1, <1>3, <1>4, <1>5, <3>1 DEF Showing
    <2> QED
      BY <2>1, <2>2
  <1> HIDE DEF q
  <1>7. /\ plan' \in [Tasks -> PlanType \cup {NoPlan}] /\ plan'[k] = q
        /\ \A j \in Tasks \ {k} : plan'[j] = plan[j]
    BY <1>1, <1>5 DEF BackgroundInv, BackgroundTypeOK
  <1>8. \A j \in Tasks : /\ plan'[j].there = plan[j].there
                         /\ plan[j].there => /\ plan'[j].conf = plan[j].conf
                                             /\ plan'[j].record = plan[j].record
    BY <1>1, <1>2, <1>5, <1>7
  <1>9. BackgroundTypeOK' /\ OneToolEach'
    BY <1>1, <1>7 DEF BackgroundInv, BackgroundTypeOK, OneToolEach, InControl
  <1>10. \A j \in Tasks : Showing(plan'[j], routed')
    BY <1>1, <1>6, <1>7 DEF BackgroundInv
  <1>11. ASSUME NEW b \in Builds PROVE (ResumesRouted(b) /\ Migrating(b) /\ Promoting(b))'
    <2>1. ResumesRouted(b) /\ Migrating(b) /\ Promoting(b)
      BY DEF BackgroundInv
    <2>2. ResumesRouted(b)'
      BY <1>1, <1>8, <2>1 DEF ResumesRouted
    <2>3. Migrating(b)'
      BY <1>1, <1>8, <2>1 DEF Migrating, InControl, Migrates, Held
    <2>4. Promoting(b)'
      BY <1>1, <1>8, <2>1 DEF Promoting, Controls, Held
    <2> QED
      BY <2>2, <2>3, <2>4
  <1> QED
    BY <1>9, <1>10, <1>11 DEF BackgroundInv

\* A process that starts looks at one schedule, or makes it.
LEMMA ReconciledKeeps ==
    ASSUME BackgroundInv, NEW b \in Builds, Reconciled(b)
    PROVE  BackgroundInv'
  <1> DEFINE k == order[b].at
             q == [there |-> TRUE, conf |-> b, paused |-> TRUE, note |-> "bootstrap",
                   record |-> NoRecord, memo |-> NoRecord]
             next == IF k = TaskCount THEN NoOrder ELSE [order[b] EXCEPT !.at = k + 1]
  <1>1. /\ order[b].do = "start" /\ UNCHANGED <<routed, tick>>
        /\ \/ ~plan[k].there /\ plan' = [plan EXCEPT ![k] = q]
           \/ UNCHANGED plan
        /\ order' = [order EXCEPT ![b] = next]
    BY DEF Reconciled
  <1>2. order[b] \in StartType /\ k \in Tasks
    BY <1>1 DEF BackgroundInv, BackgroundTypeOK, ControlType, StartType, NoOrder
  <1>3. next \in StartType \cup {NoOrder} /\ next.do \in {"none", "start"}
    BY <1>2, TaskAssumption DEF StartType, NoOrder, Tasks
  <1>4. q \in PlanType /\ Showing(q, routed) /\ q.there /\ q.conf = b
    BY DEF PlanType, Notes, Showing
  <1> HIDE DEF k, q, next
  <1>5. /\ order' \in [Builds -> ControlType \cup StartType \cup {NoOrder}]
        /\ order'[b] = next /\ \A c \in Builds \ {b} : order'[c] = order[c]
    BY <1>1, <1>3 DEF BackgroundInv, BackgroundTypeOK
  <1>6. /\ plan' \in [Tasks -> PlanType \cup {NoPlan}]
        /\ \A j \in Tasks : plan'[j] = plan[j] \/ (~plan[j].there /\ plan'[j] = q)
    BY <1>1, <1>2, <1>4 DEF BackgroundInv, BackgroundTypeOK
  <1>7. BackgroundTypeOK' /\ OneToolEach'
    BY <1>1, <1>3, <1>5, <1>6 DEF BackgroundInv, BackgroundTypeOK, OneToolEach, InControl
  <1>8. \A j \in Tasks : Showing(plan'[j], routed')
    BY <1>1, <1>4, <1>6 DEF BackgroundInv
  <1>9. ASSUME NEW c \in Builds PROVE (ResumesRouted(c) /\ Migrating(c) /\ Promoting(c))'
    <2>1. CASE c = b
      BY <1>3, <1>5, <2>1 DEF ResumesRouted, Migrating, Promoting, InControl, Controls
    <2>2. CASE c # b
      <3>1. ResumesRouted(c) /\ Migrating(c) /\ Promoting(c) /\ order'[c] = order[c]
        BY <1>5, <2>2 DEF BackgroundInv
      <3>2. ResumesRouted(c)'
        BY <1>1, <1>4, <1>6, <2>2, <3>1 DEF ResumesRouted
      <3>3. Migrating(c)'
        BY <1>1, <1>6, <3>1 DEF Migrating, InControl, Migrates, Held
      <3>4. Promoting(c)'
        BY <1>1, <1>6, <3>1 DEF Promoting, Controls, Held
      <3> QED
        BY <3>2, <3>3, <3>4
    <2> QED
      BY <2>1, <2>2
  <1> QED
    BY <1>7, <1>8, <1>9 DEF BackgroundInv

\* What a process writes into a schedule it may write.
LEMMA WrittenShows ==
    ASSUME BackgroundInv, NEW b \in Builds, InControl(b), NEW k \in Tasks, Allowed(b, k),
           Migrates(b) => Held(k)
    PROVE  /\ plan[k] \in PlanType /\ Written(b, plan[k]) \in PlanType
           /\ Showing(Written(b, plan[k]), routed)
           /\ Written(b, plan[k]).there
           /\ Held(k) => plan[k].record.op = order[b].op
           /\ ~Held(k) => plan[k].conf = b /\ ~Migrates(b)
           /\ Migrates(b) => /\ Written(b, plan[k]).conf = b
                             /\ Written(b, plan[k]).record # NoRecord
                             /\ Written(b, plan[k]).record.op = order[b].op
           /\ ~Migrates(b) => Written(b, plan[k]).conf = plan[k].conf
           /\ ByHand(plan[k]) => ByHand(Written(b, plan[k])) /\ Written(b, plan[k]).paused
  <1> DEFINE p == plan[k]
             op == order[b].op
             q == Written(b, p)
  <1>1. order[b] \in ControlType
    BY OrdersApart DEF InControl, BackgroundInv, BackgroundTypeOK
  <1>2. op \in Operations /\ order[b].do \in {"pause", "drain", "resume", "ensure", "restore"}
    BY <1>1 DEF ControlType
  <1>3. p.there
    BY <1>2 DEF Allowed, MayPause, MayResume, MayEnsure, MayRestore, Observed, Strict
  <1>4. p \in PlanType
    BY <1>3 DEF BackgroundInv, BackgroundTypeOK, NoPlan
  <1>5. Showing(p, routed)
    BY DEF BackgroundInv
  <1>6. CASE order[b].do \in {"pause", "drain"}
    <2>1. q = PauseRecorded(b, op, p) /\ ~Migrates(b)
      BY <1>6 DEF Written, Migrates
    <2>2. MayPause(b, op, k)
      BY <1>6 DEF Allowed
    <2>3. CASE p.record # NoRecord
      <3>1. q = p /\ Held(k) /\ p.record.op = op
        BY <2>1, <2>2, <2>3 DEF PauseRecorded, MayPause, Held
      <3> QED
        BY <1>3, <1>4, <1>5, <2>1, <2>3, <3>1 DEF Showing, ByHand
    <2>4. CASE p.record = NoRecord
      <3> DEFINE was == p.paused
                 note == p.note
                 prev == IF p.memo = NoRecord THEN NoBuild ELSE p.memo.original
                 rec == [op |-> op, was |-> was, note |-> note, original |-> b,
                         target |-> NoBuild, restoring |-> FALSE, previous |-> prev]
      <3>1. ~Held(k) /\ p.conf = b
        BY <2>2, <2>4 DEF MayPause, Held, Strict
      <3>2. was \in BOOLEAN /\ note \in Notes /\ prev \in Builds \cup {NoBuild}
        BY <1>4 DEF PlanType, MemoType
      <3>3. q = [p EXCEPT !.paused = TRUE, !.record = rec]
        BY <2>1, <2>4 DEF PauseRecorded
      <3>4. note = "by hand" => was
        BY <1>3, <1>5, <2>4 DEF Showing
      <3> HIDE DEF was, note, prev
      <3>5. rec \in RecordType /\ rec.note = note /\ rec.was = was
        BY <1>2, <3>2 DEF RecordType
      <3>6. rec # NoRecord
        <4>1. "note" \in DOMAIN rec /\ "note" \notin DOMAIN NoRecord
          BY DEF NoRecord
        <4> QED
          BY <4>1
      <3> HIDE DEF rec
      <3>7. /\ q \in PlanType /\ q.there /\ q.paused /\ q.record = rec /\ q.conf = p.conf
        BY <1>4, <3>3, <3>5 DEF PlanType
      <3> HIDE DEF q
      <3>8. Showing(q, routed)
        BY <3>4, <3>5, <3>6, <3>7 DEF Showing
      <3>9. ByHand(p) => ByHand(q) /\ q.paused
        BY <2>4, <3>5, <3>6, <3>7 DEF ByHand, note
      <3> QED
        BY <1>3, <1>4, <2>1, <3>1, <3>7, <3>8, <3>9 DEF q
    <2> QED
      BY <2>3, <2>4
  <1>7. CASE order[b].do = "resume"
    <2>1. q = Resumed(p) /\ ~Migrates(b)
      BY <1>7 DEF Written, Migrates
    <2>2. p.conf = b /\ (Held(k) => p.record.op = op)
      BY <1>7 DEF Allowed, MayResume, Strict
    <2>3. routed = b
      BY <1>3, <1>7, <2>2 DEF BackgroundInv, ResumesRouted
    <2> DEFINE was == IF p.record = NoRecord THEN p.paused ELSE p.record.was
               note == IF p.record = NoRecord THEN p.note ELSE p.record.note
               after == was /\ note # "bootstrap"
               text == IF note = "bootstrap" THEN "" ELSE note
    <2>4. was \in BOOLEAN /\ note \in Notes
      BY <1>4 DEF PlanType, RecordType
    <2>5. note = "by hand" => was
      BY <1>3, <1>5 DEF Showing
    <2>6. q = [p EXCEPT !.record = NoRecord, !.paused = after, !.note = text]
      BY <2>1 DEF Resumed
    <2>7. ByHand(p) => note = "by hand"
      BY DEF ByHand
    <2> HIDE DEF was, note
    <2>8. /\ after \in BOOLEAN /\ text \in Notes /\ (note = "by hand" => after)
          /\ (text = "by hand" <=> note = "by hand")
      BY <2>4, <2>5 DEF Notes
    <2> HIDE DEF after, text
    <2>9. /\ q \in PlanType /\ q.there /\ q.paused = after /\ q.note = text
          /\ q.record = NoRecord /\ q.conf = b
      BY <1>4, <2>2, <2>6, <2>8 DEF PlanType
    <2> HIDE DEF q
    <2>10. Showing(q, routed)
      BY <2>3, <2>8, <2>9 DEF Showing
    <2>11. ByHand(p) => ByHand(q) /\ q.paused
      BY <2>7, <2>8, <2>9 DEF ByHand
    <2> QED
      BY <1>4, <2>1, <2>2, <2>9, <2>10, <2>11 DEF q
  <1>8. CASE Migrates(b)
    <2>1. p.record # NoRecord /\ Held(k) /\ p.record \in RecordType
      BY <1>4, <1>8 DEF Held, PlanType
    <2>2. p.record.op = op
      BY <1>8, <2>1 DEF Allowed, MayEnsure, MayRestore, Migrates
    <2>3. p.paused /\ (p.record.note = "by hand" => p.record.was)
      BY <1>3, <1>5, <2>1 DEF Showing
    <2>4. \E rec \in RecordType, memo \in MemoType :
            /\ q = [p EXCEPT !.conf = b, !.record = rec, !.memo = memo]
            /\ rec.op = op /\ rec.note = p.record.note /\ rec.was = p.record.was
      <3>1. CASE order[b].do = "ensure"
        <4> DEFINE rec == [p.record EXCEPT !.target = b]
                   memo == [op |-> p.record.op, original |-> p.record.original, target |-> b,
                            restoring |-> FALSE]
        <4>1. q = Migrated(b, p)
          BY <3>1 DEF Written
        <4>2. q = [p EXCEPT !.conf = b, !.record = rec, !.memo = memo]
          BY <4>1 DEF Migrated
        <4>3. /\ rec \in RecordType /\ rec.op = op /\ rec.note = p.record.note
              /\ rec.was = p.record.was
          BY <2>1, <2>2 DEF RecordType
        <4>4. memo \in MemoType
          BY <2>1 DEF RecordType, MemoType
        <4> QED
          BY <4>2, <4>3, <4>4
      <3>2. CASE order[b].do = "restore"
        <4> DEFINE rec == [p.record EXCEPT !.restoring = TRUE]
                   orig == IF p.record.target = NoBuild THEN p.record.original
                                                        ELSE p.record.target
                   memo == [op |-> p.record.op, target |-> b, restoring |-> TRUE,
                            original |-> orig]
        <4>1. q = Restored(b, p)
          BY <3>2 DEF Written
        <4>2. q = [p EXCEPT !.conf = b, !.record = rec, !.memo = memo]
          BY <4>1 DEF Restored
        <4>3. /\ rec \in RecordType /\ rec.op = op /\ rec.note = p.record.note
              /\ rec.was = p.record.was
          BY <2>1, <2>2 DEF RecordType
        <4>4. orig \in Builds
          BY <2>1 DEF RecordType
        <4>5. memo \in MemoType
          BY <2>1, <4>4 DEF RecordType, MemoType
        <4> QED
          BY <4>2, <4>3, <4>5
      <3> QED
        BY <1>8, <3>1, <3>2 DEF Migrates
    <2>5. PICK rec \in RecordType, memo \in MemoType :
            /\ q = [p EXCEPT !.conf = b, !.record = rec, !.memo = memo]
            /\ rec.op = op /\ rec.note = p.record.note /\ rec.was = p.record.was
      BY <2>4
    <2>6. rec # NoRecord
      <3>1. "note" \in DOMAIN rec /\ "note" \notin DOMAIN NoRecord
        BY DEF NoRecord, RecordType
      <3> QED
        BY <3>1
    <2>7. /\ q \in PlanType /\ q.there /\ q.paused /\ q.record = rec /\ q.conf = b
      BY <1>4, <2>3, <2>5 DEF PlanType
    <2> HIDE DEF q
    <2>8. Showing(q, routed)
      BY <2>3, <2>5, <2>6, <2>7 DEF Showing
    <2>9. ByHand(p) => ByHand(q) /\ q.paused
      BY <2>1, <2>5, <2>6, <2>7 DEF ByHand
    <2> QED
      BY <1>4, <1>8, <2>1, <2>2, <2>5, <2>6, <2>7, <2>8, <2>9 DEF q
  <1> QED
    BY <1>2, <1>6, <1>7, <1>8 DEF Migrates

\* What a process does after it has written one schedule.
LEMMA AfterWriting ==
    ASSUME BackgroundInv, NEW b \in Builds, Wrote(b)
    PROVE  /\ order[b] \in ControlType
           /\ \E next \in ControlType \cup {NoOrder} :
                /\ order' = [order EXCEPT ![b] = next]
                /\ next.do # "none" =>
                     /\ next.do = order[b].do /\ next.op = order[b].op
                     /\ \/ /\ order[b].at < TaskCount
                           /\ next.stage = "write" /\ next.at = order[b].at + 1
                        \/ /\ order[b].at = TaskCount
                           /\ next.stage = "promote" <=> Migrates(b)
                           /\ next.stage \in {"promote", "settle", "release"}
                           /\ next.stage = "settle" => ~Migrates(b)
  <1> DEFINE k == order[b].at
             stage == IF Migrates(b) THEN "promote"
                      ELSE IF order[b].do = "drain" THEN "settle" ELSE "release"
  <1>1. order[b] \in ControlType
    BY OrdersApart DEF Wrote, Controls, BackgroundInv, BackgroundTypeOK
  <1>2. order[b].stage = "write" /\ k \in Tasks /\ order[b].do \notin {"none", "start"}
    BY <1>1 DEF Wrote, Controls, ControlType
  <1>3. CASE k < TaskCount
    <2> DEFINE next == [order[b] EXCEPT !.at = k + 1]
    <2>1. order' = [order EXCEPT ![b] = next]
      BY <1>3 DEF Wrote
    <2>2. k + 1 \in Tasks
      BY <1>2, <1>3, TaskAssumption DEF Tasks
    <2> HIDE DEF k
    <2>3. /\ next \in ControlType /\ next.do = order[b].do /\ next.op = order[b].op
          /\ next.stage = "write" /\ next.at = k + 1
      BY <1>1, <1>2, <2>2 DEF ControlType
    <2> HIDE DEF next
    <2> QED
      BY <1>1, <1>3, <2>1, <2>3 DEF k
  <1>4. k = TaskCount \/ k < TaskCount
    BY <1>2, TaskAssumption DEF Tasks
  <1>5. CASE k = TaskCount /\ order[b].do = "pause"
    <2>1. order' = [order EXCEPT ![b] = NoOrder]
      BY <1>5, TaskAssumption DEF Wrote
    <2>2. NoOrder.do = "none"
      BY DEF NoOrder
    <2> QED
      BY <1>1, <2>1, <2>2
  <1>6. CASE k = TaskCount /\ order[b].do # "pause"
    <2> DEFINE next == [order[b] EXCEPT !.stage = stage]
    <2>1. order' = [order EXCEPT ![b] = next]
      BY <1>6, TaskAssumption DEF Wrote, To
    <2>2. /\ stage \in {"promote", "settle", "release"}
          /\ stage = "promote" <=> Migrates(b)
          /\ stage = "settle" => ~Migrates(b)
      OBVIOUS
    <2> HIDE DEF stage
    <2>3. /\ next \in ControlType /\ next.do = order[b].do /\ next.op = order[b].op
          /\ next.stage = stage
      BY <1>1, <2>2 DEF ControlType
    <2> HIDE DEF next
    <2> QED
      BY <1>1, <1>6, <2>1, <2>2, <2>3
  <1> QED
    BY <1>3, <1>4, <1>5, <1>6

\* A process writes one schedule: no other one can be in the middle of a migration, or
\* about to promote a build.
LEMMA WroteKeeps ==
    ASSUME BackgroundInv, NEW b \in Builds, Wrote(b)
    PROVE  BackgroundInv'
  <1> DEFINE k == order[b].at
             q == Written(b, plan[k])
  <1>1. /\ InControl(b) /\ order[b].stage = "write" /\ Allowed(b, k)
        /\ Migrates(b) => Held(k)
        /\ plan' = [plan EXCEPT ![k] = q] /\ UNCHANGED <<routed, tick>>
    BY DEF Wrote, Controls, InControl
  <1>2. PICK next \in ControlType \cup {NoOrder} :
          /\ order' = [order EXCEPT ![b] = next]
          /\ next.do # "none" =>
               /\ next.do = order[b].do /\ next.op = order[b].op
               /\ \/ k < TaskCount /\ next.stage = "write" /\ next.at = k + 1
                  \/ /\ k = TaskCount
                     /\ next.stage = "promote" <=> Migrates(b)
                     /\ next.stage \in {"promote", "settle", "release"}
                     /\ next.stage = "settle" => ~Migrates(b)
    BY AfterWriting
  <1>3. k \in Tasks
    BY AfterWriting DEF ControlType
  <1>4. /\ plan[k] \in PlanType /\ q \in PlanType /\ Showing(q, routed) /\ q.there
        /\ Held(k) => plan[k].record.op = order[b].op
        /\ ~Held(k) => plan[k].conf = b /\ ~Migrates(b)
        /\ Migrates(b) => /\ q.conf = b /\ q.record # NoRecord /\ q.record.op = order[b].op
        /\ ~Migrates(b) => q.conf = plan[k].conf
    BY <1>1, <1>3, WrittenShows
  <1> HIDE DEF q
  <1>5. /\ plan' \in [Tasks -> PlanType \cup {NoPlan}] /\ plan'[k] = q
        /\ \A j \in Tasks \ {k} : plan'[j] = plan[j]
    BY <1>1, <1>3, <1>4 DEF BackgroundInv, BackgroundTypeOK
  <1>6. /\ order' \in [Builds -> ControlType \cup StartType \cup {NoOrder}]
        /\ order'[b] = next /\ \A c \in Builds \ {b} : order'[c] = order[c]
    BY <1>2 DEF BackgroundInv, BackgroundTypeOK
  <1>7. BackgroundTypeOK'
    BY <1>1, <1>5, <1>6 DEF BackgroundInv, BackgroundTypeOK
  <1>8. OneToolEach'
    BY <1>1, <1>2, <1>6 DEF BackgroundInv, OneToolEach, InControl
  <1>9. \A j \in Tasks : Showing(plan'[j], routed')
    BY <1>1, <1>4, <1>5 DEF BackgroundInv
  <1>10. plan[k].there
    BY <1>4 DEF PlanType
  <1>11. (ResumesRouted(b) /\ Migrating(b) /\ Promoting(b))'
    <2>1. ResumesRouted(b) /\ Migrating(b)
      BY DEF BackgroundInv
    <2>2. CASE next.do = "none"
      BY <1>6, <2>2 DEF ResumesRouted, Migrating, Promoting, InControl, Controls
    <2>3. CASE next.do # "none"
      <3>1. order'[b].do = order[b].do /\ order'[b].op = order[b].op
        BY <1>2, <1>6, <2>3
      <3>2. ResumesRouted(b)'
        <4> SUFFICES ASSUME order[b].do = "resume", routed # b, NEW j \in Tasks, plan'[j].there
                     PROVE  plan'[j].conf # b
          BY <1>1, <3>1 DEF ResumesRouted
        <4>1. ~Migrates(b)
          BY DEF Migrates
        <4> QED
          BY <1>4, <1>5, <1>10, <2>1, <4>1 DEF ResumesRouted
      <3>3. CASE Migrates(b)
        <4>1. /\ \A j \in Tasks : plan[j].there /\ Held(j) /\ plan[j].record.op = order[b].op
              /\ \A j \in Tasks : tick[j] = NoTick
              /\ \A j \in Tasks : j < k => plan[j].conf = b
          BY <1>1, <2>1, <3>3 DEF Migrating
        <4>2. \A j \in Tasks : /\ plan'[j].there /\ plan'[j].record # NoRecord
                               /\ plan'[j].record.op = order[b].op
                               /\ j <= k => plan'[j].conf = b
          <5> SUFFICES ASSUME NEW j \in Tasks
                       PROVE  /\ plan'[j].there /\ plan'[j].record # NoRecord
                              /\ plan'[j].record.op = order[b].op
                              /\ j <= k => plan'[j].conf = b
            OBVIOUS
          <5>1. CASE j = k
            BY <1>4, <1>5, <3>3, <5>1
          <5>2. CASE j # k
            <6>1. plan'[j] = plan[j] /\ (j <= k => j < k)
              BY <1>3, <1>5, <5>2 DEF Tasks
            <6> QED
              BY <4>1, <6>1 DEF Held
          <5> QED
            BY <5>1, <5>2
        <4>3. k \in Int /\ TaskCount \in Int /\ \A j \in Tasks : j \in Int /\ j <= TaskCount
          BY <1>3, TaskAssumption DEF Tasks
        <4>4. Migrating(b)'
          <5>1. \A j \in Tasks : (Held(j))'
            BY <4>2 DEF Held
          <5>2. order'[b].stage = "write" => order'[b].at = k + 1
            BY <1>2, <1>6, <2>3
          <5>3. order'[b].stage = "write" =>
                  \A j \in Tasks : j < order'[b].at => plan'[j].conf = b
            BY <4>2, <4>3, <5>2
          <5>4. order'[b].stage \in {"write", "promote"}
            BY <1>2, <1>6, <2>3, <3>3
          <5> QED
            BY <1>1, <3>1, <4>1, <4>2, <5>1, <5>3, <5>4 DEF Migrating
        <4>5. Promoting(b)'
          <5>1. order'[b].stage = "promote" => k = TaskCount
            BY <1>2, <1>6, <2>3
          <5> QED
            BY <3>1, <4>2, <4>3, <5>1 DEF Promoting, Controls
        <4> QED
          BY <3>2, <4>4, <4>5
      <3>4. CASE ~Migrates(b)
        <4>1. Migrating(b)'
          BY <3>1, <3>4 DEF Migrating, Migrates
        <4>2. Promoting(b)'
          BY <1>2, <1>6, <2>3, <3>4 DEF Promoting, Controls
        <4> QED
          BY <3>2, <4>1, <4>2
      <3> QED
        BY <3>3, <3>4
    <2> QED
      BY <2>2, <2>3
  <1>12. ASSUME NEW c \in Builds \ {b}
         PROVE  (ResumesRouted(c) /\ Migrating(c) /\ Promoting(c))'
    <2>1. ResumesRouted(c) /\ Migrating(c) /\ Promoting(c) /\ order'[c] = order[c]
      BY <1>6 DEF BackgroundInv
    <2>2. ResumesRouted(c)'
      <3>1. \A j \in Tasks : plan'[j].there /\ plan'[j].conf = c =>
              plan[j].there /\ plan[j].conf = c
        BY <1>4, <1>5, <1>10
      <3> QED
        BY <1>1, <2>1, <3>1 DEF ResumesRouted
    <2>3. ASSUME InControl(c) PROVE ~(Held(k) /\ plan[k].record.op = order[c].op)
      BY <1>1, <1>4, <2>3 DEF BackgroundInv, OneToolEach
    <2>4. Migrating(c)'
      <3>1. ~(InControl(c) /\ Migrates(c) /\ order[c].stage \in {"settle", "write"})
        BY <1>3, <2>1, <2>3 DEF Migrating
      <3> QED
        BY <2>1, <3>1 DEF Migrating, InControl, Migrates
    <2>5. Promoting(c)'
      <3>1. ~Controls(c, "promote")
        BY <1>3, <1>4, <2>1, <2>3 DEF Promoting, Controls, InControl
      <3> QED
        BY <2>1, <3>1 DEF Promoting, Controls
    <2> QED
      BY <2>2, <2>4, <2>5
  <1> QED
    BY <1>7, <1>8, <1>9, <1>11, <1>12 DEF BackgroundInv

\* A process asks, and looks at all schedules before it changes any.
LEMMA AskedKeeps ==
    ASSUME BackgroundInv, NEW b \in Builds, NEW op \in Operations,
           NEW do \in {"pause", "drain", "resume", "ensure", "restore"}, Asked(b, do, op)
    PROVE  BackgroundInv'
  <1> DEFINE next == [do |-> do, op |-> op, stage |-> "check", at |-> 1]
  <1>1. /\ next \in ControlType /\ next.do = do /\ next.op = op /\ next.stage = "check"
    BY TaskAssumption DEF ControlType, Tasks
  <1>2. order' = [order EXCEPT ![b] = next] /\ UNCHANGED <<plan, routed, tick>>
    BY DEF Asked
  <1> HIDE DEF next
  <1>3. order'[b] = next
    BY <1>2 DEF BackgroundInv, BackgroundTypeOK
  <1>4. \A c \in Builds \ {b} : InControl(c) => order[c].op # next.op
    BY <1>1 DEF Asked, InControl
  <1>5. (ResumesRouted(b) /\ Migrating(b) /\ Promoting(b))'
    BY <1>1, <1>2, <1>3 DEF Asked, ResumesRouted, Migrating, Promoting, Controls
  <1>6. tick' \in [Tasks -> TickType \cup {NoTick}]
    BY <1>2 DEF BackgroundInv, BackgroundTypeOK
  <1> QED
    BY <1>1, <1>2, <1>4, <1>5, <1>6, OrderMoves

\* An order goes on to its next stage.
LEMMA StageKeeps ==
    ASSUME BackgroundInv, NEW b \in Builds, InControl(b), UNCHANGED <<plan, routed, tick>>,
           NEW stage \in {"settle", "write", "promote", "release"}, To(b, stage),
           Migrates(b) /\ stage \in {"settle", "write"} =>
             \A k \in Tasks : plan[k].there /\ Held(k) /\ plan[k].record.op = order[b].op,
           Migrates(b) /\ stage \in {"settle", "write"} => order[b].at = 1,
           Migrates(b) /\ stage = "write" => \A k \in Tasks : tick[k] = NoTick,
           stage = "promote" =>
             \A k \in Tasks : /\ plan[k].there /\ plan[k].conf = b
                              /\ Held(k) => plan[k].record.op = order[b].op
    PROVE  BackgroundInv'
  <1> DEFINE next == [order[b] EXCEPT !.stage = stage]
  <1>1. order[b] \in ControlType
    BY OrdersApart DEF InControl, BackgroundInv, BackgroundTypeOK
  <1>2. /\ next \in ControlType /\ next.do = order[b].do /\ next.op = order[b].op
        /\ next.stage = stage /\ next.at = order[b].at
    BY <1>1 DEF ControlType
  <1>3. order' = [order EXCEPT ![b] = next]
    BY DEF To
  <1> HIDE DEF next
  <1>4. order'[b] = next
    BY <1>3 DEF BackgroundInv, BackgroundTypeOK
  <1>5. \A c \in Builds \ {b} : InControl(c) => order[c].op # next.op
    BY <1>2 DEF BackgroundInv, OneToolEach
  <1>6. ResumesRouted(b)'
    BY <1>2, <1>4 DEF BackgroundInv, ResumesRouted
  <1>7. Migrating(b)'
    <2> SUFFICES ASSUME Migrates(b), stage \in {"settle", "write"}
                 PROVE  /\ \A k \in Tasks : plan[k].there /\ Held(k)
                                            /\ plan[k].record.op = order[b].op
                        /\ stage = "write" => /\ \A k \in Tasks : tick[k] = NoTick
                                              /\ \A k \in Tasks : ~(k < order[b].at)
      BY <1>2, <1>4 DEF Migrating, Migrates, Held
    <2>1. \A k \in Tasks : ~(k < 1)
      BY TaskAssumption DEF Tasks
    <2> QED
      BY <2>1
  <1>8. Promoting(b)'
    BY <1>2, <1>4 DEF Promoting, Controls, Held
  <1>9. tick' \in [Tasks -> TickType \cup {NoTick}]
    BY DEF BackgroundInv, BackgroundTypeOK
  <1> QED
    BY <1>2, <1>3, <1>5, <1>6, <1>7, <1>8, <1>9, OrderMoves

\* All schedules have been looked at, or are at rest.
LEMMA CheckedKeeps ==
    ASSUME BackgroundInv, NEW b \in Builds, Checked(b) \/ Drained(b)
    PROVE  BackgroundInv'
  <1>1. InControl(b) /\ UNCHANGED <<plan, routed, tick>>
    BY DEF Checked, Drained, Controls, InControl
  <1>2. order[b] \in ControlType
    BY <1>1, OrdersApart DEF InControl, BackgroundInv, BackgroundTypeOK
  <1>3. order[b].do \in {"pause", "drain", "resume", "ensure", "restore"}
    BY <1>2 DEF ControlType
  <1>4. Migrating(b) /\ tick \in [Tasks -> TickType \cup {NoTick}]
    BY DEF BackgroundInv, BackgroundTypeOK
  <1>5. CASE Checked(b)
    <2>1. (\A k \in Tasks : Allowed(b, k)) /\ order[b].stage = "check"
      BY <1>5 DEF Checked, Controls
    <2>2. ASSUME Migrates(b), NEW k \in Tasks
          PROVE  /\ plan[k].there
                 /\ Held(k) => plan[k].record.op = order[b].op
                 /\ ~Held(k) => plan[k].conf = b
      BY <2>1, <2>2 DEF Migrates, Allowed, MayEnsure, MayRestore, Observed, Strict
    <2>3. CASE ~Migrates(b) /\ To(b, "write")
      BY <1>1, <2>3, StageKeeps
    <2>4. CASE Migrates(b) /\ (\A k \in Tasks : Held(k)) /\ To(b, "settle")
      <3>1. order[b].at = 1
        BY <1>1, <1>4, <2>1, <2>4 DEF Migrating
      <3>2. \A k \in Tasks : plan[k].there /\ Held(k) /\ plan[k].record.op = order[b].op
        BY <2>2, <2>4
      <3> QED
        BY <1>1, <2>4, <3>1, <3>2, StageKeeps
    <2>5. CASE Migrates(b) /\ (\A k \in Tasks : ~Held(k)) /\ To(b, "promote")
      BY <1>1, <2>2, <2>5, StageKeeps
    <2> QED
      BY <1>5, <2>3, <2>4, <2>5 DEF Checked
  <1>6. CASE Drained(b)
    <2>1. order[b].stage = "settle" /\ \A k \in Tasks : tick[k] = NoTick
      BY <1>6 DEF Drained, Controls
    <2>2. CASE Migrates(b)
      <3>1. To(b, "write") /\ order[b].at = 1
        BY <1>1, <1>4, <1>6, <2>1, <2>2 DEF Drained, Migrating
      <3>2. \A k \in Tasks : plan[k].there /\ Held(k) /\ plan[k].record.op = order[b].op
        BY <1>1, <1>4, <2>1, <2>2 DEF Migrating
      <3> QED
        BY <1>1, <2>1, <3>1, <3>2, StageKeeps
    <2>3. CASE ~Migrates(b)
      <3>1. order' = [order EXCEPT ![b] = NoOrder]
        BY <1>6, <2>3 DEF Drained
      <3> QED
        BY <1>1, <1>4, <3>1, OrderEnds
    <2> QED
      BY <2>2, <2>3
  <1> QED
    BY <1>5, <1>6

\* A build is promoted: every schedule has its configuration already.
LEMMA PromotedKeeps ==
    ASSUME BackgroundInv, NEW b \in Builds, Promoted(b)
    PROVE  BackgroundInv'
  <1>1. /\ \A k \in Tasks : plan[k].there /\ plan[k].conf = b
        /\ routed' = b /\ UNCHANGED <<plan, tick>>
        /\ order' = [order EXCEPT ![b] = NoOrder]
    BY DEF Promoted, BackgroundInv, Promoting
  <1>2. /\ order' \in [Builds -> ControlType \cup StartType \cup {NoOrder}]
        /\ order'[b].do = "none" /\ \A c \in Builds \ {b} : order'[c] = order[c]
    BY <1>1 DEF BackgroundInv, BackgroundTypeOK, NoOrder
  <1>3. BackgroundTypeOK' /\ OneToolEach'
    BY <1>1, <1>2 DEF BackgroundInv, BackgroundTypeOK, OneToolEach, InControl
  <1>4. \A k \in Tasks : Showing(plan'[k], routed')
    BY <1>1 DEF BackgroundInv, Showing
  <1>5. (ResumesRouted(b) /\ Migrating(b) /\ Promoting(b))'
    BY <1>2 DEF ResumesRouted, Migrating, Promoting, InControl, Controls
  <1>6. ASSUME NEW c \in Builds \ {b}
        PROVE  (ResumesRouted(c) /\ Migrating(c) /\ Promoting(c))'
    <2>1. Migrating(c) /\ Promoting(c) /\ order'[c] = order[c]
      BY <1>2 DEF BackgroundInv
    <2>2. ResumesRouted(c)'
      BY <1>1 DEF ResumesRouted
    <2>3. Migrating(c)' /\ Promoting(c)'
      BY <1>1, <2>1 DEF Migrating, Promoting, InControl, Migrates, Controls, Held
    <2> QED
      BY <2>2, <2>3
  <1> QED
    BY <1>3, <1>4, <1>5, <1>6 DEF BackgroundInv

\* Ticks come while a schedule runs, and go on by themselves.
LEMMA TicksKeep ==
    ASSUME BackgroundInv, NEW k \in Tasks,
           \/ Fired(k) \/ Began(k) \/ Looked(k)
           \/ ActivityAdmitted(k) \/ ActivityEnded(k) \/ TickEnded(k)
    PROVE  BackgroundInv'
  <1>1. tick[k] \in TickType \cup {NoTick} /\ routed \in Builds \cup {NoBuild}
    BY DEF BackgroundInv, BackgroundTypeOK
  <1>2. CASE Fired(k)
    <2>1. [step |-> "buffered", build |-> NoBuild] \in TickType
      BY DEF TickType
    <2> QED
      BY <1>2, <2>1, TickKeeps DEF Fired
  <1>3. CASE Began(k)
    <2>1. [step |-> "running", build |-> routed] \in TickType /\ tick[k] # NoTick
      BY <1>1, <1>3 DEF TickType, Began, NoTick
    <2> QED
      BY <1>3, <2>1, TickKeeps DEF Began
  <1>4. CASE Looked(k) \/ ActivityAdmitted(k) \/ ActivityEnded(k)
    <2>1. tick[k] # NoTick /\ tick[k] \in TickType
      BY <1>1, <1>4 DEF Looked, ActivityAdmitted, ActivityEnded, NoTick
    <2>2. \A s \in {"looked", "active", "running"} : [tick[k] EXCEPT !.step = s] \in TickType
      BY <2>1 DEF TickType
    <2>3. \E s \in {"looked", "active", "running"} :
            tick' = [tick EXCEPT ![k] = [tick[k] EXCEPT !.step = s]]
      BY <1>4 DEF Looked, ActivityAdmitted, ActivityEnded
    <2>4. UNCHANGED <<plan, routed, daemon, order>>
      BY <1>4 DEF Looked, ActivityAdmitted, ActivityEnded
    <2> QED
      BY <2>1, <2>2, <2>3, <2>4, TickKeeps
  <1>5. CASE TickEnded(k)
    <2>1. tick[k] # NoTick
      BY <1>5 DEF TickEnded, NoTick
    <2> QED
      BY <1>5, <2>1, TickKeeps DEF TickEnded
  <1> QED
    BY <1>2, <1>3, <1>4, <1>5

\* A process starts, dies, or gives up what it was asked for.
LEMMA ProcessKeeps ==
    ASSUME BackgroundInv, NEW b \in Builds,
           Launched(b) \/ Died(b) \/ Unblocked(b) \/ Failed(b)
    PROVE  BackgroundInv'
  <1>1. tick \in [Tasks -> TickType \cup {NoTick}]
    BY DEF BackgroundInv, BackgroundTypeOK
  <1>2. CASE Launched(b)
    <2> DEFINE next == [do |-> "start", stage |-> "check", at |-> 1]
    <2>1. next \in StartType /\ next.do = "start"
      BY TaskAssumption DEF StartType, Tasks
    <2>2. order' = [order EXCEPT ![b] = next] /\ UNCHANGED <<plan, routed, tick>>
      BY <1>2 DEF Launched
    <2> HIDE DEF next
    <2>3. order'[b] = next
      BY <2>2 DEF BackgroundInv, BackgroundTypeOK
    <2>4. (ResumesRouted(b) /\ Migrating(b) /\ Promoting(b))'
      BY <2>1, <2>3 DEF ResumesRouted, Migrating, Promoting, InControl, Controls
    <2> QED
      BY <1>1, <2>1, <2>2, <2>4, OrderMoves
  <1>3. CASE Died(b)
    <2>1. ASSUME NEW k \in Tasks
          PROVE  /\ tick'[k] \in TickType \cup {NoTick}
                 /\ tick[k] = NoTick => tick'[k] = NoTick
      <3>1. CASE tick[k] = NoTick
        BY <1>3, <3>1 DEF Died, NoTick
      <3>2. CASE tick[k] \in TickType
        <4>1. [tick[k] EXCEPT !.step = "running"] \in TickType
          BY <3>2 DEF TickType
        <4>2. tick[k] # NoTick
          BY <3>2 DEF TickType, NoTick
        <4> QED
          BY <1>3, <3>2, <4>1, <4>2 DEF Died
      <3> QED
        BY <1>1, <3>1, <3>2
    <2>2. tick' \in [Tasks -> TickType \cup {NoTick}]
      <3>1. tick' = [k \in Tasks |-> tick'[k]]
        BY <1>3 DEF Died
      <3> QED
        BY <2>1, <3>1
    <2> QED
      BY <1>3, <2>1, <2>2, OrderEnds DEF Died
  <1>4. CASE Unblocked(b) \/ Failed(b)
    BY <1>1, <1>4, OrderEnds DEF Unblocked, Failed
  <1> QED
    BY <1>2, <1>3, <1>4

\* Every step keeps the invariant.
LEMMA BackgroundKept == BackgroundInv /\ [BackgroundNext]_backgroundVars => BackgroundInv'
  <1> SUFFICES ASSUME BackgroundInv, [BackgroundNext]_backgroundVars PROVE BackgroundInv'
    OBVIOUS
  <1>1. CASE UNCHANGED backgroundVars
    BY <1>1 DEF backgroundVars, BackgroundInv, BackgroundTypeOK, OneToolEach, InControl,
       ResumesRouted, Migrating, Promoting, Migrates, Controls, Held
  <1>2. HandTasks \subseteq Tasks
    BY TaskAssumption DEF Tasks
  <1> QED
    BY <1>1, <1>2, ProcessKeeps, ReconciledKeeps, AskedKeeps, CheckedKeeps, WroteKeeps,
       PromotedKeeps, TicksKeep, HandKeeps
    DEF BackgroundNext

\* What UpgradeUnderControl says of a step.
UnderControl ==
    \A k \in Tasks :
        /\ plan'[k].there /\ ~plan'[k].paused => plan'[k].conf = routed'
        /\ plan[k].there /\ plan'[k].conf # plan[k].conf => \A j \in Tasks : tick[j] = NoTick
        /\ ByHand(plan[k]) /\ order' # order => ByHand(plan'[k]) /\ plan'[k].paused

\* What was paused by hand is paused, under an operation or not.
LEMMA ByHandIsPaused ==
    ASSUME BackgroundInv, NEW k \in Tasks, ByHand(plan[k])
    PROVE  plan[k].paused
  BY DEF BackgroundInv, Showing, ByHand

\* A step that leaves the schedules alone, makes one, or writes one.
LEMMA ControlStep ==
    ASSUME BackgroundInv, BackgroundNext, BackgroundInv'
    PROVE  UnderControl
  <1>1. \A k \in Tasks : plan'[k].there /\ ~plan'[k].paused => plan'[k].conf = routed'
    BY DEF BackgroundInv, Showing
  <1>2. CASE \E k \in HandTasks : PausedByHand(k) \/ ReleasedByHand(k)
    <2>1. PICK h \in HandTasks : PausedByHand(h) \/ ReleasedByHand(h)
      BY <1>2
    <2>2. order' = order /\ h \in Tasks
      BY <2>1, TaskAssumption DEF PausedByHand, ReleasedByHand, Tasks
    <2>3. plan[h].there
      BY <2>1 DEF PausedByHand, ReleasedByHand
    <2>4. plan[h] \in PlanType /\ plan \in [Tasks -> PlanType \cup {NoPlan}]
      BY <2>2, <2>3 DEF BackgroundInv, BackgroundTypeOK, NoPlan
    <2>5. \/ plan' = [plan EXCEPT ![h].paused = TRUE, ![h].note = "by hand"]
          \/ plan' = [plan EXCEPT ![h].paused = FALSE, ![h].note = ""]
      BY <2>1 DEF PausedByHand, ReleasedByHand
    <2>6. plan'[h].conf = plan[h].conf /\ \A k \in Tasks \ {h} : plan'[k] = plan[k]
      <3>1. CASE plan' = [plan EXCEPT ![h].paused = TRUE, ![h].note = "by hand"]
        BY <2>2, <2>4, <3>1 DEF PlanType
      <3>2. CASE plan' = [plan EXCEPT ![h].paused = FALSE, ![h].note = ""]
        BY <2>2, <2>4, <3>2 DEF PlanType
      <3> QED
        BY <2>5, <3>1, <3>2
    <2> QED
      BY <1>1, <2>2, <2>6 DEF UnderControl
  <1>3. CASE plan' = plan
    BY <1>1, <1>3, ByHandIsPaused DEF UnderControl
  <1>4. ASSUME NEW b \in Builds, Reconciled(b), plan' # plan PROVE UnderControl
    <2>1. \A k \in Tasks : plan[k].there => plan'[k] = plan[k]
      BY <1>4 DEF Reconciled, BackgroundInv, BackgroundTypeOK
    <2>2. \A k \in Tasks : ByHand(plan[k]) => plan[k].there
      BY DEF ByHand
    <2> QED
      BY <1>1, <2>1, <2>2, ByHandIsPaused DEF UnderControl
  <1>5. ASSUME NEW b \in Builds, Wrote(b) PROVE UnderControl
    <2> DEFINE h == order[b].at
               q == Written(b, plan[h])
    <2>1. /\ InControl(b) /\ order[b].stage = "write" /\ Allowed(b, h)
          /\ Migrates(b) => Held(h)
          /\ plan' = [plan EXCEPT ![h] = q]
      BY <1>5 DEF Wrote, Controls, InControl
    <2>2. h \in Tasks
      BY <1>5, AfterWriting DEF ControlType
    <2>3. /\ ~Migrates(b) => q.conf = plan[h].conf
          /\ ByHand(plan[h]) => ByHand(q) /\ q.paused
      BY <2>1, <2>2, WrittenShows
    <2>4. Migrates(b) => \A j \in Tasks : tick[j] = NoTick
      BY <2>1 DEF BackgroundInv, Migrating
    <2> HIDE DEF q
    <2>5. plan'[h] = q /\ \A k \in Tasks \ {h} : plan'[k] = plan[k]
      BY <2>1, <2>2 DEF BackgroundInv, BackgroundTypeOK
    <2> SUFFICES ASSUME NEW k \in Tasks
                 PROVE  /\ plan[k].there /\ plan'[k].conf # plan[k].conf =>
                             \A j \in Tasks : tick[j] = NoTick
                        /\ ByHand(plan[k]) => ByHand(plan'[k]) /\ plan'[k].paused
      BY <1>1 DEF UnderControl
    <2>6. CASE k = h
      BY <2>3, <2>4, <2>5, <2>6
    <2>7. CASE k # h
      BY <2>5, <2>7, ByHandIsPaused
    <2> QED
      BY <2>6, <2>7
  <1>6. \/ plan' = plan
        \/ \E b \in Builds : Reconciled(b) \/ Wrote(b)
        \/ \E k \in HandTasks : PausedByHand(k) \/ ReleasedByHand(k)
    BY DEF BackgroundNext, Launched, Died, Asked, Checked, Drained, Promoted, Unblocked, Failed,
       Fired, Began, Looked, ActivityAdmitted, ActivityEnded, TickEnded
  <1> QED
    BY <1>2, <1>3, <1>4, <1>5, <1>6

\* For any number of builds, schedules and operations, and processes that die at any step: a
\* schedule that runs has the configuration of the routed build, a configuration changes while
\* no tick is left, and no operation lets go what was paused by hand (Update, changePause,
\* migrateSchedules).
THEOREM UpgradeIsUnderControl == BackgroundSpec => UpgradeUnderControl
  <1>1. BackgroundInv /\ [BackgroundNext]_backgroundVars =>
          [plan' # plan \/ routed' # routed =>
             \A k \in Tasks :
                /\ plan'[k].there /\ ~plan'[k].paused => plan'[k].conf = routed'
                /\ plan[k].there /\ plan'[k].conf # plan[k].conf =>
                      \A j \in Tasks : tick[j] = NoTick
                /\ ByHand(plan[k]) /\ order' # order => ByHand(plan'[k]) /\ plan'[k].paused
          ]_backgroundVars
    BY BackgroundKept, ControlStep DEF UnderControl
  <1> QED
    BY <1>1, BackgroundStarts, BackgroundKept, PTL DEF BackgroundSpec, UpgradeUnderControl

=============================================================================
