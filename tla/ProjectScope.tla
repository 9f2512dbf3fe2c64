---------------------------- MODULE ProjectScope ----------------------------
(***************************************************************************)
(* The scope of one project: its service items, the supplement branch of a *)
(* contract project and the scope changes of a native one.  Operations are *)
(* transactions that read under the snapshot of their first plain read and *)
(* lock rows of items and the row of the project, not all in one order.    *)
(* What a transaction writes is seen by others when it commits, so its     *)
(* writes are one step.                                                    *)
(***************************************************************************)
EXTENDS Integers, FiniteSets

CONSTANTS
    Lines,        \* lines of the contract's service list, in the order of row ids
    Generations,  \* how often the items can be replaced, plus one
    Clients,      \* people who work on the project, one operation each at a time
    NoClient,
    Scopes,       \* sets of lines that an adjustment or a scope change may bring
    Sources       \* where projects come from: CONTRACT, NATIVE

ASSUME LinesAssumption == Lines \subseteq Nat /\ Lines # {}
ASSUME ScopesAssumption == Scopes \subseteq (SUBSET Lines) \ {{}}
ASSUME ClientsAssumption == NoClient \notin Clients
ASSUME SourcesAssumption == Sources \subseteq {"CONTRACT", "NATIVE"}

VARIABLES
    source,       \* pm_project.source_kind
    item,         \* status of each row of pm_service_item; "none": archived or not yet there
    generation,   \* of the rows in force; scope_version of a native project
    supplement,   \* pm_project.supplement_status
    adjusted,     \* scope of the latest DECOMPOSITION_ADJUSTED event
    baseline,     \* scope that counts as agreed
    change,       \* the latest row of pm_native_scope_change
    cached,       \* pm_project.status
    itemHolder,   \* who holds the lock on a row
    headHolder,   \* who holds the lock on the row of the project
    work          \* the operation of each client

scopeVars == <<source, item, generation, supplement, adjusted, baseline, change, cached,
               itemHolder, headHolder, work>>

Rows == (1 .. Generations) \X Lines

\* Statuses of an item: ToConfirm, ToAssign, Working (every status from the assignment of a
\* team on), Terminated; "none" for a row that is archived or not yet there.
Live(items) == {r \in Rows : items[r] # "none"}
ScopeOf(items) == {r[2] : r \in Live(items)}
Fresh(g, lines) ==
    [r \in Rows |-> IF r[1] = g /\ r[2] \in lines THEN "ToConfirm" ELSE "none"]

\* DeriveProjectStatus: the item that lags furthest behind, terminated ones left out.
Derived(items, branch, stored) ==
    LET left == {items[r] : r \in Live(items)} \ {"Terminated"}
    IN  IF branch = "REQUIRED" THEN "Supplement"
        ELSE IF Live(items) = {} THEN stored
        ELSE IF left = {} THEN "Terminated"
        ELSE IF "ToConfirm" \in left THEN "ToConfirm"
        ELSE IF "ToAssign" \in left THEN "ToAssign" ELSE "Working"

\* ScopeChangeBaseline and checkNativeScopeBaseline compare the live items with it.
BaselineHolds == ScopeOf(item) = baseline

NoSnapshot == [item |-> [r \in Rows |-> "none"], adjusted |-> {}]
NoChange == [status |-> "NONE", by |-> NoClient, base |-> 0, lines |-> {}]
Idle == [op |-> "none", begun |-> FALSE, rows |-> {}, lines |-> {}, view |-> NoSnapshot,
         proposal |-> NoChange]

\* A project is created with its items; a split rule may have them start confirmed.
\* The rows of generation 1 may also be those of an earlier adjustment.
ScopeInit ==
    /\ source \in Sources
    /\ supplement \in IF source = "NATIVE" THEN {"NONE"} ELSE {"NONE", "REQUIRED"}
    /\ \E start \in IF source = "CONTRACT" /\ supplement = "NONE"
                     THEN {"ToConfirm", "ToAssign"} ELSE {"ToConfirm"} :
         item = [r \in Rows |-> IF r[1] = 1 THEN start ELSE "none"]
    /\ cached = Derived(item, supplement, "ToConfirm")
    /\ generation = 1
    /\ adjusted = IF supplement = "REQUIRED" THEN Lines ELSE {}
    /\ baseline = Lines
    /\ change = NoChange
    /\ itemHolder = [r \in Rows |-> NoClient]
    /\ headHolder = NoClient
    /\ work = [c \in Clients |-> Idle]

-----------------------------------------------------------------------------
(* What the service does before a transaction *)

Asks(c, order) ==
    /\ work[c].op = "none"
    /\ work' = [work EXCEPT ![c] = order]
    /\ UNCHANGED <<source, item, generation, supplement, adjusted, baseline, change, cached,
                   itemHolder, headHolder>>

\* VerifySupplementExit
Applied(scope, items) == scope # {} /\ scope = ScopeOf(items)

\* ValidateNativeScopeIfApplicable
NativeScopeValid == source = "NATIVE" => change.status # "PENDING" /\ BaselineHolds

\* CheckScopeChange: a scope that drifted is recorded instead of being confirmed;
\* in the supplement branch the exit is checked instead.
ConfirmationAsked(c, rows) ==
    /\ rows \subseteq Live(item)
    /\ supplement = "REQUIRED" => Applied(adjusted, item)
    /\ NativeScopeValid
    /\ Asks(c, [Idle EXCEPT !.rows = rows,
                  !.op = IF supplement = "NONE" /\ ~BaselineHolds THEN "detect" ELSE "confirm"])

AdjustmentAsked(c, lines) ==
    /\ source = "CONTRACT"
    /\ generation < Generations
    /\ Asks(c, [Idle EXCEPT !.op = "adjust", !.lines = lines])

\* The closing accepts the scope that is read here.
ClosingAsked(c) ==
    /\ source = "CONTRACT"
    /\ supplement = "REQUIRED"
    /\ Asks(c, [Idle EXCEPT !.op = "close", !.lines = ScopeOf(item)])

\* Delivery events of an item: a team is assigned, the item goes back to the
\* decomposition, a deviation is reviewed.
ItemEventAsked(c, r, op) ==
    /\ item[r] = IF op = "review" THEN "Working" ELSE "ToAssign"
    /\ Asks(c, [Idle EXCEPT !.op = op, !.rows = {r}])

\* newNativeScopeChange: a proposal names the version of the scope it was made for.
Proposal(c, lines) == [status |-> "PENDING", by |-> c, base |-> generation, lines |-> lines]

ScopeRequestAsked(c, lines) ==
    /\ source = "NATIVE"
    /\ generation < Generations
    /\ Asks(c, [Idle EXCEPT !.op = "request", !.proposal = Proposal(c, lines)])

DecisionAsked(c, op) ==
    /\ change.status = "PENDING"
    /\ IF op = "withdraw" THEN change.by = c ELSE change.by # c
    /\ Asks(c, [Idle EXCEPT !.op = op, !.proposal = change])

-----------------------------------------------------------------------------
(* Transactions *)

ItemsFirst == {"confirm", "advance", "return", "review"}
ItemsLater == {"adjust", "request", "approve"}

\* Operations whose first statement is, or contains, a plain read: it fixes what
\* all later plain reads of the transaction see.  (For a confirmation the database
\* may read the projects of the data scope before or after it locks the items;
\* here it reads them first.)
ReadsFirst == {"confirm", "adjust", "review"}

SnapshotTaken(c) ==
    /\ work[c].op \in ReadsFirst
    /\ ~work[c].begun
    /\ work' = [work EXCEPT ![c].begun = TRUE,
                            ![c].view = [item |-> item, adjusted |-> adjusted]]
    /\ UNCHANGED <<source, item, generation, supplement, adjusted, baseline, change, cached,
                   itemHolder, headHolder>>

Underway(c) == work[c].op # "none" /\ (work[c].op \in ReadsFirst => work[c].begun)

\* Rows that are still to be locked: those of the request, and all the rows of the
\* project once its head is locked where the scope is replaced or compared.
Wanted(c) ==
    {r \in (IF work[c].op \in ItemsFirst THEN work[c].rows ELSE {})
            \cup (IF /\ headHolder = c
                     /\ \/ work[c].op \in ItemsLater
                        \/ work[c].op = "confirm" /\ source = "NATIVE"
                  THEN Live(item) ELSE {}) :
        itemHolder[r] # c}

\* An archived row is no longer found.
RowLocked(c, r) ==
    /\ Underway(c)
    /\ r \in Wanted(c) \cap Live(item)
    /\ \A other \in Wanted(c) : r[2] <= other[2]
    /\ itemHolder[r] = NoClient
    /\ itemHolder' = [itemHolder EXCEPT ![r] = c]
    /\ UNCHANGED <<source, item, generation, supplement, adjusted, baseline, change, cached,
                   headHolder, work>>

\* Mutant: a confirmation does not look for a pending change.
NoChangePendingButConfirms(c) ==
    work[c].op \in ItemsFirst \ {"confirm"} => change.status # "PENDING"

\* guardNativeScopeMutation, guardNativeScopeConfirmation: with the head locked,
\* whoever changes an item looks for a pending change.
NoChangePending(c) == work[c].op \in ItemsFirst => change.status # "PENDING"

HeadLocked(c) ==
    /\ Underway(c)
    /\ headHolder = NoClient
    /\ Wanted(c) = {}
    /\ NoChangePending(c)
    /\ headHolder' = c
    /\ UNCHANGED <<source, item, generation, supplement, adjusted, baseline, change, cached,
                   itemHolder, work>>

Ready(c, op) == work[c].op = op /\ headHolder = c /\ Wanted(c) = {}

Done(c) ==
    /\ work' = [work EXCEPT ![c] = Idle]
    /\ itemHolder' = [r \in Rows |-> IF itemHolder[r] = c THEN NoClient ELSE itemHolder[r]]
    /\ headHolder' = IF headHolder = c THEN NoClient ELSE headHolder

\* A check that fails, a deadlock, a lock that is waited for too long or a lost
\* connection: nothing is written.
RolledBack(c) ==
    /\ work[c].op # "none"
    /\ Done(c)
    /\ UNCHANGED <<source, item, generation, supplement, adjusted, baseline, change, cached>>

With(items, rows, status) == [r \in Rows |-> IF r \in rows THEN status ELSE items[r]]

\* clearSupplementStatusAfterConfirm
ExitAllowed(c, seen) == supplement = "REQUIRED" => Applied(work[c].view.adjusted, seen)

\* ConfirmServiceItems: as long as the transaction sees an item to confirm it leaves
\* the project alone.
ItemsConfirmed(c) ==
    LET seen == With(work[c].view.item, work[c].rows, "ToAssign")
        complete == \A r \in Rows : seen[r] # "ToConfirm"
    IN  /\ Ready(c, "confirm")
        /\ \A r \in work[c].rows : item[r] \in {"ToConfirm", "ToAssign"}
        /\ source = "NATIVE" => BaselineHolds
        /\ complete => ExitAllowed(c, seen)
        /\ item' = With(item, work[c].rows, "ToAssign")
        /\ supplement' = IF complete THEN "NONE" ELSE supplement
        /\ cached' = IF complete THEN Derived(seen, "NONE", cached) ELSE cached
        /\ Done(c)
        /\ UNCHANGED <<source, generation, adjusted, baseline, change>>

ScopeChangeDetected(c) ==
    /\ Ready(c, "detect")
    /\ source = "CONTRACT"
    /\ supplement' = "REQUIRED"
    /\ cached' = Derived(item, "REQUIRED", cached)
    /\ Done(c)
    /\ UNCHANGED <<source, item, generation, adjusted, baseline, change>>

\* The latest adjustment is the scope that a supplement has to bring; the latest
\* adjustment or closing is the one that counts as agreed.
AdjustmentRecorded(lines) == adjusted' = lines /\ baseline' = lines
ClosingRecorded(lines) == baseline' = lines /\ UNCHANGED adjusted

\* The confirmed items are counted in the snapshot.  The numbers of the new rows
\* go on from the rows of the snapshot too: if these are no longer in force, the
\* numbers are taken and the transaction fails.
DecompositionAdjusted(c) ==
    /\ Ready(c, "adjust")
    /\ generation < Generations
    /\ \A r \in Live(work[c].view.item) : /\ work[c].view.item[r] = "ToConfirm"
                                          /\ r[1] = generation
    /\ item' = Fresh(generation + 1, work[c].lines)
    /\ generation' = generation + 1
    /\ supplement' = "REQUIRED"
    /\ AdjustmentRecorded(work[c].lines)
    /\ cached' = Derived(item', "REQUIRED", cached)
    /\ Done(c)
    /\ UNCHANGED <<source, change>>

SupplementClosed(c) ==
    /\ Ready(c, "close")
    /\ supplement = "REQUIRED"
    /\ supplement' = "NONE"
    /\ ClosingRecorded(work[c].lines)
    /\ cached' = Derived(item, "NONE", cached)
    /\ Done(c)
    /\ UNCHANGED <<source, item, generation, change>>

\* A delivery event on an item, then syncProjectStatusColumn with what the
\* transaction sees of the other items.
ItemMoves(c, op, from, to) ==
    LET seen == IF op \in ReadsFirst THEN work[c].view.item ELSE item
    IN  /\ Ready(c, op)
        /\ \A r \in work[c].rows : item[r] = from
        /\ item' = With(item, work[c].rows, to)
        /\ cached' = Derived(With(seen, work[c].rows, to), supplement, cached)
        /\ Done(c)
        /\ UNCHANGED <<source, generation, supplement, adjusted, baseline, change>>

TeamAssigned(c) == ItemMoves(c, "advance", "ToAssign", "Working")
ReturnedToDecomposition(c) == ItemMoves(c, "return", "ToAssign", "ToConfirm")
DeviationReviewed(c) == \E to \in {"Working", "Terminated"} : ItemMoves(c, "review", "Working", to)

\* lockNativeProject
NativeReady(c, op) == Ready(c, op) /\ source = "NATIVE"

\* lockNativeScopeEligible
Eligible == \A r \in Live(item) : item[r] = "ToConfirm"

NativeScopeRequested(c) ==
    /\ NativeReady(c, "request")
    /\ change.status # "PENDING"
    /\ work[c].proposal.base = generation
    /\ Eligible
    /\ BaselineHolds
    /\ change' = work[c].proposal
    /\ Done(c)
    /\ UNCHANGED <<source, item, generation, supplement, adjusted, baseline, cached>>

NativeScopeApproved(c) ==
    /\ NativeReady(c, "approve")
    /\ generation < Generations
    /\ change = work[c].proposal
    /\ change.base = generation
    /\ Eligible
    /\ BaselineHolds
    /\ item' = Fresh(generation + 1, change.lines)
    /\ generation' = generation + 1
    /\ baseline' = change.lines
    /\ cached' = "ToConfirm"
    /\ change' = [change EXCEPT !.status = "APPROVED"]
    /\ Done(c)
    /\ UNCHANGED <<source, supplement, adjusted>>

NativeScopeRefused(c) ==
    /\ \/ NativeReady(c, "reject") /\ change' = [change EXCEPT !.status = "REJECTED"]
       \/ NativeReady(c, "withdraw") /\ change' = [change EXCEPT !.status = "WITHDRAWN"]
    /\ change = work[c].proposal
    /\ Done(c)
    /\ UNCHANGED <<source, item, generation, supplement, adjusted, baseline, cached>>

-----------------------------------------------------------------------------

ClientAsks(c) ==
    \/ \E rows \in (SUBSET Rows) \ {{}} : ConfirmationAsked(c, rows)
    \/ \E lines \in Scopes : AdjustmentAsked(c, lines) \/ ScopeRequestAsked(c, lines)
    \/ ClosingAsked(c)
    \/ \E r \in Rows, op \in {"advance", "return", "review"} : ItemEventAsked(c, r, op)
    \/ \E op \in {"approve", "reject", "withdraw"} : DecisionAsked(c, op)

Commits(c) ==
    \/ ItemsConfirmed(c) \/ ScopeChangeDetected(c) \/ DecompositionAdjusted(c)
    \/ SupplementClosed(c) \/ TeamAssigned(c) \/ ReturnedToDecomposition(c)
    \/ DeviationReviewed(c) \/ NativeScopeRequested(c) \/ NativeScopeApproved(c)
    \/ NativeScopeRefused(c)

ScopeNext == \E c \in Clients :
    \/ ClientAsks(c) \/ SnapshotTaken(c) \/ HeadLocked(c) \/ Commits(c) \/ RolledBack(c)
    \/ \E r \in Rows : RowLocked(c, r)

ScopeSpec == ScopeInit /\ [][ScopeNext]_scopeVars

-----------------------------------------------------------------------------
(* Properties *)

\* Between the request of a native scope change and the decision nobody changes an
\* item; an approval replaces the scope the request was made for, none of whose
\* items was confirmed (guardNativeScopeMutation, DecideNativeScope).
NativeScopeFrozen ==
    [][change.status = "PENDING" =>
         \/ item' = item
         \/ change'.status = "APPROVED" /\ change.base = generation /\ Eligible]_scopeVars
=============================================================================
