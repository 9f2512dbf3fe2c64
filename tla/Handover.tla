------------------------------ MODULE Handover ------------------------------
(***************************************************************************)
(* The handover of a person who leaves: the platform freezes the person,   *)
(* lists what he is responsible for and orders transfers one by one, each  *)
(* under an idempotency key.  Calls are delivered late, twice and at the   *)
(* same time.  A receipt is written with the change of the owner; the time *)
(* of the last update of the project or service item serves as version.    *)
(***************************************************************************)
EXTENDS Integers

CONSTANTS
    People,
    Keys,         \* idempotency keys of transfers, numbered as they come into use
    Calls,        \* deliveries of requests that can be under way together
    MaxUpdates    \* bound on the updates after which nobody assigns any more

ASSUME BoundsAssumption == MaxUpdates \in Nat /\ Keys \subseteq Nat

VARIABLES
    manager,      \* manager_identity_id of the project
    ended,        \* the project is completed or terminated
    lead,         \* team_lead_id of the service item (its project manager is alike)
    engineers,    \* engineer_ids of the service item
    updated,      \* updated_at of each resource
    freeze,       \* pm_handover_freeze, one batch for each person
    receipt,      \* pm_handover_receipt
    transfer,     \* what the platform ordered under each key
    call          \* the calls under way

handoverVars == <<manager, ended, lead, engineers, updated, freeze, receipt, transfer, call>>

Resources == {"project", "service_item"}
NotOrdered == [resource |-> "none"]
NoCall == [step |-> "none"]

Responsible(p) == {r \in Resources : IF r = "project" THEN manager = p /\ ~ended
                                     ELSE p = lead \/ p \in engineers}

HandoverInit ==
    /\ manager \in People /\ lead \in People
    /\ engineers \in SUBSET People
    /\ ended = FALSE
    /\ updated = [r \in Resources |-> 0]
    /\ freeze = [p \in People |-> "NONE"]
    /\ receipt = [k \in Keys |-> "NONE"]
    /\ transfer = [k \in Keys |-> NotOrdered]
    /\ call = [c \in Calls |-> NoCall]

-----------------------------------------------------------------------------
(* Freezes *)

\* CreateFreeze: a batch that was completed freezes nobody again.
Frozen(p) ==
    /\ freeze[p] = "NONE"
    /\ freeze' = [freeze EXCEPT ![p] = "FROZEN"]
    /\ UNCHANGED <<manager, ended, lead, engineers, updated, receipt, transfer, call>>

Completed(p) ==
    /\ freeze[p] = "FROZEN"
    /\ freeze' = [freeze EXCEPT ![p] = "RELEASED"]
    /\ UNCHANGED <<manager, ended, lead, engineers, updated, receipt, transfer, call>>

-----------------------------------------------------------------------------
(* Transfers *)

\* The platform orders the transfer of a listed responsibility; the order names the
\* version that was listed.
TransferOrdered(k, r, from, to) ==
    /\ transfer[k] = NotOrdered
    /\ \A j \in Keys : j < k => transfer[j] # NotOrdered
    /\ from # to
    /\ r \in Responsible(from)
    /\ transfer' = [transfer EXCEPT ![k] =
                      [resource |-> r, from |-> from, to |-> to, version |-> updated[r]]]
    /\ UNCHANGED <<manager, ended, lead, engineers, updated, freeze, receipt, call>>

\* Transfer: an answered key is answered again, a frozen successor is refused.
TransferChecked(c, k) ==
    /\ call[c] = NoCall
    /\ transfer[k] # NotOrdered
    /\ receipt[k] = "NONE"
    /\ freeze[transfer[k].to] # "FROZEN"
    /\ call' = [call EXCEPT ![c] = [step |-> "checked", key |-> k]]
    /\ UNCHANGED <<manager, ended, lead, engineers, updated, freeze, receipt, transfer>>

\* existingReceipt: the transaction looks for a receipt once more.
TransferBegun(c) ==
    /\ call[c].step = "checked"
    /\ call' = [call EXCEPT ![c] = IF receipt[call[c].key] = "NONE"
                                   THEN [@ EXCEPT !.step = "begun"] ELSE NoCall]
    /\ UNCHANGED <<manager, ended, lead, engineers, updated, freeze, receipt, transfer>>

\* Mutant: the update does not ask for the version that was listed.
HitsAnyVersion(t) == t.from # t.to /\ t.resource \in Responsible(t.from)

\* The WHERE clause of the update.
Hits(t) == t.resource \in Responsible(t.from) /\ updated[t.resource] = t.version

\* The lead, or else the engineer, is replaced.
ItemHandedOver(t) ==
    /\ lead' = IF lead = t.from THEN t.to ELSE lead
    /\ engineers' = IF lead = t.from THEN engineers ELSE (engineers \ {t.from}) \cup {t.to}

TransferApplied(c) ==
    LET k == call[c].key
        t == transfer[k]
    IN  /\ call[c].step = "begun"
        /\ Hits(t)
        /\ IF t.resource = "project" THEN manager' = t.to /\ UNCHANGED <<lead, engineers>>
                                     ELSE ItemHandedOver(t) /\ UNCHANGED manager
        /\ updated' = [updated EXCEPT ![t.resource] = @ + 1]
        /\ receipt' = [receipt EXCEPT ![k] = IF @ = "NONE" THEN "APPLIED" ELSE @]
        /\ call' = [call EXCEPT ![c] = NoCall]
        /\ UNCHANGED <<ended, freeze, transfer>>

\* writeReceipt takes a key that is there already for success.
TransferRejected(c) ==
    /\ call[c].step = "begun"
    /\ ~Hits(transfer[call[c].key])
    /\ receipt' = [receipt EXCEPT ![call[c].key] = IF @ = "NONE" THEN "REJECTED" ELSE @]
    /\ call' = [call EXCEPT ![c] = NoCall]
    /\ UNCHANGED <<manager, ended, lead, engineers, updated, freeze, transfer>>

\* The call or the transaction breaks off.
CallLost(c) ==
    /\ call[c] # NoCall
    /\ call' = [call EXCEPT ![c] = NoCall]
    /\ UNCHANGED <<manager, ended, lead, engineers, updated, freeze, receipt, transfer>>

-----------------------------------------------------------------------------
(* The business goes on: ensurePersonnelNotFrozen looks before the transaction *)

AssignmentChecked(c, p) ==
    /\ call[c] = NoCall
    /\ freeze[p] # "FROZEN"
    /\ call' = [call EXCEPT ![c] = [step |-> "assign", person |-> p]]
    /\ UNCHANGED <<manager, ended, lead, engineers, updated, freeze, receipt, transfer>>

Assigned(c) ==
    /\ call[c].step = "assign"
    /\ updated["service_item"] < MaxUpdates
    /\ \/ lead' = call[c].person /\ UNCHANGED engineers
       \/ engineers' = {call[c].person} /\ UNCHANGED lead
    /\ updated' = [updated EXCEPT !["service_item"] = @ + 1]
    /\ call' = [call EXCEPT ![c] = NoCall]
    /\ UNCHANGED <<manager, ended, freeze, receipt, transfer>>

ProjectEnded ==
    /\ ~ended
    /\ ended' = TRUE
    /\ UNCHANGED <<manager, lead, engineers, updated, freeze, receipt, transfer, call>>

-----------------------------------------------------------------------------

HandoverNext ==
    \/ ProjectEnded
    \/ \E p \in People : Frozen(p) \/ Completed(p)
    \/ \E k \in Keys, r \in Resources, from, to \in People : TransferOrdered(k, r, from, to)
    \/ \E c \in Calls :
         \/ \E k \in Keys : TransferChecked(c, k)
         \/ \E p \in People : AssignmentChecked(c, p)
         \/ TransferBegun(c) \/ TransferApplied(c) \/ TransferRejected(c) \/ CallLost(c)
         \/ Assigned(c)

HandoverSpec == HandoverInit /\ [][HandoverNext]_handoverVars

-----------------------------------------------------------------------------
(* Properties *)

\* Whatever is delivered again, also after the responsibility has come back to the
\* one who left: each transfer comes with the first receipt of its key,
\* a key moves a responsibility at most once, and its receipt never changes
\* (TransferOwnership).
TransferredOncePerKey ==
    [][/\ \/ UNCHANGED <<manager, lead, engineers>>
          \/ \E k \in Keys : receipt[k] = "NONE" /\ receipt'[k] = "APPLIED"
          \/ \E c \in Calls : call[c].step = "assign" /\ call'[c] = NoCall
       /\ \A k \in Keys : receipt[k] # "NONE" => receipt'[k] = receipt[k]]_handoverVars
=============================================================================
