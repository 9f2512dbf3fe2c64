---------------------------- MODULE SlaReminders ----------------------------
(***************************************************************************)
(* The scan that reminds of SLA breaches (ScanSlaNotifications) and the    *)
(* administration of the rules it goes by.  A scan reads the candidates    *)
(* and the rules once; then, breach by breach, it looks up whom to tell    *)
(* and queues a reminder under a key that is taken once a day.  Scans of   *)
(* several workers overlap, stop in the middle and start again.            *)
(***************************************************************************)
EXTENDS ProjectBoard

CONSTANTS Scanners,     \* activities that may scan at the same time
          Editors,      \* administrators' requests
          DayHours      \* hours of a business day

ASSUME DayAssumption == DayHours \in Nat \ {0}

VARIABLES scan,         \* per scanner: the day it writes for, the breaches ahead and told
          reminders,    \* pm_notification_outbox: what was queued, by whom
          drafts        \* rules that were validated and not yet written

reminderVars == <<boardVars, scan, reminders, drafts>>

-----------------------------------------------------------------------------
(* Scanning *)

\* Mutant: the key of a reminder leaves out the rule's dimension and stage.
ReminderKeyByKind(breach, day) == <<breach.item, breach.kind, day>>

\* slaIdempotencyKey
ReminderKey(breach, day) ==
    <<breach.item, breach.kind, breach.dimension, breach.stage, day>>

\* businessclock.DateKey
BusinessDay(hour) == hour \div DayHours

Resting == [running |-> FALSE, day |-> 0, todo |-> {}, told |-> {}]

ScanStarted(s) ==
    /\ ~scan[s].running
    /\ scan' = [scan EXCEPT ![s] = [running |-> TRUE, day |-> BusinessDay(clock),
                                    todo |-> SlaItems(rows, rules, clock),
                                    told |-> {}]]
    /\ UNCHANGED <<boardVars, reminders, drafts>>

\* itemAssignees: an item nobody works on, or one that cannot be read.
PassedOver(s, breach) ==
    /\ breach \in scan[s].todo
    /\ scan' = [scan EXCEPT ![s].todo = @ \ {breach}]
    /\ UNCHANGED <<boardVars, reminders, drafts>>

HasAssignees(i) == /\ i \in LiveRows(rows)
                   /\ i \notin Unconfirmed(rows)

\* EnqueueNotification: a key that is taken leaves the table as it is.
Reminded(s, breach) ==
    /\ breach \in scan[s].todo
    /\ HasAssignees(breach.item)
    /\ scan' = [scan EXCEPT ![s].todo = @ \ {breach}, ![s].told = @ \cup {breach}]
    /\ reminders' =
         IF \E r \in reminders :
              ReminderKey(r.breach, r.day) = ReminderKey(breach, scan[s].day)
           THEN reminders
           ELSE reminders \cup {[breach |-> breach, day |-> scan[s].day, by |-> s]}
    /\ UNCHANGED <<boardVars, drafts>>

\* All is told, or in the middle: the licence is refused, the table cannot be
\* written, the worker is gone.
ScanEnded(s) ==
    /\ scan[s].running
    /\ scan' = [scan EXCEPT ![s] = Resting]
    /\ UNCHANGED <<boardVars, reminders, drafts>>

-----------------------------------------------------------------------------
(* Rules *)

Kept == {n \in Rules : rules[n].state = "kept"}

\* ensureRuleCombinationUnique, over all rules but the one that is written.
CombinationUnique(rule, except) == \A n \in Kept \ except : rules[n].status # rule.status

\* The unique key over the enabled rules of pm_sla.
ActiveKeyFree(rule, except) ==
    rule.enabled => \A n \in Kept \ except : ~(rules[n].enabled /\ rules[n].status = rule.status)

NotDrafting(e) == \A d \in drafts : d.by # e

RuleForms == {rule \in FirstRules : rule.state = "kept"}

Drafted(e, rule, target) ==
    /\ NotDrafting(e)
    /\ CombinationUnique(rule, target)
    /\ drafts' = drafts \cup {[by |-> e, rule |-> rule, target |-> target]}
    /\ UNCHANGED <<boardVars, scan, reminders>>

\* CreateRule, UpdateRule, and SetRuleEnabled, which writes back the whole row it read.
NewRuleChecked(e) == \E rule \in RuleForms : Drafted(e, rule, {})
ChangeChecked(e) == \E n \in Rules, rule \in RuleForms : Drafted(e, rule, {n})
EnablingChecked(e) == \E n \in Kept : Drafted(e, [rules[n] EXCEPT !.enabled = TRUE], {n})

RuleWritten(d, n) ==
    /\ ActiveKeyFree(d.rule, d.target)
    /\ rules' = [rules EXCEPT ![n] = d.rule]
    /\ drafts' = drafts \ {d}
    /\ UNCHANGED <<rows, supplementStatus, stored, views, clock, scan, reminders>>

RuleCreated(d) == d.target = {} /\ \E n \in Rules : rules[n].state = "unused" /\ RuleWritten(d, n)
RuleUpdated(d) == \E n \in d.target \cap Kept : RuleWritten(d, n)

\* A taken key, a rule that is gone, or a fault of the database.
RuleRefused(d) ==
    /\ drafts' = drafts \ {d}
    /\ UNCHANGED <<boardVars, scan, reminders>>

RuleSwitchedOff(n) ==
    /\ n \in Kept
    /\ rules' = [rules EXCEPT ![n].enabled = FALSE]
    /\ UNCHANGED <<rows, supplementStatus, stored, views, clock, scan, reminders, drafts>>

Gone == [state |-> "deleted", status |-> "PendingConfirm", deadline |-> 1, remind |-> 0,
         enabled |-> FALSE]

RuleDeleted(n) ==
    /\ n \in Kept
    /\ rules' = [rules EXCEPT ![n] = Gone]
    /\ UNCHANGED <<rows, supplementStatus, stored, views, clock, scan, reminders, drafts>>

-----------------------------------------------------------------------------
\* The unique key holds in the table a behaviour starts with.
ReminderInit ==
    /\ BoardInit
    /\ \A n \in Kept : ActiveKeyFree(rules[n], {n})
    /\ scan = [s \in Scanners |-> Resting]
    /\ reminders = {}
    /\ drafts = {}

Administration ==
    \/ \E e \in Editors : NewRuleChecked(e)
    \/ \E e \in Editors : ChangeChecked(e)
    \/ \E e \in Editors : EnablingChecked(e)
    \/ \E d \in drafts : RuleCreated(d)
    \/ \E d \in drafts : RuleUpdated(d)
    \/ \E d \in drafts : RuleRefused(d)
    \/ \E n \in Rules : RuleSwitchedOff(n)
    \/ \E n \in Rules : RuleDeleted(n)

Scanning ==
    \E s \in Scanners :
       \/ ScanStarted(s)
       \/ \E breach \in scan[s].todo : PassedOver(s, breach)
       \/ \E breach \in scan[s].todo : Reminded(s, breach)
       \/ ScanEnded(s)

ReminderNext ==
    \/ BoardNext /\ UNCHANGED <<scan, reminders, drafts>>
    \/ Administration
    \/ Scanning

ReminderSpec == ReminderInit /\ [][ReminderNext]_reminderVars

-----------------------------------------------------------------------------
(* Properties *)

\* However scans overlap, stop and are repeated: a breach that a scan has told
\* has exactly one reminder of that day, and no scan tells of one stage twice.
\* The key has to keep apart the breaches of two rules of the same item, and the
\* rules of one stage have to exclude each other (delivery_outbox.go:125).
RemindedOncePerDay ==
    \A s \in Scanners : \A breach \in scan[s].told :
       /\ Cardinality({r \in reminders : r.breach = breach /\ r.day = scan[s].day}) = 1
       /\ \A other \in scan[s].told :
            (other.item = breach.item /\ other.dimension = breach.dimension
               /\ other.stage = breach.stage) => other = breach

=============================================================================
