------------------------------- MODULE MCDesk -------------------------------
(***************************************************************************)
(* Components that share no state, explored side by side: a behaviour      *)
(* belongs to one of them, the others rest in an initial state.            *)
(***************************************************************************)
EXTENDS ProjectScope, Handover, PenetrationPackage,
        BackgroundControl, ContractIdentity, ImportConfirmation, SplitRules,
        SlaReminders, ProjectExport

CONSTANTS a1, a2, u1, u2, t2, t3, k1, k2, r1, c1, c2

VARIABLE scene

deskVars == <<scene, scopeVars, handoverVars, penetrationVars,
              backgroundVars, identityVars, importVars, splitVars, reminderVars, exportVars>>

Scenes == {"scope", "handover", "penetration", "background", "identity",
           "import", "split", "board", "sla", "export"}

NoRow == [state |-> "unused", status |-> "PendingConfirm", report |-> "", since |-> 0,
          reported |-> 0, due |-> NeverDue]

NoRule == [state |-> "unused", status |-> "PendingConfirm", deadline |-> 1, remind |-> 0,
           enabled |-> FALSE]

StatusRule == [state |-> "kept", status |-> "FieldCompleted", deadline |-> 2, remind |-> 1,
               enabled |-> TRUE]

ReportRule == [state |-> "kept", status |-> "RECTIFYING", deadline |-> 1, remind |-> 0,
               enabled |-> TRUE]

\* A project of any items under both rules, an hour before the last.
BoardFirst ==
    /\ clock = Hours - 1
    /\ rules = [n \in Rules |-> IF n = 1 THEN StatusRule ELSE ReportRule]

\* One item whose report the rules are about; on the last hour, or under a single
\* rule on the hour before, as the day ends.
SlaFirst ==
    /\ supplementStatus = "NONE"
    /\ Cardinality(LiveRows(rows)) = 1
    /\ \A i \in LiveRows(rows) : rows[i].status = "FieldCompleted" /\ rows[i].report = "RECTIFYING"
    /\ \/ /\ clock = Hours
          /\ rules[1] = StatusRule
          /\ rules[2] \in {NoRule, ReportRule}
       \/ /\ clock = Hours - 1
          /\ rules = [n \in Rules |-> IF n = 1 THEN ReportRule ELSE Gone]

BoardRests ==
    /\ rows = [i \in BoardItems |-> NoRow]
    /\ supplementStatus = "NONE"
    /\ rules = [n \in Rules |-> NoRule]
    /\ clock = 0

\* The policy that lets items go without a confirmation.
Releasing == [DefaultSplitPolicy EXCEPT !.status = "PendingAssign"]

DeskInit ==
    /\ scene \in Scenes
    /\ manager = u1
    /\ scene # "scope" => source = "NATIVE"
    /\ lead = u1
    /\ engineers = IF scene = "handover" THEN {u2} ELSE {}
    /\ scene # "identity" => primary = [p \in Projects |-> NoContract]
    /\ scene # "import" => known = {}
    /\ scene \notin {"board", "sla"} => BoardRests
    /\ scene # "export" => base = <<>>
    /\ policy = Releasing
    /\ overrides = [o \in OverrideIds |-> NoOverride]
    /\ categories = [c \in Categories |-> Absent]
    /\ ScopeInit /\ HandoverInit /\ PenetrationInit
    /\ BackgroundInit /\ IdentityInit /\ ImportInit /\ SplitInit /\ ReminderInit
    /\ ExportInit
    /\ scene = "board" => BoardFirst
    /\ scene = "sla" => SlaFirst

\* Bound: in the project of a contract, one operation at a time.
ScopeScene ==
    /\ scene = "scope"
    /\ ScopeNext
    /\ source = "CONTRACT" =>
         \A b, c \in Clients : work'[b].op # "none" /\ work'[c].op # "none" => b = c
    /\ UNCHANGED <<scene, handoverVars, penetrationVars, backgroundVars, identityVars,
                   importVars, splitVars, reminderVars, exportVars>>

\* Bound: one person leaves.
HandoverScene ==
    /\ scene = "handover"
    /\ HandoverNext
    /\ \A p, q \in People : freeze'[p] # "NONE" /\ freeze'[q] # "NONE" => p = q
    /\ UNCHANGED <<scene, scopeVars, penetrationVars, backgroundVars, identityVars,
                   importVars, splitVars, reminderVars, exportVars>>

\* Bound: no command on the package while its parent is past the field work; no command
\* looks at that.
PenetrationScene ==
    /\ scene = "penetration"
    /\ PenetrationNext
    /\ parent' # "FIELD" => \A d \in Demands : demand'[d] = NoDemand
    /\ UNCHANGED <<scene, scopeVars, handoverVars, backgroundVars, identityVars,
                   importVars, splitVars, reminderVars, exportVars>>

\* Bound: ticks of the last schedule only, and none while one is paused by hand.
BackgroundScene ==
    /\ scene = "background"
    /\ BackgroundNext
    /\ \A k \in Tasks : tick'[k] # NoTick => k = TaskCount /\ \A j \in Tasks : ~ByHand(plan'[j])
    /\ UNCHANGED <<scene, scopeVars, handoverVars, penetrationVars, identityVars,
                   importVars, splitVars, reminderVars, exportVars>>

IdentityScene ==
    /\ scene = "identity"
    /\ IdentityNext
    /\ UNCHANGED <<scene, scopeVars, handoverVars, penetrationVars, backgroundVars,
                   importVars, splitVars, reminderVars, exportVars>>

ImportScene ==
    /\ scene = "import"
    /\ ImportNext
    /\ UNCHANGED <<scene, scopeVars, handoverVars, penetrationVars, backgroundVars,
                   identityVars, splitVars, reminderVars, exportVars>>

\* Bound: one category at a time is being deleted.
SplitScene ==
    /\ scene = "split"
    /\ SplitNext
    /\ Cardinality(unreferenced') <= 1
    /\ UNCHANGED <<scene, scopeVars, handoverVars, penetrationVars, backgroundVars,
                   identityVars, importVars, reminderVars, exportVars>>

\* Bound: one older view at a time, of a project before the reports, within the first
\* hour, and left as soon as both items have moved on.
OlderViews ==
    /\ Cardinality(views') <= 1
    /\ views' # {} => clock' < Hours
    /\ \A view \in views', i \in BoardItems :
         /\ view[i].status \in {"PendingConfirm", "InProgress", "Exception", "FieldCompleted"}
         /\ view[i].report \in {"", "NONE"}
    /\ (\E view \in views : \A i \in BoardItems : view[i] # rows[i]) => views' = {}

\* What happens to a project, without scans; then scans and their rules, for a
\* project to which nothing happens but the time.  Bounds: views as
\* OlderViews has them; rules change in the last hour, and not between reminders of two days.
BoardScene ==
    /\ scene = "board"
    /\ BoardNext
    /\ OlderViews
    /\ UNCHANGED <<scan, reminders, drafts>>
    /\ UNCHANGED <<scene, scopeVars, handoverVars, penetrationVars, backgroundVars,
                   identityVars, importVars, splitVars, exportVars>>

SlaScene ==
    /\ scene = "sla"
    /\ \/ /\ clock = Hours
          /\ \A r \in reminders : r.day = BusinessDay(Hours)
          /\ Administration
       \/ Scanning
       \/ HourPasses /\ UNCHANGED <<scan, reminders, drafts>>
    /\ UNCHANGED <<scene, scopeVars, handoverVars, penetrationVars, backgroundVars,
                   identityVars, importVars, splitVars, exportVars>>

ExportScene ==
    /\ scene = "export"
    /\ ExportNext
    /\ UNCHANGED <<scene, scopeVars, handoverVars, penetrationVars, backgroundVars,
                   identityVars, importVars, splitVars, reminderVars>>

DeskNext ==
    \/ ScopeScene
    \/ HandoverScene
    \/ PenetrationScene
    \/ BackgroundScene
    \/ IdentityScene
    \/ ImportScene
    \/ SplitScene
    \/ BoardScene
    \/ SlaScene
    \/ ExportScene

DeskSpec == DeskInit /\ [][DeskNext]_deskVars

-----------------------------------------------------------------------------
MCContracts == {[id |-> 0, number |-> 3], [id |-> 1, number |-> 3], [id |-> 2, number |-> 3]}
MCRequests == {<<[record |-> 1, create |-> TRUE], [record |-> 2, create |-> FALSE]>>,
               <<[record |-> 2, create |-> FALSE], [record |-> 1, create |-> FALSE]>>,
               <<[record |-> 2, create |-> TRUE]>>}

LineOf(category, mode) == [batch |-> 1, site |-> 1, category |-> category, mode |-> mode]

MCOffers == {<<LineOf(c1, "PENETRATION"), LineOf(c2, "PENETRATION")>>,
             <<LineOf(c2, "STANDARD")>>}

\* The second form keeps neither categories nor methods apart, nor anything of one site.
MCPolicyForms ==
    {Releasing, [Releasing EXCEPT !.secondary = "site"],
     [Releasing EXCEPT !.missing = "SILENT", !.enabled = FALSE]}

MCOverrideForms ==
    {[known |-> TRUE, enabled |-> TRUE, priority |-> 1, contracts |-> {}, min |-> 2, max |-> 0,
      categories |-> {c2},
      settings |-> [secondary |-> "test_mode", missing |-> "DEFAULT_RULE"]]}

EntryOf(special, enabled) ==
    [known |-> TRUE, special |-> special, standard |-> 1, enabled |-> enabled]

MCCategoryForms == {EntryOf("REQUIRED", FALSE)}

MCSeedCategories ==
    [c \in Categories |-> EntryOf(IF c = c1 THEN "NO" ELSE "MARKABLE", TRUE)]

MCFirstRows ==
    {NoRow}
    \cup [state : {"live"}, status : RowStatuses, report : {"NONE", "RECTIFYING"},
          since : {0}, reported : {0}, due : {NeverDue}]
    \cup [state : {"live"}, status : {"FieldCompleted"}, report : RowReports,
          since : {0}, reported : {0}, due : {NeverDue}]

\* No project, or some of one service item and of the shortest line.
MCFirstBases ==
    UNION {[ids -> {[size |-> 1, written |-> 0, items |-> 1, touched |-> 0]}] :
           ids \in {{}, {2}, {1, 3}, {1, 2, 3}}}

MCPlanEnds == {1}

MCFirstRules == {NoRule, StatusRule, ReportRule, Gone}

\* What the scene of a state does not use does not tell states apart; nor does the
\* cached status of a project in the scene of its scope, which no step and no property of
\* it reads, and the split rules once the only request has been served.
scopeView == <<source, item, generation, supplement, adjusted, baseline, change, itemHolder,
               headHolder, work>>

View == CASE scene = "scope" -> <<scene, scopeView>>
          [] scene = "handover" -> <<scene, handoverVars>>
          [] scene = "penetration" -> <<scene, penetrationVars>>
          [] scene = "background" -> <<scene, backgroundVars>>
          [] scene = "identity" -> <<scene, identityVars>>
          [] scene = "import" -> <<scene, importVars>>
          [] scene = "split" -> <<scene, IF splits[r1].step = "done" THEN splits ELSE splitVars>>
          [] scene = "board" -> <<scene, boardVars>>
          [] scene = "sla" -> <<scene, reminderVars>>
          [] scene = "export" -> <<scene, exportVars>>

\* Two requests at a time; two people of the same rights, and in other scenes two keys.
Symmetry == Permutations({a1, a2}) \cup {(t2 :> t3) @@ (t3 :> t2) @@ (k1 :> k2) @@ (k2 :> k1)}

=============================================================================
