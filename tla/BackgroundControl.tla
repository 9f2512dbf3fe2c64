-------------------------- MODULE BackgroundControl --------------------------
(***************************************************************************)
(* The controlled upgrade of the background runtime.  Temporal holds one   *)
(* schedule for each kind of task and routes its ticks to the current      *)
(* build.  The process of the old build and that of the candidate change   *)
(* the same schedules, one at a time, under an operation that is written   *)
(* into the schedule itself: pause, drain, migrate the configuration,      *)
(* promote the build, resume; or restore the old one.  Any step may fail   *)
(* and any process may die between two schedules.                          *)
(***************************************************************************)
EXTENDS Integers

CONSTANTS
    TaskCount,    \* taskKinds, in the order in which they are visited
    HandTasks,    \* schedules that somebody also pauses by hand
    Builds,       \* a build and its configuration; each runs in one process
    Operations,
    NoBuild

ASSUME TaskAssumption ==
    TaskCount \in Nat \ {0} /\ HandTasks \subseteq 1..TaskCount /\ NoBuild \notin Builds

VARIABLES
    plan,         \* the schedules, as Temporal stores them
    routed,       \* current version of the worker deployment
    daemon,       \* process of each build: whether it runs, whether it is blocked
    order,        \* what a process is doing under its control mutex
    tick          \* the workflow of each schedule and its activity

backgroundVars == <<plan, routed, daemon, order, tick>>

Tasks == 1..TaskCount
NoPlan == [there |-> FALSE]
NoRecord == [op |-> "none"]
NoOrder == [do |-> "none"]
NoTick == [step |-> "none"]

BackgroundInit ==
    /\ plan = [k \in Tasks |-> NoPlan]
    /\ routed = NoBuild
    /\ daemon = [b \in Builds |-> [up |-> FALSE, blocked |-> FALSE]]
    /\ order = [b \in Builds |-> NoOrder]
    /\ tick = [k \in Tasks |-> NoTick]

-----------------------------------------------------------------------------
(* What a process of build b accepts *)

\* validateSchedule: its own configuration to the letter.
Strict(b, k) == plan[k].there /\ plan[k].conf = b

\* validateObservedSchedule: or one that the operation in control accounts for.
Observed(b, k) ==
    \/ Strict(b, k)
    \/ /\ plan[k].there /\ plan[k].record # NoRecord
       /\ plan[k].conf \in {plan[k].record.original, plan[k].record.target,
                            plan[k].record.previous}

Held(k) == plan[k].record # NoRecord
Old(b, k) == b \in {plan[k].record.original, plan[k].record.previous}
Candidate(b, k) == plan[k].record.target \in {NoBuild, b}

\* validatePauseChange
MayPause(b, op, k) ==
    /\ Observed(b, k)
    /\ IF Held(k) THEN plan[k].record.op = op
       ELSE Strict(b, k) /\ (plan[k].memo # NoRecord => plan[k].memo.target = b)
MayResume(b, op, k) ==
    /\ Strict(b, k)
    /\ Held(k) => /\ plan[k].record.op = op
                  /\ IF plan[k].record.restoring THEN Old(b, k) ELSE Candidate(b, k)

\* migrationAllowed
MayEnsure(b, op, k) ==
    /\ Observed(b, k)
    /\ IF Held(k) THEN plan[k].record.op = op /\ ~plan[k].record.restoring /\ Candidate(b, k)
       ELSE Strict(b, k)
MayRestore(b, op, k) ==
    /\ Observed(b, k)
    /\ IF Held(k) THEN plan[k].record.op = op /\ Old(b, k)
       ELSE /\ Strict(b, k) /\ plan[k].memo # NoRecord
            /\ plan[k].memo.restoring /\ plan[k].memo.op = op /\ plan[k].memo.target = b

Allowed(b, k) ==
    LET o == order[b]
    IN  CASE o.do \in {"pause", "drain"} -> MayPause(b, o.op, k)
          [] o.do = "resume" -> MayResume(b, o.op, k)
          [] o.do = "ensure" -> MayEnsure(b, o.op, k)
          [] o.do = "restore" -> MayRestore(b, o.op, k)

-----------------------------------------------------------------------------
(* What a process writes into a schedule *)

\* A second pause of the operation finds its record and changes nothing.
PauseRecorded(b, op, p) ==
    IF p.record # NoRecord THEN p
    ELSE [p EXCEPT !.paused = TRUE,
                   !.record = [op |-> op, was |-> p.paused, note |-> p.note,
                               original |-> b, target |-> NoBuild, restoring |-> FALSE,
                               previous |-> IF p.memo = NoRecord THEN NoBuild
                                            ELSE p.memo.original]]

\* Mutant: what was paused before the operation is released with the rest.
ReleasedToo(p) == [p EXCEPT !.record = NoRecord, !.paused = FALSE, !.note = ""]

\* The first resumption ends the pause of the bootstrap; a manual pause is kept.
Resumed(p) ==
    LET was == IF p.record = NoRecord THEN p.paused ELSE p.record.was
        note == IF p.record = NoRecord THEN p.note ELSE p.record.note
    IN  [p EXCEPT !.record = NoRecord,
                  !.paused = was /\ note # "bootstrap",
                  !.note = IF note = "bootstrap" THEN "" ELSE note]

Migrated(b, p) ==
    [p EXCEPT !.conf = b, !.record.target = b,
              !.memo = [op |-> p.record.op, original |-> p.record.original, target |-> b,
                        restoring |-> FALSE]]

Restored(b, p) ==
    [p EXCEPT !.conf = b, !.record.restoring = TRUE,
              !.memo = [op |-> p.record.op, target |-> b, restoring |-> TRUE,
                        original |-> IF p.record.target = NoBuild THEN p.record.original
                                     ELSE p.record.target]]

Written(b, p) ==
    LET o == order[b]
    IN  CASE o.do \in {"pause", "drain"} -> PauseRecorded(b, o.op, p)
          [] o.do = "resume" -> Resumed(p)
          [] o.do = "ensure" -> Migrated(b, p)
          [] o.do = "restore" -> Restored(b, p)

-----------------------------------------------------------------------------
(* A process starts: reconcile *)

Launched(b) ==
    /\ ~daemon[b].up
    /\ daemon' = [daemon EXCEPT ![b] = [up |-> TRUE, blocked |-> FALSE]]
    /\ order' = [order EXCEPT ![b] = [do |-> "start", stage |-> "check", at |-> 1]]
    /\ UNCHANGED <<plan, routed, tick>>

\* A missing schedule is created paused; one that somebody else created meanwhile,
\* or before, must be acceptable.
Reconciled(b) ==
    LET k == order[b].at
    IN  /\ order[b].do = "start"
        /\ \/ ~plan[k].there
              /\ plan' = [plan EXCEPT ![k] = [there |-> TRUE, conf |-> b, paused |-> TRUE,
                                              note |-> "bootstrap", record |-> NoRecord,
                                              memo |-> NoRecord]]
           \/ Observed(b, k) /\ UNCHANGED plan
        /\ order' = [order EXCEPT ![b] = IF k = TaskCount THEN NoOrder
                                             ELSE [@ EXCEPT !.at = k + 1]]
        /\ UNCHANGED <<routed, daemon, tick>>

\* Death of the process; an activity goes with it, its workflow stays behind.
Died(b) ==
    /\ daemon[b].up
    /\ daemon' = [daemon EXCEPT ![b] = [up |-> FALSE, blocked |-> FALSE]]
    /\ order' = [order EXCEPT ![b] = NoOrder]
    /\ tick' = [k \in Tasks |-> IF tick[k].step \in {"looked", "active"} /\ tick[k].build = b
                                THEN [tick[k] EXCEPT !.step = "running"] ELSE tick[k]]
    /\ UNCHANGED <<plan, routed>>

-----------------------------------------------------------------------------
(* Control: one call at a time in a process *)

\* The tool that runs an operation sends its actions one after the other.
Asked(b, do, op) ==
    /\ daemon[b].up /\ order[b] = NoOrder
    /\ \A c \in Builds : order[c].do \notin {"none", "start"} => order[c].op # op
    /\ do = "resume" => routed = b
    /\ order' = [order EXCEPT ![b] = [do |-> do, op |-> op, stage |-> "check", at |-> 1]]
    /\ daemon' = [daemon EXCEPT ![b].blocked = @ \/ do \in {"pause", "drain"}]
    /\ UNCHANGED <<plan, routed, tick>>

Controls(b, stage) == order[b].do \notin {"none", "start"} /\ order[b].stage = stage
Migrates(b) == order[b].do \in {"ensure", "restore"}
To(b, stage) == order' = [order EXCEPT ![b].stage = stage]

\* All schedules are looked at before any is changed; a migration that finds some
\* under its operation wants them all, one that finds none has nothing to migrate.
Checked(b) ==
    /\ Controls(b, "check")
    /\ \A k \in Tasks : Allowed(b, k)
    /\ \/ ~Migrates(b) /\ To(b, "write")
       \/ Migrates(b) /\ (\A k \in Tasks : Held(k)) /\ To(b, "settle")
       \/ Migrates(b) /\ (\A k \in Tasks : ~Held(k)) /\ To(b, "promote")
    /\ UNCHANGED <<plan, routed, daemon, tick>>

\* drain: the schedules are paused, nothing is buffered, no workflow is left and no
\* activity of this process either.
Drained(b) ==
    /\ Controls(b, "settle")
    /\ \A k \in Tasks : Observed(b, k) /\ plan[k].paused /\ tick[k] = NoTick
    /\ \A k \in Tasks : ~(tick[k].step = "active" /\ tick[k].build = b)
    /\ IF Migrates(b) THEN To(b, "write") ELSE order' = [order EXCEPT ![b] = NoOrder]
    /\ UNCHANGED <<plan, routed, daemon, tick>>

\* Update: each schedule is checked again with what is written.
Wrote(b) ==
    LET k == order[b].at
    IN  /\ Controls(b, "write")
        /\ Allowed(b, k) /\ (Migrates(b) => Held(k))
        /\ plan' = [plan EXCEPT ![k] = Written(b, @)]
        /\ IF k < TaskCount THEN order' = [order EXCEPT ![b].at = k + 1]
           ELSE IF order[b].do = "pause" THEN order' = [order EXCEPT ![b] = NoOrder]
           ELSE To(b, IF Migrates(b) THEN "promote"
                      ELSE IF order[b].do = "drain" THEN "settle" ELSE "release")
        /\ UNCHANGED <<routed, daemon, tick>>

Promoted(b) ==
    /\ Controls(b, "promote")
    /\ routed' = b
    /\ order' = [order EXCEPT ![b] = NoOrder]
    /\ UNCHANGED <<plan, daemon, tick>>

Unblocked(b) ==
    /\ Controls(b, "release")
    /\ daemon' = [daemon EXCEPT ![b].blocked = FALSE]
    /\ order' = [order EXCEPT ![b] = NoOrder]
    /\ UNCHANGED <<plan, routed, tick>>

\* A refusal, an outage or a deadline; a process that does not start is gone.
Failed(b) ==
    /\ order[b] # NoOrder
    /\ order' = [order EXCEPT ![b] = NoOrder]
    /\ daemon' = [daemon EXCEPT ![b].up = order[b].do # "start"]
    /\ UNCHANGED <<plan, routed, tick>>

-----------------------------------------------------------------------------
(* Ticks *)

Fired(k) ==
    /\ plan[k].there /\ ~plan[k].paused /\ tick[k] = NoTick
    /\ tick' = [tick EXCEPT ![k] = [step |-> "buffered", build |-> NoBuild]]
    /\ UNCHANGED <<plan, routed, daemon, order>>

\* The workflow is pinned to the current build.
Began(k) ==
    /\ tick[k].step = "buffered" /\ routed # NoBuild
    /\ tick' = [tick EXCEPT ![k] = [step |-> "running", build |-> routed]]
    /\ UNCHANGED <<plan, routed, daemon, order>>

\* runOne reads the schedule, then looks at its own block when it admits the activity.
Looked(k) ==
    /\ tick[k].step = "running"
    /\ daemon[tick[k].build].up /\ order[tick[k].build].do # "start"
    /\ Strict(tick[k].build, k) /\ ~plan[k].paused
    /\ tick' = [tick EXCEPT ![k].step = "looked"]
    /\ UNCHANGED <<plan, routed, daemon, order>>

ActivityAdmitted(k) ==
    /\ tick[k].step = "looked"
    /\ ~daemon[tick[k].build].blocked
    /\ tick' = [tick EXCEPT ![k].step = "active"]
    /\ UNCHANGED <<plan, routed, daemon, order>>

ActivityEnded(k) ==
    /\ tick[k].step = "active"
    /\ tick' = [tick EXCEPT ![k].step = "running"]
    /\ UNCHANGED <<plan, routed, daemon, order>>

\* The workflow completes, fails or times out.
TickEnded(k) ==
    /\ tick[k].step \in {"running", "looked"}
    /\ tick' = [tick EXCEPT ![k] = NoTick]
    /\ UNCHANGED <<plan, routed, daemon, order>>

\* Somebody pauses a schedule by hand and lets it go again.
PausedByHand(k) ==
    /\ plan[k].there /\ ~plan[k].paused
    /\ plan' = [plan EXCEPT ![k].paused = TRUE, ![k].note = "by hand"]
    /\ UNCHANGED <<routed, daemon, order, tick>>
ReleasedByHand(k) ==
    /\ plan[k].there /\ ~Held(k) /\ plan[k].paused /\ plan[k].note = "by hand"
    /\ plan' = [plan EXCEPT ![k].paused = FALSE, ![k].note = ""]
    /\ UNCHANGED <<routed, daemon, order, tick>>

-----------------------------------------------------------------------------

BackgroundNext ==
    \/ \E b \in Builds :
         \/ Launched(b) \/ Reconciled(b) \/ Died(b)
         \/ \E do \in {"pause", "drain", "resume", "ensure", "restore"}, op \in Operations :
              Asked(b, do, op)
         \/ Checked(b) \/ Drained(b) \/ Wrote(b) \/ Promoted(b)
         \/ Unblocked(b) \/ Failed(b)
    \/ \E k \in Tasks :
         \/ Fired(k) \/ Began(k) \/ Looked(k)
         \/ ActivityAdmitted(k) \/ ActivityEnded(k) \/ TickEnded(k)
    \/ \E k \in HandTasks : PausedByHand(k) \/ ReleasedByHand(k)

BackgroundSpec == BackgroundInit /\ [][BackgroundNext]_backgroundVars

-----------------------------------------------------------------------------
(* Properties *)

\* What somebody paused by hand; an operation keeps it in its record.
ByHand(p) == p.there /\ (IF p.record # NoRecord THEN p.record.note = "by hand"
                         ELSE p.note = "by hand")

\* An upgrade, or its way back, is under control: a schedule that runs has the configuration
\* of the build its ticks go to, a configuration changes while no tick of any schedule is
\* left, and no operation lets go what was paused by hand (changePause, migrateSchedules).
UpgradeUnderControl ==
    [][plan' # plan \/ routed' # routed =>
         \A k \in Tasks :
            /\ plan'[k].there /\ ~plan'[k].paused => plan'[k].conf = routed'
            /\ plan[k].there /\ plan'[k].conf # plan[k].conf =>
                  \A j \in Tasks : tick[j] = NoTick
            /\ ByHand(plan[k]) /\ order' # order => ByHand(plan'[k]) /\ plan'[k].paused
      ]_backgroundVars
=============================================================================
