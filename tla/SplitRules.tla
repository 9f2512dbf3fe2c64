------------------------------ MODULE SplitRules ------------------------------
(***************************************************************************)
(* How the lines of a contract become service items.  The tenant's policy, *)
(* its overrides and its categories say which lines are one item, how it   *)
(* is tested and whether somebody confirms it first.  A request reads them *)
(* one after the other while administrators change them; what it creates   *)
(* follows what it has read.                                               *)
(***************************************************************************)
EXTENDS Integers, Sequences, FiniteSets, FiniteSetsExt, Functions, TLC

CONSTANTS Splitters,      \* requests that split a contract
          Categories,     \* names of detection categories
          Offers,         \* the contracts, as the lists of their service lines
          OverrideIds,    \* identifiers of overrides, by age
          PolicyForms,    \* the policies an administrator may save
          OverrideForms,  \* the overrides an administrator may save
          CategoryForms,  \* the entries an administrator may save
          SeedCategories  \* DefaultDetectionCategories

VARIABLES policy,         \* pm_split_policy, or the default when there is no row
          overrides,      \* pm_split_override
          categories,     \* pm_detection_category
          unreferenced,   \* categories whose deletion has counted no items
          splits          \* per request: what it has read, what it has created

splitVars == <<policy, overrides, categories, unreferenced, splits>>

Modes == {"STANDARD", "PENETRATION"}

Dimensions == {"batch", "site", "customer", "contract", "category", "system_standard",
               "test_mode"}

Line == [batch : Nat, site : Nat, category : Categories, mode : Modes]

SplitPolicy == [primary : Dimensions, secondary : Dimensions, tertiary : Dimensions \cup {""},
                status : {"PendingConfirm", "PendingAssign"},
                missing : {"HUMAN_CONFIRM", "DEFAULT_RULE", "SILENT"}, enabled : BOOLEAN]

Entry == [known : BOOLEAN, special : {"NO", "MARKABLE", "REQUIRED"}, standard : Nat,
          enabled : BOOLEAN]

DefaultSplitPolicy ==
    [primary |-> "batch", secondary |-> "category", tertiary |-> "",
     status |-> "PendingConfirm", missing |-> "HUMAN_CONFIRM", enabled |-> TRUE]

Absent == [known |-> FALSE, special |-> "NO", standard |-> 0, enabled |-> FALSE]

NoOverride == [known |-> FALSE]

ValidSplitPolicy(p) == /\ p.primary # p.secondary
                       /\ p.tertiary \notin {p.primary, p.secondary}

\* "contracts" are those whose customer and number fit; {} asks for nothing.
MatchEmpty(o) == o.contracts = {} /\ o.min = 0 /\ o.max = 0 /\ o.categories = {}

ValidSplitOverride(o) == /\ ~MatchEmpty(o)
                         /\ o.max > 0 => o.min <= o.max
                         /\ o.priority > 0
                         /\ DOMAIN o.settings # {}

ASSUME SplitAssumption ==
    /\ Offers \subseteq Seq(Line)
    /\ OverrideIds \subseteq Nat
    /\ \A p \in PolicyForms : p \in SplitPolicy /\ ValidSplitPolicy(p)
    /\ \A o \in OverrideForms : o.known /\ ValidSplitOverride(o)
    /\ \A e \in CategoryForms : e \in Entry /\ e.known
    /\ SeedCategories \in [Categories -> Entry]

-----------------------------------------------------------------------------
(* The plan that holds for a contract *)

\* approvedContractServices: of the lines of a contract a user selects some, none twice,
\* in any order.
Selected(offer) ==
    UNION {{[n \in 1 .. size |-> offer[pick[n]]] :
              pick \in {f \in [1 .. size -> DOMAIN offer] : IsInjective(f)}} :
           size \in 1 .. Len(offer)}

\* SplitOverride.Matches: every condition that is given has to hold.
Matches(o, contract, count, named) ==
    /\ o.known
    /\ o.enabled
    /\ ~MatchEmpty(o)
    /\ o.contracts # {} => contract \in o.contracts
    /\ o.min > 0 => count >= o.min
    /\ o.max > 0 => count <= o.max
    /\ o.categories # {} => o.categories \cap named # {}

OverrideHits(contract, count, named) ==
    {o \in OverrideIds : Matches(overrides[o], contract, count, named)}

\* ListSplitOverrides orders by priority, then by age.
FirstHit(hits) ==
    CHOOSE o \in hits : \A other \in hits \ {o} :
        \/ overrides[o].priority < overrides[other].priority
        \/ overrides[o].priority = overrides[other].priority /\ o < other

\* applySplitOverride: the settings that are given replace the policy's.
Overridden(p, settings) == settings @@ p

-----------------------------------------------------------------------------
(* What becomes of a line *)

ResolvedMode(entry, mode) ==
    CASE entry.known /\ entry.special = "REQUIRED" -> "PENETRATION"
      [] entry.known /\ entry.special = "NO" -> "STANDARD"
      [] OTHER -> mode

\* resolveSplitOutcome
Outcome(plan, line, entries) ==
    LET entry == entries[line.category]
    IN  [mode |-> ResolvedMode(entry, line.mode),
         standard |-> entry.standard,
         missing |-> ~entry.known,
         status |-> IF ~entry.known /\ plan.missing = "HUMAN_CONFIRM" THEN "PendingConfirm"
                    ELSE plan.status]

\* splitDimensionValue: the customer and the contract are the same for every line.
DimensionValue(dimension, line, outcome) ==
    CASE dimension = "batch" -> line.batch
      [] dimension = "site" -> line.site
      [] dimension = "category" -> line.category
      [] dimension = "system_standard" -> outcome.standard
      [] dimension = "test_mode" -> outcome.mode
      [] OTHER -> ""

\* Mutant: the key takes the method the contract names, not the one the
\* category decides.
GroupKeyAsNamed(plan, line, entries) ==
    LET named == [Outcome(plan, line, entries) EXCEPT !.mode = line.mode]
    IN  <<DimensionValue(plan.primary, line, named),
          DimensionValue(plan.secondary, line, named),
          DimensionValue(plan.tertiary, line, named)>>

\* splitGroupKey
GroupKey(plan, line, entries) ==
    LET outcome == Outcome(plan, line, entries)
    IN  <<DimensionValue(plan.primary, line, outcome),
          DimensionValue(plan.secondary, line, outcome),
          DimensionValue(plan.tertiary, line, outcome)>>

\* groupContractServicesByPlan: the lines of a key, of which the first decides.
Groups(plan, offer, entries) ==
    {{m \in DOMAIN offer : GroupKey(plan, offer[m], entries) = GroupKey(plan, offer[n], entries)} :
       n \in DOMAIN offer}

\* The special work that skips the confirmation goes to review at once.
Review(mode, status) ==
    IF mode = "PENETRATION" /\ status = "PendingAssign" THEN "PENDING" ELSE ""

ItemOf(group, plan, offer, entries) ==
    LET first == offer[Min(group)]
        outcome == Outcome(plan, first, entries)
    IN  [lines |-> group, category |-> first.category, mode |-> outcome.mode,
         missing |-> outcome.missing, status |-> outcome.status,
         review |-> Review(outcome.mode, outcome.status)]

Unreleased(item) == [item EXCEPT !.status = "PendingConfirm", !.review = ""]

\* A project made by hand takes the lines as they are named, whatever the rules say.
ManualItem(n, offer) ==
    [lines |-> {n}, category |-> offer[n].category, mode |-> offer[n].mode, missing |-> FALSE,
     status |-> "PendingConfirm", review |-> ""]

\* activateContract groups, and an import is confirmed whatever the plan says;
\* AdjustDecomposition makes one item of each line, always to be confirmed.
ItemsOf(s) ==
    CASE s.kind = "activated" ->
           {ItemOf(g, s.plan, s.offer, s.entries) : g \in Groups(s.plan, s.offer, s.entries)}
      [] s.kind = "imported" ->
           {Unreleased(ItemOf(g, s.plan, s.offer, s.entries)) :
              g \in Groups(s.plan, s.offer, s.entries)}
      [] s.kind = "adjusted" ->
           {Unreleased(ItemOf({n}, s.plan, s.offer, s.entries)) : n \in DOMAIN s.offer}
      [] s.kind = "manual" -> {ManualItem(n, s.offer) : n \in DOMAIN s.offer}

\* SPLIT_RULE_MISSING, to the business administrators.
Announced(s) == /\ s.kind \in {"activated", "imported"}
                /\ s.plan.missing = "HUMAN_CONFIRM"
                /\ \E item \in ItemsOf(s) : item.missing

-----------------------------------------------------------------------------
(* A request *)

NoSplit == [step |-> "none"]

\* What each kind reads, in its order.
Readings == [activated |-> <<"policy", "overrides", "categories">>,
             imported |-> <<"policy", "overrides", "categories">>,
             adjusted |-> <<"categories", "policy", "overrides", "baselines">>,
             manual |-> <<"baselines">>]

Reading(r, what) == splits[r].step = "reading" /\ splits[r].todo # <<>>
                    /\ Head(splits[r].todo) = what

\* A contract that comes by an event or an import brings all its lines.
Begun(r, kind, contract, lines) ==
    /\ splits[r].step = "none"
    /\ lines = contract \/ (kind # "imported" /\ lines \in Selected(contract))
    /\ splits' = [splits EXCEPT ![r] =
                    [step |-> "reading", kind |-> kind, contract |-> contract, offer |-> lines,
                     todo |-> Readings[kind], plan |-> DefaultSplitPolicy,
                     entries |-> [c \in Categories |-> Absent]]]
    /\ UNCHANGED <<policy, overrides, categories, unreferenced>>

\* A policy that is switched off is replaced by the default, without overrides.
PolicyRead(r) ==
    /\ Reading(r, "policy")
    /\ splits' = [splits EXCEPT
                    ![r].plan = IF policy.enabled THEN policy
                                ELSE [DefaultSplitPolicy EXCEPT !.enabled = FALSE],
                    ![r].todo = IF policy.enabled THEN Tail(@) ELSE Tail(Tail(@))]
    /\ UNCHANGED <<policy, overrides, categories, unreferenced>>

\* An adjustment gives the number of its lines, no names and no categories.
OverridesRead(r) ==
    /\ Reading(r, "overrides")
    /\ LET s == splits[r]
           all == {s.offer[n].category : n \in DOMAIN s.offer}
           hits == IF s.kind = "adjusted"
                     THEN {o \in OverrideHits(s.contract, Len(s.offer), {}) :
                             overrides[o].contracts = {}}
                     ELSE OverrideHits(s.contract, Len(s.offer), all)
       IN  splits' = [splits EXCEPT
                        ![r].plan = IF hits = {} THEN @
                                    ELSE Overridden(@, overrides[FirstHit(hits)].settings),
                        ![r].todo = Tail(@)]
    /\ UNCHANGED <<policy, overrides, categories, unreferenced>>

\* ListDetectionCategories: an empty domain is seeded before it is read.
Listed == IF \A c \in Categories : ~categories[c].known THEN SeedCategories ELSE categories

CategoriesRead(r) ==
    /\ Reading(r, "categories")
    /\ categories' = Listed
    /\ splits' = [splits EXCEPT ![r].entries = Listed, ![r].todo = Tail(@)]
    /\ UNCHANGED <<policy, overrides, unreferenced>>

\* detectionCategoryBaselines reads the domain again: every category is enabled.
BaselinesRead(r) ==
    /\ Reading(r, "baselines")
    /\ categories' = Listed
    /\ \A n \in DOMAIN splits[r].offer :
         LET entry == Listed[splits[r].offer[n].category] IN entry.known /\ entry.enabled
    /\ splits' = [splits EXCEPT ![r].todo = Tail(@)]
    /\ UNCHANGED <<policy, overrides, unreferenced>>

SplitCommitted(r) ==
    /\ splits[r].step = "reading"
    /\ splits[r].todo = <<>>
    /\ splits' = [splits EXCEPT ![r] =
                    [step |-> "done", kind |-> @.kind, offer |-> @.offer, plan |-> @.plan,
                     entries |-> @.entries, items |-> ItemsOf(@), announced |-> Announced(@)]]
    /\ UNCHANGED <<policy, overrides, categories, unreferenced>>

\* A reading or the transaction fails, a category of an adjustment is not enabled.
SplitFailed(r) ==
    /\ splits[r].step = "reading"
    /\ splits' = [splits EXCEPT ![r] = NoSplit]
    /\ UNCHANGED <<policy, overrides, categories, unreferenced>>

-----------------------------------------------------------------------------
(* Administration *)

PolicySaved(p) ==
    /\ policy' = p
    /\ UNCHANGED <<overrides, categories, unreferenced, splits>>

\* SaveSplitOverride without an id: the next row, the youngest.
OverrideAdded(o, form) ==
    /\ \A other \in OverrideIds : overrides[other].known => other < o
    /\ overrides' = [overrides EXCEPT ![o] = form]
    /\ UNCHANGED <<policy, categories, unreferenced, splits>>

\* With an id: the row is there, all of it is replaced, and its age remains.
OverrideChanged(o, form) ==
    /\ overrides[o].known
    /\ overrides' = [overrides EXCEPT ![o] = form]
    /\ UNCHANGED <<policy, categories, unreferenced, splits>>

OverrideDeleted(o) ==
    /\ overrides[o].known
    /\ overrides' = [overrides EXCEPT ![o] = NoOverride]
    /\ UNCHANGED <<policy, categories, unreferenced, splits>>

\* SaveDetectionCategory, and one row of ImportDetectionCategories.
CategorySaved(c, form) ==
    /\ categories' = [categories EXCEPT ![c] = form]
    /\ UNCHANGED <<policy, overrides, unreferenced, splits>>

CategoriesListed ==
    /\ categories' = Listed
    /\ UNCHANGED <<policy, overrides, unreferenced, splits>>

Referenced(c) == \E r \in Splitters : /\ splits[r].step = "done"
                                      /\ \E item \in splits[r].items : item.category = c

\* DeleteDetectionCategory counts, then deletes.
ReferencesCounted(c) ==
    /\ ~Referenced(c)
    /\ unreferenced' = unreferenced \cup {c}
    /\ UNCHANGED <<policy, overrides, categories, splits>>

CategoryDeleted(c) ==
    /\ c \in unreferenced
    /\ unreferenced' = unreferenced \ {c}
    /\ categories' = [categories EXCEPT ![c] = Absent]
    /\ UNCHANGED <<policy, overrides, splits>>

-----------------------------------------------------------------------------
SplitInit ==
    /\ policy \in PolicyForms \cup {DefaultSplitPolicy}
    /\ overrides \in [OverrideIds -> OverrideForms \cup {NoOverride}]
    /\ categories \in [Categories -> CategoryForms \cup {Absent}]
    /\ unreferenced = {}
    /\ splits = [r \in Splitters |-> NoSplit]

SplitNext ==
    \/ \E r \in Splitters, kind \in DOMAIN Readings, contract \in Offers :
         \E lines \in Selected(contract) : Begun(r, kind, contract, lines)
    \/ \E r \in Splitters : PolicyRead(r)
    \/ \E r \in Splitters : OverridesRead(r)
    \/ \E r \in Splitters : CategoriesRead(r)
    \/ \E r \in Splitters : BaselinesRead(r)
    \/ \E r \in Splitters : SplitCommitted(r)
    \/ \E r \in Splitters : SplitFailed(r)
    \/ \E p \in PolicyForms : PolicySaved(p)
    \/ \E o \in OverrideIds, form \in OverrideForms : OverrideAdded(o, form)
    \/ \E o \in OverrideIds, form \in OverrideForms : OverrideChanged(o, form)
    \/ \E o \in OverrideIds : OverrideDeleted(o)
    \/ \E c \in Categories, form \in CategoryForms : CategorySaved(c, form)
    \/ CategoriesListed
    \/ \E c \in Categories : ReferencesCounted(c)
    \/ \E c \in Categories : CategoryDeleted(c)

SplitSpec == SplitInit /\ [][SplitNext]_splitVars

-----------------------------------------------------------------------------
(* Properties *)

GroupsBy(plan, dimension) == dimension \in {plan.primary, plan.secondary, plan.tertiary}

\* What the rules make of a line by itself; by hand it is taken as it is named.
OwnMode(s, line) ==
    IF s.kind = "manual" THEN line.mode ELSE Outcome(s.plan, line, s.entries).mode

LeftToContract(entry) == ~entry.known \/ entry.special = "MARKABLE"

\* A group can hold lines of both methods: the plan keeps apart neither the methods nor,
\* where they prescribe one, the categories.
MixesMethods(s, line) ==
    /\ s.kind \in {"activated", "imported"}
    /\ ~GroupsBy(s.plan, "test_mode")
    /\ GroupsBy(s.plan, "category") => LeftToContract(s.entries[line.category])

\* The first line of a group decides for all of it (delivery_contract.go:569), so that a
\* rule can be lost: under a plan of, say, batch and site, which an administrator may save,
\* a line whose category demands special work (REQUIRED, split_rule_config.go:45) becomes a
\* STANDARD item without a review when a line of an ordinary category stands before it, and
\* a line of an unknown category is released unannounced behind a known one.  This
\* says that it is lost nowhere else, whatever the plan: an item has the method of its
\* first line, and a line of another method is in it only if the plan mixes methods; of a
\* line that is first, or that the plan groups by its category, an unknown category
\* makes it wait and is announced; special work is not released without its review; and what
\* a person has put together, or history, waits whatever the rules release (service.go:839).
RulesLostOnlyInMixedGroups ==
    \A r \in Splitters : splits[r].step = "done" =>
      LET s == splits[r] IN
      \A item \in s.items :
        /\ item.mode = OwnMode(s, s.offer[Min(item.lines)])
        /\ \A n \in item.lines :
             item.mode # OwnMode(s, s.offer[n]) => MixesMethods(s, s.offer[n])
        /\ \A n \in item.lines :
             (/\ s.kind \in {"activated", "imported"}
              /\ n = Min(item.lines) \/ GroupsBy(s.plan, "category")
              /\ s.plan.missing = "HUMAN_CONFIRM"
              /\ ~s.entries[s.offer[n].category].known) =>
                item.status = "PendingConfirm" /\ s.announced
        /\ (item.mode = "PENETRATION" /\ item.status = "PendingAssign") =>
             item.review = "PENDING"
        /\ s.kind # "activated" => item.status = "PendingConfirm" /\ item.review = ""

=============================================================================
