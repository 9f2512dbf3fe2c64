-------------------------- MODULE ContractIdentity --------------------------
(***************************************************************************)
(* To which project a contract belongs.  A contract is activated by an     *)
(* event or by hand (a new project), imported from history (a new project, *)
(* or a link to an existing one) or, as an ordinary supplement, used by    *)
(* any project.  Each transaction takes the guard rows of the contract's   *)
(* identities, its id and its number, in order, and only then compares the *)
(* projects, the import bindings and the guards.                           *)
(***************************************************************************)
EXTENDS Integers, FiniteSetsExt

CONSTANTS
    Contracts,    \* records [id, number] of identities; id 0: none, in old projects
    Projects,     \* projects that can come into being
    Commands,     \* command ids of imports
    Filings,      \* transactions that can be under way together
    NoProject

ASSUME ContractsAssumption == Contracts \subseteq [id : Nat, number : Nat \ {0}]
ASSUME NoProjectAssumption == NoProject \notin Projects

VARIABLES
    primary,      \* the contract of each project; NoContract: no project yet
    binding,      \* pm_contract_import_binding, by command
    guard,        \* project_id of pm_contract_identity_guard
    shared,       \* the projects that use an ordinary supplement, by contract id
    filing        \* the transactions

identityVars == <<primary, binding, guard, shared, filing>>

NoContract == [id |-> 0, number |-> 0]
NoBinding == [contract |-> NoContract, project |-> NoProject]
NoFiling == [step |-> "none"]

Identities(k) == {k.id, k.number} \ {0}
AllIdentities == UNION {Identities(k) : k \in Contracts}

\* contract_identity_key of pm_project, unique; empty in a project without contract.
KeyOf(k) == IF k.id # 0 THEN k.id ELSE k.number

Legacy == {k \in Contracts : k.id = 0}
Current == Contracts \ Legacy

\* An old project may stem from before the guards.
IdentityInit ==
    /\ primary \in [Projects -> {NoContract} \cup Legacy]
    /\ \A p, q \in Projects : primary[p] = primary[q] /\ primary[p] # NoContract => p = q
    /\ binding = [m \in Commands |-> NoBinding]
    /\ guard = [i \in AllIdentities |-> NoProject]
    /\ shared = [k \in Current |-> {}]
    /\ filing = [f \in Filings |-> NoFiling]

Filed(f, x) == filing' = [filing EXCEPT ![f] = x]
Step(f, s) == filing' = [filing EXCEPT ![f].step = s]

-----------------------------------------------------------------------------
(* Before the transaction *)

\* FindProjectByContract: primary contracts, then imports.
HasProject(k) ==
    \/ \E p \in Projects : KeyOf(primary[p]) \in Identities(k)
    \/ \E m \in Commands : /\ binding[m].project # NoProject
                           /\ binding[m].contract.id \in Identities(k)

NewProjectAsked(f, k) ==
    /\ filing[f] = NoFiling
    /\ Filed(f, [step |-> "locking", kind |-> "NEW", contract |-> k,
                 todo |-> Identities(k), held |-> {}, command |-> "-", target |-> NoProject])
    /\ UNCHANGED <<primary, binding, guard, shared>>

\* activateContract: a contract that has a project only has its stamp noted.
ActivationAsked(f, k) == ~HasProject(k) /\ NewProjectAsked(f, k)

\* CreateProjectWithServiceItems, by hand, from an approved contract: a contract that has a
\* project is answered with it.
CreationAsked(f, k) == ~HasProject(k) /\ NewProjectAsked(f, k)

\* BindImportedContract: a command that was carried out is answered by its receipt.
ImportAsked(f, m, k, target) ==
    /\ filing[f] = NoFiling
    /\ binding[m] = NoBinding
    /\ Filed(f, [step |-> "locking", kind |-> "IMPORT", contract |-> k,
                 todo |-> Identities(k), held |-> {}, command |-> m, target |-> target])
    /\ UNCHANGED <<primary, binding, guard, shared>>

\* AdjustDecomposition on the strength of a supplementary contract.
SupplementAsked(f, k, p) ==
    /\ filing[f] = NoFiling
    /\ primary[p] # NoContract
    /\ Filed(f, [step |-> "locking", kind |-> "SUPPLEMENT", contract |-> k,
                 todo |-> {k.id}, held |-> {}, command |-> "-", target |-> p])
    /\ UNCHANGED <<primary, binding, guard, shared>>

-----------------------------------------------------------------------------
(* The transaction *)

Holds(g, i) == filing[g] # NoFiling /\ i \in filing[g].held

\* lockContractIdentities inserts the rows and locks them, in order.
NextIdentity(f) == Min(filing[f].todo)

\* Mutant: only the identity that comes first is locked.
FirstIdentityOnly(f, i) ==
    [filing[f] EXCEPT !.held = @ \cup {i}, !.todo = {},
                      !.step = IF filing[f].kind = "IMPORT" THEN "binding" ELSE "claiming"]

WithIdentity(f, i) ==
    LET left == filing[f].todo \ {i}
        next == IF filing[f].kind = "IMPORT" THEN "binding" ELSE "claiming"
    IN  [filing[f] EXCEPT !.held = @ \cup {i}, !.todo = left,
                          !.step = IF left = {} THEN next ELSE @]

IdentityLocked(f) ==
    /\ filing[f].step = "locking"
    /\ \A g \in Filings : ~Holds(g, NextIdentity(f))
    /\ Filed(f, WithIdentity(f, NextIdentity(f)))
    /\ UNCHANGED <<primary, binding, guard, shared>>

\* The row of a command, with the unique contract it names, belongs to one transaction.
SameRow(f, g) == filing[g].kind = "IMPORT" /\ filing[g].step \in {"claiming", "writing"}
                   /\ (filing[f].command = filing[g].command
                       \/ filing[f].contract.id = filing[g].contract.id)

\* BindContractImport inserts the row of the command unless the command or the contract has
\* one, and locks the row of the command: it is the new one, or nothing is left to do.
BindingInserted(f) ==
    /\ filing[f].step = "binding"
    /\ \A g \in Filings \ {f} : filing[g] # NoFiling => ~SameRow(f, g)
    /\ IF \E m \in Commands : \/ m = filing[f].command /\ binding[m] # NoBinding
                              \/ binding[m].contract.id = filing[f].contract.id
         THEN Filed(f, NoFiling)
         ELSE Step(f, "claiming")
    /\ UNCHANGED <<primary, binding, guard, shared>>

\* claimContractProject for a project that is there, or for a new one.
Claimable(k, target) ==
    /\ \A p \in Projects \ {target} : KeyOf(primary[p]) \notin Identities(k)
    /\ \A m \in Commands : /\ binding[m].project \notin {NoProject, target}
                           => binding[m].contract.id \notin Identities(k)
    /\ \A i \in Identities(k) : guard[i] \in {NoProject, target}

\* checkOrdinarySupplementImport compares imports alone: supplements are shared.
Usable(k, target) ==
    \A m \in Commands : binding[m].contract.id = k.id => binding[m].project = target

\* bindImportProject: the link of a primary contract repeats the contract of the project, a
\* supplement brings another one.
Linkable(k, p) ==
    /\ primary[p] # NoContract
    /\ \/ primary[p].id = k.id
       \/ primary[p].id # k.id /\ primary[p].number # k.number

ClaimChecked(f) ==
    LET t == filing[f]
    IN  /\ t.step = "claiming"
        /\ IF t.kind = "SUPPLEMENT" THEN Usable(t.contract, t.target)
                                    ELSE Claimable(t.contract, t.target)
        /\ t.kind = "IMPORT" /\ t.target # NoProject => Linkable(t.contract, t.target)
        /\ Step(f, "writing")
        /\ UNCHANGED <<primary, binding, guard, shared>>

Claimed(k, p) == guard' = [i \in AllIdentities |-> IF i \in Identities(k) THEN p ELSE guard[i]]

\* ActivateContract, CreateProjectWithServiceItems and createProjectRecord.
ProjectCreated(f, p) ==
    /\ filing[f].step = "writing" /\ filing[f].kind # "SUPPLEMENT"
    /\ filing[f].target = NoProject
    /\ primary[p] = NoContract
    /\ \A q \in Projects : KeyOf(primary[q]) # KeyOf(filing[f].contract)
    /\ primary' = [primary EXCEPT ![p] = filing[f].contract]
    /\ Claimed(filing[f].contract, p)
    /\ binding' = [m \in Commands |-> IF m = filing[f].command
                                        THEN [contract |-> filing[f].contract, project |-> p]
                                        ELSE binding[m]]
    /\ Filed(f, NoFiling)
    /\ UNCHANGED shared

ProjectLinked(f) ==
    /\ filing[f].step = "writing" /\ filing[f].kind = "IMPORT"
    /\ filing[f].target # NoProject
    /\ Claimed(filing[f].contract, filing[f].target)
    /\ binding' = [binding EXCEPT ![filing[f].command] =
                     [contract |-> filing[f].contract, project |-> filing[f].target]]
    /\ Filed(f, NoFiling)
    /\ UNCHANGED <<primary, shared>>

SupplementUsed(f) ==
    /\ filing[f].step = "writing" /\ filing[f].kind = "SUPPLEMENT"
    /\ shared' = [shared EXCEPT ![filing[f].contract] = @ \cup {filing[f].target}]
    /\ Filed(f, NoFiling)
    /\ UNCHANGED <<primary, binding, guard>>

\* A conflict, another check that fails, a lock that is not granted, the end of the process.
FilingRolledBack(f) ==
    /\ filing[f] # NoFiling
    /\ Filed(f, NoFiling)
    /\ UNCHANGED <<primary, binding, guard, shared>>

IdentityNext ==
    \E f \in Filings :
        \/ \E k \in Current : ActivationAsked(f, k) \/ CreationAsked(f, k)
        \/ \E k \in Current, m \in Commands, p \in Projects \cup {NoProject} :
              ImportAsked(f, m, k, p)
        \/ \E k \in Current, p \in Projects : SupplementAsked(f, k, p)
        \/ IdentityLocked(f)
        \/ BindingInserted(f)
        \/ ClaimChecked(f)
        \/ \E p \in Projects : ProjectCreated(f, p)
        \/ ProjectLinked(f)
        \/ SupplementUsed(f)
        \/ FilingRolledBack(f)

IdentitySpec == IdentityInit /\ [][IdentityNext]_identityVars

-----------------------------------------------------------------------------
(* Correctness *)

\* The project has the contract of this identity, of its own or through an import.
HomeAt(p, i) == \/ i \in Identities(primary[p]) /\ guard[i] # NoProject
            \/ KeyOf(primary[p]) = i
            \/ \E m \in Commands : /\ binding[m].project = p
                                   /\ i \in Identities(binding[m].contract)

OneHome == \A i \in AllIdentities : \A p, q \in Projects : HomeAt(p, i) /\ HomeAt(q, i) => p = q

\* A contract is the contract of one project at most, whether it came there as its own, by an
\* event, by hand or by an import, and under its id as well as under its number: the guard
\* rows make the two tables that can hold it one.  An ordinary supplement is not adopted while
\* another project holds the contract by an import.
OneProjectPerContract ==
    [][ /\ primary' # primary \/ binding' # binding => OneHome'
        /\ \A k \in Current : \A p \in shared'[k] \ shared[k] :
              \A m \in Commands : binding'[m].contract.id = k.id => binding'[m].project = p
      ]_identityVars

=============================================================================
