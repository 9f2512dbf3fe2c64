---------------------------- MODULE ReportRegister ----------------------------
(***************************************************************************)
(* What the report of a service item promises to those who rely on it: a   *)
(* register of revisions.  The last one is worked on and goes through its  *)
(* phases, with a different person for every duty; the earlier ones are as *)
(* they were when somebody approved that they be replaced.  Service items, *)
(* field work, versions and commands in flight are not part of it.         *)
(***************************************************************************)
EXTENDS Naturals

CONSTANTS
    Users, NoOne,       \* who signs, asks and approves
    Files, NoFile,
    Revisions,          \* numbers from 0 on
    RequestIds          \* requests to replace the report, or to undo other work

VARIABLES
    current,    \* the last revision
    report,     \* per revision: validity, phase, file, and who signed for which duty
    asked,      \* per request: who made it
    approved,   \* per request: who approved it
    settled     \* requests that somebody has decided or withdrawn

register == <<current, report, asked, approved, settled>>

Blank == [validity |-> "ACTIVE", status |-> "NONE", preparedBy |-> NoOne,
          reviewedBy |-> NoOne, issuedBy |-> NoOne, file |-> NoFile]

Init == /\ current = 0
        /\ report = [n \in Revisions |-> IF n = 0 THEN Blank
                                                  ELSE [Blank EXCEPT !.validity = "ABSENT"]]
        /\ asked = [r \in RequestIds |-> NoOne]
        /\ approved = [r \in RequestIds |-> NoOne]
        /\ settled = {}

Now == report[current]
Signers == {Now.preparedBy, Now.reviewedBy, Now.issuedBy}

\* The revision that is worked on becomes "row".
Writes(row) == /\ report' = [report EXCEPT ![current] = row]
               /\ UNCHANGED <<current, asked, approved, settled>>

\* A file may be exchanged while the report is prepared, never once it is reviewed.
Filed(file) == /\ Now.status \in {"NONE", "COMPILING"}
               /\ Writes([Now EXCEPT !.file = file])

Started == /\ Now.status = "NONE"
           /\ Writes([Now EXCEPT !.status = "RECTIFYING"])

\* Three duties, one after the other.  Each is done once, by someone who has done none of
\* the others, and there is no review of nothing.
Prepared(u) == /\ Now.status = "RECTIFYING"
               /\ Signers = {NoOne}
               /\ Writes([Now EXCEPT !.status = "COMPILING", !.preparedBy = u])

Reviewed(u) == /\ Now.status = "COMPILING"
               /\ Now.file # NoFile
               /\ Now.reviewedBy = NoOne /\ u \notin Signers
               /\ Writes([Now EXCEPT !.status = "REVIEWED", !.reviewedBy = u])

Issued(u) == /\ Now.status = "REVIEWED"
             /\ Now.issuedBy = NoOne /\ u \notin Signers
             /\ Writes([Now EXCEPT !.status = "ISSUED", !.issuedBy = u])

Archived == /\ Now.status = "ISSUED"
            /\ NoOne \notin Signers
            /\ Writes([Now EXCEPT !.status = "ARCHIVED"])

Asked(r, u) ==
    /\ asked[r] = NoOne
    /\ asked' = [asked EXCEPT ![r] = u]
    /\ UNCHANGED <<current, report, approved, settled>>

\* Refused or withdrawn.
Settled(r) ==
    /\ asked[r] # NoOne
    /\ settled' = settled \cup {r}
    /\ UNCHANGED <<current, report, asked, approved>>

\* An approval uses up a request that somebody else has made.
Approves(r, u) ==
    /\ asked[r] \notin {NoOne, u}
    /\ r \notin settled
    /\ settled' = settled \cup {r}
    /\ approved' = [approved EXCEPT ![r] = u]
    /\ UNCHANGED asked

\* It replaces the report, which is then superseded, or void if it was issued ...
Replaced(r, u) ==
    /\ Approves(r, u)
    /\ Now.status # "NONE"
    /\ current + 1 \in Revisions
    /\ current' = current + 1
    /\ report' = [report EXCEPT
           ![current].validity = IF Now.status \in {"ISSUED", "ARCHIVED"}
                                   THEN "VOID" ELSE "SUPERSEDED",
           ![current + 1] = Blank]

\* ... or undoes work the report does not rest on yet.
OtherUndone(r, u) == Now.status = "NONE" /\ Approves(r, u) /\ UNCHANGED <<current, report>>

Worked == \/ Started
          \/ Archived
          \/ \E u \in Users : Prepared(u) \/ Reviewed(u) \/ Issued(u)
          \/ \E file \in Files : Filed(file)

Next == \/ Worked
        \/ \E r \in RequestIds : Settled(r)
        \/ \E r \in RequestIds, u \in Users :
               Asked(r, u) \/ Replaced(r, u) \/ OtherUndone(r, u)

Spec == Init /\ [][Next]_register
=============================================================================
