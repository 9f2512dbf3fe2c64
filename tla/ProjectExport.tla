--------------------------- MODULE ProjectExport ---------------------------
(***************************************************************************)
(* The export of all projects of a tenant, as a stream of lines: a header, *)
(* a line for each project in the order of their identities, an end        *)
(* record.  It reads page by page, and a page in three statements, while   *)
(* other transactions write projects and their service items.  A receiver  *)
(* that sees the end record takes the stream for the tenant's projects at  *)
(* one moment.                                                             *)
(***************************************************************************)
EXTENDS Naturals, FiniteSets, FiniteSetsExt, Sequences

CONSTANTS
    ExportIds,       \* identities of projects
    ItemCounts,      \* how many active service items a project may have
    LineSizes,       \* how long the line of a project may be
    BatchSize,       \* projects read at once
    MaxProjects,     \* most projects of an export
    MaxServiceItems, \* most service items of an export
    MaxBytes,        \* most bytes of an export, its end record included
    MaxLineBytes,    \* most bytes of a line
    MaxWrites,       \* bound: transactions that write projects
    FirstBases       \* what the tenant's projects may be at first

ASSUME ExportAssumption ==
    /\ IsFiniteSet(ExportIds) /\ ExportIds \subseteq Nat \ {0}
    /\ ItemCounts \subseteq Nat
    /\ LineSizes \subseteq Nat \ {0}
    /\ {BatchSize, MaxProjects, MaxServiceItems, MaxBytes, MaxWrites} \subseteq Nat \ {0}
    /\ MaxLineBytes \in 1 .. MaxBytes

VARIABLES
    base,   \* the projects of the tenant: identity |-> row and its service items
    writes, \* transactions committed so far, the clock of their modification times
    export, \* the export: how far it is, what it read, what it sent
    since   \* every state of the database since the export's header

exportVars == <<base, writes, export, since>>

\* The header and the end record are the shortest of lines.
HeaderBytes == 1
EndBytes == 1

\* A project: the length of its line, the time its row was written, its active
\* service items and the time one of them was last written or archived.
BaseProjects == [size : LineSizes, written : 0..MaxWrites,
                 items : ItemCounts, touched : 0..MaxWrites]

ASSUME FirstBasesAssumption ==
    \A b \in FirstBases : DOMAIN b \subseteq ExportIds /\ b \in [DOMAIN b -> BaseProjects]

NoExport == [state |-> "idle", snapshot |-> {}, page |-> <<>>, counts |-> <<>>,
             dates |-> <<>>, lines |-> <<>>]

Running == export.state \notin {"idle", "refused", "ended", "cut"}

SumOver(f, S) == MapThenSumSet(LAMBDA x : f[x], S)

-----------------------------------------------------------------------------
\* The line of a project.
ExportLine(id, row, items, touched) ==
    [id |-> id, size |-> row.size, items |-> items, source |-> Max({row.written, touched})]

Sent(part) == SumOver([n \in DOMAIN export.lines |-> export.lines[n][part]], DOMAIN export.lines)
Cursor == IF export.lines = <<>> THEN 0 ELSE export.lines[Len(export.lines)].id

\* What a statement of the export's transaction sees: the database as it was at
\* the first of them.
SnapshotRead == IF export.snapshot = {} THEN base ELSE CHOOSE b \in export.snapshot : TRUE

\* The next projects by identity, one more than the export may have at most.
BatchLimit == Min({BatchSize, MaxProjects - Len(export.lines) + 1})
NextIds ==
    LET after == {id \in DOMAIN SnapshotRead : id > Cursor}
    IN  {id \in after : Cardinality({other \in after : other <= id}) <= BatchLimit}

\* Mutant: the service items are read outside the export's transaction.
CountsReadOutside(ids) == [id \in ids |-> base[id].items]

CountsRead(ids) == [id \in ids |-> SnapshotRead[id].items]
DatesRead(ids) == [id \in ids |-> SnapshotRead[id].touched]

-----------------------------------------------------------------------------
\* While the export runs, a transaction writes a project, a new one with its service
\* items: its row, its service items or both.
ProjectWritten(id) ==
    /\ Running
    /\ writes < MaxWrites
    /\ writes' = writes + 1
    /\ \E project \in BaseProjects :
          /\ writes' \in {project.written, project.touched}
          /\ \/ project.written = writes'
             \/ /\ id \in DOMAIN base
                /\ project.written = base[id].written /\ project.size = base[id].size
          /\ \/ project.touched = writes'
             \/ /\ id \in DOMAIN base
                /\ project.touched = base[id].touched /\ project.items = base[id].items
          /\ base' = [other \in DOMAIN base \cup {id} |->
                        IF other = id THEN project ELSE base[other]]
    /\ since' = since \cup {base'}
    /\ UNCHANGED export

\* The header goes out if the end record still fits after it.
ExportBegins ==
    /\ export.state = "idle"
    /\ export' = [export EXCEPT
                    !.state = IF HeaderBytes + EndBytes > MaxBytes THEN "refused" ELSE "begun"]
    /\ since' = {base}
    /\ UNCHANGED <<base, writes>>

\* A page of projects: none is left, one is too many, or its items come next.
PageRead ==
    /\ export.state = "begun"
    /\ export' =
         IF NextIds = {} THEN [export EXCEPT !.state = "read", !.snapshot = {SnapshotRead}]
         ELSE IF Cardinality(NextIds) > MaxProjects - Len(export.lines)
         THEN [export EXCEPT !.state = "refused", !.snapshot = {SnapshotRead}]
         ELSE [export EXCEPT !.state = "paged", !.snapshot = {SnapshotRead},
                             !.page = [id \in NextIds |-> SnapshotRead[id]]]
    /\ UNCHANGED <<base, writes, since>>

ItemsRead ==
    /\ export.state = "paged"
    /\ LET counts == CountsRead(DOMAIN export.page) IN
       export' = IF SumOver(counts, DOMAIN counts) > MaxServiceItems - Sent("items")
                 THEN [export EXCEPT !.state = "refused"]
                 ELSE [export EXCEPT !.state = "counted", !.counts = counts]
    /\ UNCHANGED <<base, writes, since>>

ModificationsRead ==
    /\ export.state = "counted"
    /\ export' = [export EXCEPT !.state = "dated", !.dates = DatesRead(DOMAIN export.page)]
    /\ UNCHANGED <<base, writes, since>>

\* reserve: a line goes out if it is not too long and the end record still fits after it.
DoesNotFit(size) ==
    \/ size > MaxLineBytes
    \/ HeaderBytes + Sent("size") + size + EndBytes > MaxBytes

\* After the last line of a page comes the next page.
LineSent ==
    /\ export.state = "dated"
    /\ LET id == Min(DOMAIN export.page)
           row == export.page[id]
           rest == DOMAIN export.page \ {id}
       IN  export' =
             IF DoesNotFit(row.size)
             THEN [export EXCEPT !.state = "refused"]
             ELSE [export EXCEPT
                     !.state = IF rest = {} THEN "begun" ELSE "dated",
                     !.page = [other \in rest |-> export.page[other]],
                     !.lines = Append(@, ExportLine(id, row, export.counts[id], export.dates[id]))]
    /\ UNCHANGED <<base, writes, since>>

ExportCommits ==
    /\ export.state = "read"
    /\ export' = [export EXCEPT !.state = "committed"]
    /\ UNCHANGED <<base, writes, since>>

EndSent ==
    /\ export.state = "committed"
    /\ export' = [export EXCEPT !.state = "ended"]
    /\ UNCHANGED <<base, writes, since>>

\* The deadline, an error of the database or a receiver that is gone: the stream
\* stops without an end record.
ExportCut ==
    /\ Running
    /\ export' = [export EXCEPT !.state = "cut"]
    /\ UNCHANGED <<base, writes, since>>

-----------------------------------------------------------------------------
ExportInit ==
    /\ base \in FirstBases
    /\ writes = 0
    /\ export = NoExport
    /\ since = {}

ExportNext ==
    \/ \E id \in ExportIds : ProjectWritten(id)
    \/ ExportBegins \/ PageRead \/ ItemsRead \/ ModificationsRead
    \/ LineSent \/ ExportCommits \/ EndSent \/ ExportCut

ExportSpec == ExportInit /\ [][ExportNext]_exportVars

-----------------------------------------------------------------------------
\* What an export of the database b holds.
LinesOf(b) == {ExportLine(id, b[id], b[id].items, b[id].touched) : id \in DOMAIN b}

TooLarge(b) ==
    \/ Cardinality(DOMAIN b) > MaxProjects
    \/ SumOver([id \in DOMAIN b |-> b[id].items], DOMAIN b) > MaxServiceItems
    \/ HeaderBytes + EndBytes + SumOver([id \in DOMAIN b |-> b[id].size], DOMAIN b) > MaxBytes
    \/ \E id \in DOMAIN b : b[id].size > MaxLineBytes

\* A stream that has its end record is the projects of the tenant as they all were
\* at one moment since its header, each once and in order, however many pages and
\* statements it took; and an export is refused as too large only where the
\* projects at such a moment are.
ExportIsOneMoment ==
    /\ export.state = "ended" =>
         /\ \E b \in since :
               /\ {export.lines[n] : n \in DOMAIN export.lines} = LinesOf(b)
               /\ ~TooLarge(b)
         /\ \A m, n \in DOMAIN export.lines : m < n => export.lines[m].id < export.lines[n].id
    /\ export.state = "refused" => \E b \in since : TooLarge(b)
=============================================================================
