------------------------ MODULE ImportConfirmation ------------------------
(***************************************************************************)
(* The confirmation of an import of people's capabilities, of equipment or *)
(* of detection categories: the selected rows of a file are written in one *)
(* transaction with a ledger row that keeps, under the idempotency key of  *)
(* the client, which request it was and what it was answered.  The client  *)
(* repeats a request whose answer it lost, also while the first one is     *)
(* still running, and it may use a key again for another file.             *)
(***************************************************************************)
EXTENDS Integers, Sequences, FiniteSets

CONSTANTS
    Records,      \* what rows name: people, devices, categories
    Requests,     \* selected rows, in the order of the file: [record, create] each
    ImportKeys,   \* idempotency keys
    Importers,    \* requests that can be under way together
    NoImport

ASSUME RequestsAssumption == Requests \subseteq Seq([record : Records, create : BOOLEAN])
ASSUME NoImportAssumption == NoImport \notin Requests

VARIABLES
    known,        \* the records that exist
    written,      \* how often a key wrote each record
    ledger,       \* pm_import_operation: the request that was confirmed under the key
    asked         \* the request of each client

importVars == <<known, written, ledger, asked>>

NotAsked == [step |-> "none"]

ImportInit ==
    /\ known \in SUBSET Records
    /\ written = [k \in ImportKeys |-> [r \in Records |-> 0]]
    /\ ledger = [k \in ImportKeys |-> NoImport]
    /\ asked = [c \in Importers |-> NotAsked]

At(c, s) == asked[c].step = s
Goes(c, s) == asked' = [asked EXCEPT ![c].step = s]

\* How often the rows of a request name a record.
Times(request, r) == Cardinality({n \in DOMAIN request : request[n].record = r})

\* The rows a transaction has written stay locked until it ends, and so does its ledger row.
RowsOf(c) == IF At(c, "writing") \/ At(c, "registered")
               THEN {asked[c].request[n].record : n \in 1..asked[c].done} ELSE {}

-----------------------------------------------------------------------------
(* The request *)

\* RunImportConfirmation looks for the key before it begins.
Confirmed(c, k, request) ==
    /\ asked[c] = NotAsked
    /\ asked' = [asked EXCEPT ![c] =
                   [step |-> IF ledger[k] = NoImport THEN "writing" ELSE "replay",
                    key |-> k, request |-> request, done |-> 0]]
    /\ UNCHANGED <<known, written, ledger>>

NextRow(c) == asked[c].request[asked[c].done + 1]

\* UpsertCapability and SaveDetectionCategory write over what is there; the row of a new device
\* (CreateEquipmentForImport) is inserted and fails if the device exists.
RowWritten(c) ==
    /\ At(c, "writing")
    /\ asked[c].done < Len(asked[c].request)
    /\ \A d \in Importers \ {c} : NextRow(c).record \notin RowsOf(d)
    /\ NextRow(c).create => NextRow(c).record \notin known \cup RowsOf(c)
    /\ asked' = [asked EXCEPT ![c].done = @ + 1]
    /\ UNCHANGED <<known, written, ledger>>

\* Mutant: the ledger row is written over if there is one.
KeyWrittenOver(c) == \A d \in Importers : At(d, "registered") => asked[d].key # asked[c].key

\* The insert of the ledger row waits for a transaction that has inserted the same key.
KeyFree(c) == /\ ledger[asked[c].key] = NoImport
              /\ \A d \in Importers : At(d, "registered") => asked[d].key # asked[c].key

ImportRegistered(c) ==
    /\ At(c, "writing")
    /\ asked[c].done = Len(asked[c].request)
    /\ KeyFree(c)
    /\ Goes(c, "registered")
    /\ UNCHANGED <<known, written, ledger>>

ImportCommitted(c) ==
    /\ At(c, "registered")
    /\ LET request == asked[c].request
       IN  /\ known' = known \cup RowsOf(c)
           /\ written' = [written EXCEPT ![asked[c].key] =
                            [r \in Records |-> @[r] + Times(request, r)]]
           /\ ledger' = [ledger EXCEPT ![asked[c].key] = request]
    /\ Goes(c, "imported")

\* A row is rejected or fails, the key is there already, two transactions wait for each other:
\* all rows are taken back, and the key is looked for once more.
ImportRolledBack(c) ==
    /\ At(c, "writing") \/ At(c, "registered")
    /\ Goes(c, IF ledger[asked[c].key] = NoImport THEN "failed" ELSE "replay")
    /\ UNCHANGED <<known, written, ledger>>

\* runImportConfirmation: the stored answer, unless the key was used for another request.
Replayed(c) ==
    /\ At(c, "replay")
    /\ Goes(c, IF ledger[asked[c].key] = asked[c].request THEN "imported" ELSE "conflict")
    /\ UNCHANGED <<known, written, ledger>>

\* The answer arrives or is lost; a process that ends takes its transaction back.
Forgotten(c) ==
    /\ ~At(c, "none")
    /\ asked' = [asked EXCEPT ![c] = NotAsked]
    /\ UNCHANGED <<known, written, ledger>>

ImportNext ==
    \E c \in Importers :
        \/ \E k \in ImportKeys, request \in Requests : Confirmed(c, k, request)
        \/ RowWritten(c)
        \/ ImportRegistered(c)
        \/ ImportCommitted(c)
        \/ ImportRolledBack(c)
        \/ Replayed(c)
        \/ Forgotten(c)

ImportSpec == ImportInit /\ [][ImportNext]_importVars

-----------------------------------------------------------------------------
(* Correctness *)

\* The rows that a key wrote are those of the one request its ledger row keeps, each as often
\* as that request names it, however often and with whatever content the key was sent; and a
\* client hears that its rows are imported only when they are, even if its own transaction
\* lost against that of another client.
ImportedOncePerKey ==
    /\ \A k \in ImportKeys, r \in Records :
          written[k][r] = IF ledger[k] = NoImport THEN 0 ELSE Times(ledger[k], r)
    /\ \A c \in Importers : At(c, "imported") => ledger[asked[c].key] = asked[c].request

=============================================================================
