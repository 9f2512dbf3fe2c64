------------------------ MODULE EquipmentReservation ------------------------
(***************************************************************************)
(* The devices of the tenant and the service items that share them.  Who   *)
(* has a device is written in two places: the equipment list of the        *)
(* implementation plan, which decides, and pm_equipment_reservation, a row *)
(* per device and day whose primary key keeps two items apart.  All that   *)
(* change one of them lock the master rows of the devices concerned first, *)
(* one after the other; the row of the service item itself is locked from  *)
(* the beginning of a transaction to its end.                              *)
(***************************************************************************)
EXTENDS Integers, FiniteSets

CONSTANTS
    Items,      \* service items of different projects, each with a plan
    Devices,    \* master rows, in the order of their ids
    Days,       \* calendar days
    Windows,    \* sets of days a device can be asked for
    NoItem,     \* the holder of what is free
    Clerk       \* the lock owner of a deletion

ASSUME DevicesAssumption == Devices \subseteq Nat /\ IsFiniteSet(Devices)
ASSUME WindowsAssumption == Windows \subseteq SUBSET Days
ASSUME OwnersAssumption == NoItem \notin Items /\ Clerk \notin Items /\ NoItem # Clerk

VARIABLES
    master,     \* pm_capability, rows of type EQUIPMENT
    delivery,   \* status of each service item
    list,       \* equipment list of each implementation plan
    dayRow,     \* pm_equipment_reservation
    rowLock,    \* who holds the lock on a master row
    command,    \* the command that is under way on each service item
    deletion    \* the deletion that is under way on each device

equipmentVars == <<master, delivery, list, dayRow, rowLock, command, deletion>>

\* A device of a list has the days of its window; one that was returned stays
\* on the list.
NotListed == [days |-> {}, returned |-> FALSE]

\* A command knows the master rows it has yet to lock and those it found lendable
\* when it locked them.
NoCommand == [step |-> "none", devices |-> {}, window |-> {}, wants |-> {}, usable |-> {}]

EquipmentInit ==
    /\ master = [d \in Devices |-> "lendable"]
    /\ delivery = [i \in Items |-> "PendingExecution"]
    /\ list = [i \in Items |-> [d \in Devices |-> NotListed]]
    /\ dayRow = [d \in Devices |-> [day \in Days |-> NoItem]]
    /\ rowLock = [d \in Devices |-> NoItem]
    /\ command = [i \in Items |-> NoCommand]
    /\ deletion = [d \in Devices |-> "none"]

\* Statuses in which a list counts.  "OnSite" stands for InProgress, Exception and
\* FieldCompleted, which treat devices alike.
Holding == {"Preparing", "OnSite"}

\* Item i has device d on a day, as its plan says.
Has(i, d, day) == /\ delivery[i] \in Holding
                  /\ ~list[i][d].returned
                  /\ day \in list[i][d].days

InUse(d) == \E i \in Items, day \in Days : Has(i, d, day)

-----------------------------------------------------------------------------
(* Transactions on a service item *)

\* lockItemEquipment: all devices of the list, of the rows and of the command.
Concerned(i, devices) == devices \cup {d \in Devices : \/ list[i][d].days # {}
                                                       \/ \E day \in Days : dayRow[d][day] = i}

\* With several devices the master rows are looked up before they are locked.
LookedUp(devices) == IF Cardinality(devices) = 1 THEN devices
                     ELSE {d \in devices : master[d] # "deleted"}

\* A command locks the devices concerned, and looks at the named ones.
Begins(i, step, devices, window) ==
    command' = [command EXCEPT ![i] =
        [step |-> step, devices |-> devices, window |-> window,
         wants |-> LookedUp(Concerned(i, devices)), usable |-> {}]]

\* Mutant: the devices are locked in whatever order the request names them.
NextUnordered(wants) == wants

\* The next master row to lock is the one with the least id.
NextToLock(wants) == {d \in wants : \A e \in wants : d <= e}

DeviceLocked(i, d) ==
    /\ d \in NextToLock(command[i].wants)
    /\ rowLock[d] = NoItem
    /\ rowLock' = [rowLock EXCEPT ![d] = IF master[d] = "deleted" THEN @ ELSE i]
    /\ command' = [command EXCEPT ![i].wants = @ \ {d},
                                  ![i].usable = IF master[d] = "lendable" THEN @ \cup {d} ELSE @]
    /\ UNCHANGED <<master, delivery, list, dayRow, deletion>>

Running(i, step) == command[i].step = step /\ command[i].wants = {}

\* Commit or rollback: the locks go with the transaction.
Ends(i) == /\ command' = [command EXCEPT ![i] = NoCommand]
           /\ rowLock' = [d \in Devices |-> IF rowLock[d] = i THEN NoItem ELSE rowLock[d]]

WithoutRows(i, devices) ==
    [d \in Devices |-> [day \in Days |->
        IF d \in devices /\ dayRow[d][day] = i THEN NoItem ELSE dayRow[d][day]]]

\* resolvePreparationEquipment: what the service reads before the transaction.
PreparationAsked(i, devices, window) ==
    /\ command[i].step = "none"
    /\ delivery[i] \in {"PendingExecution", "Preparing"}
    /\ \A d \in devices :
         /\ master[d] = "lendable"
         /\ \A j \in Items \ {i}, day \in window : ~Has(j, d, day)
    /\ command' = [command EXCEPT ![i] = [NoCommand EXCEPT !.step = "asked", !.devices = devices,
                                                           !.window = window]]
    /\ UNCHANGED <<master, delivery, list, dayRow, rowLock, deletion>>

PreparationBegun(i) ==
    /\ command[i].step = "asked"
    /\ IF delivery[i] \in {"PendingExecution", "Preparing"}
       THEN Begins(i, "prepare", command[i].devices, command[i].window)
       ELSE command' = [command EXCEPT ![i] = NoCommand]
    /\ UNCHANGED <<master, delivery, list, dayRow, rowLock, deletion>>

\* syncEquipmentReservations writes a row for each day, the primary key refuses
\* a day that another item has; then the list replaces the earlier one.
Granted(i) ==
    /\ command[i].devices \subseteq command[i].usable
    /\ \A d \in command[i].devices, day \in command[i].window : dayRow[d][day] \in {i, NoItem}

PreparationStarted(i) ==
    /\ Running(i, "prepare")
    /\ Granted(i)
    /\ dayRow' = [d \in Devices |-> [day \in Days |->
                    IF d \in command[i].devices /\ day \in command[i].window THEN i
                    ELSE WithoutRows(i, Devices)[d][day]]]
    /\ list' = [list EXCEPT ![i] = [d \in Devices |->
                    IF d \in command[i].devices THEN [NotListed EXCEPT !.days = command[i].window]
                    ELSE NotListed]]
    /\ delivery' = [delivery EXCEPT ![i] = "Preparing"]
    /\ Ends(i)
    /\ UNCHANGED <<master, deletion>>

PreparationRefused(i) ==
    /\ Running(i, "prepare")
    /\ ~Granted(i)
    /\ Ends(i)
    /\ UNCHANGED <<master, delivery, list, dayRow, deletion>>

RevocationBegun(i) ==
    /\ command[i].step = "none"
    /\ delivery[i] = "Preparing"
    /\ Begins(i, "revoke", {}, {})
    /\ UNCHANGED <<master, delivery, list, dayRow, rowLock, deletion>>

PreparationRevoked(i) ==
    /\ Running(i, "revoke")
    /\ dayRow' = WithoutRows(i, Devices)
    /\ list' = [list EXCEPT ![i] = [d \in Devices |-> NotListed]]
    /\ delivery' = [delivery EXCEPT ![i] = "PendingExecution"]
    /\ Ends(i)
    /\ UNCHANGED <<master, deletion>>

\* A device that is not on the list is returned without effect, as one that was
\* returned before.
ReturnBegun(i, d) ==
    /\ command[i].step = "none"
    /\ delivery[i] \in Holding
    /\ list[i][d].days # {}
    /\ ~list[i][d].returned
    /\ Begins(i, "return", {d}, {})
    /\ UNCHANGED <<master, delivery, list, dayRow, rowLock, deletion>>

EquipmentReturned(i) ==
    /\ Running(i, "return")
    /\ list' = [list EXCEPT ![i] = [d \in Devices |->
                  IF d \in command[i].devices THEN [list[i][d] EXCEPT !.returned = TRUE]
                  ELSE list[i][d]]]
    /\ dayRow' = WithoutRows(i, command[i].devices)
    /\ Ends(i)
    /\ UNCHANGED <<master, delivery, deletion>>

TerminationBegun(i) ==
    /\ command[i].step = "none"
    /\ delivery[i] = "OnSite"
    /\ Begins(i, "terminate", {}, {})
    /\ UNCHANGED <<master, delivery, list, dayRow, rowLock, deletion>>

\* The list stays as it was.
Terminated(i) ==
    /\ Running(i, "terminate")
    /\ dayRow' = WithoutRows(i, Devices)
    /\ delivery' = [delivery EXCEPT ![i] = "Terminated"]
    /\ Ends(i)
    /\ UNCHANGED <<master, list, deletion>>

\* The start of the field work and its rollback leave the devices alone.
Moved(i) ==
    /\ command[i].step \in {"none", "asked"}
    /\ \E to \in Holding \ {delivery[i]} : delivery' = [delivery EXCEPT ![i] = to]
    /\ delivery[i] \in Holding
    /\ UNCHANGED <<master, list, dayRow, rowLock, command, deletion>>

-----------------------------------------------------------------------------
(* The catalogue *)

\* An edit can withhold a device that is lent.  A number that is used again after
\* its device was deleted belongs to another row.
EquipmentUpserted(d, state) ==
    /\ master[d] \notin {state, "deleted"}
    /\ rowLock[d] = NoItem
    /\ master' = [master EXCEPT ![d] = state]
    /\ UNCHANGED <<delivery, list, dayRow, rowLock, command, deletion>>

Blocked(d) ==
    \/ InUse(d)
    \/ \E i \in Items, day \in Days : /\ dayRow[d][day] = i
                                      /\ delivery[i] \in Holding
                                      /\ ~list[i][d].returned

\* Mutant: the lists are read before the lock is granted.
DeletionLockedLate(d) ==
    /\ deletion[d] = "none"
    /\ master[d] # "deleted"
    /\ deletion' = [deletion EXCEPT ![d] = "locked"]
    /\ UNCHANGED <<master, delivery, list, dayRow, rowLock, command>>

\* The row is locked by the first statement; the lists are read afterwards.  (The
\* service has looked at them once before, which only refuses.)
DeletionLocked(d) ==
    /\ deletion[d] = "none"
    /\ master[d] # "deleted"
    /\ rowLock[d] = NoItem
    /\ deletion' = [deletion EXCEPT ![d] = "locked"]
    /\ rowLock' = [rowLock EXCEPT ![d] = Clerk]
    /\ UNCHANGED <<master, delivery, list, dayRow, command>>

DeletionChecked(d) ==
    /\ deletion[d] = "locked"
    /\ deletion' = [deletion EXCEPT ![d] = IF Blocked(d) THEN "none" ELSE "unused"]
    /\ rowLock' = [rowLock EXCEPT ![d] = IF Blocked(d) THEN NoItem ELSE @]
    /\ UNCHANGED <<master, delivery, list, dayRow, command>>

EquipmentDeleted(d) ==
    /\ deletion[d] = "unused"
    /\ master' = [master EXCEPT ![d] = "deleted"]
    /\ dayRow' = [dayRow EXCEPT ![d] = [day \in Days |-> NoItem]]
    /\ deletion' = [deletion EXCEPT ![d] = "none"]
    /\ rowLock' = [rowLock EXCEPT ![d] = NoItem]
    /\ UNCHANGED <<delivery, list, command>>

-----------------------------------------------------------------------------

ItemStep(i) ==
    \/ \E devices \in SUBSET Devices, window \in Windows : PreparationAsked(i, devices, window)
    \/ \E d \in Devices : DeviceLocked(i, d) \/ ReturnBegun(i, d)
    \/ PreparationBegun(i) \/ PreparationStarted(i) \/ PreparationRefused(i)
    \/ RevocationBegun(i) \/ PreparationRevoked(i) \/ EquipmentReturned(i)
    \/ TerminationBegun(i) \/ Terminated(i) \/ Moved(i)

CatalogueStep(d) ==
    \/ \E state \in {"lendable", "withheld"} : EquipmentUpserted(d, state)
    \/ DeletionLocked(d) \/ DeletionChecked(d) \/ EquipmentDeleted(d)

EquipmentNext == \/ \E i \in Items : ItemStep(i)
                 \/ \E d \in Devices : CatalogueStep(d)

EquipmentSpec == EquipmentInit /\ [][EquipmentNext]_equipmentVars

-----------------------------------------------------------------------------
(* Properties *)

EquipmentTypeOK ==
    /\ master \in [Devices -> {"lendable", "withheld", "deleted"}]
    /\ delivery \in [Items -> Holding \cup {"PendingExecution", "Terminated"}]
    /\ list \in [Items -> [Devices -> [days : SUBSET Days, returned : BOOLEAN]]]
    /\ dayRow \in [Devices -> [Days -> Items \cup {NoItem}]]
    /\ rowLock \in [Devices -> Items \cup {NoItem, Clerk}]
    /\ command \in [Items -> [step : {"none", "asked", "prepare", "revoke", "return", "terminate"},
                              devices : SUBSET Devices, window : SUBSET Days,
                              wants : SUBSET Devices, usable : SUBSET Devices]]
    /\ deletion \in [Devices -> {"none", "locked", "unused"}]

Calendar == INSTANCE DeviceCalendar WITH
    catalogue <- master,
    booked <- {b \in Items \X Devices \X Days : Has(b[1], b[2], b[3])}

\* The lists of the plans, which no constraint of the database keeps apart,
\* change like a calendar that is kept by one hand: whatever is locked, read and
\* checked in between (syncEquipmentReservations, markEquipmentReturned,
\* DeleteEquipment).
ImplementsCalendar == Calendar!Spec

\* Transactions never wait for each other in a circle: in every group of waiting
\* ones there is one whose next master row nobody of the group holds
\* (lockEquipmentResources).
NoWaitCycle ==
    \A group \in (SUBSET Items) \ {{}} :
        \E i \in group : \A d \in NextToLock(command[i].wants) : rowLock[d] \notin group
=============================================================================
