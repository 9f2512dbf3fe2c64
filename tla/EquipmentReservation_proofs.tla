--------------------- MODULE EquipmentReservation_proofs ---------------------
(***************************************************************************)
(* Proofs about the reservation of equipment, for any number of service    *)
(* items, devices and days.                                                *)
(***************************************************************************)
EXTENDS EquipmentReservation, FiniteSetTheorems, WellFoundedInduction, TLAPS

-----------------------------------------------------------------------------
(* The inductive invariant *)

\* What a plan says an item has, the rows say too.
Agree == \A i \in Items, d \in Devices, day \in Days : Has(i, d, day) => dayRow[d][day] = i

\* Locks belong to commands and deletions that are under way.
Guarded == /\ \A d \in Devices : rowLock[d] = Clerk <=> deletion[d] # "none"
           /\ \A i \in Items : command[i].step \in {"none", "asked"} =>
                /\ \A d \in Devices : rowLock[d] # i
                /\ command[i].wants = {}
                /\ command[i].usable = {}

\* What a command or a deletion has found under its lock is still so.
Seen == \A i \in Items : \A d \in command[i].usable : rowLock[d] = i /\ master[d] = "lendable"

Unused == \A d \in Devices : deletion[d] = "unused" => ~InUse(d)

\* A command waits only for rows that come after those it holds.
Ascending == \A i \in Items, d \in Devices :
                rowLock[d] = i => \A e \in command[i].wants : d < e

EquipmentInv == EquipmentTypeOK /\ Agree /\ Guarded /\ Seen /\ Unused /\ Ascending

-----------------------------------------------------------------------------
(* Steps *)

\* What a transaction looks up of the devices concerned (lockItemEquipment) are devices.
LEMMA LookedUpDevices ==
    ASSUME NEW i \in Items, NEW devices \in SUBSET Devices
    PROVE  LookedUp(Concerned(i, devices)) \in SUBSET Devices
  BY DEF LookedUp, Concerned

CommandType == [step : {"none", "asked", "prepare", "revoke", "return", "terminate"},
                devices : SUBSET Devices, window : SUBSET Days,
                wants : SUBSET Devices, usable : SUBSET Devices]

Starts(i) == \/ \E d \in Devices : ReturnBegun(i, d)
             \/ PreparationBegun(i) \/ RevocationBegun(i) \/ TerminationBegun(i)

\* A transaction that begins is no longer idle, has found nothing usable yet and leaves
\* the other commands alone (the head of ApplyDeliveryEvent).
LEMMA Begun ==
    ASSUME EquipmentTypeOK, NEW i \in Items, NEW devices \in SUBSET Devices,
           NEW window \in SUBSET Days,
           NEW step \in {"prepare", "revoke", "return", "terminate"},
           Begins(i, step, devices, window)
    PROVE  /\ command' \in [Items -> CommandType]
           /\ \A j \in Items \ {i} : command'[j] = command[j]
           /\ command'[i].step \notin {"none", "asked"}
           /\ command'[i].usable = {}
  <1> DEFINE looked == LookedUp(Concerned(i, devices))
  <1>1. looked \in SUBSET Devices
    BY LookedUpDevices
  <1>2. command' = [command EXCEPT ![i] = [step |-> step, devices |-> devices,
                                           window |-> window, wants |-> looked, usable |-> {}]]
    BY DEF Begins
  <1> HIDE DEF looked
  <1> QED
    BY <1>1, <1>2 DEF EquipmentTypeOK, CommandType

\* The same of the operations that begin one; nothing but the command changes.
LEMMA Started ==
    ASSUME EquipmentTypeOK, NEW i \in Items, Starts(i)
    PROVE  /\ UNCHANGED <<master, delivery, list, dayRow, rowLock, deletion>>
           /\ command[i].step \in {"none", "asked"}
           /\ command' \in [Items -> CommandType]
           /\ \A j \in Items \ {i} : command'[j] = command[j]
           /\ command'[i].step \in {"none", "asked"} => command'[i].wants = {}
           /\ command'[i].usable = {}
  <1>1. ASSUME NEW d \in Devices, ReturnBegun(i, d)
        PROVE  Begins(i, "return", {d}, {}) /\ command[i].step = "none"
    BY <1>1 DEF ReturnBegun
  <1>2. CASE PreparationBegun(i)
    <2>1. command[i] \in CommandType
      BY DEF EquipmentTypeOK, CommandType
    <2>2. /\ command[i].devices \in SUBSET Devices
          /\ command[i].window \in SUBSET Days
      BY <2>1 DEF CommandType
    <2>3. CASE Begins(i, "prepare", command[i].devices, command[i].window)
      BY <1>2, <2>2, <2>3, Begun DEF PreparationBegun
    <2>4. CASE command' = [command EXCEPT ![i] = NoCommand]
      BY <1>2, <2>4 DEF PreparationBegun, NoCommand, EquipmentTypeOK, CommandType
    <2> QED
      BY <1>2, <2>3, <2>4 DEF PreparationBegun
  <1>3. CASE RevocationBegun(i)
    <2>1. Begins(i, "revoke", {}, {}) /\ command[i].step = "none"
      BY <1>3 DEF RevocationBegun
    <2> QED
      BY <1>3, <2>1, Begun DEF RevocationBegun
  <1>4. CASE TerminationBegun(i)
    <2>1. Begins(i, "terminate", {}, {}) /\ command[i].step = "none"
      BY <1>4 DEF TerminationBegun
    <2> QED
      BY <1>4, <2>1, Begun DEF TerminationBegun
  <1>5. ASSUME NEW d \in Devices, ReturnBegun(i, d)
        PROVE  /\ UNCHANGED <<master, delivery, list, dayRow, rowLock, deletion>>
               /\ Begins(i, "return", {d}, {})
               /\ command[i].step = "none"
    BY <1>5 DEF ReturnBegun
  <1>6. ASSUME NEW d \in Devices, ReturnBegun(i, d)
        PROVE  /\ command' \in [Items -> CommandType]
               /\ \A j \in Items \ {i} : command'[j] = command[j]
               /\ command'[i].step \notin {"none", "asked"}
               /\ command'[i].usable = {}
    <2>1. {d} \in SUBSET Devices /\ {} \in SUBSET Days
      OBVIOUS
    <2> QED
      BY <1>5, <1>6, <2>1, Begun
  <1> QED
    BY <1>2, <1>3, <1>4, <1>5, <1>6 DEF Starts

\* Every step of the reservation keeps the types (applyItemEvent, DeleteEquipment).
LEMMA Typing ==
    ASSUME EquipmentTypeOK, EquipmentNext
    PROVE  EquipmentTypeOK'
  <1>1. ASSUME NEW i \in Items, NEW devices \in SUBSET Devices, NEW window \in Windows,
       PreparationAsked(i, devices, window)
        PROVE  EquipmentTypeOK'
    BY <1>1, OwnersAssumption, WindowsAssumption DEF EquipmentTypeOK, Holding, PreparationAsked,
       NoCommand, Has
  <1>2. ASSUME NEW i \in Items, NEW d \in Devices, DeviceLocked(i, d)
        PROVE  EquipmentTypeOK'
    <2>1. command' \in [Items -> CommandType]
      <3> DEFINE wants == command[i].wants \ {d}
                 usable == IF master[d] = "lendable" THEN command[i].usable \cup {d}
                           ELSE command[i].usable
      <3>1. command[i] \in CommandType
        BY DEF EquipmentTypeOK, CommandType
      <3>2. wants \in SUBSET Devices /\ usable \in SUBSET Devices
        BY <3>1 DEF CommandType
      <3>3. command' = [command EXCEPT ![i] = [command[i] EXCEPT !.wants = wants,
                                                           !.usable = usable]]
        BY <1>2 DEF DeviceLocked, EquipmentTypeOK
      <3> HIDE DEF wants, usable
      <3>4. [command[i] EXCEPT !.wants = wants, !.usable = usable] \in CommandType
        BY <3>1, <3>2 DEF CommandType
      <3> QED
        BY <3>3, <3>4 DEF EquipmentTypeOK, CommandType
    <2>2. rowLock' \in [Devices -> Items \cup {NoItem, Clerk}]
      BY <1>2 DEF DeviceLocked, EquipmentTypeOK
    <2> QED
      BY <1>2, <2>1, <2>2 DEF DeviceLocked, EquipmentTypeOK, CommandType
  <1>5. ASSUME NEW i \in Items, PreparationStarted(i)
        PROVE  EquipmentTypeOK'
    <2>1. command[i] \in CommandType
      BY DEF EquipmentTypeOK, CommandType
    <2>2. command[i].devices \in SUBSET Devices /\ command[i].window \in SUBSET Days
      BY <2>1 DEF CommandType
    <2>3. dayRow' \in [Devices -> [Days -> Items \cup {NoItem}]]
      BY <1>5, OwnersAssumption DEF PreparationStarted, WithoutRows, EquipmentTypeOK
    <2>4. list' \in [Items -> [Devices -> [days : SUBSET Days, returned : BOOLEAN]]]
      <3>1. [NotListed EXCEPT !.days = command[i].window]
              \in [days : SUBSET Days, returned : BOOLEAN]
        BY <2>2 DEF NotListed
      <3>2. NotListed \in [days : SUBSET Days, returned : BOOLEAN]
        BY DEF NotListed
      <3> DEFINE planned == [NotListed EXCEPT !.days = command[i].window]
      <3>3. list' = [list EXCEPT ![i] = [d \in Devices |->
                       IF d \in command[i].devices THEN planned ELSE NotListed]]
        BY <1>5 DEF PreparationStarted
      <3> HIDE DEF planned
      <3>4. planned \in [days : SUBSET Days, returned : BOOLEAN]
        BY <3>1 DEF planned
      <3> QED
        BY <3>2, <3>3, <3>4 DEF EquipmentTypeOK
    <2>5. delivery' \in [Items -> Holding \cup {"PendingExecution", "Terminated"}]
      BY <1>5 DEF PreparationStarted, EquipmentTypeOK, Holding
    <2>6. command' \in [Items -> CommandType]
      BY <1>5 DEF PreparationStarted, Ends, NoCommand, EquipmentTypeOK, CommandType
    <2>7. rowLock' \in [Devices -> Items \cup {NoItem, Clerk}]
      BY <1>5 DEF PreparationStarted, Ends, EquipmentTypeOK
    <2>8. UNCHANGED <<master, deletion>>
      BY <1>5 DEF PreparationStarted
    <2> QED
      BY <2>3, <2>4, <2>5, <2>6, <2>7, <2>8 DEF EquipmentTypeOK, CommandType
  <1>6. ASSUME NEW i \in Items, PreparationRefused(i)
        PROVE  EquipmentTypeOK'
    BY <1>6, OwnersAssumption, WindowsAssumption DEF EquipmentTypeOK, Holding,
       PreparationRefused, Ends, Running, NoCommand
  <1>8. ASSUME NEW i \in Items, PreparationRevoked(i)
        PROVE  EquipmentTypeOK'
    BY <1>8, OwnersAssumption, WindowsAssumption DEF EquipmentTypeOK, Holding,
       PreparationRevoked, Ends, Running, NoCommand, WithoutRows, NotListed
  <1>9. ASSUME NEW i \in Items, EquipmentReturned(i)
        PROVE  EquipmentTypeOK'
    <2>1. \A e \in Devices : [list[i][e] EXCEPT !.returned = TRUE]
                              \in [days : SUBSET Days, returned : BOOLEAN]
      <3> SUFFICES ASSUME NEW e \in Devices
                   PROVE  [list[i][e] EXCEPT !.returned = TRUE]
                            \in [days : SUBSET Days, returned : BOOLEAN]
        OBVIOUS
      <3>1. list[i][e] \in [days : SUBSET Days, returned : BOOLEAN]
        BY DEF EquipmentTypeOK
      <3> QED
        BY <3>1
    <2>2. list' \in [Items -> [Devices -> [days : SUBSET Days, returned : BOOLEAN]]]
      BY <1>9, <2>1 DEF EquipmentReturned, EquipmentTypeOK
    <2>3. UNCHANGED <<master, delivery, deletion>>
      BY <1>9 DEF EquipmentReturned
    <2>4. /\ dayRow' \in [Devices -> [Days -> Items \cup {NoItem}]]
          /\ rowLock' \in [Devices -> Items \cup {NoItem, Clerk}]
      BY <1>9 DEF EquipmentReturned, WithoutRows, Ends, EquipmentTypeOK
    <2>5. command' \in [Items -> CommandType]
      BY <1>9 DEF EquipmentReturned, Ends, NoCommand, EquipmentTypeOK, CommandType
    <2> QED
      BY <2>2, <2>3, <2>4, <2>5 DEF EquipmentTypeOK, CommandType
  <1>11. ASSUME NEW i \in Items, Terminated(i)
        PROVE  EquipmentTypeOK'
    BY <1>11, OwnersAssumption, WindowsAssumption DEF EquipmentTypeOK, Holding, Terminated,
       Ends, Running, NoCommand, WithoutRows
  <1>12. ASSUME NEW i \in Items, Moved(i)
        PROVE  EquipmentTypeOK'
    BY <1>12, OwnersAssumption, WindowsAssumption DEF EquipmentTypeOK, Holding, Moved
  <1>13. ASSUME NEW d \in Devices, NEW state \in {"lendable", "withheld"}, EquipmentUpserted(d,
       state)
        PROVE  EquipmentTypeOK'
    BY <1>13, OwnersAssumption, WindowsAssumption DEF EquipmentTypeOK, Holding, EquipmentUpserted
  <1>14. ASSUME NEW d \in Devices, DeletionLocked(d)
        PROVE  EquipmentTypeOK'
    BY <1>14, OwnersAssumption, WindowsAssumption DEF EquipmentTypeOK, Holding, DeletionLocked
  <1>15. ASSUME NEW d \in Devices, DeletionChecked(d)
        PROVE  EquipmentTypeOK'
    BY <1>15, OwnersAssumption, WindowsAssumption DEF EquipmentTypeOK, Holding, DeletionChecked
  <1>16. ASSUME NEW d \in Devices, EquipmentDeleted(d)
        PROVE  EquipmentTypeOK'
    BY <1>16, OwnersAssumption, WindowsAssumption DEF EquipmentTypeOK, Holding, EquipmentDeleted
  <1>20. ASSUME NEW i \in Items, Starts(i)
        PROVE  EquipmentTypeOK'
    BY <1>20, Started, OwnersAssumption DEF EquipmentTypeOK, Holding, CommandType
  <1> QED
    BY <1>1, <1>2, <1>5, <1>6, <1>8, <1>9, <1>11, <1>12, <1>13, <1>14, <1>15, <1>16, <1>20
    DEF EquipmentNext, ItemStep, CatalogueStep, Starts

\* Every step keeps the row locks of devices with transactions that are under way
\* (lockEquipmentResources, DeleteEquipment).
LEMMA GuardedKept ==
    ASSUME EquipmentTypeOK, Guarded, EquipmentTypeOK', EquipmentNext
    PROVE  Guarded'
  <1>1. ASSUME NEW i \in Items, NEW devices \in SUBSET Devices, NEW window \in Windows,
       PreparationAsked(i, devices, window)
        PROVE  Guarded'
    BY <1>1, OwnersAssumption DEF EquipmentTypeOK, Guarded, PreparationAsked, NoCommand, Has
  <1>2. ASSUME NEW i \in Items, NEW d \in Devices, DeviceLocked(i, d)
        PROVE  Guarded'
    BY <1>2, OwnersAssumption DEF EquipmentTypeOK, Guarded, DeviceLocked, NextToLock
  <1>5. ASSUME NEW i \in Items, PreparationStarted(i)
        PROVE  Guarded'
    BY <1>5, OwnersAssumption DEF EquipmentTypeOK, Guarded, PreparationStarted, Ends, Running,
       NoCommand, WithoutRows, NotListed, Granted
  <1>6. ASSUME NEW i \in Items, PreparationRefused(i)
        PROVE  Guarded'
    BY <1>6, OwnersAssumption DEF EquipmentTypeOK, Guarded, PreparationRefused, Ends, Running,
       NoCommand
  <1>8. ASSUME NEW i \in Items, PreparationRevoked(i)
        PROVE  Guarded'
    BY <1>8, OwnersAssumption DEF EquipmentTypeOK, Guarded, PreparationRevoked, Ends, Running,
       NoCommand, WithoutRows, NotListed
  <1>9. ASSUME NEW i \in Items, EquipmentReturned(i)
        PROVE  Guarded'
    BY <1>9, OwnersAssumption DEF EquipmentTypeOK, Guarded, EquipmentReturned, Ends, Running,
       NoCommand, WithoutRows
  <1>11. ASSUME NEW i \in Items, Terminated(i)
        PROVE  Guarded'
    BY <1>11, OwnersAssumption DEF EquipmentTypeOK, Guarded, Terminated, Ends, Running,
       NoCommand, WithoutRows
  <1>12. ASSUME NEW i \in Items, Moved(i)
        PROVE  Guarded'
    BY <1>12, OwnersAssumption DEF EquipmentTypeOK, Guarded, Moved
  <1>13. ASSUME NEW d \in Devices, NEW state \in {"lendable", "withheld"}, EquipmentUpserted(d,
       state)
        PROVE  Guarded'
    BY <1>13, OwnersAssumption DEF EquipmentTypeOK, Guarded, EquipmentUpserted
  <1>14. ASSUME NEW d \in Devices, DeletionLocked(d)
        PROVE  Guarded'
    BY <1>14, OwnersAssumption DEF EquipmentTypeOK, Guarded, DeletionLocked
  <1>15. ASSUME NEW d \in Devices, DeletionChecked(d)
        PROVE  Guarded'
    BY <1>15, OwnersAssumption DEF EquipmentTypeOK, Guarded, DeletionChecked
  <1>16. ASSUME NEW d \in Devices, EquipmentDeleted(d)
        PROVE  Guarded'
    BY <1>16, OwnersAssumption DEF EquipmentTypeOK, Guarded, EquipmentDeleted
  <1>20. ASSUME NEW i \in Items, Starts(i)
        PROVE  Guarded'
    BY <1>20, Started, OwnersAssumption DEF EquipmentTypeOK, Guarded, CommandType
  <1> QED
    BY <1>1, <1>2, <1>5, <1>6, <1>8, <1>9, <1>11, <1>12, <1>13, <1>14, <1>15, <1>16, <1>20
    DEF EquipmentNext, ItemStep, CatalogueStep, Starts

\* Every step keeps a day row for each device and day of a list that counts
\* (syncEquipmentReservations, markEquipmentReturned, deleteEquipmentReservations).
LEMMA AgreeKept ==
    ASSUME EquipmentTypeOK, Agree, Unused, EquipmentTypeOK', EquipmentNext
    PROVE  Agree'
  <1>1. ASSUME NEW i \in Items, NEW devices \in SUBSET Devices, NEW window \in Windows,
       PreparationAsked(i, devices, window)
        PROVE  Agree'
    BY <1>1, OwnersAssumption, WindowsAssumption DEF EquipmentTypeOK, Agree, Has, Holding,
       Unused, InUse, PreparationAsked
  <1>2. ASSUME NEW i \in Items, NEW d \in Devices, DeviceLocked(i, d)
        PROVE  Agree'
    BY <1>2, OwnersAssumption, WindowsAssumption DEF EquipmentTypeOK, Agree, Has, Holding,
       Unused, InUse, DeviceLocked, NextToLock
  <1>5. ASSUME NEW i \in Items, PreparationStarted(i)
        PROVE  Agree'
    BY <1>5, OwnersAssumption, WindowsAssumption DEF EquipmentTypeOK, Agree, Has, Holding,
       Unused, InUse, PreparationStarted, Ends, Running, WithoutRows, NotListed, Granted
  <1>6. ASSUME NEW i \in Items, PreparationRefused(i)
        PROVE  Agree'
    BY <1>6, OwnersAssumption, WindowsAssumption DEF EquipmentTypeOK, Agree, Has, Holding,
       Unused, InUse, PreparationRefused, Ends, Running
  <1>8. ASSUME NEW i \in Items, PreparationRevoked(i)
        PROVE  Agree'
    BY <1>8, OwnersAssumption, WindowsAssumption DEF EquipmentTypeOK, Agree, Has, Holding,
       Unused, InUse, PreparationRevoked, Ends, Running, WithoutRows, NotListed
  <1>9. ASSUME NEW i \in Items, EquipmentReturned(i)
        PROVE  Agree'
    BY <1>9, OwnersAssumption, WindowsAssumption DEF EquipmentTypeOK, Agree, Has, Holding,
       Unused, InUse, EquipmentReturned, Ends, Running, WithoutRows
  <1>11. ASSUME NEW i \in Items, Terminated(i)
        PROVE  Agree'
    BY <1>11, OwnersAssumption, WindowsAssumption DEF EquipmentTypeOK, Agree, Has, Holding,
       Unused, InUse, Terminated, Ends, Running, WithoutRows
  <1>12. ASSUME NEW i \in Items, Moved(i)
        PROVE  Agree'
    BY <1>12, OwnersAssumption, WindowsAssumption DEF EquipmentTypeOK, Agree, Has, Holding,
       Unused, InUse, Moved
  <1>13. ASSUME NEW d \in Devices, NEW state \in {"lendable", "withheld"}, EquipmentUpserted(d,
       state)
        PROVE  Agree'
    BY <1>13, OwnersAssumption, WindowsAssumption DEF EquipmentTypeOK, Agree, Has, Holding,
       Unused, InUse, EquipmentUpserted
  <1>14. ASSUME NEW d \in Devices, DeletionLocked(d)
        PROVE  Agree'
    BY <1>14, OwnersAssumption, WindowsAssumption DEF EquipmentTypeOK, Agree, Has, Holding,
       Unused, InUse, DeletionLocked
  <1>15. ASSUME NEW d \in Devices, DeletionChecked(d)
        PROVE  Agree'
    BY <1>15, OwnersAssumption, WindowsAssumption DEF EquipmentTypeOK, Agree, Has, Holding,
       Unused, InUse, DeletionChecked
  <1>16. ASSUME NEW d \in Devices, EquipmentDeleted(d)
        PROVE  Agree'
    BY <1>16, OwnersAssumption, WindowsAssumption DEF EquipmentTypeOK, Agree, Has, Holding,
       Unused, InUse, EquipmentDeleted
  <1>20. ASSUME NEW i \in Items, Starts(i)
        PROVE  Agree'
    BY <1>20, Started, OwnersAssumption DEF EquipmentTypeOK, Agree, Has, Holding, Unused, InUse,
       CommandType
  <1> QED
    BY <1>1, <1>2, <1>5, <1>6, <1>8, <1>9, <1>11, <1>12, <1>13, <1>14, <1>15, <1>16, <1>20
    DEF EquipmentNext, ItemStep, CatalogueStep, Starts

\* What was found lendable under its lock stays lendable while the lock is held
\* (lockEquipmentResources).
LEMMA SeenKept ==
    ASSUME EquipmentTypeOK, Guarded, Seen, EquipmentTypeOK', EquipmentNext
    PROVE  Seen'
  <1>1. ASSUME NEW i \in Items, NEW devices \in SUBSET Devices, NEW window \in Windows,
       PreparationAsked(i, devices, window)
        PROVE  Seen'
    BY <1>1, OwnersAssumption DEF EquipmentTypeOK, Guarded, Seen, PreparationAsked, NoCommand, Has
  <1>2. ASSUME NEW i \in Items, NEW d \in Devices, DeviceLocked(i, d)
        PROVE  Seen'
    BY <1>2, OwnersAssumption DEF EquipmentTypeOK, Guarded, Seen, DeviceLocked, NextToLock
  <1>5. ASSUME NEW i \in Items, PreparationStarted(i)
        PROVE  Seen'
    BY <1>5, OwnersAssumption DEF EquipmentTypeOK, Guarded, Seen, PreparationStarted, Ends,
       Running, NoCommand, WithoutRows, NotListed, Granted
  <1>6. ASSUME NEW i \in Items, PreparationRefused(i)
        PROVE  Seen'
    BY <1>6, OwnersAssumption DEF EquipmentTypeOK, Guarded, Seen, PreparationRefused, Ends,
       Running, NoCommand
  <1>8. ASSUME NEW i \in Items, PreparationRevoked(i)
        PROVE  Seen'
    BY <1>8, OwnersAssumption DEF EquipmentTypeOK, Guarded, Seen, PreparationRevoked, Ends,
       Running, NoCommand, WithoutRows, NotListed
  <1>9. ASSUME NEW i \in Items, EquipmentReturned(i)
        PROVE  Seen'
    BY <1>9, OwnersAssumption DEF EquipmentTypeOK, Guarded, Seen, EquipmentReturned, Ends,
       Running, NoCommand, WithoutRows
  <1>11. ASSUME NEW i \in Items, Terminated(i)
        PROVE  Seen'
    BY <1>11, OwnersAssumption DEF EquipmentTypeOK, Guarded, Seen, Terminated, Ends, Running,
       NoCommand, WithoutRows
  <1>12. ASSUME NEW i \in Items, Moved(i)
        PROVE  Seen'
    BY <1>12, OwnersAssumption DEF EquipmentTypeOK, Guarded, Seen, Moved
  <1>13. ASSUME NEW d \in Devices, NEW state \in {"lendable", "withheld"}, EquipmentUpserted(d,
       state)
        PROVE  Seen'
    BY <1>13, OwnersAssumption DEF EquipmentTypeOK, Guarded, Seen, EquipmentUpserted
  <1>14. ASSUME NEW d \in Devices, DeletionLocked(d)
        PROVE  Seen'
    BY <1>14, OwnersAssumption DEF EquipmentTypeOK, Guarded, Seen, DeletionLocked
  <1>15. ASSUME NEW d \in Devices, DeletionChecked(d)
        PROVE  Seen'
    BY <1>15, OwnersAssumption DEF EquipmentTypeOK, Guarded, Seen, DeletionChecked
  <1>16. ASSUME NEW d \in Devices, EquipmentDeleted(d)
        PROVE  Seen'
    <2>1. rowLock[d] = Clerk
      BY <1>16 DEF EquipmentDeleted, Guarded
    <2>2. \A j \in Items : d \notin command[j].usable
      BY <2>1, OwnersAssumption DEF Seen
    <2>3. \A e \in Devices \ {d} : master'[e] = master[e] /\ rowLock'[e] = rowLock[e]
      BY <1>16 DEF EquipmentDeleted, EquipmentTypeOK
    <2>4. command' = command /\ \A j \in Items : command[j].usable \subseteq Devices
      BY <1>16 DEF EquipmentDeleted, EquipmentTypeOK
    <2> QED
      BY <2>2, <2>3, <2>4 DEF Seen
  <1>20. ASSUME NEW i \in Items, Starts(i)
        PROVE  Seen'
    <2>1. \A j \in Items : command'[j].usable = command[j].usable \/ command'[j].usable = {}
      BY <1>20, Started
    <2>2. UNCHANGED <<master, rowLock>>
      BY <1>20, Started
    <2> QED
      BY <2>1, <2>2 DEF Seen
  <1> QED
    BY <1>1, <1>2, <1>5, <1>6, <1>8, <1>9, <1>11, <1>12, <1>13, <1>14, <1>15, <1>16, <1>20
    DEF EquipmentNext, ItemStep, CatalogueStep, Starts

\* A device that was found unused under its lock stays unused until it is deleted
\* (DeleteEquipment).
LEMMA UnusedKept ==
    ASSUME EquipmentTypeOK, Guarded, Seen, Unused, EquipmentTypeOK', EquipmentNext
    PROVE  Unused'
  <1>1. ASSUME NEW i \in Items, NEW devices \in SUBSET Devices, NEW window \in Windows,
       PreparationAsked(i, devices, window)
        PROVE  Unused'
    BY <1>1, OwnersAssumption DEF EquipmentTypeOK, Guarded, Seen, Unused, InUse, Has, Holding,
       PreparationAsked
  <1>2. ASSUME NEW i \in Items, NEW d \in Devices, DeviceLocked(i, d)
        PROVE  Unused'
    BY <1>2, OwnersAssumption DEF EquipmentTypeOK, Guarded, Seen, Unused, InUse, Has, Holding,
       DeviceLocked, NextToLock
  <1>5. ASSUME NEW i \in Items, PreparationStarted(i)
        PROVE  Unused'
    <2> SUFFICES ASSUME NEW e \in Devices, deletion'[e] = "unused"
                 PROVE  ~InUse(e)'
      BY DEF Unused
    <2>1. deletion[e] = "unused" /\ rowLock[e] = Clerk
      BY <1>5 DEF PreparationStarted, Guarded
    <2>2. e \notin command[i].devices
      BY <1>5, <2>1, OwnersAssumption DEF PreparationStarted, Granted, Seen
    <2>3. list'[i][e].days = {}
      BY <1>5, <2>2 DEF PreparationStarted, NotListed, EquipmentTypeOK
    <2>4. \A j \in Items \ {i} : list'[j] = list[j] /\ delivery'[j] = delivery[j]
      BY <1>5 DEF PreparationStarted, EquipmentTypeOK
    <2> QED
      BY <2>1, <2>3, <2>4 DEF Unused, InUse, Has
  <1>6. ASSUME NEW i \in Items, PreparationRefused(i)
        PROVE  Unused'
    BY <1>6, OwnersAssumption DEF EquipmentTypeOK, Guarded, Seen, Unused, InUse, Has, Holding,
       PreparationRefused, Ends, Running
  <1>8. ASSUME NEW i \in Items, PreparationRevoked(i)
        PROVE  Unused'
    BY <1>8, OwnersAssumption DEF EquipmentTypeOK, Guarded, Seen, Unused, InUse, Has, Holding,
       PreparationRevoked, Ends, Running, WithoutRows, NotListed
  <1>9. ASSUME NEW i \in Items, EquipmentReturned(i)
        PROVE  Unused'
    BY <1>9, OwnersAssumption DEF EquipmentTypeOK, Guarded, Seen, Unused, InUse, Has, Holding,
       EquipmentReturned, Ends, Running, WithoutRows
  <1>11. ASSUME NEW i \in Items, Terminated(i)
        PROVE  Unused'
    BY <1>11, OwnersAssumption DEF EquipmentTypeOK, Guarded, Seen, Unused, InUse, Has, Holding,
       Terminated, Ends, Running, WithoutRows
  <1>12. ASSUME NEW i \in Items, Moved(i)
        PROVE  Unused'
    BY <1>12, OwnersAssumption DEF EquipmentTypeOK, Guarded, Seen, Unused, InUse, Has, Holding,
       Moved
  <1>13. ASSUME NEW d \in Devices, NEW state \in {"lendable", "withheld"}, EquipmentUpserted(d,
       state)
        PROVE  Unused'
    BY <1>13, OwnersAssumption DEF EquipmentTypeOK, Guarded, Seen, Unused, InUse, Has, Holding,
       EquipmentUpserted
  <1>14. ASSUME NEW d \in Devices, DeletionLocked(d)
        PROVE  Unused'
    BY <1>14, OwnersAssumption DEF EquipmentTypeOK, Guarded, Seen, Unused, InUse, Has, Holding,
       DeletionLocked
  <1>15. ASSUME NEW d \in Devices, DeletionChecked(d)
        PROVE  Unused'
    <2>1. UNCHANGED <<delivery, list>>
      BY <1>15 DEF DeletionChecked
    <2>2. \A e \in Devices \ {d} : deletion'[e] = deletion[e]
      BY <1>15 DEF DeletionChecked, EquipmentTypeOK
    <2>3. deletion'[d] = "unused" => ~InUse(d)
      BY <1>15 DEF DeletionChecked, EquipmentTypeOK, Blocked
    <2>4. \A e \in Devices : InUse(e)' <=> InUse(e)
      BY <2>1 DEF InUse, Has
    <2> QED
      BY <2>2, <2>3, <2>4 DEF Unused
  <1>16. ASSUME NEW d \in Devices, EquipmentDeleted(d)
        PROVE  Unused'
    BY <1>16, OwnersAssumption DEF EquipmentTypeOK, Guarded, Seen, Unused, InUse, Has, Holding,
       EquipmentDeleted
  <1>20. ASSUME NEW i \in Items, Starts(i)
        PROVE  Unused'
    BY <1>20, Started, OwnersAssumption DEF EquipmentTypeOK, Guarded, Seen, Unused, InUse, Has,
       Holding, CommandType
  <1> QED
    BY <1>1, <1>2, <1>5, <1>6, <1>8, <1>9, <1>11, <1>12, <1>13, <1>14, <1>15, <1>16, <1>20
    DEF EquipmentNext, ItemStep, CatalogueStep, Starts

\* Master rows are locked in the order of their ids (lockEquipmentResources).
\* A transaction that ends releases the rows it has locked and wants none.
LEMMA AscendingEnds ==
    ASSUME EquipmentTypeOK, Ascending, NEW i \in Items, Ends(i)
    PROVE  Ascending'
  <1>1. \A d \in Devices : \A j \in Items : rowLock'[d] = j => rowLock[d] = j /\ j # i
    BY OwnersAssumption DEF Ends, EquipmentTypeOK
  <1>2. \A j \in Items \ {i} : command'[j] = command[j]
    BY DEF Ends, EquipmentTypeOK
  <1> QED
    BY <1>1, <1>2 DEF Ascending

LEMMA AscendingKept ==
    ASSUME EquipmentTypeOK, Guarded, Ascending, EquipmentTypeOK', EquipmentNext
    PROVE  Ascending'
  <1>1. ASSUME NEW i \in Items, NEW devices \in SUBSET Devices, NEW window \in Windows,
       PreparationAsked(i, devices, window)
        PROVE  Ascending'
    BY <1>1, OwnersAssumption, DevicesAssumption DEF EquipmentTypeOK, Guarded, Ascending,
       PreparationAsked, NoCommand, Has
  <1>2. ASSUME NEW i \in Items, NEW d \in Devices, DeviceLocked(i, d)
        PROVE  Ascending'
    <2>1. command'[i].wants = command[i].wants \ {d}
      BY <1>2 DEF DeviceLocked, EquipmentTypeOK
    <2>2. \A j \in Items \ {i} : command'[j] = command[j]
      BY <1>2 DEF DeviceLocked, EquipmentTypeOK
    <2>3. \A e \in Devices \ {d} : rowLock'[e] = rowLock[e]
      BY <1>2 DEF DeviceLocked, EquipmentTypeOK
    <2>4. rowLock'[d] \in {rowLock[d], i} /\ rowLock[d] = NoItem
      BY <1>2 DEF DeviceLocked, EquipmentTypeOK
    <2>5. \A e \in command[i].wants \ {d} : d < e
      <3>1. d \in Nat /\ command[i].wants \subseteq Nat
        BY DevicesAssumption DEF EquipmentTypeOK
      <3>2. \A e \in command[i].wants : d <= e
        BY <1>2 DEF DeviceLocked, NextToLock
      <3> QED
        BY <3>1, <3>2
    <2> QED
      BY <2>1, <2>2, <2>3, <2>4, <2>5, OwnersAssumption DEF Ascending
  <1>5. ASSUME NEW i \in Items, PreparationStarted(i)
        PROVE  Ascending'
    BY <1>5, AscendingEnds DEF PreparationStarted
  <1>6. ASSUME NEW i \in Items, PreparationRefused(i)
        PROVE  Ascending'
    BY <1>6, AscendingEnds DEF PreparationRefused
  <1>8. ASSUME NEW i \in Items, PreparationRevoked(i)
        PROVE  Ascending'
    BY <1>8, AscendingEnds DEF PreparationRevoked
  <1>9. ASSUME NEW i \in Items, EquipmentReturned(i)
        PROVE  Ascending'
    BY <1>9, AscendingEnds DEF EquipmentReturned
  <1>11. ASSUME NEW i \in Items, Terminated(i)
        PROVE  Ascending'
    BY <1>11, AscendingEnds DEF Terminated
  <1>12. ASSUME NEW i \in Items, Moved(i)
        PROVE  Ascending'
    BY <1>12, OwnersAssumption, DevicesAssumption DEF EquipmentTypeOK, Guarded, Ascending, Moved
  <1>13. ASSUME NEW d \in Devices, NEW state \in {"lendable", "withheld"}, EquipmentUpserted(d,
       state)
        PROVE  Ascending'
    BY <1>13, OwnersAssumption, DevicesAssumption DEF EquipmentTypeOK, Guarded, Ascending,
       EquipmentUpserted
  <1>14. ASSUME NEW d \in Devices, DeletionLocked(d)
        PROVE  Ascending'
    BY <1>14, OwnersAssumption, DevicesAssumption DEF EquipmentTypeOK, Guarded, Ascending,
       DeletionLocked
  <1>15. ASSUME NEW d \in Devices, DeletionChecked(d)
        PROVE  Ascending'
    BY <1>15, OwnersAssumption, DevicesAssumption DEF EquipmentTypeOK, Guarded, Ascending,
       DeletionChecked
  <1>16. ASSUME NEW d \in Devices, EquipmentDeleted(d)
        PROVE  Ascending'
    BY <1>16, OwnersAssumption, DevicesAssumption DEF EquipmentTypeOK, Guarded, Ascending,
       EquipmentDeleted
  <1>20. ASSUME NEW i \in Items, Starts(i)
        PROVE  Ascending'
    BY <1>20, Started, OwnersAssumption, DevicesAssumption DEF EquipmentTypeOK, Guarded,
       Ascending, CommandType
  <1> QED
    BY <1>1, <1>2, <1>5, <1>6, <1>8, <1>9, <1>11, <1>12, <1>13, <1>14, <1>15, <1>16, <1>20
    DEF EquipmentNext, ItemStep, CatalogueStep, Starts

\* Before any plan or reservation is written the invariant holds.
LEMMA EquipmentInvStarts == EquipmentInit => EquipmentInv
  BY OwnersAssumption
  DEF EquipmentInit, EquipmentInv, EquipmentTypeOK, NotListed, NoCommand, Agree, Has, Holding,
      Guarded, Seen, Unused, Ascending

\* No step of a service item or of the catalogue breaks it.
LEMMA EquipmentInvKept == EquipmentInv /\ [EquipmentNext]_equipmentVars => EquipmentInv'
  <1> SUFFICES ASSUME EquipmentInv, [EquipmentNext]_equipmentVars
               PROVE  EquipmentInv'
    OBVIOUS
  <1>1. CASE EquipmentNext
    BY <1>1, Typing, GuardedKept, AgreeKept, SeenKept, UnusedKept, AscendingKept
    DEF EquipmentInv
  <1>2. CASE UNCHANGED equipmentVars
    <2>1. EquipmentTypeOK' /\ Guarded' /\ Seen' /\ Ascending'
      BY <1>2 DEF equipmentVars, EquipmentInv, EquipmentTypeOK, Guarded, Seen, Ascending
    <2>2. Agree' /\ Unused'
      BY <1>2 DEF equipmentVars, EquipmentInv, Agree, Unused, InUse, Has
    <2> QED
      BY <2>1, <2>2 DEF EquipmentInv
  <1> QED
    BY <1>1, <1>2

\* The inductive invariant holds in every state.
THEOREM EquipmentInvariant == EquipmentSpec => []EquipmentInv
  <1> QED
    BY EquipmentInvStarts, EquipmentInvKept, PTL DEF EquipmentSpec

-----------------------------------------------------------------------------
(* Waiting *)

\* A set of natural numbers has a least one.
LEMMA LeastNatural ==
    ASSUME NEW T \in SUBSET Nat, T # {}
    PROVE  \E m \in T : \A n \in T : m <= n
  <1> DEFINE Less == {pair \in Nat \X Nat : pair[1] < pair[2]}
  <1>1. IsWellFoundedOn(Less, Nat)
    BY NatLessThanWellFounded DEF OpToRel
  <1>2. PICK m \in T : \A n \in T : <<n, m>> \notin Less
    <2> HIDE DEF Less
    <2> QED
      BY <1>1, WFMin
  <1>3. ASSUME NEW n \in T
        PROVE  m <= n
    <2>1. m \in Nat /\ n \in Nat
      OBVIOUS
    <2>2. ~(n < m)
      BY <1>2, <2>1, Zenon
    <2> QED
      BY <2>1, <2>2
  <1> QED
    BY <1>3

\* Of some devices one has the greatest id: the one after which the fewest come.
LEMMA GreatestDevice ==
    ASSUME NEW W \in SUBSET Devices, W # {}
    PROVE  \E m \in W : \A n \in W : n <= m
  <1> DEFINE After(d) == {e \in W : d < e}
             Counts == {Cardinality(After(d)) : d \in W}
  <1>1. \A d \in W : IsFiniteSet(After(d)) /\ Cardinality(After(d)) \in Nat
    BY DevicesAssumption, FS_Subset, FS_CardinalityType
  <1>2. PICK least \in Counts : \A n \in Counts : least <= n
    <2>1. Counts \in SUBSET Nat /\ Counts # {}
      BY <1>1
    <2> QED
      BY <2>1, LeastNatural
  <1>3. PICK m \in W : least = Cardinality(After(m))
    BY <1>2
  <1>4. ASSUME NEW n \in W, ~(n <= m)
        PROVE  FALSE
    <2>1. m \in Nat /\ n \in Nat /\ W \subseteq Nat
      BY DevicesAssumption
    <2>2. m < n
      BY <1>4, <2>1
    <2>3. After(n) \subseteq After(m)
      <3>1. \A a, b, c \in Nat : a < b /\ b < c => a < c
        OBVIOUS
      <3>2. \A e \in W : n < e => m < e
        BY <3>1, <2>1, <2>2
      <3> QED
        BY <3>2, Zenon
    <2>4. n \in After(m) /\ n \notin After(n)
      BY <2>1, <2>2
    <2>5. Cardinality(After(m)) <= Cardinality(After(n))
      BY <1>2, <1>3
    <2>6. Cardinality(After(n)) <= Cardinality(After(m))
      BY <1>1, <2>3, FS_Subset
    <2>7. Cardinality(After(m)) = Cardinality(After(n))
      <3>1. \A a, b \in Nat : a <= b /\ b <= a => a = b
        OBVIOUS
      <3> QED
        BY <3>1, <1>1, <2>5, <2>6, Zenon
    <2> QED
      BY <1>1, <2>3, <2>4, <2>7, FS_Subset
  <1> QED
    BY <1>4

\* No circle of transactions waits (lockEquipmentResources): of the devices that the
\* commands of a group hold, the holder of the greatest waits for none of them.
THEOREM NobodyWaitsInACircle == EquipmentSpec => []NoWaitCycle
  <1>1. ASSUME EquipmentInv PROVE NoWaitCycle
    <2> SUFFICES ASSUME NEW group \in (SUBSET Items) \ {{}},
                        \A i \in group : \E d \in NextToLock(command[i].wants) :
                           rowLock[d] \in group
                 PROVE  FALSE
      BY DEF NoWaitCycle
    <2> DEFINE Held == {d \in Devices : rowLock[d] \in group}
    <2>1. \A i \in group : \E d \in command[i].wants : d \in Held
      BY <1>1 DEF EquipmentInv, EquipmentTypeOK, CommandType, NextToLock
    <2>2. PICK m \in Held : \A n \in Held : n <= m
      <3>1. Held \in SUBSET Devices /\ Held # {}
        BY <2>1
      <3> QED
        BY <3>1, GreatestDevice
    <2>3. PICK d \in command[rowLock[m]].wants : d \in Held
      BY <2>1, <2>2
    <2>4. m < d
      BY <1>1, <2>2, <2>3 DEF EquipmentInv, Ascending
    <2>5. m \in Nat /\ d \in Nat /\ d <= m
      BY <2>2, <2>3, DevicesAssumption
    <2> QED
      BY <2>4, <2>5
  <1> QED
    BY <1>1, EquipmentInvariant, PTL

-----------------------------------------------------------------------------
(* The calendar *)

held == {b \in Items \X Devices \X Days : Has(b[1], b[2], b[3])}

\* The bookings of the calendar are what the plans say items have.
LEMMA HeldOnly ==
    ASSUME NEW i \in Items, NEW d \in Devices, NEW day \in Days
    PROVE  <<i, d, day>> \in held <=> Has(i, d, day)
  BY DEF held

\* Steps that leave master data, lists and statuses alone change no booking.
LEMMA SameHeld ==
    ASSUME UNCHANGED <<delivery, list>>
    PROVE  held' = held
  BY DEF held, Has

\* A committed preparation (EventPreparationStarted) books in the calendar.
LEMMA BooksStep ==
    ASSUME EquipmentInv, NEW i \in Items, PreparationStarted(i)
    PROVE  Calendar!Books(i, command[i].devices, command[i].window)
  <1> DEFINE devices == command[i].devices
             window == command[i].window
  <1>1. devices \subseteq Devices /\ window \subseteq Days
    BY DEF EquipmentInv, EquipmentTypeOK
  <1>2. \A d \in devices : master[d] = "lendable"
    BY DEF PreparationStarted, Granted, EquipmentInv, Seen
  <1>3. \A b \in held \ Calendar!Of(i) : ~(b[2] \in devices /\ b[3] \in window)
    <2> SUFFICES ASSUME NEW j \in Items, NEW d \in devices, NEW day \in window,
                        j # i, Has(j, d, day)
                 PROVE  FALSE
      BY <1>1 DEF held, Calendar!Of
    <2>1. dayRow[d][day] = j
      BY <1>1 DEF EquipmentInv, Agree
    <2>2. dayRow[d][day] \in {i, NoItem}
      BY DEF PreparationStarted, Granted
    <2> QED
      BY <2>1, <2>2, OwnersAssumption
  <1>4. held' = (held \ Calendar!Of(i)) \cup ({i} \X devices \X window)
    <2>1. \A d \in Devices, day \in Days : Has(i, d, day)' <=> d \in devices /\ day \in window
      BY <1>1 DEF PreparationStarted, Has, Holding, NotListed, EquipmentInv, EquipmentTypeOK
    <2>2. \A j \in Items \ {i}, d \in Devices, day \in Days :
            Has(j, d, day)' <=> Has(j, d, day)
      BY DEF PreparationStarted, Has, EquipmentInv, EquipmentTypeOK
    <2>3. \A j \in Items, d \in Devices, day \in Days :
            <<j, d, day>> \in held' <=>
              <<j, d, day>> \in (held \ Calendar!Of(i)) \cup ({i} \X devices \X window)
      BY <2>1, <2>2 DEF held, Calendar!Of
    <2>4. /\ held' \subseteq Items \X Devices \X Days
          /\ (held \ Calendar!Of(i)) \cup ({i} \X devices \X window)
               \subseteq Items \X Devices \X Days
      BY <1>1 DEF held
    <2> QED
      BY <2>3, <2>4
  <1>5. UNCHANGED master
    BY DEF PreparationStarted
  <1> QED
    BY <1>2, <1>3, <1>4, <1>5 DEF Calendar!Books, held, Calendar!Of

\* A revocation, a return and a termination give back in the calendar.
LEMMA GivesBackStep ==
    ASSUME EquipmentInv, NEW i \in Items,
           PreparationRevoked(i) \/ EquipmentReturned(i) \/ Terminated(i)
    PROVE  \E devices \in SUBSET Devices : Calendar!GivesBack(i, devices)
  <1> DEFINE devices == IF EquipmentReturned(i) THEN command[i].devices ELSE Devices
  <1>1. devices \in SUBSET Devices
    BY DEF EquipmentInv, EquipmentTypeOK
  <1>2. \A d \in Devices, day \in Days : Has(i, d, day)' <=> Has(i, d, day) /\ d \notin devices
    <2>1. CASE EquipmentReturned(i)
      BY <2>1, <1>1 DEF EquipmentReturned, Has, EquipmentInv, EquipmentTypeOK
    <2>2. CASE ~EquipmentReturned(i) /\ PreparationRevoked(i)
      BY <2>2 DEF PreparationRevoked, Has, Holding, EquipmentInv, EquipmentTypeOK
    <2>3. CASE ~EquipmentReturned(i) /\ Terminated(i)
      BY <2>3 DEF Terminated, Has, Holding, EquipmentInv, EquipmentTypeOK
    <2> QED
      BY <2>1, <2>2, <2>3
  <1>3. \A j \in Items \ {i}, d \in Devices, day \in Days : Has(j, d, day)' <=> Has(j, d, day)
    BY DEF PreparationRevoked, EquipmentReturned, Terminated, Has, EquipmentInv, EquipmentTypeOK
  <1>4. held' = held \ {b \in Calendar!Of(i) : b[2] \in devices}
    <2>1. \A j \in Items, d \in Devices, day \in Days :
            <<j, d, day>> \in held' <=>
              <<j, d, day>> \in held \ {b \in Calendar!Of(i) : b[2] \in devices}
      BY <1>2, <1>3 DEF held, Calendar!Of
    <2>2. /\ held' \subseteq Items \X Devices \X Days
          /\ held \subseteq Items \X Devices \X Days
      BY DEF held
    <2> QED
      BY <2>1, <2>2
  <1>5. UNCHANGED master
    BY DEF PreparationRevoked, EquipmentReturned, Terminated
  <1>6. Calendar!GivesBack(i, devices)
    BY <1>4, <1>5 DEF Calendar!GivesBack, held, Calendar!Of
  <1> QED
    BY <1>1, <1>6

\* A deletion (DeleteEquipment) takes the device out of a calendar without bookings of it.
LEMMA LeavesStep ==
    ASSUME EquipmentInv, NEW d \in Devices, EquipmentDeleted(d)
    PROVE  Calendar!Leaves(d)
  <1>1. ~InUse(d)
    BY DEF EquipmentDeleted, EquipmentInv, Unused
  <1>2. \A b \in held : b[2] # d
    BY <1>1 DEF held, InUse
  <1>3. held' = held
    BY SameHeld DEF EquipmentDeleted
  <1> QED
    BY <1>2, <1>3 DEF Calendar!Leaves, held, EquipmentDeleted

\* Every step is a step of the calendar or none at all.
LEMMA StepOfCalendar ==
    ASSUME EquipmentInv, [EquipmentNext]_equipmentVars
    PROVE  [Calendar!Next]_<<master, held>>
  <1>1. ASSUME NEW i \in Items, PreparationStarted(i)
        PROVE  Calendar!Next
    <2>1. command[i].devices \in SUBSET Devices /\ command[i].window \in SUBSET Days
      BY DEF EquipmentInv, EquipmentTypeOK
    <2> QED
      BY <1>1, <2>1, BooksStep DEF Calendar!Next
  <1>2. ASSUME NEW i \in Items,
               PreparationRevoked(i) \/ EquipmentReturned(i) \/ Terminated(i)
        PROVE  Calendar!Next
    BY <1>2, GivesBackStep DEF Calendar!Next
  <1>3. ASSUME NEW d \in Devices, EquipmentDeleted(d)
        PROVE  Calendar!Next
    BY <1>3, LeavesStep DEF Calendar!Next
  <1>4. ASSUME NEW d \in Devices, NEW state \in {"lendable", "withheld"},
               EquipmentUpserted(d, state)
        PROVE  Calendar!Next
    <2>1. held' = held
      BY <1>4, SameHeld DEF EquipmentUpserted
    <2> QED
      BY <1>4, <2>1 DEF EquipmentUpserted, Calendar!Next, Calendar!Changes, held
  <1>5. ASSUME NEW i \in Items, Moved(i)
        PROVE  UNCHANGED <<master, held>>
    <2>1. \A j \in Items : delivery[j] \in Holding <=> delivery'[j] \in Holding
      BY <1>5 DEF Moved, EquipmentInv, EquipmentTypeOK
    <2>2. UNCHANGED <<master, list>>
      BY <1>5 DEF Moved
    <2> QED
      BY <2>1, <2>2 DEF held, Has
  <1>6. ASSUME NEW i \in Items, NEW devices \in SUBSET Devices, NEW window \in Windows,
               PreparationAsked(i, devices, window)
        PROVE  UNCHANGED <<master, held>>
    BY <1>6, SameHeld DEF PreparationAsked
  <1>7. ASSUME NEW i \in Items, NEW d \in Devices, DeviceLocked(i, d) \/ ReturnBegun(i, d)
        PROVE  UNCHANGED <<master, held>>
    BY <1>7, SameHeld DEF DeviceLocked, ReturnBegun
  <1>8. ASSUME NEW i \in Items,
               PreparationBegun(i) \/ PreparationRefused(i) \/ RevocationBegun(i)
                 \/ TerminationBegun(i)
        PROVE  UNCHANGED <<master, held>>
    BY <1>8, SameHeld DEF PreparationBegun, PreparationRefused, RevocationBegun, TerminationBegun
  <1>9. ASSUME NEW d \in Devices, DeletionLocked(d) \/ DeletionChecked(d)
        PROVE  UNCHANGED <<master, held>>
    BY <1>9, SameHeld DEF DeletionLocked, DeletionChecked
  <1>10. CASE UNCHANGED equipmentVars
    BY <1>10, SameHeld DEF equipmentVars
  <1> QED
    BY <1>1, <1>2, <1>3, <1>4, <1>5, <1>6, <1>7, <1>8, <1>9, <1>10
    DEF EquipmentNext, ItemStep, CatalogueStep

\* Reservation with its locks and stale reads implements the calendar, whatever
\* the number of items, devices and days.
THEOREM Implementation == EquipmentSpec => ImplementsCalendar
  <1>1. EquipmentInit => Calendar!Init
    BY DEF EquipmentInit, Calendar!Init, Has, Holding
  <1>2. EquipmentInv /\ [EquipmentNext]_equipmentVars
          => [Calendar!Next]_<<master, {b \in Items \X Devices \X Days : Has(b[1], b[2], b[3])}>>
    BY StepOfCalendar DEF held
  <1> QED
    BY <1>1, <1>2, EquipmentInvariant, PTL DEF EquipmentSpec, ImplementsCalendar, Calendar!Spec
=============================================================================
