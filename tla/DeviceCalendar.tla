--------------------------- MODULE DeviceCalendar ---------------------------
(***************************************************************************)
(* What the reservation of equipment promises: a calendar in which every   *)
(* change of a booking happens at once.  Nobody gets a device that is not  *)
(* lendable or that another service item has on the same day, and a device *)
(* leaves the catalogue only while nobody has it.                          *)
(***************************************************************************)
CONSTANTS Items, Devices, Days

VARIABLES
    catalogue,  \* what the master data says of each device
    booked      \* who has which device on which day

Init == /\ catalogue = [d \in Devices |-> "lendable"]
        /\ booked = {}

Of(i) == {b \in booked : b[1] = i}

\* Service item i gets the devices of a list for the days of a window, in place
\* of all it had.
Books(i, list, window) ==
    /\ \A d \in list : catalogue[d] = "lendable"
    /\ \A b \in booked \ Of(i) : ~(b[2] \in list /\ b[3] \in window)
    /\ booked' = (booked \ Of(i)) \cup ({i} \X list \X window)
    /\ UNCHANGED catalogue

\* It gives back some of its devices.
GivesBack(i, list) ==
    /\ booked' = booked \ {b \in Of(i) : b[2] \in list}
    /\ UNCHANGED catalogue

Changes(d) ==
    /\ catalogue[d] # "deleted"
    /\ \E state \in {"lendable", "withheld"} : catalogue' = [catalogue EXCEPT ![d] = state]
    /\ UNCHANGED booked

Leaves(d) ==
    /\ \A b \in booked : b[2] # d
    /\ catalogue' = [catalogue EXCEPT ![d] = "deleted"]
    /\ UNCHANGED booked

Next == \/ \E i \in Items, list \in SUBSET Devices :
             GivesBack(i, list) \/ \E window \in SUBSET Days : Books(i, list, window)
        \/ \E d \in Devices : Changes(d) \/ Leaves(d)

Spec == Init /\ [][Next]_<<catalogue, booked>>
=============================================================================
