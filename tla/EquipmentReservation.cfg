\* Two items, two devices, one day: a day is what two items can have at once.
CONSTANTS
    a1 = a1
    a2 = a2
    Items <- MCItems
    Devices = {1, 2}
    Days <- MCDays
    Windows <- MCWindows
    NoItem = NoItem
    Clerk = Clerk

SPECIFICATION EquipmentSpec
SYMMETRY Symmetry

\* A terminated item and a deleted device have nothing left to do.
CHECK_DEADLOCK FALSE

INVARIANTS
    NoWaitCycle

PROPERTIES
    ImplementsCalendar
