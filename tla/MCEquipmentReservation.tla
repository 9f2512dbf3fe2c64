----------------------- MODULE MCEquipmentReservation -----------------------
(* Values for the model checker: two service items that want the same devices. *)
EXTENDS EquipmentReservation, TLC

CONSTANTS a1, a2

MCItems == {a1, a2}
MCDays == {1}
MCWindows == {{1}}

Symmetry == Permutations(MCItems)

=============================================================================
