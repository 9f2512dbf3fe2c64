-------------------------- MODULE MCDeliveryOutbox --------------------------
(* Values for the model checker: one event with everything that may follow    *)
(* it, and two workers.                                                       *)
EXTENDS DeliveryOutbox

CONSTANTS e1, w1, w2

MCEvents == {e1}
MCWorkers == {w1, w2}

=============================================================================
