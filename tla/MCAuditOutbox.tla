--------------------------- MODULE MCAuditOutbox ----------------------------
(* Values for the model checker: one or two replicas.                          *)
EXTENDS AuditOutbox

CONSTANTS a1, a2, d1, d2

OneAudit == {a1}
TwoAudits == {a1, a2}
OneReplica == {d1}
TwoReplicas == {d1, d2}

=============================================================================
