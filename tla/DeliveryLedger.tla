--------------------------- MODULE DeliveryLedger ---------------------------
(***************************************************************************)
(* What the two outboxes promise to the modules that write into them: a    *)
(* ledger in which what follows a delivery event is settled item by item,  *)
(* each time at once and once and for all.  There are no workers, claims,  *)
(* leases or delays here; nobody who reads the ledger can tell that work   *)
(* was lost, done twice or recorded late.                                  *)
(***************************************************************************)
EXTENDS Naturals

CONSTANTS
    Events, Recorded, Notified,     \* as in DeliveryOutbox
    MaxAttempts                     \* failures after which a message is dead

VARIABLES
    effects,    \* per event: "none", "due" or "done"
    message,    \* per message: "none", "due", "sent" or "dead"
    history,    \* events whose derived events are written
    accepted,   \* messages the platform has
    failures    \* per message: how often its publication has failed

ledger == <<effects, message, history, accepted, failures>>

Messages == Events \X {"direct", "derived"}

Init == /\ effects = [e \in Events |-> "none"]
        /\ message = [m \in Messages |-> "none"]
        /\ history = {}
        /\ accepted = {}
        /\ failures = [m \in Messages |-> 0]

\* An event is accepted, with effects to derive, with recipients or with both.
Applied(e, parts) ==
    /\ effects[e] = "none" /\ message[<<e, "direct">>] = "none"
    /\ parts # {}
    /\ effects' = IF "effects" \in parts THEN [effects EXCEPT ![e] = "due"] ELSE effects
    /\ message' = IF "direct" \in parts THEN [message EXCEPT ![<<e, "direct">>] = "due"]
                                        ELSE message
    /\ UNCHANGED <<history, accepted, failures>>

\* The effects of an event are all there at once: what it adds to the history and the
\* message it causes.
Completed(e) ==
    /\ effects[e] = "due"
    /\ effects' = [effects EXCEPT ![e] = "done"]
    /\ history' = history \cup ({e} \cap Recorded)
    /\ IF e \in Notified
         THEN /\ message[<<e, "derived">>] = "none"
              /\ message' = [message EXCEPT ![<<e, "derived">>] = "due"]
         ELSE UNCHANGED message
    /\ UNCHANGED <<accepted, failures>>

\* The platform takes a message that was written, at times one that is settled already.
Accepted(m) ==
    /\ message[m] # "none"
    /\ accepted' = accepted \cup {m}
    /\ UNCHANGED <<effects, message, history, failures>>

Sent(m) ==
    /\ message[m] = "due"
    /\ m \in accepted
    /\ message' = [message EXCEPT ![m] = "sent"]
    /\ UNCHANGED <<effects, history, accepted, failures>>

\* The last failure that is allowed, and no other, makes the message a dead letter.
Failed(m) ==
    /\ message[m] = "due"
    /\ failures' = [failures EXCEPT ![m] = @ + 1]
    /\ message' = IF failures'[m] = MaxAttempts THEN [message EXCEPT ![m] = "dead"] ELSE message
    /\ UNCHANGED <<effects, history, accepted>>

Next == \/ \E e \in Events, parts \in SUBSET {"effects", "direct"} : Applied(e, parts)
        \/ \E e \in Events : Completed(e)
        \/ \E m \in Messages : Accepted(m) \/ Sent(m) \/ Failed(m)

Spec == Init /\ [][Next]_ledger
=============================================================================
