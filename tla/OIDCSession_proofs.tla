------------------------- MODULE OIDCSession_proofs --------------------------
(***************************************************************************)
(* Proofs about the sessions, for any number of logins and of requests and *)
(* for every bound.  The invariant says which protocol a step belongs to,  *)
(* who holds a row lock, how far a login has come and how the generations  *)
(* of tokens and rights are ordered.                                       *)
(***************************************************************************)
EXTENDS OIDCSession, TLAPS

-----------------------------------------------------------------------------
(* The inductive invariant *)

\* The two protocols do not meet.
Moded ==
    \A r \in Requests : /\ request[r].step \in CentralSteps => central
                        /\ request[r].step \in LocalSteps => ~central

\* A request past the login works for a session that was created.
Known ==
    \A r \in Requests : request[r].step \notin {"idle"} \cup LoginSteps =>
        request[r].login \in Logins /\ session[request[r].login].status # "absent"

\* A row is locked by the one request that is in a transaction on it, and is
\* not revoked meanwhile.
LocksHeld ==
    /\ lock \in [Logins -> Requests \cup {NoRequest}]
    /\ \A r \in Requests : request[r].step \in Locked => lock[request[r].login] = r
    /\ \A l \in Logins : lock[l] # NoRequest =>
           /\ request[lock[l]].login = l /\ request[lock[l]].step \in Locked
           /\ session[l].status \in {"active", "expired"}

\* A login that is consumed has one callback, which creates the session last.
LoginsOnce ==
    /\ \A l \in Logins :
         /\ created[l] = 0 => session[l].status = "absent" /\ ~session[l].idle
         /\ created[l] # 0 => created[l] = 1 /\ session[l].status # "absent"
         /\ login[l].status # "consumed" => created[l] = 0 /\ provider[l] = 0
    /\ \A r \in Requests : request[r].step \in LoginSteps =>
         /\ request[r].login \in Logins
         /\ login[request[r].login].status = "consumed"
         /\ created[request[r].login] = 0
         /\ request[r].step = "exchanging" => provider[request[r].login] = 0
         /\ request[r].step # "exchanging" => request[r].token = provider[request[r].login]
         /\ \A q \in Requests :
              request[q].step \in LoginSteps /\ request[q].login = request[r].login => q = r

\* In central mode no row and no request is ahead of what was issued, and what a
\* request is about to store is not behind the row.
Generations ==
    central =>
      /\ \A l \in Logins : /\ session[l].token <= provider[l]
                           /\ session[l].revision <= upstream.revision
                           /\ session[l].status = "absent" => session[l].revision = 0
      /\ \A r \in Requests :
           /\ request[r].step = "rotated" => request[r].token = provider[request[r].login]
           /\ request[r].step = "checked" =>
                session[request[r].login].revision <= request[r].revision
           /\ request[r].step \in {"checked", "creating"} =>
                request[r].revision <= upstream.revision

Inv == TypeOK /\ Moded /\ Known /\ LocksHeld /\ LoginsOnce /\ Generations /\ RotationKept

-----------------------------------------------------------------------------
(* Rows and requests *)

LEMMA RowTyping ==
    ASSUME NEW row \in RowType
    PROVE  /\ \A status \in {"absent", "active", "expired", "revoked"} :
                /\ [row EXCEPT !.status = status] \in RowType
                /\ \A idle \in BOOLEAN : [row EXCEPT !.status = status, !.idle = idle] \in RowType
                /\ \A token \in 0 .. MaxToken, revision \in 0 .. MaxRevision :
                     [row EXCEPT !.status = status, !.token = token,
                                 !.revision = revision] \in RowType
           /\ \A checked \in {"fresh", "due", "stale"} :
                /\ [row EXCEPT !.checked = checked] \in RowType
                /\ \A token \in 0 .. MaxToken :
                     [row EXCEPT !.token = token, !.tokenDue = FALSE, !.checked = checked,
                                 !.retry = FALSE] \in RowType
                /\ \A revision \in 0 .. MaxRevision :
                     [row EXCEPT !.revision = revision, !.checked = checked,
                                 !.retry = FALSE] \in RowType
           /\ \A tokenDue \in BOOLEAN : [row EXCEPT !.tokenDue = tokenDue] \in RowType
           /\ \A retry \in BOOLEAN : [row EXCEPT !.retry = retry] \in RowType
           /\ \A idle \in BOOLEAN : [row EXCEPT !.idle = idle] \in RowType
    BY DEF RowType

LEMMA EmptyTyping == AbsentRow \in RowType /\ Idle \in RequestType /\ Idle.step = "idle"
    BY BoundsAssumption DEF AbsentRow, Idle, RowType, RequestType, Steps

LEMMA RequestFields ==
    ASSUME NEW q \in RequestType
    PROVE  /\ q.step \in Steps /\ q.login \in Logins \cup {NoLogin} /\ q.row \in RowType
           /\ q.token \in 0 .. MaxToken /\ q.revision \in 0 .. MaxRevision
    BY DEF RequestType

LEMMA RowFields ==
    ASSUME NEW row \in RowType
    PROVE  /\ row.status \in {"absent", "active", "expired", "revoked"}
           /\ row.token \in 0 .. MaxToken /\ row.revision \in 0 .. MaxRevision
           /\ row.checked \in {"fresh", "due", "stale"} /\ row.idle \in BOOLEAN
    BY DEF RowType

\* What a request is after it has gone on.
LEMMA GoesTyping ==
    ASSUME NEW r \in Requests, NEW step \in Steps, NEW l \in Logins \cup {NoLogin},
           NEW token \in 0 .. MaxToken, NEW revision \in 0 .. MaxRevision,
           Goes(r, step, l, token, revision)
    PROVE  \E q \in RequestType :
               /\ request' = [request EXCEPT ![r] = q]
               /\ q.step = step /\ q.login = l /\ q.token = token /\ q.revision = revision
<1> DEFINE q == [Idle EXCEPT !.step = step, !.login = l, !.token = token, !.revision = revision]
<1>1. q.step = step /\ q.login = l /\ q.token = token /\ q.revision = revision
    BY DEF Idle
<1>2. q \in RequestType
    BY EmptyTyping DEF RequestType
<1>3. request' = [request EXCEPT ![r] = q]
    BY DEF Goes
<1> QED
    BY <1>1, <1>2, <1>3

\* The steps that requests are sent to, with nothing in hand.
LEMMA KnownSteps ==
    /\ 0 \in 0 .. MaxToken /\ 0 \in 0 .. MaxRevision
    /\ "exchanging" \in Steps /\ "authorizing" \in Steps /\ "authorizingAgain" \in Steps
    /\ "creating" \in Steps /\ "granted" \in Steps /\ "activity" \in Steps
    /\ "rotate" \in Steps /\ "check" \in Steps /\ "rotating" \in Steps
    /\ "rotated" \in Steps /\ "checking" \in Steps /\ "checked" \in Steps
    /\ "unauthenticated" \in Steps /\ "denied" \in Steps /\ "refreshed" \in Steps
    /\ "touching" \in Steps
    BY BoundsAssumption DEF Steps, LoginSteps, CentralSteps, LocalSteps, Locked

\* What a request is after it was put down.
LEMMA EndsTyping ==
    ASSUME NEW r \in Requests, Ends(r)
    PROVE  \E q \in RequestType : request' = [request EXCEPT ![r] = q] /\ q.step = "idle"
<1>1. "idle" \in Steps /\ 0 \in 0 .. MaxToken /\ 0 \in 0 .. MaxRevision
    BY BoundsAssumption DEF Steps
<1> QED
    BY <1>1, GoesTyping DEF Ends

\* A transaction that ends leaves the locks of all others as they are.
LEMMA UnlockKeeps ==
    ASSUME Inv, NEW r \in Requests, NEW q, request' = [request EXCEPT ![r] = q],
           q.step \notin Locked, Unlocks(r),
           \A l \in Logins : session[l].status \in {"active", "expired"} =>
               session'[l].status \in {"active", "expired"} \/ lock[l] = r
    PROVE  LocksHeld'
<1>1. \A p \in Requests : request[p].step \in Locked =>
          request[p].login \in Logins /\ lock[request[p].login] = p
    BY DEF Inv, Known, LocksHeld, Locked, LoginSteps
<1>2. request'[r] = q /\ \A p \in Requests : p # r => request'[p] = request[p]
    BY DEF Inv, TypeOK
<1>3. \A p \in Requests : request'[p].step \in Locked => lock'[request'[p].login] = p
    BY <1>1, <1>2 DEF Unlocks
<1>4. \A l \in Logins : lock'[l] # NoRequest => lock'[l] = lock[l] /\ lock[l] # r
    BY DEF Inv, Unlocks
<1>5. \A l \in Logins : lock'[l] # NoRequest => session'[l].status \in {"active", "expired"}
    BY <1>4 DEF Inv, LocksHeld
<1>6. \A l \in Logins : lock'[l] # NoRequest =>
          request'[lock'[l]].login = l /\ request'[lock'[l]].step \in Locked
    BY <1>2, <1>4 DEF Inv, LocksHeld
<1>7. lock' \in [Logins -> Requests \cup {NoRequest}]
    BY DEF Inv, LocksHeld, Unlocks
<1> QED
    BY <1>3, <1>5, <1>6, <1>7 DEF LocksHeld

\* A request that only goes on, or ends its transaction, without a write.
LEMMA RequestMoves ==
    ASSUME Inv, NEW r \in Requests, NEW q \in RequestType,
           request' = [request EXCEPT ![r] = q],
           request[r].step # "rotated",
           q.step \notin LoginSteps \cup Locked,
           q.step \in CentralSteps => central,
           q.step \in LocalSteps => ~central,
           q.step # "idle" => q.login \in Logins /\ session[q.login].status # "absent",
           Unlocks(r) \/ (lock' = lock /\ request[r].step \notin Locked),
           cached' \in [Logins -> BOOLEAN],
           UNCHANGED <<central, login, session, provider, upstream, created, faults>>
    PROVE  Inv'
<1>1. Unlocks(r)
    BY DEF Inv, LocksHeld, Unlocks
<1>2. LocksHeld'
    BY <1>1, UnlockKeeps
<1>3. /\ request' \in [Requests -> RequestType] /\ request'[r] = q
      /\ \A p \in Requests : p # r => request'[p] = request[p]
    BY DEF Inv, TypeOK
<1>4. TypeOK'
    BY <1>2, <1>3 DEF Inv, TypeOK, LocksHeld
<1>5. Moded'
    BY <1>3 DEF Inv, Moded
<1>6. Known'
    BY <1>3 DEF Inv, Known
<1>7. LoginsOnce'
    BY <1>3 DEF Inv, LoginsOnce
<1>8. Generations'
    BY <1>3 DEF Inv, Generations, LoginSteps, Locked
<1>9. RotationKept'
    BY <1>3 DEF Inv, RotationKept, At
<1> QED
    BY <1>2, <1>4, <1>5, <1>6, <1>7, <1>8, <1>9 DEF Inv

\* Time and logouts keep the credentials of a row and make none active.
LEMMA RowsAge ==
    ASSUME Inv, session' \in [Logins -> RowType],
           \A l \in Logins :
               /\ session'[l].token = session[l].token
               /\ session'[l].revision = session[l].revision
               /\ session[l].status = "absent" => session'[l] = session[l]
               /\ session[l].status # "absent" => session'[l].status # "absent"
               /\ session'[l].status = "active" => session[l].status = "active"
               /\ lock[l] # NoRequest => session'[l].status \in {"active", "expired"},
           UNCHANGED <<central, login, lock, provider, upstream, cached, created, faults>>,
           request' \in [Requests -> RequestType],
           \A r \in Requests :
               /\ request'[r].step = request[r].step /\ request'[r].login = request[r].login
               /\ request'[r].token = request[r].token
               /\ request'[r].revision = request[r].revision
    PROVE  Inv'
<1>1. LocksHeld'
    BY DEF Inv, LocksHeld
<1>2. TypeOK'
    BY <1>1 DEF Inv, TypeOK
<1>3. Moded'
    BY DEF Inv, Moded
<1>4. Known'
    BY DEF Inv, Known
<1>5. LoginsOnce'
    BY DEF Inv, LoginsOnce
<1>6. Generations'
    BY DEF Inv, Generations, Known, LoginSteps
<1>7. RotationKept'
    BY DEF Inv, RotationKept, At
<1> QED
    BY <1>1, <1>2, <1>3, <1>4, <1>5, <1>6, <1>7 DEF Inv

\* The local protocol locks no row.
LEMMA LocalUnlocked ==
    ASSUME Inv, ~central
    PROVE  \A l \in Logins : lock[l] = NoRequest
<1>1. \A r \in Requests : request[r].step \notin Locked
    BY DEF Inv, Moded, CentralSteps
<1>2. \A l \in Logins : lock[l] \in Requests \cup {NoRequest}
    BY DEF Inv, LocksHeld
<1> QED
    BY <1>1, <1>2 DEF Inv, LocksHeld

\* What the local protocol writes does not make a row appear or vanish.
LEMMA LocalWrites ==
    ASSUME Inv, ~central, NEW r \in Requests, NEW q \in RequestType,
           request' = [request EXCEPT ![r] = q],
           q.step \in {"idle", "granted"},
           q.step # "idle" => q.login \in Logins /\ session[q.login].status # "absent",
           session' \in [Logins -> RowType],
           \A l \in Logins : IF session[l].status = "absent" THEN session'[l] = session[l]
                                                           ELSE session'[l].status # "absent",
           UNCHANGED <<central, login, lock, provider, upstream, cached, created, faults>>
    PROVE  Inv'
<1>1. /\ request' \in [Requests -> RequestType] /\ request'[r] = q
      /\ \A p \in Requests : p # r => request'[p] = request[p]
    BY DEF Inv, TypeOK
<1>2. q.step \notin LoginSteps \cup CentralSteps \cup LocalSteps \cup Locked
    BY DEF LoginSteps, CentralSteps, LocalSteps, Locked
<1>3. LocksHeld'
    BY <1>1, <1>2, LocalUnlocked DEF Inv, LocksHeld, Moded
<1>4. TypeOK'
    BY <1>1, <1>3 DEF Inv, TypeOK, LocksHeld
<1>5. Moded'
    BY <1>1, <1>2 DEF Inv, Moded
<1>6. Known'
    BY <1>1, <1>2 DEF Inv, Known
<1>7. LoginsOnce'
    BY <1>1, <1>2 DEF Inv, LoginsOnce
<1>8. Generations' /\ RotationKept'
    BY DEF Generations, RotationKept
<1> QED
    BY <1>3, <1>4, <1>5, <1>6, <1>7, <1>8 DEF Inv

LEMMA RevokedTyping ==
    ASSUME TypeOK, NEW l \in Logins
    PROVE  /\ Revoked(l) \in RowType
           /\ IF session[l].status = "absent" THEN Revoked(l) = session[l]
                                              ELSE Revoked(l).status = "revoked"
<1>1. session[l] \in RowType
    BY DEF TypeOK
<1>2. [session[l] EXCEPT !.status = "revoked"] \in RowType
    BY <1>1, RowTyping
<1>3. [session[l] EXCEPT !.status = "revoked"].status = "revoked"
    BY <1>1
<1> QED
    BY <1>1, <1>2, <1>3 DEF Revoked

-----------------------------------------------------------------------------
(* Login *)

LEMMA LoginStartedKeeps ==
    ASSUME Inv, NEW l \in Logins, LoginStarted(l)
    PROVE  Inv'
<1>1. login' \in [Logins -> [status : {"none", "open", "consumed", "expired"}, ticket : BOOLEAN]]
    <2>1. /\ login \in [Logins -> [status : {"none", "open", "consumed", "expired"},
                                   ticket : BOOLEAN]]
          /\ login' = [login EXCEPT ![l].status = "open"]
        BY DEF Inv, TypeOK, LoginStarted
    <2>2. [login[l] EXCEPT !.status = "open"]
             \in [status : {"none", "open", "consumed", "expired"}, ticket : BOOLEAN]
        BY <2>1
    <2> QED
        BY <2>1, <2>2
<1>2. TypeOK'
    BY <1>1, BoundsAssumption DEF Inv, TypeOK, LoginStarted
<1>3. LoginsOnce'
    BY DEF Inv, LoginsOnce, LoginStarted
<1> QED
    BY <1>2, <1>3 DEF Inv, Moded, Known, Generations, LocksHeld, RotationKept, LoginStarted, At

LEMMA TicketAttachedKeeps ==
    ASSUME Inv, NEW l \in Logins, TicketAttached(l)
    PROVE  Inv'
<1>1. login' \in [Logins -> [status : {"none", "open", "consumed", "expired"}, ticket : BOOLEAN]]
    <2>1. /\ login \in [Logins -> [status : {"none", "open", "consumed", "expired"},
                                   ticket : BOOLEAN]]
          /\ login' = [login EXCEPT ![l].ticket = TRUE]
        BY DEF Inv, TypeOK, TicketAttached
    <2>2. [login[l] EXCEPT !.ticket = TRUE]
             \in [status : {"none", "open", "consumed", "expired"}, ticket : BOOLEAN]
        BY <2>1
    <2> QED
        BY <2>1, <2>2
<1>2. TypeOK'
    BY <1>1, BoundsAssumption DEF Inv, TypeOK, TicketAttached
<1>3. LoginsOnce'
    BY DEF Inv, LoginsOnce, TicketAttached
<1> QED
    BY <1>2, <1>3 DEF Inv, Moded, Known, Generations, LocksHeld, RotationKept, TicketAttached, At

LEMMA LoginConsumedKeeps ==
    ASSUME Inv, NEW r \in Requests, NEW l \in Logins, LoginConsumed(r, l)
    PROVE  Inv'
<1>1. Goes(r, "exchanging", l, 0, 0)
    BY DEF LoginConsumed
<1>2. PICK q \in RequestType :
      /\ request' = [request EXCEPT ![r] = q]
      /\ q.step = "exchanging" /\ q.login = l
    BY <1>1, GoesTyping, KnownSteps
<1>3. login' \in [Logins -> [status : {"none", "open", "consumed", "expired"}, ticket : BOOLEAN]]
    BY DEF Inv, TypeOK, LoginConsumed
<1>4. LocksHeld'
    BY <1>2 DEF Inv, LocksHeld, Locked, LoginConsumed, At
<1>5. TypeOK'
    BY <1>2, <1>3, <1>4, BoundsAssumption DEF Inv, TypeOK, LocksHeld, LoginConsumed
<1>6. Moded'
    BY <1>2 DEF Inv, Moded, CentralSteps, LocalSteps, Locked, LoginConsumed
<1>7. Known'
    BY <1>2 DEF Inv, Known, LoginSteps, LoginConsumed
<1>8. LoginsOnce'
    BY <1>2 DEF Inv, TypeOK, LoginsOnce, LoginConsumed
<1>9. Generations'
    BY <1>2 DEF Inv, Generations, LoginConsumed
<1>10. RotationKept'
    BY <1>2 DEF Inv, RotationKept, LoginConsumed, At
<1> QED
    BY <1>5, <1>4, <1>6, <1>7, <1>8, <1>9, <1>10 DEF Inv

LEMMA CodeExchangedKeeps ==
    ASSUME Inv, NEW r \in Requests, NEW l \in Logins, CodeExchanged(r, l)
    PROVE  Inv'
<1>1. Goes(r, "authorizing", l, provider[l] + 1, 0)
    BY DEF CodeExchanged
<1>2. provider[l] + 1 \in 0 .. MaxToken
    BY RequestFields, BoundsAssumption DEF Inv, TypeOK, CodeExchanged
<1>3. PICK q \in RequestType :
      /\ request' = [request EXCEPT ![r] = q]
      /\ q.step = "authorizing" /\ q.login = l /\ q.token = provider[l] + 1 /\ q.revision = 0
    BY <1>1, <1>2, GoesTyping, KnownSteps
<1>4. provider' \in [Logins -> 0 .. MaxToken]
    BY BoundsAssumption DEF Inv, TypeOK, CodeExchanged
<1>5. LocksHeld'
    BY <1>3 DEF Inv, LocksHeld, Locked, CodeExchanged, At
<1>6. TypeOK'
    BY <1>3, <1>4, <1>5, BoundsAssumption DEF Inv, TypeOK, LocksHeld, CodeExchanged
<1>7. Moded'
    BY <1>3 DEF Inv, Moded, CentralSteps, LocalSteps, Locked, CodeExchanged
<1>8. Known'
    BY <1>3 DEF Inv, Known, LoginSteps, CodeExchanged
<1>9. LoginsOnce'
    BY <1>3 DEF Inv, TypeOK, LoginsOnce, LoginSteps, CodeExchanged, At
<1>10. Generations'
    BY <1>3 DEF Inv, TypeOK, Generations, LoginsOnce, Known, LoginSteps, RowType,
       CodeExchanged, At
<1>11. RotationKept'
    BY <1>3 DEF Inv, RotationKept, LoginsOnce, LoginSteps, CodeExchanged, At
<1> QED
    BY <1>6, <1>5, <1>7, <1>8, <1>9, <1>10, <1>11 DEF Inv

LEMMA LoginRefreshedKeeps ==
    ASSUME Inv, NEW r \in Requests, NEW l \in Logins, LoginRefreshed(r, l)
    PROVE  Inv'
<1>1. Goes(r, "authorizingAgain", l, provider[l] + 1, 0)
    BY DEF LoginRefreshed
<1>2. provider[l] + 1 \in 0 .. MaxToken
    BY RequestFields, BoundsAssumption DEF Inv, TypeOK, LoginRefreshed
<1>3. PICK q \in RequestType :
      /\ request' = [request EXCEPT ![r] = q]
      /\ q.step = "authorizingAgain" /\ q.login = l /\ q.token = provider[l] + 1 /\ q.revision = 0
    BY <1>1, <1>2, GoesTyping, KnownSteps
<1>4. provider' \in [Logins -> 0 .. MaxToken]
    BY BoundsAssumption DEF Inv, TypeOK, LoginRefreshed
<1>5. LocksHeld'
    BY <1>3 DEF Inv, LocksHeld, Locked, LoginRefreshed, At
<1>6. TypeOK'
    BY <1>3, <1>4, <1>5, BoundsAssumption DEF Inv, TypeOK, LocksHeld, LoginRefreshed
<1>7. Moded'
    BY <1>3 DEF Inv, Moded, CentralSteps, LocalSteps, Locked, LoginRefreshed
<1>8. Known'
    BY <1>3 DEF Inv, Known, LoginSteps, LoginRefreshed
<1>9. LoginsOnce'
    BY <1>3 DEF Inv, TypeOK, LoginsOnce, LoginSteps, LoginRefreshed, At
<1>10. Generations'
    BY <1>3 DEF Inv, TypeOK, Generations, LoginsOnce, Known, LoginSteps, RowType,
       LoginRefreshed, At
<1>11. RotationKept'
    BY <1>3 DEF Inv, RotationKept, LoginsOnce, LoginSteps, LoginRefreshed, At
<1> QED
    BY <1>6, <1>5, <1>7, <1>8, <1>9, <1>10, <1>11 DEF Inv

LEMMA LoginAuthorizedKeeps ==
    ASSUME Inv, NEW r \in Requests, NEW l \in Logins, LoginAuthorized(r, l)
    PROVE  Inv'
<1>1. Goes(r, "creating", l, request[r].token, upstream.revision)
    BY DEF LoginAuthorized
<1>2. request[r].token \in 0 .. MaxToken /\ upstream.revision \in 0 .. MaxRevision
    BY RequestFields, BoundsAssumption DEF Inv, TypeOK, LoginAuthorized
<1>3. PICK q \in RequestType :
      /\ request' = [request EXCEPT ![r] = q]
      /\ q.step = "creating" /\ q.login = l
      /\ q.token = request[r].token /\ q.revision = upstream.revision
    BY <1>1, <1>2, GoesTyping, KnownSteps
<1>4. LocksHeld'
    BY <1>3 DEF Inv, LocksHeld, Locked, LoginAuthorized, At
<1>5. TypeOK'
    BY <1>3, <1>4, BoundsAssumption DEF Inv, TypeOK, LocksHeld, LoginAuthorized
<1>6. Moded'
    BY <1>3 DEF Inv, Moded, CentralSteps, LocalSteps, Locked, LoginAuthorized
<1>7. Known'
    BY <1>3 DEF Inv, Known, LoginSteps, LoginAuthorized
<1>8. LoginsOnce'
    BY <1>3 DEF Inv, LoginsOnce, LoginSteps, LoginAuthorized, At
<1>9. Generations'
    BY <1>3 DEF Inv, TypeOK, Generations, LoginAuthorized
<1>10. RotationKept'
    BY <1>3 DEF Inv, RotationKept, LoginAuthorized, At
<1> QED
    BY <1>5, <1>4, <1>6, <1>7, <1>8, <1>9, <1>10 DEF Inv

LEMMA SessionCreatedKeeps ==
    ASSUME Inv, NEW r \in Requests, NEW l \in Logins, SessionCreated(r, l)
    PROVE  Inv'
<1>1. PICK q \in RequestType :
      /\ request' = [request EXCEPT ![r] = q]
      /\ q.step = "idle"
    BY EndsTyping DEF SessionCreated
<1>2. session' \in [Logins -> RowType]
    BY RowTyping, RowFields, EmptyTyping, RequestFields DEF Inv, TypeOK, SessionCreated
<1>3. LocksHeld'
    BY <1>1 DEF Inv, LocksHeld, Locked, SessionCreated, At
<1>4. TypeOK'
    BY <1>1, <1>2, <1>3, BoundsAssumption DEF Inv, TypeOK, LocksHeld, SessionCreated
<1>5. Moded'
    BY <1>1 DEF Inv, Moded, CentralSteps, LocalSteps, Locked, SessionCreated
<1>6. Known'
    BY <1>1 DEF Inv, Known, SessionCreated
<1>7. LoginsOnce'
    BY <1>1 DEF Inv, TypeOK, LoginsOnce, LoginSteps, SessionCreated, At
<1>8. Generations'
    BY <1>1 DEF Inv, TypeOK, Generations, LoginsOnce, Known, LoginSteps, RowType,
       SessionCreated, At
<1>9. RotationKept'
    BY <1>1 DEF Inv, RotationKept, LoginsOnce, LoginSteps, SessionCreated, At
<1> QED
    BY <1>4, <1>3, <1>5, <1>6, <1>7, <1>8, <1>9 DEF Inv

LEMMA LoginRefusedKeeps ==
    ASSUME Inv, NEW r \in Requests, NEW l \in Logins, LoginRefused(r, l)
    PROVE  Inv'
<1>1. PICK q \in RequestType :
      /\ request' = [request EXCEPT ![r] = q]
      /\ q.step = "idle"
    BY EndsTyping DEF LoginRefused
<1>2. /\ request[r].step # "rotated"
      /\ lock' = lock /\ request[r].step \notin Locked
      /\ cached' \in [Logins -> BOOLEAN]
      /\ UNCHANGED <<central, login, session, provider, upstream, created, faults>>
    BY DEF Inv, TypeOK, Locked, At, LoginRefused
<1>3. q.step \notin LoginSteps \cup CentralSteps \cup LocalSteps \cup Locked
    BY <1>1 DEF LoginSteps, CentralSteps, LocalSteps, Locked
<1> QED
    BY <1>1, <1>2, <1>3, RequestMoves

-----------------------------------------------------------------------------
(* Every request *)

LEMMA SessionFoundTyping ==
    ASSUME TypeOK, NEW r \in Requests, NEW l \in Logins, NEW stale \in BOOLEAN,
           SessionFound(r, l, stale)
    PROVE  \E q \in RequestType :
               /\ request' = [request EXCEPT ![r] = q] /\ q.login = l
               /\ q.step \notin {"idle", "rotated"} \cup LoginSteps \cup Locked
               /\ q.step \in CentralSteps => central
               /\ q.step \in LocalSteps => ~central
<1> DEFINE step == FirstStep(session[l])
           row == RowKept(session[l], stale)
           token == IF central THEN 0 ELSE session[l].token
<1>1. session[l] \in RowType
    BY DEF TypeOK
<1>2. step \in IF central THEN {"found", "granted"} ELSE LocalSteps \cup {"granted"}
    BY DEF FirstStep, LocalSteps
<1>3. /\ step \in Steps /\ step \notin {"idle", "rotated"} \cup LoginSteps \cup Locked
      /\ step \in CentralSteps => central
      /\ step \in LocalSteps => ~central
    BY <1>2 DEF Steps, CentralSteps, LocalSteps, LoginSteps, Locked
<1>4. row \in RowType
    <2>1. CASE central
        BY <1>1, <2>1, EmptyTyping DEF RowKept, RowType
    <2>2. CASE ~central
        BY <1>1, <2>2, EmptyTyping DEF RowKept
    <2> QED
        BY <2>1, <2>2
<1>5. token \in 0 .. MaxToken
    BY <1>1, BoundsAssumption DEF RowType
<1>6. CASE step = "granted"
    <2>1. Goes(r, step, l, 0, 0)
        BY <1>6 DEF SessionFound, Grants
    <2> HIDE DEF step
    <2> QED
        BY <1>3, <2>1, GoesTyping, BoundsAssumption
<1>7. CASE step # "granted"
    <2> DEFINE q == [Idle EXCEPT !.step = step, !.login = l, !.stale = stale, !.row = row,
                                 !.token = token]
    <2>1. request' = [request EXCEPT ![r] = q]
        BY <1>7 DEF SessionFound
    <2> HIDE DEF step, row, token
    <2>2. q \in RequestType /\ q.step = step /\ q.login = l
        BY <1>3, <1>4, <1>5, EmptyTyping DEF RequestType
    <2> QED
        BY <1>3, <2>1, <2>2
<1> QED
    BY <1>6, <1>7

LEMMA SessionFoundKeeps ==
    ASSUME Inv, NEW r \in Requests, NEW l \in Logins, NEW stale \in BOOLEAN,
           SessionFound(r, l, stale)
    PROVE  Inv'
<1>1. PICK q \in RequestType :
      /\ request' = [request EXCEPT ![r] = q] /\ q.login = l
      /\ q.step \notin {"idle", "rotated"} \cup LoginSteps \cup Locked
      /\ q.step \in CentralSteps => central
      /\ q.step \in LocalSteps => ~central
    BY SessionFoundTyping DEF Inv
<1>2. /\ request[r].step # "rotated"
      /\ lock' = lock /\ request[r].step \notin Locked
      /\ cached' \in [Logins -> BOOLEAN]
      /\ UNCHANGED <<central, login, session, provider, upstream, created, faults>>
    BY DEF Inv, TypeOK, Locked, At, SessionFound
<1>3. session[l].status # "absent"
    BY DEF SessionFound
<1> QED
    BY <1>1, <1>2, <1>3, RequestMoves

LEMMA GivenUpKeeps ==
    ASSUME Inv, NEW r \in Requests, GivenUp(r)
    PROVE  Inv'
<1>1. PICK q \in RequestType :
      /\ request' = [request EXCEPT ![r] = q]
      /\ q.step = "idle"
    BY EndsTyping DEF GivenUp
<1>2. /\ request[r].step # "rotated"
      /\ Unlocks(r)
      /\ cached' \in [Logins -> BOOLEAN]
      /\ UNCHANGED <<central, login, session, provider, upstream, created, faults>>
    BY DEF Inv, TypeOK, GivenUp
<1>3. q.step \notin LoginSteps \cup CentralSteps \cup LocalSteps \cup Locked
    BY <1>1 DEF LoginSteps, CentralSteps, LocalSteps, Locked
<1> QED
    BY <1>1, <1>2, <1>3, RequestMoves

LEMMA ServedKeeps ==
    ASSUME Inv, NEW r \in Requests, Served(r)
    PROVE  Inv'
<1>1. PICK q \in RequestType :
      /\ request' = [request EXCEPT ![r] = q]
      /\ q.step = "idle"
    BY EndsTyping DEF Served
<1>2. /\ request[r].step # "rotated"
      /\ lock' = lock /\ request[r].step \notin Locked
      /\ cached' \in [Logins -> BOOLEAN]
      /\ UNCHANGED <<central, login, session, provider, upstream, created, faults>>
    BY DEF Inv, TypeOK, Locked, At, Served
<1>3. q.step \notin LoginSteps \cup CentralSteps \cup LocalSteps \cup Locked
    BY <1>1 DEF LoginSteps, CentralSteps, LocalSteps, Locked
<1> QED
    BY <1>1, <1>2, <1>3, RequestMoves

-----------------------------------------------------------------------------
(* Central mode *)

LEMMA StateAskedTyping ==
    ASSUME TypeOK, NEW r \in Requests, NEW l \in Logins, StateAsked(r, l)
    PROVE  \E q \in RequestType :
               /\ request' = [request EXCEPT ![r] = q]
               /\ q.step = request[r].step /\ q.login = request[r].login
               /\ q.token = request[r].token /\ q.revision = request[r].revision
<1> DEFINE answer == IF cached[l] /\ ~At(r, "activity") THEN "cached"
                     ELSE IF upstream.alive THEN "active" ELSE "inactive"
           q == [request[r] EXCEPT !.answer = answer]
<1>1. answer \in {"none", "cached", "active", "inactive"}
    OBVIOUS
<1>2. request' = [request EXCEPT ![r] = q] /\ request[r] \in RequestType
    BY DEF StateAsked, TypeOK
<1> HIDE DEF answer
<1>3. /\ q \in RequestType /\ q.step = request[r].step /\ q.login = request[r].login
      /\ q.token = request[r].token /\ q.revision = request[r].revision
    BY <1>1, <1>2 DEF RequestType
<1> QED
    BY <1>2, <1>3

LEMMA StateAskedKeeps ==
    ASSUME Inv, NEW r \in Requests, NEW l \in Logins, StateAsked(r, l)
    PROVE  Inv'
<1>1. PICK q \in RequestType :
      /\ request' = [request EXCEPT ![r] = q]
      /\ q.step = request[r].step /\ q.login = request[r].login
      /\ q.token = request[r].token /\ q.revision = request[r].revision
    BY StateAskedTyping DEF Inv
<1>2. LocksHeld'
    BY <1>1 DEF Inv, LocksHeld, StateAsked
<1>3. UNCHANGED <<central, login, session, lock, provider, upstream, cached, created, faults>>
    BY DEF StateAsked
<1>4. request' \in [Requests -> RequestType]
    BY <1>1 DEF Inv, TypeOK
<1>5. TypeOK'
    BY <1>1, <1>3, <1>4, <1>2 DEF Inv, TypeOK
<1>6. Moded'
    BY <1>1 DEF Inv, Moded, LocalSteps, StateAsked
<1>7. Known'
    BY <1>1 DEF Inv, Known, StateAsked
<1>8. LoginsOnce'
    BY <1>1 DEF Inv, LoginsOnce, StateAsked
<1>9. Generations'
    BY <1>1 DEF Inv, Generations, StateAsked
<1>10. RotationKept'
    BY <1>1 DEF Inv, RotationKept, StateAsked, At
<1> QED
    BY <1>5, <1>2, <1>6, <1>7, <1>8, <1>9, <1>10 DEF Inv

LEMMA SessionConfirmedKeeps ==
    ASSUME Inv, NEW r \in Requests, NEW l \in Logins, SessionConfirmed(r, l)
    PROVE  Inv'
<1>1. \/ Goes(r, "granted", l, 0, 0)
      \/ Goes(r, "rotate", l, 0, 0)
      \/ Goes(r, "check", l, 0, 0)
    BY DEF SessionConfirmed, Grants
<1>2. PICK q \in RequestType :
      /\ request' = [request EXCEPT ![r] = q]
      /\ \/ q.step = "granted" /\ q.login = l
         \/ q.step = "rotate" /\ q.login = l
         \/ q.step = "check" /\ q.login = l
    BY <1>1, GoesTyping, KnownSteps
<1>3. /\ request[r].step # "rotated"
      /\ lock' = lock /\ request[r].step \notin Locked
      /\ cached' \in [Logins -> BOOLEAN]
      /\ UNCHANGED <<central, login, session, provider, upstream, created, faults>>
    BY DEF Inv, TypeOK, Locked, At, SessionConfirmed, StateHeard
<1>4. /\ q.step \notin LoginSteps \cup Locked
      /\ q.step \in CentralSteps => central
      /\ q.step \in LocalSteps => ~central
      /\ q.step # "idle" => q.login \in Logins /\ session[q.login].status # "absent"
    BY <1>2 DEF Inv, Moded, Known, LoginSteps, CentralSteps, LocalSteps, Locked, At,
       SessionConfirmed
<1> QED
    BY <1>2, <1>3, <1>4, RequestMoves

LEMMA SessionEndedKeeps ==
    ASSUME Inv, NEW r \in Requests, NEW l \in Logins, SessionEnded(r, l)
    PROVE  Inv'
<1>1. PICK q \in RequestType :
      /\ request' = [request EXCEPT ![r] = q]
      /\ q.step = "idle"
    BY EndsTyping DEF SessionEnded
<1>2. session' \in [Logins -> RowType]
    BY RowTyping, RowFields DEF Inv, TypeOK, SessionEnded, RevokeSession, Revoked
<1>3. LocksHeld'
    BY <1>1 DEF Inv, LocksHeld, Locked, SessionEnded, RevokeSession, Revoked
<1>4. TypeOK'
    BY <1>1, <1>2, <1>3, BoundsAssumption DEF Inv, TypeOK, SessionEnded, RevokeSession,
       Revoked, StateHeard
<1>5. Moded'
    BY <1>1 DEF Inv, Moded, CentralSteps, LocalSteps, SessionEnded, RevokeSession, Revoked
<1>6. Known'
    BY <1>1 DEF Inv, Known, SessionEnded, RevokeSession, Revoked
<1>7. LoginsOnce'
    BY <1>1 DEF Inv, LoginsOnce, LoginSteps, SessionEnded, RevokeSession, Revoked
<1>8. Generations'
    BY <1>1 DEF Inv, Generations, SessionEnded, RevokeSession, Revoked
<1>9. RotationKept'
    BY <1>1 DEF Inv, RotationKept, SessionEnded, RevokeSession, Revoked, At
<1> QED
    BY <1>4, <1>3, <1>5, <1>6, <1>7, <1>8, <1>9 DEF Inv

LEMMA ActivityBegunKeeps ==
    ASSUME Inv, NEW r \in Requests, NEW l \in Logins, ActivityBegun(r, l)
    PROVE  Inv'
<1>1. Goes(r, "activity", l, 0, 0)
    BY DEF ActivityBegun
<1>2. PICK q \in RequestType :
      /\ request' = [request EXCEPT ![r] = q]
      /\ q.step = "activity" /\ q.login = l
    BY <1>1, GoesTyping, KnownSteps
<1>3. /\ request[r].step # "rotated"
      /\ lock' = lock /\ request[r].step \notin Locked
      /\ cached' \in [Logins -> BOOLEAN]
      /\ UNCHANGED <<central, login, session, provider, upstream, created, faults>>
    BY DEF Inv, TypeOK, Locked, At, ActivityBegun
<1>4. /\ q.step \notin LoginSteps \cup Locked
      /\ q.step \in CentralSteps => central
      /\ q.step \in LocalSteps => ~central
      /\ q.step # "idle" => q.login \in Logins /\ session[q.login].status # "absent"
    BY <1>2 DEF Inv, Moded, LoginSteps, LocalSteps, Locked, ActivityBegun
<1> QED
    BY <1>2, <1>3, <1>4, RequestMoves

LEMMA ActivityAnsweredKeeps ==
    ASSUME Inv, NEW r \in Requests, NEW l \in Logins, ActivityAnswered(r, l)
    PROVE  Inv'
<1>1. PICK q \in RequestType :
      /\ request' = [request EXCEPT ![r] = q]
      /\ q.step = "idle"
    BY EndsTyping DEF ActivityAnswered
<1>2. /\ request[r].step # "rotated"
      /\ lock' = lock /\ request[r].step \notin Locked
      /\ cached' \in [Logins -> BOOLEAN]
      /\ UNCHANGED <<central, login, session, provider, upstream, created, faults>>
    BY DEF Inv, TypeOK, Locked, At, ActivityAnswered
<1>3. q.step \notin LoginSteps \cup CentralSteps \cup LocalSteps \cup Locked
    BY <1>1 DEF LoginSteps, CentralSteps, LocalSteps, Locked
<1> QED
    BY <1>1, <1>2, <1>3, RequestMoves

LEMMA LockTakenLocks ==
    ASSUME Inv, NEW r \in Requests, NEW l \in Logins, LockTaken(r, l), NEW q,
           request' = [request EXCEPT ![r] = q], q.step \in {"rotating", "checking"}, q.login = l
    PROVE  LocksHeld'
<1>1. \A p \in Requests : request[p].step \in Locked =>
          request[p].login \in Logins /\ lock[request[p].login] = p
    BY DEF Inv, Known, LocksHeld, Locked, LoginSteps
<1>2. /\ request'[r] = q /\ \A p \in Requests : p # r => request'[p] = request[p]
      /\ lock \in [Logins -> Requests \cup {NoRequest}]
      /\ lock' = [lock EXCEPT ![l] = r] /\ lock[l] = NoRequest
    BY DEF Inv, TypeOK, LockTaken
<1>3. \A p \in Requests : request'[p].step \in Locked => lock'[request'[p].login] = p
    BY <1>1, <1>2, NoneAssumption
<1>4. session[l].status \in {"active", "expired"} /\ session' = session
    BY RowFields DEF Inv, Known, LockTaken, TypeOK, LoginSteps
<1>5. \A k \in Logins : lock'[k] # NoRequest => session'[k].status \in {"active", "expired"}
    BY <1>2, <1>4 DEF Inv, LocksHeld
<1>6. \A k \in Logins : lock'[k] # NoRequest =>
          request'[lock'[k]].login = k /\ request'[lock'[k]].step \in Locked
    <2> TAKE k \in Logins
    <2>1. CASE k = l
        BY <1>2, <2>1 DEF Locked
    <2>2. CASE k # l
        <3>1. lock'[k] = lock[k]
            BY <1>2, <2>2
        <3>2. lock[k] # NoRequest => lock[k] # r
            BY DEF Inv, LocksHeld, LockTaken
        <3>3. lock[k] # NoRequest => request'[lock[k]] = request[lock[k]]
            BY <1>2, <3>2
        <3> QED
            BY <3>1, <3>3 DEF Inv, LocksHeld
    <2> QED
        BY <2>1, <2>2
<1> QED
    BY <1>2, <1>3, <1>5, <1>6 DEF LocksHeld

LEMMA LockTakenKeeps ==
    ASSUME Inv, NEW r \in Requests, NEW l \in Logins, LockTaken(r, l)
    PROVE  Inv'
<1>1. Goes(r, "rotating", l, 0, 0) \/ Goes(r, "checking", l, 0, 0)
    BY DEF LockTaken
<1>2. PICK q \in RequestType :
      /\ request' = [request EXCEPT ![r] = q]
      /\ q.step \in {"rotating", "checking"} /\ q.login = l
    BY <1>1, GoesTyping, KnownSteps
<1>3. LocksHeld'
    BY <1>2, LockTakenLocks
<1>4. TypeOK'
    BY <1>2, <1>3, BoundsAssumption DEF Inv, TypeOK, LocksHeld, LockTaken
<1>5. Moded'
    BY <1>2 DEF Inv, Moded, CentralSteps, LocalSteps, LockTaken
<1>6. Known'
    BY <1>2 DEF Inv, Known, LoginSteps, LockTaken
<1>7. LoginsOnce'
    BY <1>2 DEF Inv, LoginsOnce, LoginSteps, LockTaken
<1>8. Generations'
    BY <1>2 DEF Inv, Generations, LockTaken
<1>9. RotationKept'
    BY <1>2 DEF Inv, RotationKept, LockTaken, At
<1> QED
    BY <1>4, <1>3, <1>5, <1>6, <1>7, <1>8, <1>9 DEF Inv

LEMMA LockRefusedKeeps ==
    ASSUME Inv, NEW r \in Requests, NEW l \in Logins, LockRefused(r, l)
    PROVE  Inv'
<1>1. PICK q \in RequestType :
      /\ request' = [request EXCEPT ![r] = q]
      /\ q.step = "idle"
    BY EndsTyping DEF LockRefused
<1>2. /\ request[r].step # "rotated"
      /\ lock' = lock /\ request[r].step \notin Locked
      /\ cached' \in [Logins -> BOOLEAN]
      /\ UNCHANGED <<central, login, session, provider, upstream, created, faults>>
    BY DEF Inv, TypeOK, Locked, LockRefused
<1>3. q.step \notin LoginSteps \cup CentralSteps \cup LocalSteps \cup Locked
    BY <1>1 DEF LoginSteps, CentralSteps, LocalSteps, Locked
<1> QED
    BY <1>1, <1>2, <1>3, RequestMoves

LEMMA RejectedKeeps ==
    ASSUME Inv, NEW r \in Requests, NEW l \in Logins, Rejected(r, l)
    PROVE  Inv'
<1>1. PICK q \in RequestType :
      /\ request' = [request EXCEPT ![r] = q]
      /\ q.step = "idle"
    BY EndsTyping DEF Rejected
<1>2. session' \in [Logins -> RowType]
    <2>1. session \in [Logins -> RowType] /\ session[l] \in RowType
        BY DEF Inv, TypeOK
    <2>2. Revoked(l) \in RowType
        BY <2>1, RowTyping DEF Revoked
    <2>3. session' = [session EXCEPT ![l] = Revoked(l)]
        BY DEF Rejected, RevokeSession
    <2> QED
        BY <2>1, <2>2, <2>3
<1>3. \A k \in Logins : session[k].status \in {"active", "expired"} =>
             session'[k].status \in {"active", "expired"} \/ lock[k] = r
    BY RowFields DEF Inv, LocksHeld, Locked, Rejected, RevokeSession, Revoked
<1>4. q.step \notin Locked /\ Unlocks(r)
    BY <1>1 DEF Locked, Rejected
<1>5. LocksHeld'
    BY <1>1, <1>3, <1>4, UnlockKeeps
<1>6. TypeOK'
    <2>1. cached' \in [Logins -> BOOLEAN]
        BY DEF Inv, TypeOK, Rejected, StateHeard
    <2>2. /\ request' \in [Requests -> RequestType]
          /\ lock' \in [Logins -> Requests \cup {NoRequest}]
          /\ \A k \in Logins : lock'[k] # NoRequest => /\ request'[lock'[k]].login = k
                                                     /\ request'[lock'[k]].step \in Locked
        BY <1>1, <1>4, <1>5 DEF Inv, TypeOK, LocksHeld, Unlocks
    <2>3. UNCHANGED <<central, login, provider, upstream, created, faults>>
        BY DEF Rejected
    <2> QED
        BY <1>2, <2>1, <2>2, <2>3 DEF Inv, TypeOK
<1>7. Moded'
    BY <1>1 DEF Inv, Moded, CentralSteps, LocalSteps, Locked, Rejected, RevokeSession, Revoked
<1>8. Known'
    BY <1>1 DEF Inv, Known, Rejected, RevokeSession, Revoked
<1>9. LoginsOnce'
    BY <1>1 DEF Inv, LoginsOnce, LoginSteps, Rejected, RevokeSession, Revoked
<1>10. Generations'
    BY <1>1 DEF Inv, Generations, Rejected, RevokeSession, Revoked
<1>11. RotationKept'
    BY <1>1 DEF Inv, RotationKept, Rejected, RevokeSession, Revoked, At
<1> QED
    BY <1>6, <1>5, <1>7, <1>8, <1>9, <1>10, <1>11 DEF Inv

LEMMA RotationUnneededKeeps ==
    ASSUME Inv, NEW r \in Requests, NEW l \in Logins, RotationUnneeded(r, l)
    PROVE  Inv'
<1>1. Goes(r, "check", l, 0, 0)
    BY DEF RotationUnneeded
<1>2. PICK q \in RequestType :
      /\ request' = [request EXCEPT ![r] = q]
      /\ q.step = "check" /\ q.login = l
    BY <1>1, GoesTyping, KnownSteps
<1>3. /\ request[r].step # "rotated"
      /\ Unlocks(r)
      /\ cached' \in [Logins -> BOOLEAN]
      /\ UNCHANGED <<central, login, session, provider, upstream, created, faults>>
    BY DEF Inv, TypeOK, At, RotationUnneeded, StateHeard
<1>4. /\ q.step \notin LoginSteps \cup Locked
      /\ q.step \in CentralSteps => central
      /\ q.step \in LocalSteps => ~central
      /\ q.step # "idle" => q.login \in Logins /\ session[q.login].status # "absent"
    BY <1>2 DEF Inv, Moded, Known, LoginSteps, CentralSteps, LocalSteps, Locked, At,
       RotationUnneeded
<1> QED
    BY <1>2, <1>3, <1>4, RequestMoves

LEMMA RotationAnsweredTokens ==
    ASSUME Inv, NEW r \in Requests, NEW l \in Logins, RotationAnswered(r, l)
    PROVE  RotationKept'
<1>1. Goes(r, "rotated", l, provider[l] + 1, 0) /\ provider[l] + 1 \in 0 .. MaxToken
    BY BoundsAssumption DEF RotationAnswered, Inv, TypeOK
<1>2. PICK q \in RequestType : /\ request' = [request EXCEPT ![r] = q]
                                /\ q.step = "rotated" /\ q.login = l /\ q.token = provider[l] + 1
    BY <1>1, GoesTyping, KnownSteps
<1>3. /\ request[r].step # "rotated" /\ request'[r] = q
      /\ \A p \in Requests : p # r => request'[p] = request[p]
      /\ provider'[l] = provider[l] + 1
      /\ \A k \in Logins : k # l => provider'[k] = provider[k]
    BY <1>2 DEF RotationAnswered, At, Inv, TypeOK
<1>4. SUFFICES ASSUME central, faults = 0, NEW k \in Logins, session[k].status = "active"
               PROVE  \/ session[k].token = provider'[k]
                      \/ \E p \in Requests : /\ request'[p].step = "rotated"
                                             /\ request'[p].login = k
                                             /\ request'[p].token = provider'[k]
    BY DEF RotationKept, At, RotationAnswered
<1>5. CASE k = l
    BY <1>2, <1>3, <1>5
<1>6. CASE k # l
    BY <1>3, <1>4, <1>6 DEF Inv, RotationKept, At
<1> QED
    BY <1>5, <1>6

LEMMA RotationAnsweredKeeps ==
    ASSUME Inv, NEW r \in Requests, NEW l \in Logins, RotationAnswered(r, l)
    PROVE  Inv'
<1>1. Goes(r, "rotated", l, provider[l] + 1, 0)
    BY DEF RotationAnswered
<1>2. provider[l] + 1 \in 0 .. MaxToken
    BY RequestFields, BoundsAssumption DEF Inv, TypeOK, RotationAnswered
<1>3. PICK q \in RequestType :
      /\ request' = [request EXCEPT ![r] = q]
      /\ q.step = "rotated" /\ q.login = l /\ q.token = provider[l] + 1 /\ q.revision = 0
    BY <1>1, <1>2, GoesTyping, KnownSteps
<1>4. provider' \in [Logins -> 0 .. MaxToken]
    BY BoundsAssumption DEF Inv, TypeOK, RotationAnswered
<1>5. LocksHeld'
    BY <1>3 DEF Inv, LocksHeld, Locked, RotationAnswered, At
<1>6. TypeOK'
    BY <1>3, <1>4, <1>5, BoundsAssumption DEF Inv, TypeOK, LocksHeld, RotationAnswered,
       StateHeard
<1>7. Moded'
    BY <1>3 DEF Inv, Moded, CentralSteps, LocalSteps, Locked, RotationAnswered, At
<1>8. Known'
    BY <1>3 DEF Inv, Known, LoginSteps, RotationAnswered, At
<1>9. LoginsOnce'
    BY <1>3 DEF Inv, LoginsOnce, Known, LoginSteps, RotationAnswered, At
<1>10. Generations'
    BY <1>3 DEF Inv, TypeOK, Generations, LocksHeld, Locked, RotationAnswered, At
<1>11. RotationKept'
    BY RotationAnsweredTokens
<1> QED
    BY <1>6, <1>5, <1>7, <1>8, <1>9, <1>10, <1>11 DEF Inv

LEMMA RotationLostKeeps ==
    ASSUME Inv, NEW r \in Requests, RotationLost(r)
    PROVE  Inv'
<1>1. PICK q \in RequestType :
      /\ request' = [request EXCEPT ![r] = q]
      /\ q.step = "idle"
    BY EndsTyping DEF RotationLost
<1>2. LocksHeld'
    BY <1>1, UnlockKeeps DEF Locked, RotationLost
<1>3. TypeOK'
    BY <1>1, <1>2, BoundsAssumption DEF Inv, TypeOK, LocksHeld, RotationLost
<1>4. Moded'
    BY <1>1 DEF Inv, Moded, CentralSteps, LocalSteps, Locked, RotationLost
<1>5. Known'
    BY <1>1 DEF Inv, Known, RotationLost
<1>6. LoginsOnce'
    BY <1>1 DEF Inv, LoginsOnce, LoginSteps, RotationLost
<1>7. Generations'
    BY <1>1 DEF Inv, Generations, RotationLost
<1>8. RotationKept'
    BY <1>1 DEF Inv, TypeOK, RotationKept, RotationLost
<1> QED
    BY <1>3, <1>2, <1>4, <1>5, <1>6, <1>7, <1>8 DEF Inv

LEMMA RotationCommittedTokens ==
    ASSUME Inv, NEW r \in Requests, NEW l \in Logins, RotationCommitted(r, l)
    PROVE  RotationKept'
<1>1. request[r].step = "rotated" /\ request[r].login = l /\ request' \in [Requests -> RequestType]
      /\ \A p \in Requests : p # r => request'[p] = request[p]
    <2>1. Goes(r, "check", l, 0, 0)
        BY DEF RotationCommitted
    <2>2. PICK q \in RequestType : request' = [request EXCEPT ![r] = q]
        BY <2>1, GoesTyping, KnownSteps
    <2> QED
        BY <2>2 DEF RotationCommitted, At, Inv, TypeOK
<1>2. SUFFICES ASSUME central, faults = 0, NEW k \in Logins, session'[k].status = "active"
               PROVE  \/ session'[k].token = provider[k]
                      \/ \E p \in Requests : /\ request'[p].step = "rotated"
                                             /\ request'[p].login = k
                                             /\ request'[p].token = provider[k]
    BY DEF RotationKept, At, RotationCommitted
<1>3. CASE k = l
    <2>1. session'[l].token = request[r].token
        BY DEF RotationCommitted, Inv, TypeOK
    <2>2. request[r].token = provider[l]
        BY <1>1, <1>2 DEF Inv, Generations
    <2> QED
        BY <1>3, <2>1, <2>2
<1>4. CASE k # l
    <2>1. session'[k] = session[k]
        BY <1>4 DEF RotationCommitted, Inv, TypeOK
    <2> QED
        BY <1>1, <1>2, <1>4, <2>1 DEF Inv, RotationKept, At
<1> QED
    BY <1>3, <1>4

LEMMA RotationCommittedKeeps ==
    ASSUME Inv, NEW r \in Requests, NEW l \in Logins, RotationCommitted(r, l)
    PROVE  Inv'
<1>1. Goes(r, "check", l, 0, 0)
    BY DEF RotationCommitted
<1>2. PICK q \in RequestType :
      /\ request' = [request EXCEPT ![r] = q]
      /\ q.step = "check" /\ q.login = l
    BY <1>1, GoesTyping, KnownSteps
<1>3. request[r].token \in 0 .. MaxToken
    BY RequestFields DEF Inv, TypeOK
<1>4. [session[l] EXCEPT !.token = request[r].token, !.tokenDue = FALSE,
                                   !.checked = "due", !.retry = FALSE] \in RowType
    BY <1>3, RowTyping DEF Inv, TypeOK
<1>5. session' \in [Logins -> RowType]
    BY <1>4 DEF Inv, TypeOK, RotationCommitted
<1>6. \A k \in Logins : session[k].status \in {"active", "expired"} =>
             session'[k].status \in {"active", "expired"} \/ lock[k] = r
    BY RowFields DEF Inv, TypeOK, RotationCommitted
<1>7. q.step \notin Locked /\ Unlocks(r)
    BY <1>2 DEF Locked, RotationCommitted
<1>8. LocksHeld'
    BY <1>2, <1>6, <1>7, UnlockKeeps
<1>9. TypeOK'
    BY <1>2, <1>5, <1>8, BoundsAssumption DEF Inv, TypeOK, LocksHeld, RotationCommitted
<1>10. Moded'
    BY <1>2 DEF Inv, Moded, CentralSteps, LocalSteps, Locked, RotationCommitted, At
<1>11. Known'
    BY <1>2 DEF Inv, TypeOK, Known, LoginSteps, RotationCommitted, At
<1>12. LoginsOnce'
    BY <1>2 DEF Inv, TypeOK, LoginsOnce, LoginSteps, RotationCommitted
<1>13. Generations'
    BY <1>2 DEF Inv, TypeOK, Generations, LoginsOnce, Known, RotationCommitted, At
<1>14. RotationKept'
    BY RotationCommittedTokens
<1> QED
    BY <1>9, <1>8, <1>10, <1>11, <1>12, <1>13, <1>14 DEF Inv

LEMMA CheckUnneededKeeps ==
    ASSUME Inv, NEW r \in Requests, NEW l \in Logins, CheckUnneeded(r, l)
    PROVE  Inv'
<1>1. Ends(r) \/ Goes(r, "granted", l, 0, 0)
    BY DEF CheckUnneeded, Grants
<1>2. PICK q \in RequestType :
      /\ request' = [request EXCEPT ![r] = q]
      /\ \/ q.step = "idle"
         \/ q.step = "granted" /\ q.login = l
    BY <1>1, EndsTyping, GoesTyping, KnownSteps
<1>3. /\ request[r].step # "rotated"
      /\ Unlocks(r)
      /\ cached' \in [Logins -> BOOLEAN]
      /\ UNCHANGED <<central, login, session, provider, upstream, created, faults>>
    BY DEF Inv, TypeOK, At, CheckUnneeded, StateHeard
<1>4. /\ q.step \notin LoginSteps \cup Locked
      /\ q.step \in CentralSteps => central
      /\ q.step \in LocalSteps => ~central
      /\ q.step # "idle" => q.login \in Logins /\ session[q.login].status # "absent"
    BY <1>2 DEF Inv, Moded, Known, LoginSteps, CentralSteps, LocalSteps, Locked, At, CheckUnneeded
<1> QED
    BY <1>2, <1>3, <1>4, RequestMoves

LEMMA CheckAnsweredKeeps ==
    ASSUME Inv, NEW r \in Requests, NEW l \in Logins, CheckAnswered(r, l)
    PROVE  Inv'
<1>1. Goes(r, "checked", l, 0, upstream.revision)
    BY DEF CheckAnswered
<1>2. upstream.revision \in 0 .. MaxRevision
    BY RequestFields, BoundsAssumption DEF Inv, TypeOK, CheckAnswered
<1>3. PICK q \in RequestType :
      /\ request' = [request EXCEPT ![r] = q]
      /\ q.step = "checked" /\ q.login = l /\ q.token = 0 /\ q.revision = upstream.revision
    BY <1>1, <1>2, GoesTyping, KnownSteps
<1>4. LocksHeld'
    BY <1>3 DEF Inv, LocksHeld, Locked, CheckAnswered, At
<1>5. TypeOK'
    BY <1>3, <1>4, BoundsAssumption DEF Inv, TypeOK, LocksHeld, CheckAnswered, StateHeard
<1>6. Moded'
    BY <1>3 DEF Inv, Moded, CentralSteps, LocalSteps, Locked, CheckAnswered, At
<1>7. Known'
    BY <1>3 DEF Inv, Known, LoginSteps, CheckAnswered, At
<1>8. LoginsOnce'
    BY <1>3 DEF Inv, LoginsOnce, LoginSteps, CheckAnswered
<1>9. Generations'
    BY <1>3 DEF Inv, TypeOK, Generations, CheckAnswered
<1>10. RotationKept'
    BY <1>3 DEF Inv, RotationKept, CheckAnswered, At
<1> QED
    BY <1>5, <1>4, <1>6, <1>7, <1>8, <1>9, <1>10 DEF Inv

LEMMA CheckCommittedKeeps ==
    ASSUME Inv, NEW r \in Requests, NEW l \in Logins, CheckCommitted(r, l)
    PROVE  Inv'
<1>1. Goes(r, "granted", l, 0, 0)
    BY DEF CheckCommitted, Grants
<1>2. PICK q \in RequestType :
      /\ request' = [request EXCEPT ![r] = q]
      /\ q.step = "granted" /\ q.login = l
    BY <1>1, GoesTyping, KnownSteps
<1>3. request[r].revision \in 0 .. MaxRevision
    BY RequestFields DEF Inv, TypeOK
<1>4. [session[l] EXCEPT !.revision = request[r].revision, !.checked = "fresh",
                                   !.retry = FALSE] \in RowType
    BY <1>3, RowTyping DEF Inv, TypeOK
<1>5. session' \in [Logins -> RowType]
    BY <1>4 DEF Inv, TypeOK, CheckCommitted
<1>6. \A k \in Logins : session[k].status \in {"active", "expired"} =>
             session'[k].status \in {"active", "expired"} \/ lock[k] = r
    BY RowFields DEF Inv, TypeOK, CheckCommitted, Grants
<1>7. q.step \notin Locked /\ Unlocks(r)
    BY <1>2 DEF Locked, CheckCommitted
<1>8. LocksHeld'
    BY <1>2, <1>6, <1>7, UnlockKeeps
<1>9. TypeOK'
    BY <1>2, <1>5, <1>8, BoundsAssumption DEF Inv, TypeOK, LocksHeld, CheckCommitted, Grants
<1>10. Moded'
    BY <1>2 DEF Inv, Moded, CentralSteps, LocalSteps, Locked, CheckCommitted, Grants
<1>11. Known'
    BY <1>2 DEF Inv, TypeOK, Known, LoginSteps, CheckCommitted, At, Grants
<1>12. LoginsOnce'
    BY <1>2 DEF Inv, TypeOK, LoginsOnce, LoginSteps, CheckCommitted, Grants
<1>13. Generations'
    BY <1>2 DEF Inv, TypeOK, Generations, LoginsOnce, LocksHeld, Known, Locked, LoginSteps,
       CheckCommitted, At, Grants
<1>14. RotationKept'
    BY <1>2 DEF Inv, TypeOK, RotationKept, Known, CheckCommitted, Grants, At
<1> QED
    BY <1>9, <1>8, <1>10, <1>11, <1>12, <1>13, <1>14 DEF Inv

-----------------------------------------------------------------------------
(* Local mode *)

LEMMA SeenRecordedKeeps ==
    ASSUME Inv, NEW r \in Requests, NEW l \in Logins, SeenRecorded(r, l)
    PROVE  Inv'
<1>1. Ends(r) \/ Goes(r, "granted", l, 0, 0)
    BY DEF SeenRecorded, Grants
<1>2. PICK q \in RequestType :
      /\ request' = [request EXCEPT ![r] = q]
      /\ \/ q.step = "idle"
         \/ q.step = "granted" /\ q.login = l
    BY <1>1, EndsTyping, GoesTyping, KnownSteps
<1>3. /\ ~central /\ session[l].status # "absent"
      /\ UNCHANGED <<central, login, lock, provider, upstream, cached, created, faults>>
    BY DEF Inv, Moded, Known, LoginSteps, LocalSteps, At, SeenRecorded
<1>4. request[r].row \in RowType
    BY RequestFields DEF Inv, TypeOK
<1>5. session' = [session EXCEPT ![l] = RowUpdated(l,
             request[r].row)]
    BY DEF SeenRecorded, UpdateSession
<1>6. RowUpdated(l, request[r].row) \in RowType
    BY <1>4, RowTyping, RowFields, EmptyTyping DEF RowUpdated, Inv, TypeOK
<1>7. RowUpdated(l,
             request[r].row).status = session[l].status
    BY <1>4 DEF RowUpdated, AbsentRow
<1>8. /\ session' \in [Logins -> RowType]
      /\ \A k \in Logins : IF session[k].status = "absent" THEN session'[k] = session[k]
                                                       ELSE session'[k].status # "absent"
    BY <1>3, <1>5, <1>6, <1>7 DEF Inv, TypeOK
<1>9. q.step \in {"idle", "granted"} /\ (q.step # "idle" => q.login = l)
    BY <1>2
<1> QED
    BY <1>2, <1>8, <1>3, <1>9, LocalWrites

LEMMA TokensRefreshedTyping ==
    ASSUME TypeOK, NEW r \in Requests, NEW l \in Logins, TokensRefreshed(r, l)
    PROVE  \E q \in RequestType : /\ request' = [request EXCEPT ![r] = q]
                                  /\ q.step \in {"resolving", "resolvingAgain"} /\ q.login = l
<1> DEFINE step == IF At(r, "rejected") THEN "resolvingAgain" ELSE "resolving"
           q == [request[r] EXCEPT !.step = step, !.token = provider[l] + 1]
<1>1. step \in Steps /\ step \in {"resolving", "resolvingAgain"}
    BY DEF Steps, LocalSteps
<1>2. provider[l] + 1 \in 0 .. MaxToken /\ request[r].login = l /\ request[r] \in RequestType
    BY BoundsAssumption DEF TypeOK, TokensRefreshed
<1>3. request' = [request EXCEPT ![r] = q]
    BY DEF TokensRefreshed
<1> HIDE DEF step
<1>4. q \in RequestType /\ q.step = step /\ q.login = l
    BY <1>1, <1>2 DEF RequestType
<1> QED
    BY <1>1, <1>3, <1>4

LEMMA TokensRefreshedKeeps ==
    ASSUME Inv, NEW r \in Requests, NEW l \in Logins, TokensRefreshed(r, l)
    PROVE  Inv'
<1>1. PICK q \in RequestType :
      /\ request' = [request EXCEPT ![r] = q]
      /\ q.step \in {"resolving", "resolvingAgain"} /\ q.login = l
    BY TokensRefreshedTyping DEF Inv
<1>2. provider' \in [Logins -> 0 .. MaxToken]
    BY BoundsAssumption DEF Inv, TypeOK, TokensRefreshed
<1>3. LocksHeld'
    BY <1>1 DEF Inv, TypeOK, LocksHeld, Locked, TokensRefreshed
<1>4. UNCHANGED <<central, login, session, lock, upstream, cached, created, faults>>
    BY DEF TokensRefreshed
<1>5. request' \in [Requests -> RequestType]
    BY <1>1 DEF Inv, TypeOK
<1>6. TypeOK'
    BY <1>1, <1>2, <1>4, <1>5, <1>3 DEF Inv, TypeOK, LocksHeld
<1>7. Moded'
    BY <1>1 DEF Inv, TypeOK, Moded, CentralSteps, LocalSteps, Locked, TokensRefreshed
<1>8. Known'
    BY <1>1 DEF Inv, TypeOK, Known, LoginSteps, TokensRefreshed
<1>9. LoginsOnce'
    BY <1>1 DEF Inv, TypeOK, LoginsOnce, Known, LoginSteps, TokensRefreshed
<1>10. Generations'
    BY <1>1 DEF Inv, Generations, Moded, LocalSteps, TokensRefreshed
<1>11. RotationKept'
    BY DEF Inv, Moded, LocalSteps, RotationKept, TokensRefreshed
<1> QED
    BY <1>6, <1>3, <1>7, <1>8, <1>9, <1>10, <1>11 DEF Inv

LEMMA TokensRefusedKeeps ==
    ASSUME Inv, NEW r \in Requests, NEW l \in Logins, TokensRefused(r, l)
    PROVE  Inv'
<1>1. Goes(r, "unauthenticated", l, 0, 0)
    BY DEF TokensRefused
<1>2. PICK q \in RequestType :
      /\ request' = [request EXCEPT ![r] = q]
      /\ q.step = "unauthenticated" /\ q.login = l
    BY <1>1, GoesTyping, KnownSteps
<1>3. /\ request[r].step # "rotated"
      /\ lock' = lock /\ request[r].step \notin Locked
      /\ cached' \in [Logins -> BOOLEAN]
      /\ UNCHANGED <<central, login, session, provider, upstream, created, faults>>
    BY DEF Inv, TypeOK, Locked, TokensRefused
<1>4. /\ q.step \notin LoginSteps \cup Locked
      /\ q.step \in CentralSteps => central
      /\ q.step \in LocalSteps => ~central
      /\ q.step # "idle" => q.login \in Logins /\ session[q.login].status # "absent"
    BY <1>2 DEF Inv, Moded, Known, LoginSteps, CentralSteps, LocalSteps, Locked, TokensRefused
<1> QED
    BY <1>2, <1>3, <1>4, RequestMoves

LEMMA AccessRejectedTyping ==
    ASSUME TypeOK, NEW r \in Requests, NEW l \in Logins, AccessRejected(r, l)
    PROVE  \E q \in RequestType : /\ request' = [request EXCEPT ![r] = q]
                                  /\ q.step \in {"rejected", "unauthenticated"} /\ q.login = l
<1>1. CASE At(r, "resolving")
    <2> DEFINE q == [request[r] EXCEPT !.step = "rejected"]
    <2>1. request[r].login = l /\ request[r] \in RequestType /\ "rejected" \in Steps
        BY DEF TypeOK, AccessRejected, Steps, LocalSteps
    <2>2. q \in RequestType /\ q.step = "rejected" /\ q.login = l
        BY <2>1 DEF RequestType
    <2>3. request' = [request EXCEPT ![r] = q]
        BY <1>1 DEF AccessRejected
    <2> QED
        BY <2>2, <2>3
<1>2. CASE ~At(r, "resolving")
    <2>1. Goes(r, "unauthenticated", l, 0, 0)
        BY <1>2 DEF AccessRejected
    <2>2. "unauthenticated" \in Steps /\ 0 \in 0 .. MaxToken /\ 0 \in 0 .. MaxRevision
        BY BoundsAssumption DEF Steps, LocalSteps
    <2> QED
        BY <2>1, <2>2, GoesTyping
<1> QED
    BY <1>1, <1>2

LEMMA AccessRejectedKeeps ==
    ASSUME Inv, NEW r \in Requests, NEW l \in Logins, AccessRejected(r, l)
    PROVE  Inv'
<1>1. PICK q \in RequestType :
      /\ request' = [request EXCEPT ![r] = q]
      /\ q.step \in {"rejected", "unauthenticated"} /\ q.login = l
    BY AccessRejectedTyping DEF Inv
<1>2. /\ request[r].step # "rotated"
      /\ lock' = lock /\ request[r].step \notin Locked
      /\ cached' \in [Logins -> BOOLEAN]
      /\ UNCHANGED <<central, login, session, provider, upstream, created, faults>>
    BY DEF Inv, TypeOK, Locked, AccessRejected
<1>3. /\ q.step \notin LoginSteps \cup Locked
      /\ q.step \in CentralSteps => central
      /\ q.step \in LocalSteps => ~central
      /\ q.step # "idle" => q.login \in Logins /\ session[q.login].status # "absent"
    BY <1>1 DEF Inv, Moded, Known, LoginSteps, CentralSteps, LocalSteps, Locked,
       AccessRejected
<1> QED
    BY <1>1, <1>2, <1>3, RequestMoves

LEMMA RightsResolvedKeeps ==
    ASSUME Inv, NEW r \in Requests, NEW l \in Logins, RightsResolved(r, l)
    PROVE  Inv'
<1>1. \/ Goes(r, "denied", l, 0, 0)
      \/ Goes(r, "refreshed", l, request[r].token, upstream.revision)
    BY DEF RightsResolved
<1>2. request[r].token \in 0 .. MaxToken /\ upstream.revision \in 0 .. MaxRevision
    BY RequestFields, BoundsAssumption DEF Inv, TypeOK, RightsResolved
<1>3. PICK q \in RequestType :
      /\ request' = [request EXCEPT ![r] = q]
      /\ \/ q.step = "denied" /\ q.login = l
         \/ /\ q.step = "refreshed" /\ q.login = l
            /\ q.token = request[r].token /\ q.revision = upstream.revision
    BY <1>1, <1>2, GoesTyping, KnownSteps
<1>4. /\ request[r].step # "rotated"
      /\ lock' = lock /\ request[r].step \notin Locked
      /\ cached' \in [Logins -> BOOLEAN]
      /\ UNCHANGED <<central, login, session, provider, upstream, created, faults>>
    BY DEF Inv, TypeOK, Locked, RightsResolved
<1>5. /\ q.step \notin LoginSteps \cup Locked
      /\ q.step \in CentralSteps => central
      /\ q.step \in LocalSteps => ~central
      /\ q.step # "idle" => q.login \in Logins /\ session[q.login].status # "absent"
    BY <1>3 DEF Inv, Moded, Known, LoginSteps, CentralSteps, LocalSteps, Locked,
       RightsResolved
<1> QED
    BY <1>3, <1>4, <1>5, RequestMoves

LEMMA RefreshStoredKeeps ==
    ASSUME Inv, NEW r \in Requests, NEW l \in Logins, RefreshStored(r, l)
    PROVE  Inv'
<1>1. Ends(r) \/ Goes(r, "granted", l, 0, 0)
    BY DEF RefreshStored, Grants
<1>2. PICK q \in RequestType :
      /\ request' = [request EXCEPT ![r] = q]
      /\ \/ q.step = "idle"
         \/ q.step = "granted" /\ q.login = l
    BY <1>1, EndsTyping, GoesTyping, KnownSteps
<1>3. /\ ~central /\ session[l].status # "absent"
      /\ UNCHANGED <<central, login, lock, provider, upstream, cached, created, faults>>
    BY DEF Inv, Moded, Known, LoginSteps, LocalSteps, At, RefreshStored
<1>4. request[r].token \in 0 .. MaxToken /\ request[r].revision \in 0 .. MaxRevision
    BY RequestFields DEF Inv, TypeOK
<1>5. session' = [session EXCEPT ![l] = RowUpdated(l,
             [AbsentRow EXCEPT !.status = "active", !.token = request[r].token,
                                         !.revision = request[r].revision])]
    BY DEF RefreshStored, UpdateSession
<1>6. RowUpdated(l,
             [AbsentRow EXCEPT !.status = "active", !.token = request[r].token,
                                         !.revision = request[r].revision]) \in RowType
    <2> DEFINE row == [AbsentRow EXCEPT !.status = "active", !.token = request[r].token,
                                        !.revision = request[r].revision]
    <2>1. row \in RowType
        BY <1>4, EmptyTyping, RowTyping
    <2>2. session[l] \in RowType
        BY DEF Inv, TypeOK
    <2> HIDE DEF row
    <2>3. [row EXCEPT !.status = session[l].status, !.idle = session[l].idle] \in RowType
        BY <2>1, <2>2, RowTyping, RowFields
    <2>4. RowUpdated(l, row) \in RowType
        BY <2>2, <2>3 DEF RowUpdated
    <2> QED
        BY <2>4 DEF row
<1>7. RowUpdated(l,
             [AbsentRow EXCEPT !.status = "active", !.token = request[r].token,
                                         !.revision = request[r].revision]).status
          = session[l].status
    BY <1>4 DEF RowUpdated, AbsentRow
<1>8. /\ session' \in [Logins -> RowType]
      /\ \A k \in Logins : IF session[k].status = "absent" THEN session'[k] = session[k]
                                                       ELSE session'[k].status # "absent"
    BY <1>3, <1>5, <1>6, <1>7 DEF Inv, TypeOK
<1>9. q.step \in {"idle", "granted"} /\ (q.step # "idle" => q.login = l)
    BY <1>2
<1> QED
    BY <1>2, <1>8, <1>3, <1>9, LocalWrites

LEMMA StaleServedKeeps ==
    ASSUME Inv, NEW r \in Requests, NEW l \in Logins, StaleServed(r, l)
    PROVE  Inv'
<1>1. Goes(r, "granted", l, 0, 0)
    BY DEF StaleServed, Grants
<1>2. PICK q \in RequestType :
      /\ request' = [request EXCEPT ![r] = q]
      /\ q.step = "granted" /\ q.login = l
    BY <1>1, GoesTyping, KnownSteps
<1>3. /\ ~central /\ session[l].status # "absent"
      /\ UNCHANGED <<central, login, lock, provider, upstream, cached, created, faults>>
    BY DEF Inv, Moded, Known, LoginSteps, LocalSteps, StaleServed
<1>4. request[r].row \in RowType
    BY RequestFields DEF Inv, TypeOK
<1>5. session' = [session EXCEPT ![l] = RowUpdated(l,
             [request[r].row EXCEPT !.retry = TRUE])]
    BY DEF StaleServed, UpdateSession
<1>6. RowUpdated(l, [request[r].row EXCEPT !.retry = TRUE]) \in RowType
    BY <1>4, RowTyping, RowFields, EmptyTyping DEF RowUpdated, Inv, TypeOK
<1>7. RowUpdated(l,
             [request[r].row EXCEPT !.retry = TRUE]).status = session[l].status
    BY <1>4 DEF RowUpdated, AbsentRow
<1>8. /\ session' \in [Logins -> RowType]
      /\ \A k \in Logins : IF session[k].status = "absent" THEN session'[k] = session[k]
                                                       ELSE session'[k].status # "absent"
    BY <1>3, <1>5, <1>6, <1>7 DEF Inv, TypeOK
<1>9. q.step \in {"idle", "granted"} /\ (q.step # "idle" => q.login = l)
    BY <1>2
<1> QED
    BY <1>2, <1>8, <1>3, <1>9, LocalWrites

LEMMA RefreshRefusedKeeps ==
    ASSUME Inv, NEW r \in Requests, NEW l \in Logins, RefreshRefused(r, l)
    PROVE  Inv'
<1>1. PICK q \in RequestType :
      /\ request' = [request EXCEPT ![r] = q]
      /\ q.step = "idle"
    BY EndsTyping DEF RefreshRefused
<1>2. /\ ~central /\ session[l].status # "absent"
      /\ UNCHANGED <<central, login, lock, provider, upstream, cached, created, faults>>
    BY DEF Inv, Moded, Known, LoginSteps, LocalSteps, RefreshRefused
<1>3. /\ session' \in [Logins -> RowType]
      /\ \A k \in Logins : IF session[k].status = "absent" THEN session'[k] = session[k]
                                                       ELSE session'[k].status # "absent"
    BY RevokedTyping DEF Inv, TypeOK, RefreshRefused
<1>4. q.step \in {"idle", "granted"} /\ (q.step # "idle" => q.login = l)
    BY <1>1
<1> QED
    BY <1>1, <1>3, <1>2, <1>4, LocalWrites

LEMMA TouchBegunKeeps ==
    ASSUME Inv, NEW r \in Requests, NEW l \in Logins, TouchBegun(r, l)
    PROVE  Inv'
<1>1. Goes(r, "touching", l, 0, 0)
    BY DEF TouchBegun
<1>2. PICK q \in RequestType :
      /\ request' = [request EXCEPT ![r] = q]
      /\ q.step = "touching" /\ q.login = l
    BY <1>1, GoesTyping, KnownSteps
<1>3. /\ request[r].step # "rotated"
      /\ lock' = lock /\ request[r].step \notin Locked
      /\ cached' \in [Logins -> BOOLEAN]
      /\ UNCHANGED <<central, login, session, provider, upstream, created, faults>>
    BY DEF Inv, TypeOK, Locked, At, TouchBegun
<1>4. /\ q.step \notin LoginSteps \cup Locked
      /\ q.step \in CentralSteps => central
      /\ q.step \in LocalSteps => ~central
      /\ q.step # "idle" => q.login \in Logins /\ session[q.login].status # "absent"
    BY <1>2 DEF Inv, Moded, LoginSteps, CentralSteps, LocalSteps, Locked, TouchBegun
<1> QED
    BY <1>2, <1>3, <1>4, RequestMoves

LEMMA TouchedKeeps ==
    ASSUME Inv, NEW r \in Requests, NEW l \in Logins, Touched(r, l)
    PROVE  Inv'
<1>1. PICK q \in RequestType :
      /\ request' = [request EXCEPT ![r] = q]
      /\ q.step = "idle"
    BY EndsTyping DEF Touched
<1>2. /\ ~central /\ session[l].status # "absent"
      /\ UNCHANGED <<central, login, lock, provider, upstream, cached, created, faults>>
    BY DEF Inv, Moded, Known, LoginSteps, LocalSteps, At, Touched
<1>3. PICK idle \in BOOLEAN : session' = [session EXCEPT ![l] = [session[l] EXCEPT !.idle = idle]]
    BY RowFields DEF Inv, Touched
<1>4. session[l] \in RowType /\ [session[l] EXCEPT !.idle = idle] \in RowType
    BY RowTyping DEF Inv, TypeOK
<1>5. [session[l] EXCEPT !.idle = idle].status = session[l].status
    BY <1>4
<1>6. /\ session' \in [Logins -> RowType]
      /\ \A k \in Logins : IF session[k].status = "absent" THEN session'[k] = session[k]
                                                       ELSE session'[k].status # "absent"
    BY <1>2, <1>3, <1>4, <1>5 DEF Inv, TypeOK
<1>7. q.step \in {"idle", "granted"} /\ (q.step # "idle" => q.login = l)
    BY <1>1
<1> QED
    BY <1>1, <1>6, <1>2, <1>7, LocalWrites

-----------------------------------------------------------------------------
(* Logout, rights and time *)

LEMMA LoggedOutKeeps ==
    ASSUME Inv, NEW l \in Logins, LoggedOut(l)
    PROVE  Inv'
<1>1. request' \in [Requests -> RequestType]
    BY DEF Inv, TypeOK, LoggedOut
<1>2. request' = request
    BY DEF LoggedOut
<1>3. session' \in [Logins -> RowType]
    BY RowTyping, RowFields DEF Inv, TypeOK, LoggedOut, RevokeSession, Revoked
<1>4. \A k \in Logins :
          /\ session'[k].token = session[k].token /\ session'[k].revision = session[k].revision
          /\ session[k].status = "absent" => session'[k] = session[k]
          /\ session[k].status # "absent" => session'[k].status # "absent"
          /\ session'[k].status = "active" => session[k].status = "active"
          /\ lock[k] # NoRequest => session'[k].status \in {"active", "expired"}
    BY DEF Inv, LocksHeld, LoggedOut, RevokeSession, Revoked
<1>5. UNCHANGED <<central, login, lock, provider, upstream, cached, created, faults>>
    BY DEF LoggedOut
<1> QED
    BY <1>1, <1>2, <1>3, <1>4, <1>5, RowsAge

LEMMA UpstreamEndsKeeps ==
    ASSUME Inv, UpstreamEnds
    PROVE  Inv'
<1>1. TypeOK'
    BY BoundsAssumption DEF Inv, TypeOK, UpstreamEnds
<1>2. Generations'
    BY DEF Inv, Generations, UpstreamEnds
<1> QED
    BY <1>1, <1>2 DEF Inv, Moded, Known, LoginsOnce, LocksHeld, RotationKept, UpstreamEnds, At

LEMMA LogoutConsumedKeeps ==
    ASSUME Inv, LogoutConsumed
    PROVE  Inv'
<1>1. session' \in [Logins -> RowType]
    BY RowTyping, RowFields DEF Inv, TypeOK, LogoutConsumed, Revoked
<1>2. LocksHeld'
    BY DEF Inv, LocksHeld, LogoutConsumed, Revoked
<1>3. TypeOK'
    BY <1>1, <1>2, BoundsAssumption DEF Inv, TypeOK, LogoutConsumed, Revoked
<1>4. Known'
    BY DEF Inv, Known, LogoutConsumed, Revoked
<1>5. LoginsOnce'
    BY DEF Inv, LoginsOnce, LogoutConsumed, Revoked
<1>6. Generations'
    BY DEF Inv, Generations, LoginsOnce, Known, LogoutConsumed, Revoked
<1>7. RotationKept'
    BY DEF Inv, RotationKept, LogoutConsumed, Revoked
<1> QED
    BY <1>3, <1>2, <1>4, <1>5, <1>6, <1>7 DEF Inv, Moded, LogoutConsumed

LEMMA RightsChangedKeeps ==
    ASSUME Inv, RightsChanged
    PROVE  Inv'
<1>1. TypeOK'
    BY BoundsAssumption DEF Inv, TypeOK, RightsChanged
<1>2. Generations'
    BY DEF Inv, TypeOK, Generations, RowType, RequestType, RightsChanged
<1> QED
    BY <1>1, <1>2 DEF Inv, Moded, Known, LoginsOnce, LocksHeld, RotationKept, RightsChanged, At

LEMMA RightsWithdrawnKeeps ==
    ASSUME Inv, RightsWithdrawn
    PROVE  Inv'
<1>1. TypeOK'
    BY BoundsAssumption DEF Inv, TypeOK, RightsWithdrawn
<1>2. Generations'
    BY DEF Inv, Generations, RightsWithdrawn
<1> QED
    BY <1>1, <1>2 DEF Inv, Moded, Known, LoginsOnce, LocksHeld, RotationKept, RightsWithdrawn, At

LEMMA LoginExpiresKeeps ==
    ASSUME Inv, NEW l \in Logins, LoginExpires(l)
    PROVE  Inv'
<1>1. login' \in [Logins -> [status : {"none", "open", "consumed", "expired"}, ticket : BOOLEAN]]
    BY DEF Inv, TypeOK, LoginExpires
<1>2. TypeOK'
    BY <1>1, BoundsAssumption DEF Inv, TypeOK, LoginExpires
<1>3. LoginsOnce'
    BY DEF Inv, LoginsOnce, LoginExpires
<1> QED
    BY <1>2, <1>3 DEF Inv, Moded, Known, Generations, LocksHeld, RotationKept, LoginExpires, At

LEMMA SessionExpiresKeeps ==
    ASSUME Inv, NEW l \in Logins, SessionExpires(l)
    PROVE  Inv'
<1>1. request' \in [Requests -> RequestType]
    BY DEF Inv, TypeOK, SessionExpires
<1>2. request' = request
    BY DEF SessionExpires
<1>3. session' \in [Logins -> RowType]
    BY RowTyping, RowFields DEF Inv, TypeOK, SessionExpires
<1>4. \A k \in Logins :
          /\ session'[k].token = session[k].token /\ session'[k].revision = session[k].revision
          /\ session[k].status = "absent" => session'[k] = session[k]
          /\ session[k].status # "absent" => session'[k].status # "absent"
          /\ session'[k].status = "active" => session[k].status = "active"
          /\ lock[k] # NoRequest => session'[k].status \in {"active", "expired"}
    BY DEF Inv, LocksHeld, SessionExpires
<1>5. UNCHANGED <<central, login, lock, provider, upstream, cached, created, faults>>
    BY DEF SessionExpires
<1> QED
    BY <1>1, <1>2, <1>3, <1>4, <1>5, RowsAge

LEMMA TokenAgesTyping ==
    ASSUME TypeOK, NEW l \in Logins, TokenAges(l)
    PROVE  request' \in [Requests -> RequestType]
<1>1. \A q \in RequestType : [q EXCEPT !.row.tokenDue = TRUE] \in RequestType
    <2> TAKE q \in RequestType
    <2>1. [q.row EXCEPT !.tokenDue = TRUE] \in RowType
        BY RowTyping, RequestFields
    <2> QED
        BY <2>1 DEF RequestType
<1> QED
    BY <1>1 DEF TokenAges, TypeOK

LEMMA TokenAgesKeeps ==
    ASSUME Inv, NEW l \in Logins, TokenAges(l)
    PROVE  Inv'
<1>1. request' \in [Requests -> RequestType]
    BY TokenAgesTyping DEF Inv
<1>2. \A r \in Requests :
          /\ request'[r].step = request[r].step /\ request'[r].login = request[r].login
          /\ request'[r].token = request[r].token /\ request'[r].revision = request[r].revision
    BY DEF Inv, TokenAges
<1>3. session' \in [Logins -> RowType]
    BY RowTyping, RowFields DEF Inv, TypeOK, TokenAges
<1>4. \A k \in Logins :
          /\ session'[k].token = session[k].token /\ session'[k].revision = session[k].revision
          /\ session[k].status = "absent" => session'[k] = session[k]
          /\ session[k].status # "absent" => session'[k].status # "absent"
          /\ session'[k].status = "active" => session[k].status = "active"
          /\ lock[k] # NoRequest => session'[k].status \in {"active", "expired"}
    BY DEF Inv, LocksHeld, TokenAges
<1>5. UNCHANGED <<central, login, lock, provider, upstream, cached, created, faults>>
    BY DEF TokenAges
<1> QED
    BY <1>1, <1>2, <1>3, <1>4, <1>5, RowsAge

LEMMA AuthorizationAgesTyping ==
    ASSUME TypeOK, NEW l \in Logins, AuthorizationAges(l)
    PROVE  request' \in [Requests -> RequestType]
<1>1. \A q \in RequestType : [q EXCEPT !.row.checked = Later(@)] \in RequestType
    <2> TAKE q \in RequestType
    <2> DEFINE checked == Later(q.row.checked)
    <2>1. checked \in {"fresh", "due", "stale"}
        BY DEF Later
    <2> HIDE DEF checked
    <2>2. [q.row EXCEPT !.checked = checked] \in RowType
        BY <2>1, RowTyping, RequestFields
    <2>3. [q EXCEPT !.row = [q.row EXCEPT !.checked = checked]] \in RequestType
        BY <2>2 DEF RequestType
    <2> QED
        BY <2>3 DEF checked
<1> QED
    BY <1>1 DEF AuthorizationAges, TypeOK

LEMMA AuthorizationAgesKeeps ==
    ASSUME Inv, NEW l \in Logins, AuthorizationAges(l)
    PROVE  Inv'
<1>1. request' \in [Requests -> RequestType]
    BY AuthorizationAgesTyping DEF Inv
<1>2. \A r \in Requests :
          /\ request'[r].step = request[r].step /\ request'[r].login = request[r].login
          /\ request'[r].token = request[r].token /\ request'[r].revision = request[r].revision
    BY DEF Inv, AuthorizationAges
<1>3. session' \in [Logins -> RowType]
    BY RowTyping, RowFields DEF Inv, TypeOK, AuthorizationAges, Later
<1>4. \A k \in Logins :
          /\ session'[k].token = session[k].token /\ session'[k].revision = session[k].revision
          /\ session[k].status = "absent" => session'[k] = session[k]
          /\ session[k].status # "absent" => session'[k].status # "absent"
          /\ session'[k].status = "active" => session[k].status = "active"
          /\ lock[k] # NoRequest => session'[k].status \in {"active", "expired"}
    BY DEF Inv, LocksHeld, AuthorizationAges, Later
<1>5. UNCHANGED <<central, login, lock, provider, upstream, cached, created, faults>>
    BY DEF AuthorizationAges
<1> QED
    BY <1>1, <1>2, <1>3, <1>4, <1>5, RowsAge

LEMMA IdleAgesKeeps ==
    ASSUME Inv, NEW l \in Logins, IdleAges(l)
    PROVE  Inv'
<1>1. request' \in [Requests -> RequestType]
    BY DEF Inv, TypeOK, IdleAges
<1>2. request' = request
    BY DEF IdleAges
<1>3. session' \in [Logins -> RowType]
    BY RowTyping, RowFields DEF Inv, TypeOK, IdleAges
<1>4. \A k \in Logins :
          /\ session'[k].token = session[k].token /\ session'[k].revision = session[k].revision
          /\ session[k].status = "absent" => session'[k] = session[k]
          /\ session[k].status # "absent" => session'[k].status # "absent"
          /\ session'[k].status = "active" => session[k].status = "active"
          /\ lock[k] # NoRequest => session'[k].status \in {"active", "expired"}
    BY DEF Inv, LocksHeld, IdleAges
<1>5. UNCHANGED <<central, login, lock, provider, upstream, cached, created, faults>>
    BY DEF IdleAges
<1> QED
    BY <1>1, <1>2, <1>3, <1>4, <1>5, RowsAge

LEMMA RetryPassesKeeps ==
    ASSUME Inv, NEW l \in Logins, RetryPasses(l)
    PROVE  Inv'
<1>1. request' \in [Requests -> RequestType]
    BY DEF Inv, TypeOK, RetryPasses
<1>2. request' = request
    BY DEF RetryPasses
<1>3. session' \in [Logins -> RowType]
    BY RowTyping, RowFields DEF Inv, TypeOK, RetryPasses
<1>4. \A k \in Logins :
          /\ session'[k].token = session[k].token /\ session'[k].revision = session[k].revision
          /\ session[k].status = "absent" => session'[k] = session[k]
          /\ session[k].status # "absent" => session'[k].status # "absent"
          /\ session'[k].status = "active" => session[k].status = "active"
          /\ lock[k] # NoRequest => session'[k].status \in {"active", "expired"}
    BY DEF Inv, LocksHeld, RetryPasses
<1>5. UNCHANGED <<central, login, lock, provider, upstream, cached, created, faults>>
    BY DEF RetryPasses
<1> QED
    BY <1>1, <1>2, <1>3, <1>4, <1>5, RowsAge

LEMMA CacheExpiresKeeps ==
    ASSUME Inv, NEW l \in Logins, CacheExpires(l)
    PROVE  Inv'
<1>1. TypeOK'
    BY BoundsAssumption DEF Inv, TypeOK, CacheExpires
<1> QED
    BY <1>1 DEF Inv, Moded, Known, LoginsOnce, Generations, LocksHeld, RotationKept,
       CacheExpires, At

-----------------------------------------------------------------------------
(* The invariant is inductive *)

LEMMA InvInit == Init => Inv
<1> SUFFICES ASSUME Init
             PROVE  Inv
    OBVIOUS
<1>1. TypeOK
    BY EmptyTyping, BoundsAssumption DEF Init, TypeOK
<1>2. Moded /\ Known /\ LocksHeld /\ LoginsOnce
    BY EmptyTyping DEF Init, Moded, Known, LocksHeld, LoginsOnce, AbsentRow,
       LoginSteps, CentralSteps, LocalSteps, Locked
<1>3. Generations /\ RotationKept
    BY EmptyTyping DEF Init, Generations, RotationKept, AbsentRow
<1> QED
    BY <1>1, <1>2, <1>3 DEF Inv

LEMMA InvStep == Inv /\ [Next]_vars => Inv'
<1> SUFFICES ASSUME Inv, [Next]_vars
             PROVE  Inv'
    OBVIOUS
<1>1. ASSUME NEW l \in Logins, LoginStarted(l) \/ TicketAttached(l) \/ LoggedOut(l) \/ TimePasses(l)
      PROVE  Inv'
    BY <1>1, LoginStartedKeeps, TicketAttachedKeeps, LoggedOutKeeps, LoginExpiresKeeps,
       SessionExpiresKeeps, TokenAgesKeeps, AuthorizationAgesKeeps, IdleAgesKeeps,
       RetryPassesKeeps, CacheExpiresKeeps DEF TimePasses
<1>2. ASSUME NEW r \in Requests, Begun(r)
      PROVE  Inv'
    BY <1>2, LoginConsumedKeeps, ActivityBegunKeeps, TouchBegunKeeps, SessionFoundKeeps DEF Begun
<1>3. ASSUME NEW r \in Requests, Progress(r)
      PROVE  Inv'
    <2>1. ASSUME NEW l \in Logins, LoginStep(r, l)
          PROVE  Inv'
        BY <2>1, CodeExchangedKeeps, LoginRefreshedKeeps, LoginAuthorizedKeeps, SessionCreatedKeeps,
           LoginRefusedKeeps DEF LoginStep
    <2>2. ASSUME NEW l \in Logins, CentralStep(r, l)
          PROVE  Inv'
        BY <2>2, StateAskedKeeps, SessionConfirmedKeeps, SessionEndedKeeps, ActivityAnsweredKeeps,
           LockTakenKeeps, LockRefusedKeeps, RejectedKeeps, RotationUnneededKeeps,
           RotationAnsweredKeeps, RotationCommittedKeeps, CheckUnneededKeeps, CheckAnsweredKeeps,
           CheckCommittedKeeps DEF CentralStep
    <2>3. ASSUME NEW l \in Logins, LocalStep(r, l)
          PROVE  Inv'
        BY <2>3, SeenRecordedKeeps, TokensRefreshedKeeps, TokensRefusedKeeps, AccessRejectedKeeps,
           RightsResolvedKeeps, RefreshStoredKeeps, StaleServedKeeps, RefreshRefusedKeeps,
           TouchedKeeps DEF LocalStep
    <2> QED
        BY <1>3, <2>1, <2>2, <2>3 DEF Progress
<1>4. ASSUME NEW r \in Requests, Served(r) \/ GivenUp(r) \/ RotationLost(r)
      PROVE  Inv'
    BY <1>4, ServedKeeps, GivenUpKeeps, RotationLostKeeps
<1>5. CASE UpstreamEnds \/ LogoutConsumed \/ RightsChanged \/ RightsWithdrawn
    BY <1>5, UpstreamEndsKeeps, LogoutConsumedKeeps, RightsChangedKeeps, RightsWithdrawnKeeps
<1>6. CASE UNCHANGED vars
    BY <1>6 DEF vars, Inv, TypeOK, Moded, Known, LocksHeld, LoginsOnce, Generations, RotationKept,
       At
<1> QED
    BY <1>1, <1>2, <1>3, <1>4, <1>5, <1>6 DEF Next

\* Every reachable state satisfies the invariant.
THEOREM InvHolds == Spec => []Inv
    BY InvInit, InvStep, PTL DEF Spec

\* Every variable keeps its type and a locked row has a request inside of its
\* transaction (WithSessionLock): TypeOK holds whatever logins, requests, bounds.
THEOREM TypeCorrect == Spec => []TypeOK
<1>1. Inv => TypeOK
    BY DEF Inv
<1> QED
    BY <1>1, InvHolds, PTL

\* A login makes one session at most, for any number of callbacks and requests
\* (ConsumeLoginTransaction).
THEOREM OneSession == Spec => []OneSessionPerLogin
<1>1. LoginsOnce => \A l \in Logins : created[l] = 0 \/ created[l] = 1
    BY DEF LoginsOnce
<1>2. LoginsOnce => OneSessionPerLogin
    <2>1. 0 <= 1 /\ 1 <= 1
        OBVIOUS
    <2> QED
        BY <1>1, <2>1 DEF OneSessionPerLogin
<1>3. Inv => LoginsOnce
    BY DEF Inv
<1> QED
    BY <1>2, <1>3, InvHolds, PTL

\* While no answer or commit is lost, the latest refresh token of a live session
\* is in its row or about to be stored there (RotationContext).
THEOREM RotationIsKept == Spec => []RotationKept
<1>1. Inv => RotationKept
    BY DEF Inv
<1> QED
    BY <1>1, InvHolds, PTL

-----------------------------------------------------------------------------
(* What a step does to the rows *)

\* The steps that write a row, by protocol.
LEMMA Writers ==
    ASSUME [Next]_vars
    PROVE  \/ session' = session
           \/ \E l \in Logins : \/ LoggedOut(l) \/ SessionExpires(l) \/ TokenAges(l)
                                \/ AuthorizationAges(l) \/ IdleAges(l) \/ RetryPasses(l)
           \/ LogoutConsumed
           \/ \E r \in Requests, l \in Logins :
                 \/ SessionCreated(r, l)
                 \/ SessionEnded(r, l) \/ Rejected(r, l)
                 \/ RotationCommitted(r, l) \/ CheckCommitted(r, l)
                 \/ SeenRecorded(r, l) \/ RefreshStored(r, l) \/ StaleServed(r, l)
                 \/ RefreshRefused(r, l) \/ Touched(r, l)
<1>1. ASSUME NEW l \in Logins, \/ LoginStarted(l) \/ TicketAttached(l)
                               \/ LoginExpires(l) \/ CacheExpires(l)
      PROVE  session' = session
    BY <1>1 DEF LoginStarted, TicketAttached, LoginExpires, CacheExpires
<1>2. ASSUME NEW r \in Requests, Begun(r)
      PROVE  session' = session
    BY <1>2 DEF Begun, LoginConsumed, ActivityBegun, TouchBegun, SessionFound
<1>3. ASSUME NEW r \in Requests, NEW l \in Logins, LoginStep(r, l)
      PROVE  session' = session \/ SessionCreated(r, l)
    BY <1>3 DEF LoginStep, CodeExchanged, LoginRefreshed, LoginAuthorized, LoginRefused
<1>4. ASSUME NEW r \in Requests, NEW l \in Logins, CentralStep(r, l)
      PROVE  \/ session' = session \/ SessionEnded(r, l) \/ Rejected(r, l)
             \/ RotationCommitted(r, l) \/ CheckCommitted(r, l)
    BY <1>4 DEF CentralStep, StateAsked, SessionConfirmed, ActivityAnswered, LockTaken,
       LockRefused,
       RotationUnneeded, RotationAnswered, CheckUnneeded, CheckAnswered
<1>5. ASSUME NEW r \in Requests, NEW l \in Logins, LocalStep(r, l)
      PROVE  \/ session' = session \/ SeenRecorded(r, l) \/ RefreshStored(r, l)
             \/ StaleServed(r, l) \/ RefreshRefused(r, l) \/ Touched(r, l)
    BY <1>5 DEF LocalStep, TokensRefreshed, TokensRefused, AccessRejected, RightsResolved
<1>6. ASSUME NEW r \in Requests, Served(r) \/ GivenUp(r) \/ RotationLost(r)
      PROVE  session' = session
    BY <1>6 DEF Served, GivenUp, RotationLost
<1>7. CASE UpstreamEnds \/ RightsChanged \/ RightsWithdrawn
    BY <1>7 DEF UpstreamEnds, RightsChanged, RightsWithdrawn
<1>8. CASE UNCHANGED vars
    BY <1>8 DEF vars
<1> QED
    BY <1>1, <1>2, <1>3, <1>4, <1>5, <1>6, <1>7, <1>8 DEF Next, TimePasses, Progress

\* Who is at a step of one protocol is not in the other.
LEMMA ModeOf ==
    ASSUME Inv, NEW r \in Requests, NEW l \in Logins
    PROVE  /\ RotationCommitted(r, l) \/ CheckCommitted(r, l) =>
                  central /\ lock[l] = r /\ session[l].status \in {"active", "expired"}
           /\ SeenRecorded(r, l) \/ RefreshStored(r, l) \/ StaleServed(r, l)
              \/ RefreshRefused(r, l) \/ Touched(r, l) => ~central
           /\ SessionCreated(r, l) => session[l].status = "absent" /\ ~session[l].idle
<1>1. RotationCommitted(r, l) \/ CheckCommitted(r, l) =>
          central /\ lock[l] = r /\ session[l].status \in {"active", "expired"}
    BY NoneAssumption DEF Inv, Moded, LocksHeld, CentralSteps, Locked, At, RotationCommitted,
       CheckCommitted
<1>2. SeenRecorded(r, l) \/ RefreshStored(r, l) \/ StaleServed(r, l)
      \/ RefreshRefused(r, l) \/ Touched(r, l) => ~central
    BY DEF Inv, Moded, LocalSteps, At, SeenRecorded, RefreshStored, StaleServed, RefreshRefused,
       Touched
<1>3. SessionCreated(r, l) => session[l].status = "absent" /\ ~session[l].idle
    BY DEF Inv, LoginsOnce, LoginSteps, At, SessionCreated
<1> QED
    BY <1>1, <1>2, <1>3

\* A row is revoked as it is, whoever does it.
LEMMA RevokedOnly ==
    ASSUME Inv, NEW k \in Logins,
           \/ LogoutConsumed
           \/ \E l \in Logins : LoggedOut(l)
           \/ \E r \in Requests, l \in Logins :
                 SessionEnded(r, l) \/ Rejected(r, l) \/ RefreshRefused(r, l)
    PROVE  session'[k] \in {session[k], Revoked(k)}
<1>1. CASE LogoutConsumed
    BY <1>1 DEF LogoutConsumed
<1>2. ASSUME NEW l \in Logins, LoggedOut(l)
      PROVE  session'[k] \in {session[k], Revoked(k)}
    BY <1>2 DEF Inv, LoggedOut, RevokeSession
<1>3. ASSUME NEW r \in Requests, NEW l \in Logins,
             SessionEnded(r, l) \/ Rejected(r, l) \/ RefreshRefused(r, l)
      PROVE  session'[k] \in {session[k], Revoked(k)}
    BY <1>3 DEF Inv, TypeOK, SessionEnded, Rejected, RefreshRefused, RevokeSession
<1> QED
    BY <1>1, <1>2, <1>3

\* Time changes rows that are active, and never their credentials.
LEMMA AgesOnly ==
    ASSUME Inv, NEW k \in Logins, NEW l \in Logins,
           \/ SessionExpires(l) \/ TokenAges(l) \/ AuthorizationAges(l)
           \/ IdleAges(l) \/ RetryPasses(l)
    PROVE  /\ session'[k].token = session[k].token /\ session'[k].revision = session[k].revision
           /\ session[k].status # "active" => session'[k] = session[k]
           /\ session[k].idle => session'[k].idle
<1>1. session \in [Logins -> RowType] /\ session[k] \in RowType
    BY DEF Inv, TypeOK
<1>2. CASE SessionExpires(l)
    BY <1>1, <1>2 DEF SessionExpires
<1>3. CASE TokenAges(l)
    BY <1>1, <1>3 DEF TokenAges
<1>4. CASE AuthorizationAges(l)
    BY <1>1, <1>4 DEF AuthorizationAges
<1>5. CASE IdleAges(l)
    BY <1>1, <1>5 DEF IdleAges
<1>6. CASE RetryPasses(l)
    BY <1>1, <1>6 DEF RetryPasses
<1> QED
    BY <1>2, <1>3, <1>4, <1>5, <1>6

LEMMA CredentialsStep ==
    ASSUME Inv, [Next]_vars, central, NEW k \in Logins
    PROVE  session[k].token <= session'[k].token /\ session[k].revision <= session'[k].revision
<1>1. session[k] \in RowType /\ session[k].token \in Nat /\ session[k].revision \in Nat
    BY RowFields, BoundsAssumption DEF Inv, TypeOK
<1>2. CASE session' = session
    BY <1>1, <1>2
<1>3. ASSUME NEW l \in Logins, \/ SessionExpires(l) \/ TokenAges(l) \/ AuthorizationAges(l)
                               \/ IdleAges(l) \/ RetryPasses(l)
      PROVE  session'[k].token = session[k].token /\ session'[k].revision = session[k].revision
    BY <1>3, AgesOnly
<1>4. ASSUME \/ LogoutConsumed
             \/ \E l \in Logins : LoggedOut(l)
             \/ \E r \in Requests, l \in Logins : SessionEnded(r, l) \/ Rejected(r, l)
      PROVE  session'[k].token = session[k].token /\ session'[k].revision = session[k].revision
    <2>1. session'[k] \in {session[k], Revoked(k)}
        BY <1>4, RevokedOnly
    <2>2. Revoked(k).token = session[k].token /\ Revoked(k).revision = session[k].revision
        BY <1>1 DEF Revoked
    <2> QED
        BY <2>1, <2>2
<1>5. ASSUME NEW r \in Requests, NEW l \in Logins, SessionCreated(r, l)
      PROVE  session[k].token <= session'[k].token /\ session[k].revision <= session'[k].revision
    <2>1. /\ request[r].login = l /\ request[r].token = provider[l]
          /\ session[l].status = "absent" /\ session[l].token <= provider[l]
          /\ session[l].revision = 0 /\ request[r].revision \in Nat
        BY <1>5, RequestFields, BoundsAssumption DEF Inv, TypeOK, LoginsOnce, LoginSteps,
           Generations, At, SessionCreated
    <2>2. CASE k = l
        <3>1. session'[k].token = request[r].token /\ session'[k].revision = request[r].revision
            BY <1>5, <2>2 DEF Inv, TypeOK, SessionCreated, AbsentRow
        <3> QED
            BY <2>1, <2>2, <3>1
    <2>3. CASE k # l
        BY <1>1, <1>5, <2>3 DEF Inv, SessionCreated
    <2> QED
        BY <2>2, <2>3
<1>6. ASSUME NEW r \in Requests, NEW l \in Logins, RotationCommitted(r, l)
      PROVE  session[k].token <= session'[k].token /\ session[k].revision <= session'[k].revision
    <2>1. request[r].token = provider[l] /\ session[l].token <= provider[l]
        BY <1>6 DEF Inv, Generations, At, RotationCommitted
    <2>2. session'[k].revision = session[k].revision
        BY <1>6 DEF Inv, TypeOK, RotationCommitted
    <2>3. session'[k].token = IF k = l THEN request[r].token ELSE session[k].token
        BY <1>6 DEF Inv, TypeOK, RotationCommitted
    <2> QED
        BY <1>1, <2>1, <2>2, <2>3
<1>7. ASSUME NEW r \in Requests, NEW l \in Logins, CheckCommitted(r, l)
      PROVE  session[k].token <= session'[k].token /\ session[k].revision <= session'[k].revision
    <2>1. session[l].revision <= request[r].revision
        BY <1>7 DEF Inv, Generations, At, CheckCommitted
    <2>2. session'[k].token = session[k].token
        BY <1>7 DEF Inv, TypeOK, CheckCommitted
    <2>3. session'[k].revision = IF k = l THEN request[r].revision ELSE session[k].revision
        BY <1>7 DEF Inv, TypeOK, CheckCommitted
    <2> QED
        BY <1>1, <2>1, <2>2, <2>3
<1>8. ASSUME NEW r \in Requests, NEW l \in Logins,
             \/ SeenRecorded(r, l) \/ RefreshStored(r, l) \/ StaleServed(r, l)
             \/ RefreshRefused(r, l) \/ Touched(r, l)
      PROVE  FALSE
    BY <1>8, ModeOf
<1>9. session'[k].token = session[k].token /\ session'[k].revision = session[k].revision =>
          session[k].token <= session'[k].token /\ session[k].revision <= session'[k].revision
    BY <1>1
<1> QED
    BY <1>2, <1>3, <1>4, <1>5, <1>6, <1>7, <1>8, <1>9, Writers

\* In central mode neither tokens nor rights of a session go back to an earlier
\* generation, for any number of requests that overlap (WithSessionLock).
THEOREM CredentialsNeverGoBack == Spec => CredentialsKept
<1>1. Inv /\ [Next]_vars =>
        [central => \A l \in Logins : /\ session[l].token <= session'[l].token
                                      /\ session[l].revision <= session'[l].revision]_vars
    BY CredentialsStep
<1> QED
    BY <1>1, InvHolds, PTL DEF Spec, CredentialsKept

LEMMA DeadStep ==
    ASSUME Inv, [Next]_vars, NEW k \in Logins
    PROVE  /\ session[k].status = "revoked" => session'[k] = session[k]
           /\ session[k].status = "expired" => session'[k].status # "active"
           /\ session[k].idle /\ ~session'[k].idle =>
                \E r \in Requests : At(r, "touching") /\ request[r].login = k
<1>1. session[k] \in RowType
    BY DEF Inv, TypeOK
<1>2. CASE session' = session
    BY <1>2
<1>3. ASSUME NEW l \in Logins, \/ SessionExpires(l) \/ TokenAges(l) \/ AuthorizationAges(l)
                               \/ IdleAges(l) \/ RetryPasses(l)
      PROVE  /\ session[k].status # "active" => session'[k] = session[k]
             /\ session[k].idle => session'[k].idle
    BY <1>3, AgesOnly
<1>4. \A l \in Logins : Revoked(l) \in RowType
    BY RevokedTyping DEF Inv
<1>5. /\ session[k].status \in {"absent", "revoked"} => Revoked(k) = session[k]
      /\ Revoked(k).status # "active" \/ session[k].status = "absent"
      /\ Revoked(k).idle = session[k].idle
    BY <1>1 DEF Revoked, RowType
<1>6. \/ LogoutConsumed
      \/ \E l \in Logins : LoggedOut(l)
      \/ \E r \in Requests, l \in Logins :
            SessionEnded(r, l) \/ Rejected(r, l) \/ RefreshRefused(r, l)
      => session'[k] \in {session[k], Revoked(k)}
    BY RevokedOnly
<1>7. ASSUME NEW r \in Requests, NEW l \in Logins, SessionCreated(r, l)
      PROVE  session'[k] = session[k] \/ (session[k].status = "absent" /\ ~session[k].idle)
    BY <1>7, ModeOf DEF Inv, TypeOK, SessionCreated
<1>8. ASSUME NEW r \in Requests, NEW l \in Logins, RotationCommitted(r, l) \/ CheckCommitted(r, l)
      PROVE  /\ session'[k] # session[k] => session[k].status \in {"active", "expired"}
             /\ session'[k].status = session[k].status /\ session'[k].idle = session[k].idle
    <2>1. k # l => session'[k] = session[k]
        BY <1>8 DEF Inv, TypeOK, RotationCommitted, CheckCommitted
    <2>2. session[l].status \in {"active", "expired"}
        BY <1>8, ModeOf
    <2>3. session'[l].status = session[l].status /\ session'[l].idle = session[l].idle
        BY <1>8 DEF Inv, TypeOK, RowType, RotationCommitted, CheckCommitted
    <2> QED
        BY <2>1, <2>2, <2>3
<1>9. ASSUME NEW r \in Requests, NEW l \in Logins,
             SeenRecorded(r, l) \/ RefreshStored(r, l) \/ StaleServed(r, l)
      PROVE  /\ session[k].status = "revoked" => session'[k] = session[k]
             /\ session'[k].status = session[k].status /\ session'[k].idle = session[k].idle
    <2>1. PICK row \in RowType : session' = [session EXCEPT ![l] = RowUpdated(l, row)]
        <3>1. request[r].row \in RowType /\ request[r].token \in 0 .. MaxToken
              /\ request[r].revision \in 0 .. MaxRevision
            BY RequestFields DEF Inv, TypeOK
        <3>2. [request[r].row EXCEPT !.retry = TRUE] \in RowType
            BY <3>1, RowTyping
        <3>3. [AbsentRow EXCEPT !.status = "active", !.token = request[r].token,
                                !.revision = request[r].revision] \in RowType
            BY <3>1, EmptyTyping, RowTyping
        <3> QED
            BY <1>9, <3>1, <3>2, <3>3 DEF SeenRecorded, RefreshStored, StaleServed, UpdateSession
    <2>2. /\ session[l].status = "revoked" => RowUpdated(l, row) = session[l]
          /\ RowUpdated(l, row).status = session[l].status
          /\ RowUpdated(l, row).idle = session[l].idle
        BY DEF RowUpdated
    <2> QED
        BY <2>1, <2>2 DEF Inv
<1>10. ASSUME NEW r \in Requests, NEW l \in Logins, Touched(r, l)
       PROVE  /\ session[k].status = "revoked" => session'[k] = session[k]
              /\ session'[k].status = session[k].status
              /\ k # l => session'[k] = session[k]
    <2>1. session' = [session EXCEPT ![l] = [session[l] EXCEPT
                         !.idle = session[l].idle /\ session[l].status = "revoked"]]
        BY <1>10 DEF Inv, Touched
    <2>2. CASE k # l
        BY <2>1, <2>2 DEF Inv
    <2>3. CASE k = l /\ session[l].status = "revoked"
        <3>1. [session[l] EXCEPT !.idle = session[l].idle] = session[l]
            BY <1>1, <2>3 DEF RowType
        <3>2. (session[l].idle /\ session[l].status = "revoked") = session[l].idle
            BY <1>1, <2>3 DEF RowType
        <3> QED
            BY <2>1, <2>3, <3>1, <3>2 DEF Inv
    <2>4. CASE k = l /\ session[l].status # "revoked"
        BY <1>1, <2>1, <2>4 DEF Inv
    <2> QED
        BY <2>2, <2>3, <2>4
<1>11. ASSUME NEW r \in Requests, NEW l \in Logins, Touched(r, l)
       PROVE  At(r, "touching") /\ request[r].login = l
    BY <1>11 DEF Touched
<1> QED
    BY <1>1, <1>2, <1>3, <1>5, <1>6, <1>7, <1>8, <1>9, <1>10, <1>11, Writers

\* A revoked session is never written again, an expired one never active again,
\* and only explicit activity moves the idle deadline, for any number of
\* requests under way in either protocol (UpdateSession, TouchSessionActivity).
THEOREM DeadStaysDead == Spec => DeadForGood
<1>1. Inv /\ [Next]_vars =>
        [\A l \in Logins :
            /\ session[l].status = "revoked" => session'[l] = session[l]
            /\ session[l].status = "expired" => session'[l].status # "active"
            /\ session[l].idle /\ ~session'[l].idle =>
                 \E r \in Requests : At(r, "touching") /\ request[r].login = l]_vars
    BY DeadStep
<1> QED
    BY <1>1, InvHolds, PTL DEF Spec, DeadForGood
=============================================================================
