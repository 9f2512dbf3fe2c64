----------------------------- MODULE OIDCSession -----------------------------
(***************************************************************************)
(* The browser sessions of the project platform: one-time login            *)
(* transactions, the rows of pm_oidc_session and the requests that use     *)
(* them.  A request reads its row, calls other services (the OpenID        *)
(* provider for new tokens, the platform for the rights of the user and    *)
(* for the state of the central session) and then writes the row, while    *)
(* other requests, logouts and time do the same.                           *)
(*                                                                         *)
(* There are two protocols.  With CENTRAL_SESSION_ENABLED the platform     *)
(* keeps the lifetime of a session, and tokens and rights are renewed      *)
(* under the row lock of WithSessionLock, in two transactions.  Without it *)
(* the row is written back by conditional updates that take no lock.       *)
(***************************************************************************)
EXTENDS Naturals

CONSTANTS
    Logins,         \* login transactions of one user, all of one upstream session
    Requests,       \* requests in flight
    NoLogin,        \* what an idle request works for
    NoRequest,      \* the holder of a row that is not locked
    MaxToken,       \* bound: generations of the tokens of a session
    MaxRevision,    \* bound: revisions of the rights of the user
    MaxFaults       \* bound: rotations whose answer or commit gets lost

ASSUME NoneAssumption == NoLogin \notin Logins /\ NoRequest \notin Requests
ASSUME BoundsAssumption == /\ MaxToken \in Nat \ {0}
                           /\ MaxRevision \in Nat \ {0}
                           /\ MaxFaults \in Nat

VARIABLES
    central,    \* CENTRAL_SESSION_ENABLED
    login,      \* pm_oidc_login_transaction
    session,    \* pm_oidc_session: the session of each login
    lock,       \* row locks held by WithSessionLock
    request,    \* what each request is at
    provider,   \* latest token generation issued; older ones are refused
    upstream,   \* the user's session and rights at provider and platform
    cached,     \* bindings with a positive answer in the state cache
    created,    \* sessions created for each login
    faults      \* counts against MaxFaults

vars == <<central, login, session, lock, request, provider, upstream, cached, created, faults>>

-----------------------------------------------------------------------------

\* token and revision are the generations of the stored tokens and rights.
\* "due" says that the time since the check exceeds the refresh interval,
\* "stale" that it exceeds the longest time rights may be used unchecked.  retry
\* says that RefreshRetryAt lies ahead, idle that the idle deadline has passed.
AbsentRow == [status |-> "absent", token |-> 0, tokenDue |-> FALSE, revision |-> 0,
              checked |-> "fresh", retry |-> FALSE, idle |-> FALSE]

\* row is the session as the request has read it, stale whether the request may
\* be served unchecked; token and revision are what it was given since, answer
\* what it was told of the central session.
Idle == [step |-> "idle", login |-> NoLogin, stale |-> FALSE, row |-> AbsentRow,
         token |-> 0, revision |-> 0, answer |-> "none"]

Init == /\ central \in BOOLEAN
        /\ login = [l \in Logins |-> [status |-> "none", ticket |-> FALSE]]
        /\ session = [l \in Logins |-> AbsentRow]
        /\ lock = [l \in Logins |-> NoRequest]
        /\ request = [r \in Requests |-> Idle]
        /\ provider = [l \in Logins |-> 0]
        /\ upstream = [alive |-> TRUE, revision |-> 1, denied |-> FALSE, logout |-> "none"]
        /\ cached = [l \in Logins |-> FALSE]
        /\ created = [l \in Logins |-> 0]
        /\ faults = 0

At(r, step) == request[r].step = step

\* The request goes on to a step, with what it knows there.
Goes(r, step, l, token, revision) ==
    request' = [request EXCEPT ![r] = [Idle EXCEPT !.step = step, !.login = l,
                                                   !.token = token, !.revision = revision]]

Ends(r) == Goes(r, "idle", NoLogin, 0, 0)

\* The request is served with the rights of the session.
Grants(r, l) == Goes(r, "granted", l, 0, 0)

Unlocks(r) == lock' = [l \in Logins |-> IF lock[l] = r THEN NoRequest ELSE lock[l]]

\* The row of session l once it is revoked.  An expired session can be revoked,
\* a revoked one keeps the time of its first revocation.
Revoked(l) == IF session[l].status = "absent" THEN session[l]
              ELSE [session[l] EXCEPT !.status = "revoked"]

RevokeSession(l) == session' = [session EXCEPT ![l] = Revoked(l)]

-----------------------------------------------------------------------------
(* Login *)

LoginStarted(l) ==
    /\ login[l].status = "none"
    /\ login' = [login EXCEPT ![l].status = "open"]
    /\ UNCHANGED <<central, session, lock, request, provider, upstream, cached, created, faults>>

\* A second ticket does not replace the first.
TicketAttached(l) ==
    /\ central
    /\ login[l].status = "open"
    /\ ~login[l].ticket
    /\ login' = [login EXCEPT ![l].ticket = TRUE]
    /\ UNCHANGED <<central, session, lock, request, provider, upstream, cached, created, faults>>

\* Mutant: a transaction that was consumed is accepted once more.
LoginConsumedAgain(r, l) ==
    /\ At(r, "idle")
    /\ login[l].status \in {"open", "consumed"}
    /\ login' = [login EXCEPT ![l].status = "consumed"]
    /\ Goes(r, "exchanging", l, 0, 0)
    /\ UNCHANGED <<central, session, lock, provider, upstream, cached, created, faults>>

\* A callback consumes its login transaction before anything else.
LoginConsumed(r, l) ==
    /\ At(r, "idle")
    /\ login[l].status = "open"
    /\ login' = [login EXCEPT ![l].status = "consumed"]
    /\ Goes(r, "exchanging", l, 0, 0)
    /\ UNCHANGED <<central, session, lock, provider, upstream, cached, created, faults>>

\* The code is exchanged for the first tokens and, in central mode, the ticket
\* for the binding to the central session.
CodeExchanged(r, l) ==
    /\ At(r, "exchanging")
    /\ request[r].login = l
    /\ upstream.alive
    /\ central => login[l].ticket
    /\ provider[l] < MaxToken
    /\ provider' = [provider EXCEPT ![l] = @ + 1]
    /\ Goes(r, "authorizing", l, provider[l] + 1, 0)
    /\ UNCHANGED <<central, login, session, lock, upstream, cached, created, faults>>

\* The platform does not accept the new access token: it is refreshed once.
LoginRefreshed(r, l) ==
    /\ At(r, "authorizing")
    /\ request[r].login = l
    /\ upstream.alive
    /\ provider[l] < MaxToken
    /\ provider' = [provider EXCEPT ![l] = @ + 1]
    /\ Goes(r, "authorizingAgain", l, provider[l] + 1, 0)
    /\ UNCHANGED <<central, login, session, lock, upstream, cached, created, faults>>

LoginAuthorized(r, l) ==
    /\ request[r].step \in {"authorizing", "authorizingAgain"}
    /\ request[r].login = l
    /\ ~upstream.denied
    /\ Goes(r, "creating", l, request[r].token, upstream.revision)
    /\ UNCHANGED <<central, login, session, lock, provider, upstream, cached, created, faults>>

\* Nothing is asked again here: the session may be created after its upstream
\* session has ended and the logout has been dealt with.
SessionCreated(r, l) ==
    /\ At(r, "creating")
    /\ request[r].login = l
    /\ session' = [session EXCEPT ![l] = [AbsentRow EXCEPT !.status = "active",
                                                          !.token = request[r].token,
                                                          !.revision = request[r].revision]]
    /\ created' = [created EXCEPT ![l] = @ + 1]
    /\ Ends(r)
    /\ UNCHANGED <<central, login, lock, provider, upstream, cached, faults>>

\* The provider, the platform or a missing ticket refuses the login.
LoginRefused(r, l) ==
    /\ request[r].login = l
    /\ \/ At(r, "exchanging") /\ (~upstream.alive \/ (central /\ ~login[l].ticket))
       \/ /\ request[r].step \in {"authorizing", "authorizingAgain"}
          /\ upstream.denied \/ ~upstream.alive
    /\ Ends(r)
    /\ UNCHANGED <<central, login, session, lock, provider, upstream, cached, created, faults>>

LoginStep(r, l) ==
    \/ CodeExchanged(r, l) \/ LoginRefreshed(r, l) \/ LoginAuthorized(r, l)
    \/ SessionCreated(r, l) \/ LoginRefused(r, l)

-----------------------------------------------------------------------------
(* Every request *)

Renewed(row) == ~row.tokenDue /\ row.checked = "fresh"

\* Only reads, and only with a valid token and rights that are not too old.
StaleReadAllowed(row) == ~row.tokenDue /\ row.checked # "stale"

FirstStep(row) ==
    IF central THEN "found"
    ELSE IF Renewed(row) THEN "seeing"
    ELSE IF row.retry THEN "granted"
    ELSE IF row.tokenDue THEN "refreshing"
    ELSE "resolving"

\* What the request still needs of the row it has read: the central protocol its
\* times, the local one all that it may write back.
RowKept(row, stale) ==
    IF central THEN [AbsentRow EXCEPT !.tokenDue = row.tokenDue, !.checked = row.checked]
    ELSE IF Renewed(row) \/ stale THEN row
    ELSE AbsentRow

\* The clock of a request is read once, so every deadline of the local protocol
\* is judged here, as of the time the row is read.  A request that is refused
\* at once leaves no trace.
SessionFound(r, l, stale) ==
    /\ At(r, "idle")
    /\ session[l].status = "active"
    /\ IF central THEN ~stale
       ELSE /\ ~session[l].idle
            /\ stale => ~Renewed(session[l]) /\ StaleReadAllowed(session[l])
            /\ ~Renewed(session[l]) /\ session[l].retry => stale
    /\ IF FirstStep(session[l]) = "granted" THEN Grants(r, l)
       ELSE request' = [request EXCEPT ![r] =
              [Idle EXCEPT !.step = FirstStep(session[l]), !.login = l, !.stale = stale,
                           !.row = RowKept(session[l], stale),
                           !.token = IF central THEN 0 ELSE session[l].token]]
    /\ UNCHANGED <<central, login, session, lock, provider, upstream, cached, created, faults>>

\* Mutant: the rotation ends with the request of the browser.
GivenUpRotated(r) ==
    /\ request[r].step # "idle"
    /\ Unlocks(r)
    /\ Ends(r)
    /\ UNCHANGED <<central, login, session, provider, upstream, cached, created, faults>>

\* A request may fail at any step without an effect: a service does not answer,
\* or the browser leaves.  A rotation that has been sent is carried through.
GivenUp(r) ==
    /\ request[r].step \notin {"idle", "rotated"}
    /\ Unlocks(r)
    /\ Ends(r)
    /\ UNCHANGED <<central, login, session, provider, upstream, cached, created, faults>>

Served(r) ==
    /\ At(r, "granted")
    /\ Ends(r)
    /\ UNCHANGED <<central, login, session, lock, provider, upstream, cached, created, faults>>

-----------------------------------------------------------------------------
(* Central mode: what the platform says of the session *)

Asking == {"found", "rotating", "checking", "activity"}

\* State is answered from the cache where it can be; Activity never is.
StateAsked(r, l) ==
    /\ central
    /\ request[r].login = l
    /\ request[r].step \in Asking
    /\ request[r].answer = "none"
    /\ request' = [request EXCEPT ![r].answer =
                     IF cached[l] /\ ~At(r, "activity") THEN "cached"
                     ELSE IF upstream.alive THEN "active" ELSE "inactive"]
    /\ UNCHANGED <<central, login, session, lock, provider, upstream, cached, created, faults>>

Confirmed(r) == request[r].answer \in {"cached", "active"}

\* Mutant: an answer out of the cache is stored again, with a new time to live.
StateHeardAgain(r, l) ==
    cached' = [cached EXCEPT ![l] = IF At(r, "activity") THEN @ ELSE Confirmed(r)]

\* The answer enters the cache, or leaves it, when the caller hears of it.
StateHeard(r, l) ==
    cached' = [cached EXCEPT ![l] = IF At(r, "activity") THEN @
                                    ELSE IF request[r].answer = "active" THEN TRUE
                                    ELSE IF request[r].answer = "inactive" THEN FALSE
                                    ELSE @]

\* Serves the request, or sends it for the row lock.  Whether the tokens are due
\* is judged by a later clock.
SessionConfirmed(r, l) ==
    /\ At(r, "found")
    /\ request[r].login = l
    /\ Confirmed(r)
    /\ StateHeard(r, l)
    /\ IF Renewed(request[r].row)
       THEN Grants(r, l)
       ELSE Goes(r, IF request[r].row.tokenDue \/ session[l].tokenDue
                    THEN "rotate" ELSE "check", l, 0, 0)
    /\ UNCHANGED <<central, login, session, lock, provider, upstream, created, faults>>

\* Outside of the row lock the session is revoked by an update of its own, which
\* waits for the lock.
SessionEnded(r, l) ==
    /\ request[r].step \in {"found", "activity"}
    /\ request[r].login = l
    /\ request[r].answer = "inactive"
    /\ lock[l] = NoRequest
    /\ StateHeard(r, l)
    /\ RevokeSession(l)
    /\ Ends(r)
    /\ UNCHANGED <<central, login, lock, provider, upstream, created, faults>>

\* A request that was served goes on to report the activity of the user.  The
\* endpoint that reports the state asks as every request does.
ActivityBegun(r, l) ==
    /\ central
    /\ At(r, "granted")
    /\ request[r].login = l
    /\ session[l].status = "active"
    /\ Goes(r, "activity", l, 0, 0)
    /\ UNCHANGED <<central, login, session, lock, provider, upstream, cached, created, faults>>

ActivityAnswered(r, l) ==
    /\ At(r, "activity")
    /\ request[r].login = l
    /\ Confirmed(r)
    /\ Ends(r)
    /\ UNCHANGED <<central, login, session, lock, provider, upstream, cached, created, faults>>

-----------------------------------------------------------------------------
(* Central mode: WithSessionLock *)

\* Mutant: the row is read without FOR UPDATE.
LockSkipped(r, l) ==
    /\ request[r].step \in {"rotate", "check"}
    /\ request[r].login = l
    /\ session[l].status # "revoked"
    /\ lock' = [lock EXCEPT ![l] = r]
    /\ Goes(r, IF At(r, "rotate") THEN "rotating" ELSE "checking", l, 0, 0)
    /\ UNCHANGED <<central, login, session, provider, upstream, cached, created, faults>>

\* The second transaction measures the expiry of the session by the clock of
\* the request, the first by a later one.
LockTaken(r, l) ==
    /\ request[r].step \in {"rotate", "check"}
    /\ request[r].login = l
    /\ lock[l] = NoRequest
    /\ session[l].status # "revoked"
    /\ lock' = [lock EXCEPT ![l] = r]
    /\ Goes(r, IF At(r, "rotate") THEN "rotating" ELSE "checking", l, 0, 0)
    /\ UNCHANGED <<central, login, session, provider, upstream, cached, created, faults>>

LockRefused(r, l) ==
    /\ request[r].step \in {"rotate", "check"}
    /\ request[r].login = l
    /\ lock[l] = NoRequest
    /\ session[l].status = "revoked" \/ (At(r, "rotate") /\ session[l].status = "expired")
    /\ Ends(r)
    /\ UNCHANGED <<central, login, session, lock, provider, upstream, cached, created, faults>>

\* Mutant: the session is revoked on another connection while the row is locked.
RejectedOutside(r, l) ==
    /\ request[r].step \in {"rotating", "checking"}
    /\ request[r].login = l
    /\ \/ request[r].answer = "inactive"
       \/ /\ At(r, "rotating")
          /\ Confirmed(r)
          /\ session[l].tokenDue
          /\ ~upstream.alive \/ session[l].token # provider[l]
       \/ /\ At(r, "checking")
          /\ Confirmed(r)
          /\ ~Renewed(session[l])
          /\ ~session[l].tokenDue
          /\ upstream.denied \/ ~upstream.alive
    /\ lock[l] = NoRequest
    /\ StateHeard(r, l)
    /\ RevokeSession(l)
    /\ Ends(r)
    /\ UNCHANGED <<central, login, lock, provider, upstream, created, faults>>

\* A definite refusal under the lock, of the central session, of the refresh
\* token or of the rights, commits the revocation with the transaction.
Rejected(r, l) ==
    /\ request[r].step \in {"rotating", "checking"}
    /\ request[r].login = l
    /\ \/ request[r].answer = "inactive"
       \/ /\ At(r, "rotating")
          /\ Confirmed(r)
          /\ session[l].tokenDue
          /\ ~upstream.alive \/ session[l].token # provider[l]
       \/ /\ At(r, "checking")
          /\ Confirmed(r)
          /\ ~Renewed(session[l])
          /\ ~session[l].tokenDue
          /\ upstream.denied \/ ~upstream.alive
    /\ StateHeard(r, l)
    /\ RevokeSession(l)
    /\ Unlocks(r)
    /\ Ends(r)
    /\ UNCHANGED <<central, login, provider, upstream, created, faults>>

\* Another request has rotated the tokens meanwhile.
RotationUnneeded(r, l) ==
    /\ At(r, "rotating")
    /\ request[r].login = l
    /\ Confirmed(r)
    /\ ~session[l].tokenDue
    /\ StateHeard(r, l)
    /\ Unlocks(r)
    /\ Goes(r, "check", l, 0, 0)
    /\ UNCHANGED <<central, login, session, provider, upstream, created, faults>>

\* The provider takes a refresh token once and answers with the next one.
RotationAnswered(r, l) ==
    /\ At(r, "rotating")
    /\ request[r].login = l
    /\ Confirmed(r)
    /\ session[l].tokenDue
    /\ upstream.alive
    /\ session[l].token = provider[l]
    /\ provider[l] < MaxToken
    /\ StateHeard(r, l)
    /\ provider' = [provider EXCEPT ![l] = @ + 1]
    /\ Goes(r, "rotated", l, provider[l] + 1, 0)
    /\ UNCHANGED <<central, login, session, lock, upstream, created, faults>>

\* The answer is lost, the process crashes or the commit fails.
RotationLost(r) ==
    /\ At(r, "rotated")
    /\ faults < MaxFaults
    /\ Unlocks(r)
    /\ Ends(r)
    /\ faults' = faults + 1
    /\ UNCHANGED <<central, login, session, provider, upstream, cached, created>>

\* The first transaction stores the tokens and makes the rights due.
RotationCommitted(r, l) ==
    /\ At(r, "rotated")
    /\ request[r].login = l
    /\ session' = [session EXCEPT ![l].token = request[r].token, ![l].tokenDue = FALSE,
                                  ![l].checked = "due", ![l].retry = FALSE]
    /\ Unlocks(r)
    /\ Goes(r, "check", l, 0, 0)
    /\ UNCHANGED <<central, login, provider, upstream, cached, created, faults>>

\* The second transaction never refreshes: with due tokens it gives up.
CheckUnneeded(r, l) ==
    /\ At(r, "checking")
    /\ request[r].login = l
    /\ Confirmed(r)
    /\ Renewed(session[l]) \/ session[l].tokenDue
    /\ StateHeard(r, l)
    /\ Unlocks(r)
    /\ IF session[l].tokenDue THEN Ends(r) ELSE Grants(r, l)
    /\ UNCHANGED <<central, login, session, provider, upstream, created, faults>>

CheckAnswered(r, l) ==
    /\ At(r, "checking")
    /\ request[r].login = l
    /\ Confirmed(r)
    /\ ~Renewed(session[l])
    /\ ~session[l].tokenDue
    /\ ~upstream.denied
    /\ StateHeard(r, l)
    /\ Goes(r, "checked", l, 0, upstream.revision)
    /\ UNCHANGED <<central, login, session, lock, provider, upstream, created, faults>>

CheckCommitted(r, l) ==
    /\ At(r, "checked")
    /\ request[r].login = l
    /\ session' = [session EXCEPT ![l].revision = request[r].revision,
                                  ![l].checked = "fresh", ![l].retry = FALSE]
    /\ Unlocks(r)
    /\ Grants(r, l)
    /\ UNCHANGED <<central, login, provider, upstream, cached, created, faults>>

CentralStep(r, l) ==
    \/ StateAsked(r, l) \/ SessionConfirmed(r, l) \/ SessionEnded(r, l)
    \/ ActivityAnswered(r, l)
    \/ LockTaken(r, l) \/ LockRefused(r, l) \/ Rejected(r, l)
    \/ RotationUnneeded(r, l) \/ RotationAnswered(r, l) \/ RotationCommitted(r, l)
    \/ CheckUnneeded(r, l) \/ CheckAnswered(r, l) \/ CheckCommitted(r, l)

-----------------------------------------------------------------------------
(* Local mode: the row is written back by conditional updates *)

\* Mutant: the whole record is saved.
RowSaved(l, row) == row

\* UpdateSession does not touch a revoked row, nor ever the columns of the
\* revocation, of the expiry and of the last interaction.
RowUpdated(l, row) ==
    IF session[l].status = "revoked" THEN session[l]
    ELSE [row EXCEPT !.status = session[l].status, !.idle = session[l].idle]

UpdateSession(l, row) == session' = [session EXCEPT ![l] = RowUpdated(l, row)]

\* Nothing was due: the request writes back what it has read.
SeenRecorded(r, l) ==
    /\ At(r, "seeing")
    /\ request[r].login = l
    /\ UpdateSession(l, request[r].row)
    /\ IF session[l].status = "revoked" THEN Ends(r) ELSE Grants(r, l)
    /\ UNCHANGED <<central, login, lock, provider, upstream, cached, created, faults>>

\* Two requests may present the same refresh token; the second is refused.
TokensRefreshed(r, l) ==
    /\ request[r].step \in {"refreshing", "rejected"}
    /\ request[r].login = l
    /\ upstream.alive
    /\ request[r].token = provider[l]
    /\ provider[l] < MaxToken
    /\ provider' = [provider EXCEPT ![l] = @ + 1]
    /\ request' = [request EXCEPT ![r].step = IF At(r, "rejected") THEN "resolvingAgain"
                                             ELSE "resolving",
                                  ![r].token = provider[l] + 1]
    /\ UNCHANGED <<central, login, session, lock, upstream, cached, created, faults>>

TokensRefused(r, l) ==
    /\ request[r].step \in {"refreshing", "rejected"}
    /\ request[r].login = l
    /\ ~upstream.alive \/ request[r].token # provider[l]
    /\ Goes(r, "unauthenticated", l, 0, 0)
    /\ UNCHANGED <<central, login, session, lock, provider, upstream, cached, created, faults>>

\* The platform does not accept the access token: it is refreshed once.
AccessRejected(r, l) ==
    /\ request[r].step \in {"resolving", "resolvingAgain"}
    /\ request[r].login = l
    /\ request[r].token < MaxToken
    /\ IF At(r, "resolving") THEN request' = [request EXCEPT ![r].step = "rejected"]
       ELSE Goes(r, "unauthenticated", l, 0, 0)
    /\ UNCHANGED <<central, login, session, lock, provider, upstream, cached, created, faults>>

RightsResolved(r, l) ==
    /\ request[r].step \in {"resolving", "resolvingAgain"}
    /\ request[r].login = l
    /\ IF upstream.denied THEN Goes(r, "denied", l, 0, 0)
       ELSE Goes(r, "refreshed", l, request[r].token, upstream.revision)
    /\ UNCHANGED <<central, login, session, lock, provider, upstream, cached, created, faults>>

RefreshStored(r, l) ==
    /\ At(r, "refreshed")
    /\ request[r].login = l
    /\ UpdateSession(l, [AbsentRow EXCEPT !.status = "active", !.token = request[r].token,
                                          !.revision = request[r].revision])
    /\ IF session[l].status = "revoked" THEN Ends(r) ELSE Grants(r, l)
    /\ UNCHANGED <<central, login, lock, provider, upstream, cached, created, faults>>

\* A service is unavailable.  A read is served unchecked and puts the next
\* attempt off; tokens that were already refreshed are forgotten.
StaleServed(r, l) ==
    /\ request[r].step \in {"refreshing", "rejected", "resolving", "resolvingAgain"}
    /\ request[r].login = l
    /\ request[r].stale
    /\ UpdateSession(l, [request[r].row EXCEPT !.retry = TRUE])
    /\ Grants(r, l)
    /\ UNCHANGED <<central, login, lock, provider, upstream, cached, created, faults>>

\* A refusal of the tokens ends this session, one of the rights all of the user.
RefreshRefused(r, l) ==
    /\ request[r].step \in {"unauthenticated", "denied"}
    /\ request[r].login = l
    /\ session' = [k \in Logins |-> IF k = l \/ At(r, "denied") THEN Revoked(k)
                                    ELSE session[k]]
    /\ Ends(r)
    /\ UNCHANGED <<central, login, lock, provider, upstream, cached, created, faults>>

\* Explicit activity, the only thing that moves the idle deadline.
TouchBegun(r, l) ==
    /\ ~central
    /\ At(r, "idle")
    /\ session[l].status = "active"
    /\ ~session[l].idle
    /\ Goes(r, "touching", l, 0, 0)
    /\ UNCHANGED <<central, login, session, lock, provider, upstream, cached, created, faults>>

\* The deadlines are judged by the clock of TouchBegun.
Touched(r, l) ==
    /\ At(r, "touching")
    /\ request[r].login = l
    /\ session' = [session EXCEPT ![l].idle = @ /\ session[l].status = "revoked"]
    /\ Ends(r)
    /\ UNCHANGED <<central, login, lock, provider, upstream, cached, created, faults>>

LocalStep(r, l) ==
    \/ SeenRecorded(r, l) \/ TokensRefreshed(r, l) \/ TokensRefused(r, l)
    \/ AccessRejected(r, l) \/ RightsResolved(r, l) \/ RefreshStored(r, l) \/ StaleServed(r, l)
    \/ RefreshRefused(r, l) \/ Touched(r, l)

-----------------------------------------------------------------------------
(* Logout, rights and time *)

\* A logout revokes the session of the cookie, an expired one as well.
LoggedOut(l) ==
    /\ session[l].status \in {"active", "expired"}
    /\ lock[l] = NoRequest
    /\ RevokeSession(l)
    /\ UNCHANGED <<central, login, lock, request, provider, upstream, cached, created, faults>>

UpstreamEnds ==
    /\ upstream.alive
    /\ upstream' = [upstream EXCEPT !.alive = FALSE, !.logout = "sent"]
    /\ UNCHANGED <<central, login, session, lock, request, provider, cached, created, faults>>

\* A back-channel logout revokes all sessions of the upstream session at once.
\* Its token is consumed with it; a repeated delivery does nothing.
LogoutConsumed ==
    /\ upstream.logout = "sent"
    /\ \A l \in Logins : session[l].status \in {"active", "expired"} => lock[l] = NoRequest
    /\ upstream' = [upstream EXCEPT !.logout = "consumed"]
    /\ session' = [l \in Logins |-> Revoked(l)]
    /\ UNCHANGED <<central, login, lock, request, provider, cached, created, faults>>

\* Bound: the local protocol never compares revisions, one of them serves it.
RightsChanged ==
    /\ central
    /\ upstream.revision < MaxRevision
    /\ upstream' = [upstream EXCEPT !.revision = @ + 1]
    /\ UNCHANGED <<central, login, session, lock, request, provider, cached, created, faults>>

RightsWithdrawn ==
    /\ ~upstream.denied
    /\ upstream' = [upstream EXCEPT !.denied = TRUE]
    /\ UNCHANGED <<central, login, session, lock, request, provider, cached, created, faults>>

LoginExpires(l) ==
    /\ login[l].status = "open"
    /\ login' = [login EXCEPT ![l].status = "expired"]
    /\ UNCHANGED <<central, session, lock, request, provider, upstream, cached, created, faults>>

SessionExpires(l) ==
    /\ session[l].status = "active"
    /\ session' = [session EXCEPT ![l].status = "expired"]
    /\ UNCHANGED <<central, login, lock, request, provider, upstream, cached, created, faults>>

\* The times of a row age in the copies that will be written back, too.
Copies(r, l) == ~central /\ request[r].login = l /\ request[r].row.status = "active"

TokenAges(l) ==
    /\ session[l].status = "active"
    /\ ~session[l].tokenDue
    /\ session[l].token < MaxToken
    /\ session' = [session EXCEPT ![l].tokenDue = TRUE]
    /\ request' = [r \in Requests |-> IF Copies(r, l) /\ request[r].row.token <= session[l].token
                                      THEN [request[r] EXCEPT !.row.tokenDue = TRUE]
                                      ELSE request[r]]
    /\ UNCHANGED <<central, login, lock, provider, upstream, cached, created, faults>>

Later(checked) == IF checked = "fresh" THEN "due" ELSE "stale"

\* Only the local mode uses rights that were not checked in time.
AuthorizationAges(l) ==
    /\ session[l].status = "active"
    /\ session[l].checked # (IF central THEN "due" ELSE "stale")
    /\ session' = [session EXCEPT ![l].checked = Later(@)]
    /\ request' = [r \in Requests |-> IF Copies(r, l)
                                      THEN [request[r] EXCEPT !.row.checked = Later(@)]
                                      ELSE request[r]]
    /\ UNCHANGED <<central, login, lock, provider, upstream, cached, created, faults>>

IdleAges(l) ==
    /\ ~central
    /\ session[l].status = "active"
    /\ ~session[l].idle
    /\ session' = [session EXCEPT ![l].idle = TRUE]
    /\ UNCHANGED <<central, login, lock, request, provider, upstream, cached, created, faults>>

RetryPasses(l) ==
    /\ session[l].status = "active"
    /\ session[l].retry
    /\ session' = [session EXCEPT ![l].retry = FALSE]
    /\ UNCHANGED <<central, login, lock, request, provider, upstream, cached, created, faults>>

CacheExpires(l) ==
    /\ cached[l]
    /\ cached' = [cached EXCEPT ![l] = FALSE]
    /\ UNCHANGED <<central, login, session, lock, request, provider, upstream, created, faults>>

TimePasses(l) ==
    \/ LoginExpires(l) \/ SessionExpires(l) \/ TokenAges(l) \/ AuthorizationAges(l)
    \/ IdleAges(l) \/ RetryPasses(l) \/ CacheExpires(l)

-----------------------------------------------------------------------------

\* What a request that was begun does next.
Progress(r) ==
    \E l \in Logins : LoginStep(r, l) \/ CentralStep(r, l) \/ LocalStep(r, l)

Begun(r) ==
    \/ \E l \in Logins : LoginConsumed(r, l) \/ ActivityBegun(r, l) \/ TouchBegun(r, l)
    \/ \E l \in Logins, stale \in BOOLEAN : SessionFound(r, l, stale)

Next ==
    \/ \E l \in Logins : LoginStarted(l) \/ TicketAttached(l) \/ LoggedOut(l) \/ TimePasses(l)
    \/ \E r \in Requests : \/ Begun(r) \/ Progress(r) \/ Served(r)
                             \/ GivenUp(r) \/ RotationLost(r)
    \/ UpstreamEnds \/ LogoutConsumed \/ RightsChanged \/ RightsWithdrawn

Spec == Init /\ [][Next]_vars

\* Every call a request makes is bounded by a timeout; an answer stays cached for
\* five seconds at most.  Nothing is assumed of the order in which a row lock is granted.
Fairness == /\ \A r \in Requests : WF_vars(Progress(r)) /\ WF_vars(Served(r))
            /\ \A l \in Logins : WF_vars(CacheExpires(l))

FairSpec == Spec /\ Fairness

-----------------------------------------------------------------------------
(* Properties *)

RowType == [status : {"absent", "active", "expired", "revoked"}, token : 0 .. MaxToken,
            tokenDue : BOOLEAN, revision : 0 .. MaxRevision,
            checked : {"fresh", "due", "stale"}, retry : BOOLEAN, idle : BOOLEAN]

LoginSteps == {"exchanging", "authorizing", "authorizingAgain", "creating"}
Locked == {"rotating", "rotated", "checking", "checked"}
CentralSteps == Locked \cup {"found", "activity", "rotate", "check"}
LocalSteps == {"seeing", "refreshing", "rejected", "resolving", "resolvingAgain", "refreshed",
               "unauthenticated", "denied", "touching"}
Steps == {"idle", "granted"} \cup LoginSteps \cup CentralSteps \cup LocalSteps

RequestType == [step : Steps, login : Logins \cup {NoLogin}, stale : BOOLEAN, row : RowType,
                token : 0 .. MaxToken, revision : 0 .. MaxRevision,
                answer : {"none", "cached", "active", "inactive"}]

\* Every variable has a value of its type, and a row is locked only by a request
\* that is in the middle of a transaction on it.
TypeOK ==
    /\ central \in BOOLEAN
    /\ login \in [Logins -> [status : {"none", "open", "consumed", "expired"}, ticket : BOOLEAN]]
    /\ session \in [Logins -> RowType]
    /\ lock \in [Logins -> Requests \cup {NoRequest}]
    /\ request \in [Requests -> RequestType]
    /\ provider \in [Logins -> 0 .. MaxToken]
    /\ upstream \in [alive : BOOLEAN, revision : 1 .. MaxRevision, denied : BOOLEAN,
                     logout : {"none", "sent", "consumed"}]
    /\ cached \in [Logins -> BOOLEAN]
    /\ created \in [Logins -> Nat]
    /\ faults \in 0 .. MaxFaults
    /\ \A l \in Logins : lock[l] # NoRequest => /\ request[lock[l]].login = l
                                               /\ request[lock[l]].step \in Locked

\* A session that was revoked is never written again by a request that read it
\* before, and no write brings an expired one back; only explicit activity
\* brings a session back over its idle deadline (UpdateSession,
\* TouchSessionActivity, WithSessionLock).
DeadForGood ==
    [][\A l \in Logins :
         /\ session[l].status = "revoked" => session'[l] = session[l]
         /\ session[l].status = "expired" => session'[l].status # "active"
         /\ session[l].idle /\ ~session'[l].idle =>
              \E r \in Requests : At(r, "touching") /\ request[r].login = l]_vars

\* With the row lock, neither tokens nor rights of a session ever go back to an
\* earlier generation, however requests overlap (WithSessionLock).
CredentialsKept ==
    [][central => \A l \in Logins : /\ session[l].token <= session'[l].token
                                    /\ session[l].revision <= session'[l].revision]_vars

\* As long as no answer or commit is lost, the row of a live session holds the
\* latest refresh token, or a request that cannot be given up is about to store
\* it: leaving the page never costs a session (RotationContext, the two
\* transactions of authenticateCentral).
RotationKept ==
    central /\ faults = 0 =>
        \A l \in Logins : session[l].status = "active" =>
            \/ session[l].token = provider[l]
            \/ \E r \in Requests : At(r, "rotated") /\ request[r].login = l
                                   /\ request[r].token = provider[l]

\* However often a callback is delivered, a login makes one session at most
\* (ConsumeLoginTransaction).
OneSessionPerLogin == \A l \in Logins : created[l] <= 1

\* After the central session has ended, answers of the cache and requests under
\* way included, no request is served for ever (State, centralState).
LogoutTakesEffect ==
    <>[](central /\ ~upstream.alive => \A r \in Requests : ~At(r, "granted"))

\* No row stays locked: what a request does inside of its transaction, the
\* revocation of the row included, never waits for that transaction
\* (WithSessionLock, centralState with and without its revoke argument).
RowsUnlocked == \A l \in Logins : lock[l] # NoRequest ~> lock[l] = NoRequest
=============================================================================
