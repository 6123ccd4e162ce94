---------------------------- MODULE WebSessions ----------------------------
(***************************************************************************)
(* The sessions of one user's browsers: login, refresh, logout and logout  *)
(* of all sessions (apps/api/src/index.ts, repos/sessions.ts), and the     *)
(* browser's fetch wrapper, which refreshes and retries a request that was *)
(* answered 401 (apps/web/lib/auth.ts).                                    *)
(*                                                                         *)
(* A browser keeps a refresh token in a cookie, a short-lived access token *)
(* in another, and the access token of its login in local storage.  Pages  *)
(* send requests in parallel, and a refresh looks its session up and       *)
(* rotates it in two steps, so everything here may overlap.  Tokens are    *)
(* numbered by age.  Sessions of other users, failed logins and the        *)
(* deletion of sessions that have been over for weeks change nothing here. *)
(***************************************************************************)
EXTENDS Naturals

CONSTANTS
    Browsers, NoBrowser,  \* one user's
    Requests,     \* calls of apiFetch in progress at a time
    MaxSessions,  \* bound on logins
    MaxTokens,    \* bound on refresh tokens
    MaxFaults     \* bound on lost answers and failed writes

ASSUME BrowserAssumption == NoBrowser \notin Browsers
ASSUME BoundAssumption == {MaxSessions, MaxTokens, MaxFaults} \subseteq Nat

Sessions == 1 .. MaxSessions
Tokens == 1 .. MaxTokens
NoToken == 0
NoSession == 0

VARIABLES
    rows,         \* the sessions in the database
    minted,       \* how many refresh tokens were issued
    refresh,      \* the refresh cookie of each browser
    access,       \* whether its access cookie is there; it vanishes as it expires
    stored,       \* the access token in its local storage
    req,          \* the calls of apiFetch
    undisturbed,  \* history: signed in, and nothing happened that may end that
    quiet,        \* history: sessions revoked while no refresh was rotating them
    faults

browserVars == <<refresh, access, stored>>
vars == <<rows, minted, browserVars, req, undisturbed, quiet, faults>>

Kinds == {"api", "login", "logout", "logout_all"}

(* Where a call is: at the API ("sent", "refresh", "found"), or its answer *)
(* is on the way back (the others).                                        *)
Refreshing == {"refresh", "found", "rotated", "refused", "failed"}
Answers == {"denied", "rotated", "refused", "failed", "in", "out"}

(* bearer and cookie: what authorises the call; token: the refresh token it *)
(* carries or brings back; again: whether this is the call's retry          *)
Idle == [kind |-> "api", by |-> NoBrowser, at |-> "idle", bearer |-> "none",
         cookie |-> FALSE, token |-> NoToken, session |-> NoSession, again |-> FALSE]

Init ==
    /\ rows = [s \in Sessions |-> [state |-> "none", token |-> NoToken]]
    /\ minted = 0
    /\ refresh = [b \in Browsers |-> NoToken]
    /\ access = [b \in Browsers |-> FALSE]
    /\ stored = [b \in Browsers |-> "none"]
    /\ req = [r \in Requests |-> Idle]
    /\ undisturbed = [b \in Browsers |-> FALSE]
    /\ quiet = {}
    /\ faults = 0

-----------------------------------------------------------------------------
(* requireAuth: the bearer token is looked at before the cookie, and hides it *)
Authorised(r) ==
    IF req[r].bearer # "none" THEN req[r].bearer = "live" ELSE req[r].cookie

(* findByRefreshTokenHash, and the checks of the refresh route *)
Finds(t, s) == t # NoToken /\ rows[s].token = t /\ rows[s].state = "live"

Mint ==
    /\ minted < MaxTokens
    /\ minted' = minted + 1

(* revokeByRefreshTokenHash and revokeAllForUser *)
Revoke(ended) ==
    /\ rows' = [s \in Sessions |->
                  IF s \in ended THEN [rows[s] EXCEPT !.state = "revoked"] ELSE rows[s]]
    /\ quiet' = quiet \cup {s \in ended : \A r \in Requests :
                                ~(req[r].at = "found" /\ req[r].session = s)}

Fault == faults < MaxFaults /\ faults' = faults + 1

(* The calls of a browser that may change its cookies. *)
Busy(b, r) ==
    \E q \in Requests \ {r} :
        /\ req[q].by = b
        /\ req[q].at \in Refreshing \/ (req[q].at # "idle" /\ req[q].kind # "api")

Disturb(bs) == undisturbed' = [b \in Browsers |-> undisturbed[b] /\ b \notin bs]

-----------------------------------------------------------------------------
(* The browser: apiFetch *)

(* What fetch sends that the route looks at: the stored token as bearer and *)
(* the access cookie, or the refresh cookie.                                *)
Sent(b, kind) ==
    LET call == [Idle EXCEPT !.kind = kind, !.by = b, !.at = "sent"] IN
    CASE kind \in {"api", "logout_all"} ->
            [call EXCEPT !.bearer = stored[b], !.cookie = access[b]]
      [] kind = "logout" -> [call EXCEPT !.token = refresh[b]]

Send(r, b, kind) ==
    /\ req[r].at = "idle"
    /\ req' = [req EXCEPT ![r] = Sent(b, kind)]
    /\ Disturb(IF kind # "api" /\ Busy(b, r) THEN {b} ELSE {})
    /\ UNCHANGED <<rows, minted, browserVars, quiet, faults>>

(* A call answered 401 refreshes the session: refreshSession sends the cookie. *)
StartRefresh(r) ==
    LET b == req[r].by IN
    /\ req[r].at = "denied" /\ ~req[r].again
    /\ req' = [req EXCEPT ![r].at = "refresh", ![r].token = refresh[b], ![r].cookie = FALSE]
    /\ Disturb(IF Busy(b, r) THEN {b} ELSE {})
    /\ UNCHANGED <<rows, minted, browserVars, quiet, faults>>

(* Variant: the refresh cookie is not set. *)
RetryOldCookie(r) ==
    LET b == req[r].by IN
    /\ req[r].at = "rotated"
    /\ access' = [access EXCEPT ![b] = TRUE]
    /\ req' = [req EXCEPT ![r] = [Sent(b, req[r].kind) EXCEPT !.cookie = TRUE, !.again = TRUE]]
    /\ UNCHANGED <<rows, minted, refresh, stored, undisturbed, quiet, faults>>

(* The refresh succeeded: its cookies are set, and the call is sent again with *)
(* the bearer token local storage still holds.                                 *)
Retry(r) ==
    LET b == req[r].by IN
    /\ req[r].at = "rotated"
    /\ refresh' = [refresh EXCEPT ![b] = req[r].token]
    /\ access' = [access EXCEPT ![b] = TRUE]
    /\ req' = [req EXCEPT ![r] = [Sent(b, req[r].kind) EXCEPT !.cookie = TRUE, !.again = TRUE]]
    /\ UNCHANGED <<rows, minted, stored, undisturbed, quiet, faults>>

(* The refresh was refused: the answer clears the cookies, apiFetch the stored *)
(* token (so does getMe when it sent none), and the page goes to the login.    *)
(* After an error only the stored token goes.                                  *)
GiveUp(r) ==
    LET b == req[r].by
        mayKeep == req[r].bearer = "none" /\ req[r].kind = "api"
    IN
    /\ req[r].at \in {"refused", "failed"}
    /\ IF req[r].at = "refused"
       THEN /\ refresh' = [refresh EXCEPT ![b] = NoToken]
            /\ access' = [access EXCEPT ![b] = FALSE]
       ELSE UNCHANGED <<refresh, access>>
    /\ \/ stored' = [stored EXCEPT ![b] = "none"]
       \/ mayKeep /\ UNCHANGED stored
    /\ req' = [req EXCEPT ![r] = Idle]
    /\ UNCHANGED <<rows, minted, undisturbed, quiet, faults>>

(* The retry was answered 401 too: getMe and logout_all forget the stored token, *)
(* the others hand the answer to their caller.                                   *)
Fail(r) ==
    LET b == req[r].by IN
    /\ req[r].at = "denied" /\ req[r].again
    /\ \/ stored' = [stored EXCEPT ![b] = "none"]
       \/ req[r].kind = "api" /\ UNCHANGED stored
    /\ req' = [req EXCEPT ![r] = Idle]
    /\ UNCHANGED <<rows, minted, refresh, access, undisturbed, quiet, faults>>

(* login has succeeded *)
SignedIn(r) ==
    LET b == req[r].by IN
    /\ req[r].at = "in"
    /\ refresh' = [refresh EXCEPT ![b] = req[r].token]
    /\ access' = [access EXCEPT ![b] = TRUE]
    /\ stored' = [stored EXCEPT ![b] = "live"]
    /\ undisturbed' = [undisturbed EXCEPT ![b] =
                         ~Busy(b, r) /\ \E s \in Sessions : Finds(req[r].token, s)]
    /\ req' = [req EXCEPT ![r] = Idle]
    /\ UNCHANGED <<rows, minted, quiet, faults>>

(* logout or logout_all has succeeded *)
SignedOut(r) ==
    LET b == req[r].by IN
    /\ req[r].at = "out"
    /\ refresh' = [refresh EXCEPT ![b] = NoToken]
    /\ access' = [access EXCEPT ![b] = FALSE]
    /\ stored' = [stored EXCEPT ![b] = "none"]
    /\ Disturb({b})
    /\ req' = [req EXCEPT ![r] = Idle]
    /\ UNCHANGED <<rows, minted, quiet, faults>>

(* An answer is lost, or the page is left: its cookies are not set.  A logout *)
(* forgets the stored token all the same.                                     *)
LoseAnswer(r) ==
    LET b == req[r].by IN
    /\ req[r].at \in Answers
    /\ Fault
    /\ stored' = IF req[r].kind \in {"logout", "logout_all"}
                 THEN [stored EXCEPT ![b] = "none"] ELSE stored
    /\ Disturb({b})
    /\ req' = [req EXCEPT ![r] = Idle]
    /\ UNCHANGED <<rows, minted, refresh, access, quiet>>

-----------------------------------------------------------------------------
(* The API *)

(* Any route that calls requireAuth and does not touch sessions; its answer, *)
(* when it serves the call, does nothing to the browser's state.             *)
Serve(r) ==
    /\ req[r].kind = "api" /\ req[r].at = "sent"
    /\ req' = [req EXCEPT ![r] = IF Authorised(r) THEN Idle ELSE [req[r] EXCEPT !.at = "denied"]]
    /\ UNCHANGED <<rows, minted, browserVars, undisturbed, quiet, faults>>

(* login and /auth/login up to its answer: startSession.  Nothing the browser *)
(* sends with it decides what it does.                                        *)
Login(r, b, s) ==
    /\ req[r].at = "idle"
    /\ rows[s].state = "none"
    /\ \A o \in 1 .. s - 1 : rows[o].state # "none"
    /\ Mint
    /\ rows' = [rows EXCEPT ![s] = [state |-> "live", token |-> minted']]
    /\ req' = [req EXCEPT ![r] =
                 [Idle EXCEPT !.kind = "login", !.by = b, !.at = "in", !.token = minted']]
    /\ Disturb(IF Busy(b, r) THEN {b} ELSE {})
    /\ UNCHANGED <<browserVars, quiet, faults>>

(* Variant: a revoked session is found like any other. *)
FindSessionRevoked(r) ==
    LET having == {s \in Sessions : req[r].token # NoToken /\ rows[s].token = req[r].token} IN
    /\ req[r].at = "refresh"
    /\ IF having = {}
       THEN req' = [req EXCEPT ![r].at = "refused", ![r].token = NoToken]
       ELSE \E s \in having :
               req' = [req EXCEPT ![r].at = "found", ![r].session = s, ![r].token = NoToken]
    /\ UNCHANGED <<rows, minted, browserVars, undisturbed, quiet, faults>>

(* /auth/refresh up to the await of rotate *)
FindSession(r) ==
    LET having == {s \in Sessions : Finds(req[r].token, s)} IN
    /\ req[r].at = "refresh"
    /\ IF having = {}
       THEN req' = [req EXCEPT ![r].at = "refused", ![r].token = NoToken]
       ELSE \E s \in having :
               req' = [req EXCEPT ![r].at = "found", ![r].session = s, ![r].token = NoToken]
    /\ UNCHANGED <<rows, minted, browserVars, undisturbed, quiet, faults>>

(* Variant: the session's expiry is renewed, its token is not. *)
RotateExpiry(r) ==
    /\ req[r].at = "found"
    /\ rows' = [rows EXCEPT ![req[r].session].state = "live"]
    /\ req' = [req EXCEPT ![r].at = "rotated", ![r].token = rows[req[r].session].token,
                          ![r].session = NoSession]
    /\ UNCHANGED <<minted, browserVars, undisturbed, quiet, faults>>

(* rotate, by the session's id: whatever became of it since it was found, it *)
(* has the new token, a new expiry, and is not revoked.                      *)
Rotate(r) ==
    /\ req[r].at = "found"
    /\ Mint
    /\ rows' = [rows EXCEPT ![req[r].session] = [state |-> "live", token |-> minted']]
    /\ req' = [req EXCEPT ![r].at = "rotated", ![r].token = minted', ![r].session = NoSession]
    /\ UNCHANGED <<browserVars, undisturbed, quiet, faults>>

RotateFails(r) ==
    /\ req[r].at = "found"
    /\ Fault
    /\ req' = [req EXCEPT ![r].at = "failed", ![r].session = NoSession]
    /\ UNCHANGED <<rows, minted, browserVars, undisturbed, quiet>>

(* /auth/logout: the session of the token the call carries *)
Logout(r) ==
    LET ended == {s \in Sessions : /\ req[r].token # NoToken /\ rows[s].token = req[r].token
                                  /\ rows[s].state \in {"live", "expired"}} IN
    /\ req[r].kind = "logout" /\ req[r].at = "sent"
    /\ Revoke(ended)
    /\ req' = [req EXCEPT ![r] = [Idle EXCEPT !.kind = req[r].kind, !.by = req[r].by, !.at = "out"]]
    /\ Disturb({req[r].by})
    /\ UNCHANGED <<minted, browserVars, faults>>

(* /auth/logout_all *)
LogoutAll(r) ==
    LET ended == {s \in Sessions : rows[s].state \in {"live", "expired"}} IN
    /\ req[r].kind = "logout_all" /\ req[r].at = "sent"
    /\ IF Authorised(r)
       THEN /\ Revoke(ended)
            /\ req' = [req EXCEPT ![r] = [Idle EXCEPT !.kind = req[r].kind, !.by = req[r].by, !.at = "out"]]
            /\ Disturb(Browsers)
       ELSE /\ req' = [req EXCEPT ![r].at = "denied"]
            /\ UNCHANGED <<rows, undisturbed, quiet>>
    /\ UNCHANGED <<minted, browserVars, faults>>

-----------------------------------------------------------------------------
(* Time *)

(* The access tokens of a browser expire.  A refresh is only sent after that, so *)
(* the stored token and the cookie of one login go together.                    *)
AccessExpires(b) ==
    /\ access[b] \/ stored[b] = "live"
    /\ access' = [access EXCEPT ![b] = FALSE]
    /\ stored' = IF stored[b] = "live" THEN [stored EXCEPT ![b] = "expired"] ELSE stored
    /\ UNCHANGED <<rows, minted, refresh, req, undisturbed, quiet, faults>>

(* The end of a session's weeks; a browser that holds its token loses it. *)
SessionExpires(s) ==
    /\ rows[s].state = "live"
    /\ rows' = [rows EXCEPT ![s].state = "expired"]
    /\ Disturb({b \in Browsers : refresh[b] = rows[s].token
                  \/ \E r \in Requests : req[r].by = b /\ req[r].at = "rotated"
                                           /\ req[r].token = rows[s].token})
    /\ UNCHANGED <<minted, browserVars, req, quiet, faults>>

Next ==
    \/ \E r \in Requests, b \in Browsers :
          \/ \E kind \in {"api", "logout", "logout_all"} : Send(r, b, kind)
          \/ \E s \in Sessions : Login(r, b, s)
    \/ \E r \in Requests :
          \/ StartRefresh(r) \/ Retry(r) \/ GiveUp(r) \/ Fail(r)
          \/ SignedIn(r) \/ SignedOut(r) \/ LoseAnswer(r)
          \/ Serve(r) \/ FindSession(r) \/ Rotate(r) \/ RotateFails(r)
          \/ Logout(r) \/ LogoutAll(r)
    \/ \E b \in Browsers : AccessExpires(b)
    \/ \E s \in Sessions : SessionExpires(s)

Spec == Init /\ [][Next]_vars

-----------------------------------------------------------------------------
(* Every variable has the type of the code's data; a session in the database  *)
(* always has a token of its own, and no token is numbered beyond those       *)
(* issued.                                                                    *)
TypeOK ==
    /\ rows \in [Sessions -> [state : {"none", "live", "expired", "revoked"}, token : 0 .. minted]]
    /\ minted \in 0 .. MaxTokens
    /\ refresh \in [Browsers -> 0 .. minted]
    /\ access \in [Browsers -> BOOLEAN]
    /\ stored \in [Browsers -> {"none", "live", "expired"}]
    /\ req \in [Requests -> [kind : Kinds, by : Browsers \cup {NoBrowser},
                              at : {"idle", "sent", "refresh", "found"} \cup Answers,
                              bearer : {"none", "live", "expired"}, cookie : BOOLEAN,
                              token : 0 .. minted, session : Sessions \cup {NoSession},
                              again : BOOLEAN]]
    /\ undisturbed \in [Browsers -> BOOLEAN]
    /\ quiet \subseteq Sessions
    /\ faults \in 0 .. MaxFaults
    /\ \A s, u \in Sessions : rows[s].state # "none" =>
          rows[s].token # NoToken /\ (s # u => rows[u].token # rows[s].token)

(* Refreshing alone never signs a browser out (/auth/refresh and apiFetch): a *)
(* browser that signed in, and since then neither asked for a logout, nor     *)
(* overlapped two calls that set cookies, nor missed an answer, holds the     *)
(* token of a session that is live, unless it is being refreshed right now.   *)
RefreshKeepsSignedIn ==
    \A b \in Browsers :
        undisturbed[b] =>
            \/ \E s \in Sessions : Finds(refresh[b], s)
            \/ \E r \in Requests, s \in Sessions :
                  /\ req[r].by = b /\ req[r].at = "rotated"
                  /\ Finds(req[r].token, s)

(* A logout lasts (/auth/logout, /auth/logout_all, sessionsRepo.rotate): a     *)
(* session revoked while no refresh stood between its lookup and its rotation  *)
(* stays revoked.  A refresh that did would revive it.                         *)
QuietLogoutLasts == \A s \in quiet : rows[s].state = "revoked"

Usable(t) == \E s \in Sessions : Finds(t, s)

(* A refresh token that was issued and no longer opens a session never opens   *)
(* one again (sessionsRepo.rotate): a refresh that revives a session gives it  *)
(* a token nobody has, so the replaced one stays refused.                      *)
DeadTokensStayDead ==
    [][\A t \in 1 .. minted : ~Usable(t) => ~Usable(t)']_vars

(* "Access tokens are short-lived (30 min). Refresh tokens handle session      *)
(* persistence.": a call sent again with the access cookie of a refresh that   *)
(* succeeded is served.  It is not when local storage still holds the expired  *)
(* token of the login: apiFetch sends it as bearer, and requireAuth looks at   *)
(* nothing else.                                                               *)
RefreshedCallIsServed ==
    \A r \in Requests : req[r].at = "denied" /\ req[r].again => ~req[r].cookie
=============================================================================
