--------------------------- MODULE DeviceSessions ---------------------------
(***************************************************************************)
(* How one desktop gets, keeps and gives up its device session: sign-in    *)
(* through the browser (/desktop/auth/start, complete, exchange), pairing  *)
(* with a code (/devices/:id/pair), sign-out (/desktop/auth/logout),       *)
(* sign-out from another desktop (/desktop/devices/:id/revoke), and        *)
(* device.hello of the gateway.                                            *)
(*                                                                         *)
(* The session is in three places that are never written together: the     *)
(* device's row in the database, the API's memory (deviceStore and         *)
(* ownership), and the desktop (its keychain and App.tsx).  A route runs   *)
(* until its next await, so a request is a record that names what it does  *)
(* next.  All routes address one row by its id: other devices are left     *)
(* out, except that the owner may revoke the session from one of them.     *)
(* Attempts, handoffs and codes expire: nothing here has to use them, so    *)
(* one that has expired is one that is not used.                            *)
(***************************************************************************)
EXTENDS Naturals, FiniteSets, Sequences

CONSTANTS
    Users, NoUser,
    Requests,     \* requests and hellos the API works on at a time
    MaxTokens,    \* bound on device tokens issued
    MaxAttempts,  \* bound on clicks on Sign in
    MaxHandoffs,  \* bound on handoffs issued
    MaxCodes,     \* bound on pairing codes shown
    MaxFaults     \* bound on restarts and on failed writes and answers

ASSUME UserAssumption == NoUser \notin Users
ASSUME BoundAssumption ==
    {MaxTokens, MaxAttempts, MaxHandoffs, MaxCodes, MaxFaults} \subseteq Nat

Tokens == 1 .. MaxTokens
NoToken == 0
Handoffs == 1 .. MaxHandoffs

VARIABLES
    row,        \* the device's row: owner, token, whether it is live, pairing code
    owner,      \* ownership.getDeviceOwner
    paired,     \* the device's paired flag in deviceStore
    open,       \* sign-in attempts the API knows and that have not expired
    handoffs,   \* the handoff tokens issued
    req,        \* what each request in progress does next
    minted,     \* how many tokens were made; they are numbered by age
    queue,      \* device.token commands not yet delivered
    auth,       \* authState of App.tsx
    session,    \* sessionDeviceToken, also what the next hello carries
    kept,       \* the keychain's token
    login,      \* where handleDesktopSignIn waits
    carried,    \* the handoff the browser brought it
    attempt,    \* the sign-in attempt it made last
    logout,     \* the token handleDesktopSignOut gives up
    codes,      \* how many pairing codes were shown
    claimants,  \* history: users who claimed the device
    signedOut,  \* history: tokens given up by a sign-out that succeeded
    faults

deviceVars == <<row, owner, paired>>
handoffVars == <<open, handoffs>>
desktopVars == <<auth, session, kept, login, carried, attempt, logout>>
historyVars == <<claimants, signedOut>>
vars == <<deviceVars, handoffVars, req, minted, queue, desktopVars, codes, historyVars, faults>>

AuthStates == {"signed_out", "signing_in", "signed_in", "signing_out"}
Idle == [kind |-> "idle", at |-> "none", user |-> NoUser, token |-> NoToken, waited |-> FALSE]

Init ==
    /\ row = [owner |-> NoUser, token |-> NoToken, live |-> FALSE, code |-> FALSE]
    /\ owner = NoUser
    /\ paired = FALSE
    /\ open = {}
    /\ handoffs = [h \in Handoffs |-> [state |-> "none", user |-> NoUser, attempt |-> 0]]
    /\ req = [r \in Requests |-> Idle]
    /\ minted = 0
    /\ queue = <<>>
    /\ auth = "signed_out"
    /\ session = NoToken
    /\ kept = NoToken
    /\ login = "none"
    /\ carried = 0
    /\ attempt = 0
    /\ logout = NoToken
    /\ codes = 0
    /\ claimants = {}
    /\ signedOut = {}
    /\ faults = 0

-----------------------------------------------------------------------------
(* Parts of the routes *)

(* authenticateDesktopDeviceSession *)
Accepts(t) == t # NoToken /\ row.token = t /\ row.live /\ row.owner # NoUser

(* hasActiveDeviceSession *)
RowPaired == row.live /\ row.owner # NoUser /\ row.token # NoToken

(* waited: the desktop waits for the answer of this request *)
Begin(r, kind, at, user, token) ==
    /\ req[r].kind = "idle"
    /\ req' = [req EXCEPT ![r] = [kind |-> kind, at |-> at, user |-> user, token |-> token,
                                  waited |-> kind \in {"exchange", "logout"}]]

Waiting(kind) == \E r \in Requests : req[r].kind = kind /\ req[r].waited

(* The desktop hears no more of its requests of these kinds. *)
Forget(kinds) ==
    req' = [r \in Requests |-> IF req[r].kind \in kinds
                               THEN [req[r] EXCEPT !.waited = FALSE] ELSE req[r]]

Goes(r, at) == req' = [req EXCEPT ![r].at = at]
Ends(r) == req' = [req EXCEPT ![r] = Idle]

Fault == faults < MaxFaults /\ faults' = faults + 1

(* randomBytes: a token nobody has seen *)
Mint ==
    /\ minted < MaxTokens
    /\ minted' = minted + 1

(* devicesRepo.claimDevice *)
Claimed(user, token) == [owner |-> user, token |-> token, live |-> TRUE, code |-> FALSE]

-----------------------------------------------------------------------------
(* Sign-in: the desktop, the browser, and the API's attempts and handoffs *)

(* handleDesktopSignIn up to the wait for the loopback callback.  Bound: not *)
(* while an earlier sign-in still waits.                                     *)
ClickSignIn ==
    /\ session = NoToken /\ auth # "signing_in"
    /\ login = "none" /\ attempt < MaxAttempts
    /\ auth' = "signing_in"
    /\ login' = "callback"
    /\ attempt' = attempt + 1
    /\ open' = open \cup {attempt'}
    /\ UNCHANGED <<deviceVars, handoffs, req, minted, queue, session, kept, carried, logout,
                   codes, historyVars, faults>>

(* /desktop/auth/complete: the attempt stays, so the page may do it again. *)
IssueHandoff(h, u, a) ==
    /\ handoffs[h].state = "none"
    /\ \A g \in 1 .. h - 1 : handoffs[g].state # "none"
    /\ a \in open
    /\ handoffs' = [handoffs EXCEPT ![h] = [state |-> "issued", user |-> u, attempt |-> a]]
    /\ UNCHANGED <<deviceVars, open, req, minted, queue, desktopVars, codes, historyVars, faults>>

(* The browser comes to the loopback listener, which accepts it once. *)
BrowserReturns(h) ==
    /\ login = "callback"
    /\ handoffs[h].state # "none" /\ handoffs[h].attempt = attempt
    /\ login' = "exchange"
    /\ carried' = h
    /\ UNCHANGED <<deviceVars, handoffVars, req, minted, queue, auth, session, kept, attempt,
                   logout, codes, historyVars, faults>>

(* Variant: the memory is written before the database. *)
ExchangeEager(r) ==
    /\ login = "exchange"
    /\ handoffs[carried].state = "issued"
    /\ handoffs' = [handoffs EXCEPT ![carried].state = "consumed"]
    /\ Mint
    /\ Begin(r, "exchange", "claim", handoffs[carried].user, minted')
    /\ owner' = handoffs[carried].user
    /\ UNCHANGED <<row, paired, open, queue, desktopVars, codes, historyVars, faults>>

(* consumeHandoff, then the new token.  The network may repeat the request. *)
Exchange(r) ==
    /\ login = "exchange"
    /\ handoffs[carried].state = "issued"
    /\ handoffs' = [handoffs EXCEPT ![carried].state = "consumed"]
    /\ Mint
    /\ Begin(r, "exchange", "claim", handoffs[carried].user, minted')
    /\ UNCHANGED <<deviceVars, open, queue, desktopVars, codes, historyVars, faults>>

(* The desktop's fetch has the answer; the keychain takes the token, and the *)
(* socket is opened anew.                                                    *)
SignInAnswered(r) ==
    /\ req[r].kind = "exchange" /\ req[r].at = "answer"
    /\ Ends(r)
    /\ IF req[r].waited
       THEN /\ kept' = req[r].token
            /\ session' = req[r].token
            /\ auth' = "signed_in"
            /\ login' = "none"
       ELSE UNCHANGED <<kept, session, auth, login>>
    /\ UNCHANGED <<deviceVars, handoffVars, minted, queue, carried, attempt, logout, codes,
                   historyVars, faults>>

(* The callback does not come in time, or the exchange does not arrive, is *)
(* refused or fails.                                                       *)
SignInFails ==
    /\ login # "none" /\ ~Waiting("exchange")
    /\ login' = "none"
    /\ auth' = "signed_out"
    /\ UNCHANGED <<deviceVars, handoffVars, req, minted, queue, session, kept, carried, attempt,
                   logout, codes, historyVars, faults>>

(* The request or its answer is lost, or the keychain refuses the token. *)
SignInBreaks ==
    /\ login = "exchange" /\ Fault
    /\ Forget({"exchange"})
    /\ login' = "none"
    /\ auth' = "signed_out"
    /\ UNCHANGED <<deviceVars, handoffVars, minted, queue, session, kept, carried, attempt,
                   logout, codes, historyVars>>

-----------------------------------------------------------------------------
(* Pairing with a code *)

(* device.pairing.request_code *)
ShowCode ==
    /\ codes < MaxCodes
    /\ codes' = codes + 1
    /\ row' = [row EXCEPT !.code = TRUE]
    /\ UNCHANGED <<owner, paired, handoffVars, req, minted, queue, desktopVars,
                   historyVars, faults>>

(* The code is compared with the row as it was read before the claim. *)
Pair(r, u) ==
    /\ row.code
    /\ Mint
    /\ Begin(r, "pair", "claim", u, minted')
    /\ UNCHANGED <<deviceVars, handoffVars, queue, desktopVars, codes, historyVars, faults>>

(* The gateway's queue takes the device.token command, or loses it. *)
DispatchToken(r) ==
    /\ req[r].kind = "pair" /\ req[r].at = "dispatch"
    /\ Ends(r)
    /\ \/ queue' = Append(queue, req[r].token) /\ UNCHANGED faults
       \/ Fault /\ UNCHANGED queue
    /\ UNCHANGED <<deviceVars, handoffVars, minted, desktopVars, codes, historyVars>>

(* onDeviceToken of App.tsx, whatever token the desktop holds by now.  The *)
(* keychain may refuse; nobody waits for it.                               *)
TokenDelivered ==
    /\ queue # <<>>
    /\ queue' = Tail(queue)
    /\ session' = Head(queue)
    /\ auth' = "signed_in"
    /\ \/ kept' = Head(queue) /\ UNCHANGED faults
       \/ Fault /\ UNCHANGED kept
    /\ UNCHANGED <<deviceVars, handoffVars, req, minted, login, carried, attempt, logout, codes,
                   historyVars>>

-----------------------------------------------------------------------------
(* The claim that ends an exchange or a pairing *)

ClaimRow(r) ==
    /\ req[r].at = "claim"
    /\ row' = Claimed(req[r].user, req[r].token)
    /\ claimants' = claimants \cup {req[r].user}
    /\ Goes(r, "memory")
    /\ UNCHANGED <<owner, paired, handoffVars, minted, queue, desktopVars, codes,
                   signedOut, faults>>

(* The database fails: the route answers 500. *)
ClaimFails(r) ==
    /\ req[r].at = "claim" /\ Fault
    /\ Ends(r)
    /\ UNCHANGED <<deviceVars, handoffVars, minted, queue, desktopVars, codes, historyVars>>

(* deviceStore.claimDevice and setDeviceOwner *)
ClaimMemory(r) ==
    /\ req[r].kind \in {"exchange", "pair"} /\ req[r].at = "memory"
    /\ paired' = TRUE
    /\ owner' = req[r].user
    /\ Goes(r, IF req[r].kind = "pair" THEN "dispatch" ELSE "answer")
    /\ UNCHANGED <<row, handoffVars, minted, queue, desktopVars, codes, historyVars,
                   faults>>

-----------------------------------------------------------------------------
(* device.hello *)

(* The token is looked up in the database; without one the owner is null.  A *)
(* hello whose token is refused has its socket closed.                       *)
Hello(r) ==
    /\ session = NoToken \/ Accepts(session)
    /\ Begin(r, "hello", "register", IF session = NoToken THEN NoUser ELSE row.owner,
             session)
    /\ UNCHANGED <<deviceVars, handoffVars, minted, queue, desktopVars, codes, historyVars, faults>>

(* deviceStore.upsert and setDeviceOwner *)
HelloRegisters(r) ==
    /\ req[r].at = "register"
    /\ owner' = req[r].user
    /\ Goes(r, "upsert")
    /\ UNCHANGED <<row, paired, handoffVars, minted, queue, desktopVars, codes, historyVars,
                   faults>>

(* Variant: an accepted hello renews the session. *)
HelloRenews(r) ==
    /\ req[r].at = "upsert"
    /\ row' = IF req[r].user = NoUser THEN row
              ELSE [row EXCEPT !.owner = req[r].user, !.live = TRUE]
    /\ Ends(r)
    /\ UNCHANGED <<owner, paired, handoffVars, minted, queue, desktopVars, codes,
                   historyVars, faults>>

(* devicesRepo.upsertHello *)
HelloUpserts(r) ==
    /\ req[r].at = "upsert"
    /\ row' = IF req[r].user = NoUser THEN row ELSE [row EXCEPT !.owner = req[r].user]
    /\ Ends(r)
    /\ UNCHANGED <<owner, paired, handoffVars, minted, queue, desktopVars, codes,
                   historyVars, faults>>

-----------------------------------------------------------------------------
(* Sign-out, here and from another desktop *)

(* handleDesktopSignOut *)
ClickSignOut ==
    /\ session # NoToken /\ auth # "signing_out" /\ logout = NoToken
    /\ auth' = "signing_out"
    /\ logout' = session
    /\ UNCHANGED <<deviceVars, handoffVars, req, minted, queue, session, kept, login, carried, attempt,
                   codes, historyVars, faults>>

Logout(r) ==
    /\ logout # NoToken /\ ~Waiting("logout")
    /\ Accepts(logout)
    /\ Begin(r, "logout", "revoke", row.owner, logout)
    /\ UNCHANGED <<deviceVars, handoffVars, minted, queue, desktopVars, codes, historyVars, faults>>

(* Variant: only the memory forgets the session. *)
LogoutRowKept(r) ==
    /\ req[r].kind = "logout" /\ req[r].at = "revoke"
    /\ Goes(r, "memory")
    /\ UNCHANGED <<row, owner, paired, handoffVars, minted, queue, desktopVars, codes,
                   historyVars, faults>>

(* devicesRepo.revokeDeviceSession: only if the row still has this token *)
LogoutRow(r) ==
    /\ req[r].kind = "logout" /\ req[r].at = "revoke"
    /\ IF row.token = req[r].token
       THEN row' = [row EXCEPT !.live = FALSE] /\ Goes(r, "memory")
       ELSE UNCHANGED row /\ Ends(r)
    /\ UNCHANGED <<owner, paired, handoffVars, minted, queue, desktopVars, codes,
                   historyVars, faults>>

(* deviceStore.revokeSession and setDeviceOwner, also for a revoke whose *)
(* update found no row                                                   *)
RevokeMemory(r) ==
    /\ req[r].kind \in {"logout", "revoke"} /\ req[r].at = "memory"
    /\ paired' = FALSE
    /\ owner' = req[r].user
    /\ IF req[r].kind = "logout" THEN Goes(r, "answer") ELSE Ends(r)
    /\ UNCHANGED <<row, handoffVars, minted, queue, desktopVars, codes, historyVars,
                   faults>>

(* The API has revoked the session; the keychain's entry is cleared. *)
SignOutAnswered(r) ==
    /\ req[r].kind = "logout" /\ req[r].at = "answer"
    /\ Ends(r)
    /\ IF req[r].waited
       THEN /\ kept' = NoToken
            /\ session' = NoToken
            /\ auth' = "signed_out"
            /\ logout' = NoToken
            /\ signedOut' = signedOut \cup {req[r].token}
       ELSE UNCHANGED <<kept, session, auth, logout, signedOut>>
    /\ UNCHANGED <<deviceVars, handoffVars, minted, queue, login, carried, attempt, codes,
                   claimants, faults>>

(* 401: the session is not live, or was replaced meanwhile. *)
SignOutRefused ==
    /\ logout # NoToken /\ ~Waiting("logout")
    /\ ~Accepts(logout)
    /\ auth' = "signed_in"
    /\ logout' = NoToken
    /\ UNCHANGED <<deviceVars, handoffVars, req, minted, queue, session, kept, login, carried, attempt,
                   codes, historyVars, faults>>

(* The request or its answer is lost, or the keychain does not delete the entry. *)
SignOutBreaks ==
    /\ logout # NoToken /\ Fault
    /\ Forget({"logout"})
    /\ auth' = "signed_in"
    /\ logout' = NoToken
    /\ UNCHANGED <<deviceVars, handoffVars, minted, queue, session, kept, login, carried,
                   attempt, codes, historyVars>>

(* /desktop/devices/:deviceId/revoke, asked for on another desktop of u *)
Revoke(r, u) ==
    /\ row.owner = u /\ RowPaired
    /\ Begin(r, "revoke", "revoke", u, NoToken)
    /\ UNCHANGED <<deviceVars, handoffVars, minted, queue, desktopVars, codes, historyVars, faults>>

(* devicesRepo.revokeOwnedDeviceSession *)
RevokeRow(r) ==
    /\ req[r].kind = "revoke" /\ req[r].at = "revoke"
    /\ row' = IF row.owner = req[r].user THEN [row EXCEPT !.live = FALSE] ELSE row
    /\ Goes(r, "memory")
    /\ UNCHANGED <<owner, paired, handoffVars, minted, queue, desktopVars, codes,
                   historyVars, faults>>

(* Thirty days *)
SessionExpires ==
    /\ row.live
    /\ row' = [row EXCEPT !.live = FALSE]
    /\ UNCHANGED <<owner, paired, handoffVars, req, minted, queue, desktopVars, codes,
                   historyVars, faults>>

-----------------------------------------------------------------------------
(* Restarts *)

(* The memory is loaded from the database; attempts and handoffs are lost. *)
ApiRestart ==
    /\ Fault
    /\ req' = [r \in Requests |-> Idle]
    /\ open' = {}
    /\ handoffs' = [h \in Handoffs |-> IF handoffs[h].state = "none" THEN handoffs[h]
                                       ELSE [handoffs[h] EXCEPT !.state = "expired"]]
    /\ owner' = row.owner
    /\ paired' = RowPaired
    /\ UNCHANGED <<row, minted, queue, desktopVars, codes, historyVars>>

DesktopRestart ==
    /\ Fault
    /\ Forget({"exchange", "logout"})
    /\ session' = kept
    /\ auth' = IF kept = NoToken THEN "signed_out" ELSE "signed_in"
    /\ login' = "none"
    /\ logout' = NoToken
    /\ UNCHANGED <<deviceVars, handoffVars, minted, queue, kept, carried, attempt, codes,
                   historyVars>>

-----------------------------------------------------------------------------
Sign(r) ==
    \/ ClickSignIn \/ SignInFails \/ SignInBreaks
    \/ \E h \in Handoffs, u \in Users, a \in open : IssueHandoff(h, u, a)
    \/ \E h \in Handoffs : BrowserReturns(h)
    \/ Exchange(r) \/ SignInAnswered(r)

PairStep(r) ==
    \/ ShowCode \/ TokenDelivered \/ DispatchToken(r)
    \/ \E u \in Users : Pair(r, u)

ClaimStep(r) == ClaimRow(r) \/ ClaimFails(r) \/ ClaimMemory(r)

HelloStep(r) == Hello(r) \/ HelloRegisters(r) \/ HelloUpserts(r)

SignOutStep(r) ==
    \/ ClickSignOut \/ SignOutRefused \/ SignOutBreaks \/ SessionExpires
    \/ Logout(r) \/ LogoutRow(r) \/ RevokeMemory(r) \/ SignOutAnswered(r)
    \/ RevokeRow(r) \/ \E u \in Users : Revoke(r, u)

Next ==
    \/ \E r \in Requests :
          Sign(r) \/ PairStep(r) \/ ClaimStep(r) \/ HelloStep(r) \/ SignOutStep(r)
    \/ ApiRestart \/ DesktopRestart

Spec == Init /\ [][Next]_vars

-----------------------------------------------------------------------------
(* Properties *)

Request == [kind : {"idle", "exchange", "pair", "hello", "logout", "revoke"},
            at : {"none", "claim", "memory", "dispatch", "answer", "register", "upsert",
                  "revoke"},
            user : Users \cup {NoUser}, token : 0 .. MaxTokens, waited : BOOLEAN]

(* Every variable has the type of the code's data. *)
TypeOK ==
    /\ row \in [owner : Users \cup {NoUser}, token : 0 .. MaxTokens, live : BOOLEAN,
                code : BOOLEAN]
    /\ owner \in Users \cup {NoUser}
    /\ paired \in BOOLEAN
    /\ open \subseteq 1 .. MaxAttempts
    /\ handoffs \in [Handoffs -> [state : {"none", "issued", "consumed", "expired"},
                                  user : Users \cup {NoUser}, attempt : 0 .. MaxAttempts]]
    /\ req \in [Requests -> Request]
    /\ minted \in 0 .. MaxTokens
    /\ queue \in Seq(Tokens)
    /\ auth \in AuthStates
    /\ session \in 0 .. MaxTokens /\ kept \in 0 .. MaxTokens /\ logout \in 0 .. MaxTokens
    /\ login \in {"none", "callback", "exchange"}
    /\ carried \in 0 .. MaxHandoffs
    /\ attempt \in 0 .. MaxAttempts
    /\ codes \in 0 .. MaxCodes
    /\ claimants \subseteq Users
    /\ signedOut \subseteq Tokens
    /\ faults \in 0 .. MaxFaults

(* Whoever the database or the memory calls the owner of the device has claimed *)
(* it, by a sign-in or a pairing that reached the database, however slow        *)
(* hellos, claims and revokes overtake one another.                             *)
OwnersHaveClaimed == {row.owner, owner} \subseteq claimants \cup {NoUser}

(* A token given up by a sign-out that the desktop saw succeed is refused from *)
(* then on, whatever was in progress when it was revoked.                      *)
SignedOutTokensAreDead == \A t \in signedOut : ~Accepts(t)

(* A token that has been replaced, revoked or has expired is never accepted *)
(* again: no late write of the row brings a session back.                   *)
DeadTokensStayDead ==
    [][\A t \in Tokens : t <= minted /\ ~Accepts(t) /\ Accepts(t)'
                         => \E r \in Requests : req[r].at = "claim" /\ req[r].token = t]_vars
=============================================================================
