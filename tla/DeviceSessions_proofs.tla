------------------------ MODULE DeviceSessions_proofs ------------------------
(***************************************************************************)
(* Proofs about DeviceSessions, for any set of users, any number of        *)
(* requests at a time and any number of tokens, attempts, codes and        *)
(* faults.  The inductive invariant says of every request in progress on   *)
(* whose behalf it works, and where its token may be besides (Sound): the  *)
(* token of a claim that has not reached the row yet is nowhere else.      *)
(***************************************************************************)
EXTENDS DeviceSessions, SequenceTheorems, TLAPS

(* The type invariant in parts *)
RowType == row \in [owner : Users \cup {NoUser}, token : 0 .. MaxTokens, live : BOOLEAN,
                    code : BOOLEAN]
ApiTypes ==
    /\ owner \in Users \cup {NoUser} /\ paired \in BOOLEAN
    /\ open \subseteq 1 .. MaxAttempts
    /\ handoffs \in [Handoffs -> [state : {"none", "issued", "consumed", "expired"},
                                  user : Users \cup {NoUser}, attempt : 0 .. MaxAttempts]]
DesktopTypes ==
    /\ auth \in AuthStates
    /\ session \in 0 .. MaxTokens /\ kept \in 0 .. MaxTokens /\ logout \in 0 .. MaxTokens
    /\ login \in {"none", "callback", "exchange"}
    /\ carried \in 0 .. MaxHandoffs /\ attempt \in 0 .. MaxAttempts
CountTypes ==
    /\ minted \in 0 .. MaxTokens /\ codes \in 0 .. MaxCodes
    /\ claimants \subseteq Users /\ signedOut \subseteq Tokens /\ faults \in 0 .. MaxFaults
Types ==
    RowType /\ ApiTypes /\ DesktopTypes /\ CountTypes
    /\ req \in [Requests -> Request] /\ queue \in Seq(Tokens)

(* A live session has an owner. *)
RowOK(w) == w.live => w.owner # NoUser

(* A handoff that was issued is a user's, and the desktop exchanges one. *)
HandoffsOK ==
    /\ \A h \in Handoffs : handoffs[h].state # "none" => handoffs[h].user \in Users
    /\ login = "exchange" => carried \in Handoffs

(* The request x, with the row w, the users cl who claimed the device, mn   *)
(* tokens made and the tokens so given up.                                   *)
Sound(x, w, cl, mn, so) ==
    /\ x.token <= mn
    /\ x.kind \in {"exchange", "pair", "logout"} => x.token \in Tokens
    /\ x.at = "claim" => /\ x.kind \in {"exchange", "pair"} /\ x.user \in Users
                         /\ x.token # w.token /\ x.token \notin so
    /\ x.at # "claim" => x.user \in cl \cup {NoUser}
    /\ x.kind = "logout" /\ x.at \in {"memory", "answer"} /\ w.token = x.token => ~w.live

(* No request has the token of another one that has yet to claim the row. *)
Apart == \A q, s \in Requests : q # s /\ req[q].at = "claim" => req[s].token # req[q].token

Known ==
    /\ row.token <= minted /\ \A t \in signedOut : t <= minted
    /\ \A t \in signedOut : row.token = t => ~row.live

RequestsSound == \A q \in Requests : Sound(req[q], row, claimants, minted, signedOut)

IInv ==
    /\ Types /\ RowOK(row) /\ HandoffsOK /\ RequestsSound /\ Apart /\ Known /\ OwnersHaveClaimed

-----------------------------------------------------------------------------
(* What a step leaves alone *)

LEMMA SoundFrame ==
  ASSUME NEW x, Sound(x, row, claimants, minted, signedOut),
         row'.token = row.token, row'.live => row.live,
         claimants \subseteq claimants', signedOut' = signedOut,
         minted \in Nat, minted' \in Nat, minted <= minted', x.token \in Nat
  PROVE  Sound(x, row', claimants', minted', signedOut')
BY DEF Sound

LEMMA TypesSplit == TypeOK <=> Types
BY DEF TypeOK, Types, RowType, ApiTypes, DesktopTypes, CountTypes

(* The invariant is inductive: one step per action. *)
LEMMA IInvNext == IInv /\ [Next]_vars => IInv'
<1> SUFFICES ASSUME IInv, [Next]_vars PROVE IInv'
  OBVIOUS
<1>0. /\ Types /\ RowOK(row) /\ HandoffsOK /\ RequestsSound /\ Apart /\ Known /\ OwnersHaveClaimed
      /\ RowType /\ ApiTypes /\ DesktopTypes /\ CountTypes
      /\ req \in [Requests -> Request] /\ queue \in Seq(Tokens)
  BY DEF IInv, Types
<1>1. /\ MaxTokens \in Nat /\ MaxAttempts \in Nat /\ MaxHandoffs \in Nat /\ MaxCodes \in Nat
      /\ MaxFaults \in Nat /\ NoUser \notin Users
  BY BoundAssumption, UserAssumption
<1>2. /\ minted \in Nat /\ minted <= MaxTokens /\ faults \in 0 .. MaxFaults /\ codes \in 0 .. MaxCodes
      /\ claimants \subseteq Users /\ signedOut \subseteq Tokens
  BY <1>0, <1>1 DEF CountTypes
<1>3. /\ \A q \in Requests : req[q] \in Request
      /\ \A q \in Requests : Sound(req[q], row, claimants, minted, signedOut)
      /\ \A q, s \in Requests : q # s /\ req[q].at = "claim" => req[s].token # req[q].token
  BY <1>0 DEF RequestsSound, Apart
<1>4. /\ Idle \in Request /\ Idle.at = "none" /\ Idle.kind = "idle" /\ Idle.token = 0
      /\ Idle.user = NoUser
  BY <1>1 DEF Idle, Request, NoToken
<1>5. /\ row.owner \in claimants \cup {NoUser} /\ owner \in claimants \cup {NoUser}
      /\ row.token \in Nat /\ row.token <= MaxTokens /\ row.live \in BOOLEAN /\ row.code \in BOOLEAN
      /\ row.owner \in Users \cup {NoUser}
  BY <1>0, <1>1 DEF RowType, OwnersHaveClaimed
<1>6. /\ row.token <= minted
      /\ \A t \in signedOut : t <= minted
      /\ \A t \in signedOut : row.token = t => ~row.live
  BY <1>0 DEF Known
<1>7. \A q \in Requests : req[q].token \in Nat /\ req[q].token <= minted
  <2>1. \A q \in Requests : req[q].token \in Nat
    BY <1>1, <1>3 DEF Request
  <2> QED BY <1>3, <2>1 DEF Sound

(* The steps that mint no token, claim nothing and give up nothing. *)
<1>8. ASSUME Types', UNCHANGED <<claimants, signedOut, minted>>, HandoffsOK',
             row'.token = row.token, row'.live => row.live, row'.live => row'.owner # NoUser,
             row'.owner \in claimants \cup {NoUser}, owner' \in claimants \cup {NoUser},
             \A q \in Requests :
                \/ req'[q] = Idle
                \/ /\ req'[q].kind = req[q].kind /\ req'[q].user = req[q].user
                   /\ req'[q].token = req[q].token
                   /\ \/ req'[q].at = req[q].at
                      \/ /\ req[q].at # "claim" /\ req'[q].at # "claim"
                         /\ req'[q].kind = "logout" /\ req'[q].at \in {"memory", "answer"}
                               /\ row'.token = req'[q].token => ~row'.live
                \/ /\ req'[q].at \notin {"claim", "memory", "answer"}
                   /\ req'[q].kind \in {"hello", "logout", "revoke"}
                   /\ req'[q].user \in claimants \cup {NoUser}
                   /\ req'[q].token \in {0, row.token}
                   /\ req'[q].kind = "logout" => req'[q].token # 0
      PROVE  IInv'
  <2>1. \A q \in Requests : Sound(req'[q], row', claimants', minted', signedOut')
    <3> SUFFICES ASSUME NEW q \in Requests
                 PROVE  Sound(req'[q], row', claimants', minted', signedOut')
      OBVIOUS
    <3>0. Sound(req[q], row, claimants, minted, signedOut)
      BY <1>3
    <3>1. CASE req'[q] = Idle
      BY <1>2, <1>4, <1>8, <3>1 DEF Sound
    <3>2. CASE /\ req'[q].kind = req[q].kind /\ req'[q].user = req[q].user
               /\ req'[q].token = req[q].token
               /\ \/ req'[q].at = req[q].at
                  \/ /\ req[q].at # "claim" /\ req'[q].at # "claim"
                     /\ req'[q].kind = "logout" /\ req'[q].at \in {"memory", "answer"}
                           /\ row'.token = req'[q].token => ~row'.live
      BY <1>8, <3>0, <3>2 DEF Sound
    <3>3. CASE /\ req'[q].at \notin {"claim", "memory", "answer"}
               /\ req'[q].kind \in {"hello", "logout", "revoke"}
               /\ req'[q].user \in claimants \cup {NoUser}
               /\ req'[q].token \in {0, row.token}
               /\ req'[q].kind = "logout" => req'[q].token # 0
      <4>1. req'[q].token <= minted /\ (req'[q].token # 0 => req'[q].token \in Tokens)
        BY <1>1, <1>2, <1>5, <1>6, <3>3 DEF Tokens
      <4> QED BY <1>8, <3>3, <4>1 DEF Sound
    <3> QED BY <1>8, <3>1, <3>2, <3>3
  <2>2. \A q, s \in Requests : q # s /\ req'[q].at = "claim" => req'[s].token # req'[q].token
    <3> SUFFICES ASSUME NEW q \in Requests, NEW s \in Requests, q # s, req'[q].at = "claim"
                 PROVE  req'[s].token # req'[q].token
      OBVIOUS
    <3>1. req[q].at = "claim" /\ req'[q].token = req[q].token
      BY <1>4, <1>8
    <3>2. req[q].token # 0 /\ req[q].token # row.token /\ req[s].token # req[q].token
      BY <1>1, <1>3, <3>1 DEF Sound, Tokens
    <3>3. req'[s].token \in {0, row.token, req[s].token}
      BY <1>4, <1>8
    <3> QED BY <3>1, <3>2, <3>3
  <2>3. Known'
    BY <1>6, <1>8 DEF Known
  <2>4. OwnersHaveClaimed'
    BY <1>8 DEF OwnersHaveClaimed
  <2>5. RowOK(row')
    BY <1>8 DEF RowOK
  <2> QED BY <1>8, <2>1, <2>2, <2>3, <2>4, <2>5 DEF IInv, RequestsSound, Apart

(* A new token *)
<1>9. ASSUME Types', UNCHANGED <<row, owner, claimants, signedOut>>, HandoffsOK',
             minted' = minted + 1, minted' <= MaxTokens, NEW r \in Requests,
             req'[r].at = "claim", req'[r].kind \in {"exchange", "pair"}, req'[r].user \in Users,
             req'[r].token = minted', \A q \in Requests : q # r => req'[q] = req[q]
      PROVE  IInv'
  <2>1. \A q \in Requests : Sound(req'[q], row', claimants', minted', signedOut')
    <3>1. ASSUME NEW q \in Requests, q # r
          PROVE  Sound(req'[q], row', claimants', minted', signedOut')
      <4>1. Sound(req[q], row, claimants, minted, signedOut) /\ req[q].token <= minted'
        BY <1>2, <1>3, <1>7, <1>9
      <4> QED BY <1>9, <3>1, <4>1 DEF Sound
    <3>2. Sound(req'[r], row', claimants', minted', signedOut')
      <4>1. minted' \in Tokens /\ minted' # row.token /\ minted' \notin signedOut
        BY <1>1, <1>2, <1>5, <1>6, <1>9 DEF Tokens
      <4> QED BY <1>2, <1>9, <4>1 DEF Sound
    <3> QED BY <3>1, <3>2
  <2>2. \A q, s \in Requests : q # s /\ req'[q].at = "claim" => req'[s].token # req'[q].token
    <3>1. \A q \in Requests : q # r => req'[q].token # req'[r].token
      BY <1>2, <1>7, <1>9
    <3> QED BY <1>3, <1>9, <3>1
  <2>3. Known'
    <3>1. row.token <= minted + 1 /\ \A t \in signedOut : t <= minted + 1
      BY <1>2, <1>5, <1>6 DEF Tokens
    <3> QED BY <1>6, <1>9, <3>1 DEF Known
  <2>4. OwnersHaveClaimed' /\ RowOK(row')
    BY <1>0, <1>5, <1>9 DEF OwnersHaveClaimed
  <2> QED BY <1>9, <2>1, <2>2, <2>3, <2>4 DEF IInv, RequestsSound, Apart

(* The ways a request changes *)
<1>10. ASSUME NEW r \in Requests, Ends(r)
       PROVE  /\ req'[r] = Idle /\ \A q \in Requests : q # r => req'[q] = req[q]
              /\ req' \in [Requests -> Request]
  BY <1>0, <1>4, <1>10 DEF Ends
<1>11. ASSUME NEW r \in Requests, NEW at, Goes(r, at),
              at \in {"none", "claim", "memory", "dispatch", "answer", "register", "upsert", "revoke"}
       PROVE  /\ req'[r].at = at /\ req'[r].kind = req[r].kind /\ req'[r].user = req[r].user
              /\ req'[r].token = req[r].token
              /\ \A q \in Requests : q # r => req'[q] = req[q]
              /\ req' \in [Requests -> Request]
  <2>1. [req[r] EXCEPT !.at = at] \in Request
    BY <1>3, <1>11 DEF Request
  <2>2. req' = [req EXCEPT ![r] = [req[r] EXCEPT !.at = at]]
    BY <1>11 DEF Goes
  <2>3. req'[r] = [req[r] EXCEPT !.at = at]
    BY <1>0, <2>2
  <2>4. req'[r].at = at /\ req'[r].kind = req[r].kind /\ req'[r].user = req[r].user
        /\ req'[r].token = req[r].token
    BY <1>3, <2>3 DEF Request
  <2> QED BY <1>0, <2>1, <2>2, <2>4
<1>12. ASSUME NEW kinds, Forget(kinds)
       PROVE  /\ \A q \in Requests : /\ req'[q].at = req[q].at /\ req'[q].kind = req[q].kind
                                     /\ req'[q].user = req[q].user /\ req'[q].token = req[q].token
              /\ req' \in [Requests -> Request]
  <2>1. \A q \in Requests : [req[q] EXCEPT !.waited = FALSE] \in Request
    BY <1>3 DEF Request
  <2>2. \A q \in Requests : req'[q] = IF req[q].kind \in kinds THEN [req[q] EXCEPT !.waited = FALSE]
                                      ELSE req[q]
    BY <1>12 DEF Forget
  <2>3. \A q \in Requests : req'[q] \in Request
    BY <1>3, <2>1, <2>2
  <2>4. \A q \in Requests : /\ req'[q].at = req[q].at /\ req'[q].kind = req[q].kind
                            /\ req'[q].user = req[q].user /\ req'[q].token = req[q].token
    BY <1>3, <2>2 DEF Request
  <2> QED BY <1>12, <2>3, <2>4 DEF Forget
<1>13. ASSUME NEW r \in Requests, NEW kind, NEW at, NEW user, NEW token, Begin(r, kind, at, user, token),
              kind \in {"exchange", "pair", "hello", "logout", "revoke"},
              at \in {"claim", "register", "revoke"},
              user \in Users \cup {NoUser}, token \in 0 .. MaxTokens
       PROVE  /\ req'[r].kind = kind /\ req'[r].at = at /\ req'[r].user = user /\ req'[r].token = token
              /\ \A q \in Requests : q # r => req'[q] = req[q]
              /\ req' \in [Requests -> Request]
  <2> DEFINE x == [kind |-> kind, at |-> at, user |-> user, token |-> token,
                   waited |-> kind \in {"exchange", "logout"}]
  <2>1. x \in Request
    BY <1>13 DEF Request
  <2>2. req' = [req EXCEPT ![r] = x]
    BY <1>13 DEF Begin
  <2>3. x.kind = kind /\ x.at = at /\ x.user = user /\ x.token = token
    OBVIOUS
  <2> HIDE DEF x
  <2> QED BY <1>0, <2>1, <2>2, <2>3
<1>14. ASSUME Fault PROVE faults' \in 0 .. MaxFaults
  BY <1>1, <1>2, <1>14 DEF Fault
<1>15. ASSUME UNCHANGED row
       PROVE  /\ RowType' /\ row'.token = row.token /\ (row'.live => row.live)
              /\ (row'.live => row'.owner # NoUser)
              /\ row'.owner \in claimants \cup {NoUser}
  BY <1>0, <1>5, <1>15 DEF RowType, RowOK
<1>16. ASSUME UNCHANGED <<handoffs, open, paired>>, owner' \in Users \cup {NoUser} PROVE ApiTypes'
  BY <1>0, <1>16 DEF ApiTypes
<1>17. ASSUME UNCHANGED <<minted, codes, claimants, signedOut>>, faults' \in 0 .. MaxFaults
       PROVE  CountTypes'
  BY <1>0, <1>17 DEF CountTypes
<1>18. ASSUME UNCHANGED desktopVars PROVE DesktopTypes'
  BY <1>0, <1>18 DEF DesktopTypes, desktopVars
<1>19. ASSUME UNCHANGED <<handoffs, login, carried>> PROVE HandoffsOK'
  BY <1>0, <1>19 DEF HandoffsOK
<1>20. owner \in Users \cup {NoUser}
  BY <1>0 DEF ApiTypes

(* Sign-in *)
<1>21. ASSUME ClickSignIn PROVE IInv'
  <2>1. /\ UNCHANGED <<row, owner, paired, handoffs, req, minted, queue, session, kept, carried,
                       logout, codes, claimants, signedOut, faults>>
        /\ auth' = "signing_in" /\ login' = "callback" /\ attempt' = attempt + 1
        /\ attempt < MaxAttempts /\ open' = open \cup {attempt'}
    BY <1>21 DEF ClickSignIn, deviceVars, historyVars
  <2>2. ApiTypes' /\ DesktopTypes'
    BY <1>0, <1>1, <2>1 DEF ApiTypes, DesktopTypes, AuthStates
  <2>3. Types'
    BY <1>0, <1>2, <1>15, <1>17, <2>1, <2>2 DEF Types
  <2>4. HandoffsOK'
    BY <1>0, <2>1 DEF HandoffsOK
  <2> QED BY <1>5, <1>8, <1>15, <2>1, <2>3, <2>4
<1>22. ASSUME NEW h \in Handoffs, NEW u \in Users, NEW a \in open, IssueHandoff(h, u, a) PROVE IInv'
  <2>1. /\ UNCHANGED <<row, owner, paired, open, req, minted, queue, codes, claimants, signedOut,
                       faults>>
        /\ UNCHANGED desktopVars /\ login' = login /\ carried' = carried
        /\ handoffs' = [handoffs EXCEPT ![h] = [state |-> "issued", user |-> u, attempt |-> a]]
    BY <1>22 DEF IssueHandoff, deviceVars, historyVars, desktopVars
  <2>2. [state |-> "issued", user |-> u, attempt |-> a]
           \in [state : {"none", "issued", "consumed", "expired"}, user : Users \cup {NoUser},
                attempt : 0 .. MaxAttempts]
    BY <1>0, <1>1 DEF ApiTypes
  <2>3. ApiTypes'
    BY <1>0, <2>1, <2>2 DEF ApiTypes
  <2>4. HandoffsOK'
    BY <1>0, <2>1 DEF HandoffsOK, ApiTypes
  <2>5. Types'
    BY <1>0, <1>2, <1>15, <1>17, <1>18, <2>1, <2>3 DEF Types
  <2> QED BY <1>5, <1>8, <1>15, <2>1, <2>4, <2>5
<1>23. ASSUME NEW h \in Handoffs, BrowserReturns(h) PROVE IInv'
  <2>1. /\ UNCHANGED <<row, owner, paired, open, handoffs, req, minted, queue, auth, session, kept,
                       attempt, logout, codes, claimants, signedOut, faults>>
        /\ login' = "exchange" /\ carried' = h
    BY <1>23 DEF BrowserReturns, deviceVars, historyVars, handoffVars
  <2>2. DesktopTypes'
    BY <1>0, <1>1, <2>1 DEF DesktopTypes, Handoffs
  <2>3. HandoffsOK'
    BY <1>0, <2>1 DEF HandoffsOK
  <2>4. Types'
    BY <1>0, <1>2, <1>15, <1>16, <1>17, <1>20, <2>1, <2>2 DEF Types
  <2> QED BY <1>5, <1>8, <1>15, <2>1, <2>3, <2>4
<1>24. ASSUME NEW r \in Requests, Exchange(r) PROVE IInv'
  <2> DEFINE u == handoffs[carried].user
  <2>1. /\ UNCHANGED <<row, owner, paired, open, queue, codes, claimants, signedOut, faults>>
        /\ UNCHANGED desktopVars /\ login' = login /\ carried' = carried
        /\ handoffs' = [handoffs EXCEPT ![carried].state = "consumed"]
        /\ login = "exchange" /\ handoffs[carried].state = "issued"
        /\ minted' = minted + 1 /\ minted < MaxTokens
        /\ Begin(r, "exchange", "claim", u, minted')
    BY <1>24 DEF Exchange, Mint, deviceVars, historyVars, desktopVars
  <2>2. carried \in Handoffs /\ u \in Users
    BY <1>0, <2>1 DEF HandoffsOK
  <2>3. minted' \in 0 .. MaxTokens /\ minted' <= MaxTokens
    BY <1>1, <1>2, <2>1
  <2>4. /\ req'[r].kind = "exchange" /\ req'[r].at = "claim" /\ req'[r].user = u
        /\ req'[r].token = minted'
        /\ \A q \in Requests : q # r => req'[q] = req[q]
        /\ req' \in [Requests -> Request]
    BY <1>13, <2>1, <2>2, <2>3
  <2>5. /\ ApiTypes' /\ \A h \in Handoffs : /\ handoffs'[h].user = handoffs[h].user
                                           /\ handoffs'[h].state # "none" => handoffs[h].state # "none"
    <3>1. [handoffs[carried] EXCEPT !.state = "consumed"]
             \in [state : {"none", "issued", "consumed", "expired"}, user : Users \cup {NoUser},
                  attempt : 0 .. MaxAttempts]
          /\ [handoffs[carried] EXCEPT !.state = "consumed"].user = u
      BY <1>0, <2>2 DEF ApiTypes
    <3>2. handoffs' = [handoffs EXCEPT ![carried] = [handoffs[carried] EXCEPT !.state = "consumed"]]
      BY <2>1
    <3>3. \A h \in Handoffs : handoffs'[h] = IF h = carried
                                             THEN [handoffs[carried] EXCEPT !.state = "consumed"]
                                             ELSE handoffs[h]
      BY <1>0, <3>2 DEF ApiTypes
    <3>4. ApiTypes'
      BY <1>0, <2>1, <3>1, <3>2 DEF ApiTypes
    <3> QED BY <2>1, <3>1, <3>3, <3>4
  <2>6. HandoffsOK'
    BY <1>0, <2>1, <2>5 DEF HandoffsOK
  <2>7. CountTypes'
    BY <1>0, <2>1, <2>3 DEF CountTypes
  <2>8. Types'
    BY <1>0, <1>15, <1>18, <2>1, <2>4, <2>5, <2>7 DEF Types
  <2> QED BY <1>9, <2>1, <2>2, <2>3, <2>4, <2>6, <2>8
<1>25. ASSUME NEW r \in Requests, SignInAnswered(r) PROVE IInv'
  <2>1. /\ UNCHANGED <<row, owner, paired, open, handoffs, minted, queue, carried, attempt, logout,
                       codes, claimants, signedOut, faults>>
        /\ Ends(r)
        /\ kept' \in {kept, req[r].token} /\ session' \in {session, req[r].token}
        /\ auth' \in {auth, "signed_in"} /\ login' \in {login, "none"}
    BY <1>25 DEF SignInAnswered, deviceVars, historyVars, handoffVars
  <2>2. /\ req'[r] = Idle /\ \A q \in Requests : q # r => req'[q] = req[q]
        /\ req' \in [Requests -> Request]
    BY <1>10, <2>1
  <2>3. DesktopTypes'
    <3>1. req[r].token \in 0 .. MaxTokens
      BY <1>3 DEF Request
    <3> QED BY <1>0, <2>1, <3>1 DEF DesktopTypes, AuthStates
  <2>4. HandoffsOK'
    BY <1>0, <2>1 DEF HandoffsOK
  <2>5. Types'
    BY <1>0, <1>2, <1>15, <1>16, <1>17, <1>20, <2>1, <2>2, <2>3 DEF Types
  <2> QED BY <1>5, <1>8, <1>15, <2>1, <2>2, <2>4, <2>5
<1>26. ASSUME SignInFails \/ SignInBreaks PROVE IInv'
  <2>1. /\ UNCHANGED <<row, owner, paired, open, handoffs, minted, queue, session, kept, carried,
                       attempt, logout, codes, claimants, signedOut>>
        /\ login' = "none" /\ auth' = "signed_out"
    BY <1>26 DEF SignInFails, SignInBreaks, deviceVars, historyVars, handoffVars
  <2>2. faults' \in 0 .. MaxFaults
    BY <1>2, <1>14, <1>26 DEF SignInFails, SignInBreaks
  <2>3. /\ \A q \in Requests : /\ req'[q].at = req[q].at /\ req'[q].kind = req[q].kind
                               /\ req'[q].user = req[q].user /\ req'[q].token = req[q].token
        /\ req' \in [Requests -> Request]
    BY <1>0, <1>12, <1>26 DEF SignInFails, SignInBreaks
  <2>4. DesktopTypes'
    BY <1>0, <2>1 DEF DesktopTypes, AuthStates
  <2>5. HandoffsOK'
    BY <1>0, <2>1 DEF HandoffsOK
  <2>6. Types'
    BY <1>0, <1>2, <1>15, <1>16, <1>17, <1>20, <2>1, <2>2, <2>3, <2>4 DEF Types
  <2> QED BY <1>5, <1>8, <1>15, <2>1, <2>3, <2>5, <2>6

(* Pairing, and the claim *)
<1>27. ASSUME ShowCode PROVE IInv'
  <2>1. /\ UNCHANGED <<owner, paired, open, handoffs, req, minted, queue, claimants, signedOut, faults>>
        /\ UNCHANGED desktopVars /\ login' = login /\ carried' = carried
        /\ codes' \in 0 .. MaxCodes /\ row' = [row EXCEPT !.code = TRUE]
    BY <1>1, <1>2, <1>27 DEF ShowCode, historyVars, handoffVars, desktopVars
  <2>2. /\ RowType' /\ row'.token = row.token /\ row'.live = row.live /\ row'.owner = row.owner
    BY <1>0, <2>1 DEF RowType
  <2>3. CountTypes'
    BY <1>0, <2>1 DEF CountTypes
  <2>4. Types'
    BY <1>0, <1>16, <1>18, <1>20, <2>1, <2>2, <2>3 DEF Types
  <2>5. row'.live => row'.owner # NoUser
    BY <1>0, <2>2 DEF RowOK
  <2> QED BY <1>5, <1>8, <1>19, <2>1, <2>2, <2>4, <2>5
<1>28. ASSUME NEW r \in Requests, NEW u \in Users, Pair(r, u) PROVE IInv'
  <2>1. /\ UNCHANGED <<row, owner, paired, open, handoffs, queue, codes, claimants, signedOut, faults>>
        /\ UNCHANGED desktopVars /\ login' = login /\ carried' = carried
        /\ minted' = minted + 1 /\ minted < MaxTokens
        /\ Begin(r, "pair", "claim", u, minted')
    BY <1>28 DEF Pair, Mint, deviceVars, historyVars, handoffVars, desktopVars
  <2>2. minted' \in 0 .. MaxTokens /\ minted' <= MaxTokens
    BY <1>1, <1>2, <2>1
  <2>3. /\ req'[r].kind = "pair" /\ req'[r].at = "claim" /\ req'[r].user = u
        /\ req'[r].token = minted'
        /\ \A q \in Requests : q # r => req'[q] = req[q]
        /\ req' \in [Requests -> Request]
    BY <1>13, <2>1, <2>2
  <2>4. CountTypes'
    BY <1>0, <2>1, <2>2 DEF CountTypes
  <2>5. Types'
    BY <1>0, <1>15, <1>16, <1>18, <1>20, <2>1, <2>3, <2>4 DEF Types
  <2> QED BY <1>9, <1>19, <2>1, <2>2, <2>3, <2>5
<1>29. ASSUME NEW r \in Requests, DispatchToken(r) \/ ClaimFails(r) PROVE IInv'
  <2>1. /\ UNCHANGED <<row, owner, paired, open, handoffs, minted, codes, claimants, signedOut>>
        /\ UNCHANGED desktopVars /\ login' = login /\ carried' = carried
        /\ Ends(r)
    BY <1>29 DEF DispatchToken, ClaimFails, deviceVars, historyVars, handoffVars, desktopVars
  <2>2. faults' \in 0 .. MaxFaults
    BY <1>2, <1>14, <1>29 DEF DispatchToken, ClaimFails
  <2>3. queue' \in Seq(Tokens)
    <3>1. CASE ClaimFails(r)
      BY <1>0, <3>1 DEF ClaimFails
    <3>2. CASE DispatchToken(r)
      <4>1. req[r].token \in Tokens /\ (queue' = Append(queue, req[r].token) \/ queue' = queue)
        BY <1>3, <3>2 DEF DispatchToken, Sound
      <4> QED BY <1>0, <4>1, AppendProperties
    <3> QED BY <1>29, <3>1, <3>2
  <2>4. /\ req'[r] = Idle /\ \A q \in Requests : q # r => req'[q] = req[q]
        /\ req' \in [Requests -> Request]
    BY <1>10, <2>1
  <2>5. Types'
    BY <1>0, <1>15, <1>16, <1>17, <1>18, <1>20, <2>1, <2>2, <2>3, <2>4 DEF Types
  <2> QED BY <1>5, <1>8, <1>15, <1>19, <2>1, <2>4, <2>5
<1>30. ASSUME TokenDelivered PROVE IInv'
  <2>1. /\ UNCHANGED <<row, owner, paired, open, handoffs, req, minted, login, carried, attempt,
                       logout, codes, claimants, signedOut>>
        /\ queue # <<>> /\ queue' = Tail(queue) /\ session' = Head(queue) /\ auth' = "signed_in"
        /\ kept' \in {kept, Head(queue)}
    BY <1>30 DEF TokenDelivered, deviceVars, historyVars, handoffVars
  <2>2. faults' \in 0 .. MaxFaults
    BY <1>2, <1>14, <1>30 DEF TokenDelivered
  <2>3. Head(queue) \in Tokens /\ Tail(queue) \in Seq(Tokens)
    BY <1>0, <2>1, HeadTailProperties
  <2>4. DesktopTypes'
    BY <1>0, <1>1, <2>1, <2>3 DEF DesktopTypes, AuthStates, Tokens
  <2>5. Types'
    BY <1>0, <1>15, <1>16, <1>17, <1>20, <2>1, <2>2, <2>3, <2>4 DEF Types
  <2> QED BY <1>5, <1>8, <1>15, <1>19, <2>1, <2>5
<1>31. ASSUME NEW r \in Requests, ClaimRow(r) PROVE IInv'
  <2>1. /\ UNCHANGED <<owner, paired, open, handoffs, minted, queue, codes, signedOut, faults>>
        /\ UNCHANGED desktopVars /\ login' = login /\ carried' = carried
        /\ req[r].at = "claim" /\ Goes(r, "memory")
        /\ row' = [owner |-> req[r].user, token |-> req[r].token, live |-> TRUE, code |-> FALSE]
        /\ claimants' = claimants \cup {req[r].user}
    BY <1>31 DEF ClaimRow, Claimed, deviceVars, historyVars, handoffVars, desktopVars
  <2>2. /\ req'[r].at = "memory" /\ req'[r].kind = req[r].kind /\ req'[r].user = req[r].user
        /\ req'[r].token = req[r].token
        /\ \A q \in Requests : q # r => req'[q] = req[q]
        /\ req' \in [Requests -> Request]
    BY <1>11, <2>1
  <2>3. /\ req[r].kind \in {"exchange", "pair"} /\ req[r].user \in Users /\ req[r].token \in Tokens
        /\ req[r].token \notin signedOut /\ req[r].token <= minted
    BY <1>3, <2>1 DEF Sound
  <2>4. row'.owner = req[r].user /\ row'.token = req[r].token /\ row'.owner # NoUser
    BY <1>1, <2>1, <2>3
  <2>5. \A q \in Requests : Sound(req'[q], row', claimants', minted', signedOut')
    <3>1. ASSUME NEW q \in Requests, q # r
          PROVE  Sound(req'[q], row', claimants', minted', signedOut')
      <4>1. Sound(req[q], row, claimants, minted, signedOut) /\ req[q].token # req[r].token
        BY <1>3, <2>1, <3>1
      <4> QED BY <2>1, <2>2, <2>4, <3>1, <4>1 DEF Sound
    <3>2. Sound(req'[r], row', claimants', minted', signedOut')
      BY <2>1, <2>2, <2>3, <2>4 DEF Sound
    <3> QED BY <3>1, <3>2
  <2>6. \A q, s \in Requests : q # s /\ req'[q].at = "claim" => req'[s].token # req'[q].token
    BY <1>3, <2>2
  <2>7. Known'
    BY <1>6, <2>1, <2>3, <2>4 DEF Known
  <2>8. OwnersHaveClaimed' /\ RowOK(row')
    BY <1>5, <2>1, <2>4 DEF OwnersHaveClaimed, RowOK
  <2>9. RowType' /\ CountTypes'
    <3>1. RowType'
      BY <1>3, <2>1, <2>3 DEF RowType, Request
    <3> QED BY <1>0, <2>1, <2>3, <3>1 DEF CountTypes
  <2>10. Types'
    BY <1>0, <1>16, <1>18, <1>20, <2>1, <2>2, <2>9 DEF Types
  <2> QED BY <1>19, <2>1, <2>5, <2>6, <2>7, <2>8, <2>10 DEF IInv, RequestsSound, Apart
<1>32. ASSUME NEW r \in Requests, ClaimMemory(r) PROVE IInv'
  <2>1. /\ UNCHANGED <<row, open, handoffs, minted, queue, codes, claimants, signedOut, faults>>
        /\ UNCHANGED desktopVars /\ login' = login /\ carried' = carried
        /\ req[r].kind \in {"exchange", "pair"} /\ req[r].at = "memory"
        /\ paired' = TRUE /\ owner' = req[r].user
    BY <1>32 DEF ClaimMemory, historyVars, handoffVars, desktopVars
  <2>2. PICK at \in {"dispatch", "answer"} : Goes(r, at)
    BY <1>32 DEF ClaimMemory
  <2>3. /\ req'[r].at = at /\ req'[r].kind = req[r].kind /\ req'[r].user = req[r].user
        /\ req'[r].token = req[r].token
        /\ \A q \in Requests : q # r => req'[q] = req[q]
        /\ req' \in [Requests -> Request]
    BY <1>11, <2>2
  <2>4. owner' \in claimants \cup {NoUser} /\ owner' \in Users \cup {NoUser}
    BY <1>2, <1>3, <2>1 DEF Sound
  <2>5. ApiTypes'
    BY <1>0, <2>1, <2>4 DEF ApiTypes
  <2>6. Types'
    BY <1>0, <1>2, <1>15, <1>17, <1>18, <2>1, <2>3, <2>5 DEF Types
  <2> QED BY <1>8, <1>15, <1>19, <2>1, <2>3, <2>4, <2>6

(* device.hello *)
<1>33. ASSUME NEW r \in Requests, Hello(r) PROVE IInv'
  <2>1. /\ UNCHANGED <<row, owner, paired, open, handoffs, minted, queue, codes, claimants,
                       signedOut, faults>>
        /\ UNCHANGED desktopVars /\ login' = login /\ carried' = carried
    BY <1>33 DEF Hello, deviceVars, historyVars, handoffVars, desktopVars
  <2>2. PICK u \in claimants \cup {NoUser} : Begin(r, "hello", "register", u, session)
    BY <1>5, <1>33 DEF Hello
  <2>3. session \in {0, row.token} /\ session \in 0 .. MaxTokens
    BY <1>0, <1>33 DEF Hello, Accepts, NoToken, DesktopTypes
  <2>4. /\ req'[r].kind = "hello" /\ req'[r].at = "register" /\ req'[r].user = u
        /\ req'[r].token = session
        /\ \A q \in Requests : q # r => req'[q] = req[q]
        /\ req' \in [Requests -> Request]
    BY <1>2, <1>13, <2>2, <2>3
  <2>5. Types'
    BY <1>0, <1>2, <1>15, <1>16, <1>17, <1>18, <1>20, <2>1, <2>4 DEF Types
  <2> QED BY <1>5, <1>8, <1>15, <1>19, <2>1, <2>3, <2>4, <2>5
<1>34. ASSUME NEW r \in Requests, HelloRegisters(r) PROVE IInv'
  <2>1. /\ UNCHANGED <<row, paired, open, handoffs, minted, queue, codes, claimants, signedOut, faults>>
        /\ UNCHANGED desktopVars /\ login' = login /\ carried' = carried
        /\ req[r].at = "register" /\ owner' = req[r].user /\ Goes(r, "upsert")
    BY <1>34 DEF HelloRegisters, historyVars, handoffVars, desktopVars
  <2>2. /\ req'[r].at = "upsert" /\ req'[r].kind = req[r].kind /\ req'[r].user = req[r].user
        /\ req'[r].token = req[r].token
        /\ \A q \in Requests : q # r => req'[q] = req[q]
        /\ req' \in [Requests -> Request]
    BY <1>11, <2>1
  <2>3. owner' \in claimants \cup {NoUser} /\ owner' \in Users \cup {NoUser}
    BY <1>2, <1>3, <2>1 DEF Sound
  <2>4. Types'
    BY <1>0, <1>2, <1>15, <1>16, <1>17, <1>18, <2>1, <2>2, <2>3 DEF Types
  <2> QED BY <1>8, <1>15, <1>19, <2>1, <2>2, <2>3, <2>4
<1>35. ASSUME NEW r \in Requests, HelloUpserts(r) PROVE IInv'
  <2>1. /\ UNCHANGED <<owner, paired, open, handoffs, minted, queue, codes, claimants, signedOut, faults>>
        /\ UNCHANGED desktopVars /\ login' = login /\ carried' = carried
        /\ req[r].at = "upsert" /\ Ends(r)
        /\ row' = IF req[r].user = NoUser THEN row ELSE [row EXCEPT !.owner = req[r].user]
    BY <1>35 DEF HelloUpserts, historyVars, handoffVars, desktopVars
  <2>2. /\ req'[r] = Idle /\ \A q \in Requests : q # r => req'[q] = req[q]
        /\ req' \in [Requests -> Request]
    BY <1>10, <2>1
  <2>3. req[r].user \in claimants \cup {NoUser}
    BY <1>3, <2>1 DEF Sound
  <2>4. /\ RowType' /\ row'.token = row.token /\ row'.live = row.live
        /\ row'.owner = IF req[r].user = NoUser THEN row.owner ELSE req[r].user
    BY <1>0, <1>2, <2>1, <2>3 DEF RowType
  <2>5. (row'.live => row'.owner # NoUser) /\ row'.owner \in claimants \cup {NoUser}
    BY <1>0, <1>5, <2>3, <2>4 DEF RowOK
  <2>6. Types'
    BY <1>0, <1>2, <1>16, <1>17, <1>18, <1>20, <2>1, <2>2, <2>4 DEF Types
  <2> QED BY <1>5, <1>8, <1>19, <2>1, <2>2, <2>4, <2>5, <2>6

(* Sign-out *)
<1>36. ASSUME ClickSignOut \/ SignOutRefused PROVE IInv'
  <2>1. /\ UNCHANGED <<row, owner, paired, open, handoffs, req, minted, queue, session, kept, login,
                       carried, attempt, codes, claimants, signedOut, faults>>
        /\ auth' \in {"signing_out", "signed_in"} /\ logout' \in {session, NoToken}
    BY <1>36 DEF ClickSignOut, SignOutRefused, deviceVars, historyVars, handoffVars
  <2>2. DesktopTypes'
    BY <1>0, <1>1, <2>1 DEF DesktopTypes, AuthStates, NoToken
  <2>3. Types'
    BY <1>0, <1>2, <1>15, <1>16, <1>17, <1>20, <2>1, <2>2 DEF Types
  <2> QED BY <1>5, <1>8, <1>15, <1>19, <2>1, <2>3
<1>37. ASSUME SignOutBreaks \/ DesktopRestart PROVE IInv'
  <2>1. /\ UNCHANGED <<row, owner, paired, open, handoffs, minted, queue, kept, carried, attempt,
                       codes, claimants, signedOut>>
        /\ session' \in {session, kept} /\ login' \in {login, "none"}
        /\ auth' \in {"signed_in", "signed_out"} /\ logout' = NoToken /\ Fault
    BY <1>37 DEF SignOutBreaks, DesktopRestart, deviceVars, historyVars, handoffVars
  <2>2. /\ \A q \in Requests : /\ req'[q].at = req[q].at /\ req'[q].kind = req[q].kind
                               /\ req'[q].user = req[q].user /\ req'[q].token = req[q].token
        /\ req' \in [Requests -> Request]
    BY <1>12, <1>37 DEF SignOutBreaks, DesktopRestart
  <2>3. DesktopTypes'
    BY <1>0, <1>1, <2>1 DEF DesktopTypes, AuthStates, NoToken
  <2>4. HandoffsOK'
    BY <1>0, <2>1 DEF HandoffsOK
  <2>5. Types'
    BY <1>0, <1>14, <1>15, <1>16, <1>17, <1>20, <2>1, <2>2, <2>3 DEF Types
  <2> QED BY <1>5, <1>8, <1>15, <2>1, <2>2, <2>4, <2>5
<1>38. ASSUME NEW r \in Requests, Logout(r) \/ \E u \in Users : Revoke(r, u) PROVE IInv'
  <2>1. /\ UNCHANGED <<row, owner, paired, open, handoffs, minted, queue, codes, claimants,
                       signedOut, faults>>
        /\ UNCHANGED desktopVars /\ login' = login /\ carried' = carried
    BY <1>38 DEF Logout, Revoke, deviceVars, historyVars, handoffVars, desktopVars
  <2>2. \/ Begin(r, "logout", "revoke", row.owner, row.token) /\ row.token # 0
        \/ Begin(r, "revoke", "revoke", row.owner, 0)
    BY <1>38 DEF Logout, Revoke, Accepts, NoToken
  <2>3. row.token \in 0 .. MaxTokens /\ 0 \in 0 .. MaxTokens /\ row.owner \in Users \cup {NoUser}
    BY <1>1, <1>5
  <2>4. /\ req'[r].kind \in {"logout", "revoke"} /\ req'[r].at = "revoke" /\ req'[r].user = row.owner
        /\ req'[r].token \in {0, row.token} /\ (req'[r].kind = "logout" => req'[r].token # 0)
        /\ \A q \in Requests : q # r => req'[q] = req[q]
        /\ req' \in [Requests -> Request]
    <3>1. CASE Begin(r, "logout", "revoke", row.owner, row.token) /\ row.token # 0
      BY <1>13, <2>3, <3>1
    <3>2. CASE Begin(r, "revoke", "revoke", row.owner, 0)
      BY <1>13, <2>3, <3>2
    <3> QED BY <2>2, <3>1, <3>2
  <2>5. Types'
    BY <1>0, <1>2, <1>15, <1>16, <1>17, <1>18, <1>20, <2>1, <2>4 DEF Types
  <2> QED BY <1>5, <1>8, <1>15, <1>19, <2>1, <2>4, <2>5
<1>39. ASSUME NEW r \in Requests, LogoutRow(r) \/ RevokeRow(r) PROVE IInv'
  <2>1. /\ UNCHANGED <<owner, paired, open, handoffs, minted, queue, codes, claimants, signedOut, faults>>
        /\ UNCHANGED desktopVars /\ login' = login /\ carried' = carried
        /\ req[r].at = "revoke" /\ row' \in {row, [row EXCEPT !.live = FALSE]}
    BY <1>39 DEF LogoutRow, RevokeRow, historyVars, handoffVars, desktopVars
  <2>2. /\ RowType' /\ row'.token = row.token /\ (row'.live => row.live) /\ row'.owner = row.owner
    BY <1>0, <2>1 DEF RowType
  <2>3. \/ Ends(r)
        \/ /\ Goes(r, "memory")
           /\ req[r].kind = "logout" /\ row'.token = req[r].token => ~row'.live
    <3>1. CASE RevokeRow(r)
      BY <3>1 DEF RevokeRow
    <3>2. CASE LogoutRow(r)
      BY <1>0, <3>2 DEF LogoutRow, RowType
    <3> QED BY <1>39, <3>1, <3>2
  <2>4. /\ \/ req'[r] = Idle
           \/ /\ req'[r].at = "memory" /\ req'[r].kind = req[r].kind
              /\ req'[r].user = req[r].user /\ req'[r].token = req[r].token
              /\ req'[r].kind = "logout" /\ row'.token = req'[r].token => ~row'.live
        /\ \A q \in Requests : q # r => req'[q] = req[q]
        /\ req' \in [Requests -> Request]
    BY <1>10, <1>11, <2>3
  <2>5. row'.live => row'.owner # NoUser
    BY <1>0, <2>2 DEF RowOK
  <2>6. Types'
    BY <1>0, <1>2, <1>16, <1>17, <1>18, <1>20, <2>1, <2>2, <2>4 DEF Types
  <2> QED BY <1>5, <1>8, <1>19, <2>1, <2>2, <2>4, <2>5, <2>6
<1>40. ASSUME NEW r \in Requests, RevokeMemory(r) PROVE IInv'
  <2>1. /\ UNCHANGED <<row, open, handoffs, minted, queue, codes, claimants, signedOut, faults>>
        /\ UNCHANGED desktopVars /\ login' = login /\ carried' = carried
        /\ req[r].at = "memory" /\ paired' = FALSE /\ owner' = req[r].user
        /\ Goes(r, "answer") \/ Ends(r)
    BY <1>40 DEF RevokeMemory, historyVars, handoffVars, desktopVars
  <2>2. /\ \/ req'[r] = Idle
           \/ /\ req'[r].at = "answer" /\ req'[r].kind = req[r].kind
              /\ req'[r].user = req[r].user /\ req'[r].token = req[r].token
        /\ \A q \in Requests : q # r => req'[q] = req[q]
        /\ req' \in [Requests -> Request]
    BY <1>10, <1>11, <2>1
  <2>3. /\ owner' \in claimants \cup {NoUser} /\ owner' \in Users \cup {NoUser}
        /\ req[r].kind = "logout" /\ row.token = req[r].token => ~row.live
    BY <1>2, <1>3, <2>1 DEF Sound
  <2>4. ApiTypes'
    BY <1>0, <2>1, <2>3 DEF ApiTypes
  <2>5. Types'
    BY <1>0, <1>2, <1>15, <1>17, <1>18, <2>1, <2>2, <2>4 DEF Types
  <2> QED BY <1>8, <1>15, <1>19, <2>1, <2>2, <2>3, <2>5
<1>41. ASSUME NEW r \in Requests, SignOutAnswered(r) PROVE IInv'
  <2>1. /\ UNCHANGED <<row, owner, paired, open, handoffs, minted, queue, login, carried, attempt,
                       codes, claimants, faults>>
        /\ req[r].kind = "logout" /\ req[r].at = "answer" /\ Ends(r)
        /\ kept' \in {kept, NoToken} /\ session' \in {session, NoToken}
        /\ auth' \in {auth, "signed_out"} /\ logout' \in {logout, NoToken}
        /\ signedOut' \in {signedOut, signedOut \cup {req[r].token}}
    BY <1>41 DEF SignOutAnswered, deviceVars, handoffVars
  <2>2. /\ req'[r] = Idle /\ \A q \in Requests : q # r => req'[q] = req[q]
        /\ req' \in [Requests -> Request]
    BY <1>10, <2>1
  <2>3. /\ req[r].token \in Tokens /\ req[r].token <= minted
        /\ row.token = req[r].token => ~row.live
    BY <1>3, <2>1 DEF Sound
  <2>4. \A q \in Requests : Sound(req'[q], row', claimants', minted', signedOut')
    <3>1. ASSUME NEW q \in Requests, q # r
          PROVE  Sound(req'[q], row', claimants', minted', signedOut')
      <4>1. /\ Sound(req[q], row, claimants, minted, signedOut)
            /\ req[q].at = "claim" => req[q].token # req[r].token
        BY <1>3, <2>1, <3>1
      <4> QED BY <2>1, <2>2, <3>1, <4>1 DEF Sound
    <3>2. Sound(req'[r], row', claimants', minted', signedOut')
      BY <1>2, <1>4, <2>1, <2>2 DEF Sound
    <3> QED BY <3>1, <3>2
  <2>5. \A q, s \in Requests : q # s /\ req'[q].at = "claim" => req'[s].token # req'[q].token
    <3>1. \A q \in Requests : req'[q].at = "claim" =>
             q # r /\ req'[q] = req[q] /\ req[q].token # 0
      BY <1>1, <1>3, <1>4, <2>2 DEF Sound, Tokens
    <3> QED BY <1>3, <1>4, <2>2, <3>1
  <2>6. Known'
    BY <1>6, <2>1, <2>3 DEF Known
  <2>7. OwnersHaveClaimed' /\ RowOK(row')
    BY <1>0, <1>5, <2>1 DEF OwnersHaveClaimed
  <2>8. DesktopTypes' /\ CountTypes'
    <3>1. DesktopTypes'
      BY <1>0, <1>1, <2>1 DEF DesktopTypes, AuthStates, NoToken
    <3> QED BY <1>0, <2>1, <2>3, <3>1 DEF CountTypes
  <2>9. Types'
    BY <1>0, <1>15, <1>16, <1>20, <2>1, <2>2, <2>8 DEF Types
  <2> QED BY <1>19, <2>1, <2>4, <2>5, <2>6, <2>7, <2>9 DEF IInv, RequestsSound, Apart
<1>42. ASSUME SessionExpires PROVE IInv'
  <2>1. /\ UNCHANGED <<owner, paired, open, handoffs, req, minted, queue, codes, claimants,
                       signedOut, faults>>
        /\ UNCHANGED desktopVars /\ login' = login /\ carried' = carried
        /\ row' = [row EXCEPT !.live = FALSE]
    BY <1>42 DEF SessionExpires, historyVars, handoffVars, desktopVars
  <2>2. /\ RowType' /\ row'.token = row.token /\ ~row'.live /\ row'.owner = row.owner
    BY <1>0, <2>1 DEF RowType
  <2>3. Types'
    BY <1>0, <1>2, <1>16, <1>17, <1>18, <1>20, <2>1, <2>2 DEF Types
  <2> QED BY <1>5, <1>8, <1>19, <2>1, <2>2, <2>3
<1>43. ASSUME ApiRestart PROVE IInv'
  <2>1. /\ UNCHANGED <<row, minted, queue, codes, claimants, signedOut>>
        /\ UNCHANGED desktopVars /\ login' = login /\ carried' = carried
        /\ req' = [r \in Requests |-> Idle] /\ open' = {} /\ Fault
        /\ owner' = row.owner /\ paired' = RowPaired
        /\ handoffs' = [h \in Handoffs |-> IF handoffs[h].state = "none" THEN handoffs[h]
                                           ELSE [handoffs[h] EXCEPT !.state = "expired"]]
    BY <1>43 DEF ApiRestart, historyVars, desktopVars
  <2>2. (\A q \in Requests : req'[q] = Idle) /\ req' \in [Requests -> Request]
    BY <1>4, <2>1
  <2>3. /\ \A h \in Handoffs : handoffs'[h].user = handoffs[h].user
                               /\ (handoffs'[h].state # "none" => handoffs[h].state # "none")
        /\ handoffs' \in [Handoffs -> [state : {"none", "issued", "consumed", "expired"},
                                       user : Users \cup {NoUser}, attempt : 0 .. MaxAttempts]]
    BY <1>0, <2>1 DEF ApiTypes
  <2>4. ApiTypes'
    BY <1>5, <2>1, <2>3 DEF ApiTypes, RowPaired
  <2>5. HandoffsOK'
    BY <1>0, <2>1, <2>3 DEF HandoffsOK
  <2>6. Types'
    BY <1>0, <1>14, <1>15, <1>17, <1>18, <2>1, <2>2, <2>4 DEF Types
  <2> QED BY <1>5, <1>8, <1>15, <2>1, <2>2, <2>5, <2>6
<1>44. CASE UNCHANGED vars
  BY <1>0, <1>44 DEF vars, deviceVars, handoffVars, desktopVars, historyVars, IInv, Types, RowType,
     ApiTypes, DesktopTypes, CountTypes, RowOK, HandoffsOK, RequestsSound, Apart, Known,
     OwnersHaveClaimed
<1> QED
  <2>1. CASE \E r \in Requests : Sign(r)
    BY <1>21, <1>22, <1>23, <1>24, <1>25, <1>26, <2>1 DEF Sign
  <2>2. CASE \E r \in Requests : PairStep(r) \/ ClaimStep(r) \/ HelloStep(r)
    BY <1>27, <1>28, <1>29, <1>30, <1>31, <1>32, <1>33, <1>34, <1>35, <2>2
       DEF PairStep, ClaimStep, HelloStep
  <2>3. CASE \E r \in Requests : SignOutStep(r)
    BY <1>36, <1>37, <1>38, <1>39, <1>40, <1>41, <1>42, <2>3 DEF SignOutStep
  <2> QED BY <1>37, <1>43, <1>44, <2>1, <2>2, <2>3 DEF Next

LEMMA IInvInit == Init => IInv
<1> SUFFICES ASSUME Init PROVE IInv
  OBVIOUS
<1>1. /\ MaxTokens \in Nat /\ MaxAttempts \in Nat /\ MaxHandoffs \in Nat /\ MaxCodes \in Nat
      /\ MaxFaults \in Nat /\ NoUser \notin Users
  BY BoundAssumption, UserAssumption
<1>2. RowType /\ DesktopTypes /\ CountTypes
  BY <1>1 DEF Init, RowType, DesktopTypes, CountTypes, NoToken, AuthStates
<1>3. ApiTypes
  <2>1. [state |-> "none", user |-> NoUser, attempt |-> 0]
           \in [state : {"none", "issued", "consumed", "expired"}, user : Users \cup {NoUser},
                attempt : 0 .. MaxAttempts]
    BY <1>1
  <2>2. handoffs = [h \in Handoffs |-> [state |-> "none", user |-> NoUser, attempt |-> 0]]
    BY DEF Init
  <2>3. handoffs \in [Handoffs -> [state : {"none", "issued", "consumed", "expired"},
                                  user : Users \cup {NoUser}, attempt : 0 .. MaxAttempts]]
    BY <2>1, <2>2
  <2> QED BY <2>3 DEF Init, ApiTypes
<1>4. req \in [Requests -> Request] /\ queue \in Seq(Tokens)
  BY <1>1, EmptySeq DEF Init, Request, Idle, NoToken
<1>5. \A q \in Requests : req[q].at = "none" /\ req[q].kind = "idle" /\ req[q].token = 0
                          /\ req[q].user = NoUser
  BY DEF Init, Idle, NoToken
<1>6. RequestsSound /\ Apart
  BY <1>5 DEF Init, RequestsSound, Apart, Sound
<1>7. RowOK(row) /\ HandoffsOK /\ Known /\ OwnersHaveClaimed
  BY DEF Init, RowOK, HandoffsOK, Known, OwnersHaveClaimed, NoToken
<1> QED BY <1>2, <1>3, <1>4, <1>6, <1>7 DEF IInv, Types

LEMMA IInvAlways == Spec => []IInv
BY IInvInit, IInvNext, PTL DEF Spec

-----------------------------------------------------------------------------
(* Every variable has the type of the code's data, at every step of sign-in, *)
(* pairing, hello and sign-out.                                              *)
THEOREM TypeCorrect == Spec => []TypeOK
<1>1. IInv => TypeOK
  BY TypesSplit DEF IInv
<1> QED BY <1>1, IInvAlways, PTL

(* Whoever is called the owner of the device has claimed it, however slow      *)
(* hellos, claims and revokes overtake one another (claimDevice, upsertHello,  *)
(* setDeviceOwner).                                                            *)
THEOREM OwnershipSafety == Spec => []OwnersHaveClaimed
<1>1. IInv => OwnersHaveClaimed
  BY DEF IInv
<1> QED BY <1>1, IInvAlways, PTL

(* A token whose sign-out the desktop saw succeed is refused from then on, *)
(* whatever was in progress (/desktop/auth/logout, revokeDeviceSession).   *)
THEOREM SignOutSafety == Spec => []SignedOutTokensAreDead
<1>1. IInv => SignedOutTokensAreDead
  BY DEF IInv, Known, SignedOutTokensAreDead, Accepts
<1> QED BY <1>1, IInvAlways, PTL

(* No late write of the row makes a dead token acceptable again: a token is *)
(* accepted only from the claim it was made for.                            *)
THEOREM TokenSafety == Spec => DeadTokensStayDead
<1>1. ASSUME IInv, [Next]_vars, NEW t \in Tokens, ~Accepts(t), Accepts(t)'
      PROVE  \E r \in Requests : req[r].at = "claim" /\ req[r].token = t
  <2>1. ASSUME row'.token = row.token, row'.live => row.live PROVE FALSE
    BY <1>1, <2>1 DEF IInv, RowOK, Accepts
  <2>2. row \in [owner : Users \cup {NoUser}, token : 0 .. MaxTokens, live : BOOLEAN, code : BOOLEAN]
    BY <1>1 DEF IInv, Types, RowType
  <2>3. ASSUME NEW r \in Requests, ClaimRow(r)
        PROVE  req[r].at = "claim" /\ req[r].token = t
    BY <1>1, <2>3 DEF ClaimRow, Claimed, Accepts
  <2>4. ASSUME UNCHANGED row PROVE FALSE
    BY <2>1, <2>4
  <2>5. ASSUME ShowCode PROVE FALSE
    BY <2>1, <2>2, <2>5 DEF ShowCode
  <2>6. ASSUME NEW r \in Requests, HelloUpserts(r) PROVE FALSE
    BY <2>1, <2>2, <2>6 DEF HelloUpserts
  <2>7. ASSUME NEW r \in Requests, LogoutRow(r) \/ RevokeRow(r) PROVE FALSE
    BY <2>1, <2>2, <2>7 DEF LogoutRow, RevokeRow
  <2>8. ASSUME SessionExpires PROVE FALSE
    BY <2>1, <2>2, <2>8 DEF SessionExpires
  <2>9. ASSUME NEW r \in Requests, Sign(r) PROVE FALSE
    BY <2>4, <2>9 DEF Sign, ClickSignIn, SignInFails, SignInBreaks, IssueHandoff, BrowserReturns,
       Exchange, SignInAnswered, deviceVars
  <2>10. ASSUME NEW r \in Requests, PairStep(r) PROVE FALSE
    BY <2>4, <2>5, <2>10 DEF PairStep, TokenDelivered, DispatchToken, Pair, deviceVars
  <2>11. ASSUME NEW r \in Requests, ClaimFails(r) \/ ClaimMemory(r) PROVE FALSE
    BY <2>4, <2>11 DEF ClaimFails, ClaimMemory, deviceVars
  <2>12. ASSUME NEW r \in Requests, HelloStep(r) PROVE FALSE
    BY <2>4, <2>6, <2>12 DEF HelloStep, Hello, HelloRegisters, deviceVars
  <2>13. ASSUME NEW r \in Requests, SignOutStep(r) PROVE FALSE
    BY <2>4, <2>7, <2>8, <2>13 DEF SignOutStep, ClickSignOut, SignOutRefused, SignOutBreaks, Logout,
       RevokeMemory, SignOutAnswered, Revoke, deviceVars
  <2>14. CASE ApiRestart \/ DesktopRestart \/ UNCHANGED vars
    BY <2>4, <2>14 DEF ApiRestart, DesktopRestart, vars, deviceVars
  <2> QED BY <1>1, <2>3, <2>9, <2>10, <2>11, <2>12, <2>13, <2>14 DEF Next, ClaimStep
<1>2. IInv /\ [Next]_vars =>
        [\A t \in Tokens : t <= minted /\ ~Accepts(t) /\ Accepts(t)'
                           => \E r \in Requests : req[r].at = "claim" /\ req[r].token = t]_vars
  BY <1>1
<1> QED BY <1>2, IInvAlways, PTL DEF Spec, DeadTokensStayDead
=============================================================================
