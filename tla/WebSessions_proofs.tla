-------------------------- MODULE WebSessions_proofs --------------------------
(***************************************************************************)
(* Proofs about WebSessions, for any number of browsers, calls, logins,    *)
(* tokens and faults.  The inductive invariant says that what is known of  *)
(* a session is known to one browser (OneHolder), that a session revoked   *)
(* in a quiet moment is not about to be rotated (QuietIsOver), and what    *)
(* the calls of an undisturbed browser have in hand (Steady).              *)
(***************************************************************************)
EXTENDS WebSessions, TLAPS

(* A call that may change the cookies of its browser. *)
SetsCookies(r) == req[r].at \in Refreshing \/ (req[r].at # "idle" /\ req[r].kind # "api")

Call == [kind : Kinds, by : Browsers \cup {NoBrowser},
         at : {"idle", "sent", "refresh", "found"} \cup Answers,
         bearer : {"none", "live", "expired"}, cookie : BOOLEAN,
         token : 0 .. minted, session : Sessions \cup {NoSession}, again : BOOLEAN]

RowTypes ==
    /\ rows \in [Sessions -> [state : {"none", "live", "expired", "revoked"}, token : 0 .. minted]]
    /\ minted \in 0 .. MaxTokens
    /\ quiet \subseteq Sessions
    /\ \A s, u \in Sessions : rows[s].state # "none" =>
          rows[s].token # NoToken /\ (s # u => rows[u].token # rows[s].token)

BrowserTypes ==
    /\ refresh \in [Browsers -> 0 .. minted]
    /\ access \in [Browsers -> BOOLEAN]
    /\ stored \in [Browsers -> {"none", "live", "expired"}]
    /\ undisturbed \in [Browsers -> BOOLEAN]
    /\ faults \in 0 .. MaxFaults

(* What the position of a call says of the rest of its record. *)
Position ==
    /\ \A r \in Requests :
          /\ req[r].at = "found" <=> req[r].session # NoSession
          /\ req[r].at = "found" => rows[req[r].session].state # "none"
          /\ req[r].at # "idle" => req[r].by \in Browsers
          /\ req[r].at \in {"in", "rotated"} => req[r].token # NoToken
          /\ req[r].at = "out" => req[r].kind # "api"
          /\ req[r].at \in Refreshing \cup {"denied"} => req[r].kind \in {"api", "logout_all"}
    /\ \A s \in Sessions : rows[s].state = "none" => rows[s].token = NoToken

(* The browser b, in its cookie or in call r, has a token or the session s. *)
Holds(b, s) ==
    \/ rows[s].token # NoToken /\ refresh[b] = rows[s].token
    \/ \E r \in Requests :
          /\ req[r].by = b
          /\ \/ req[r].session = s
             \/ rows[s].token # NoToken /\ req[r].token = rows[s].token

OneHolder == \A s \in Sessions : \A b, c \in Browsers : Holds(b, s) /\ Holds(c, s) => b = c

QuietIsOver ==
    \A s \in quiet :
        /\ rows[s].state = "revoked"
        /\ \A r \in Requests : req[r].session # s

(* An undisturbed browser has at most one call that sets cookies; that call     *)
(* refreshes with the token of the cookie, and the token of one of the two      *)
(* opens a session.                                                             *)
OneCookieCall(b) ==
    \A q, r \in Requests :
        req[q].by = b /\ req[r].by = b /\ SetsCookies(q) /\ SetsCookies(r) => q = r

InHand(b) ==
    \A r \in Requests : req[r].by = b =>
        /\ req[r].at \notin {"refused", "out"}
        /\ req[r].at = "refresh" => req[r].token = refresh[b]
        /\ req[r].at = "found" => Finds(refresh[b], req[r].session)
        /\ req[r].at = "rotated" => Usable(req[r].token)

Opens(b) ==
    Usable(refresh[b]) \/ \E r \in Requests : req[r].by = b /\ req[r].at = "rotated"

Steady == \A b \in Browsers : undisturbed[b] => OneCookieCall(b) /\ InHand(b) /\ Opens(b)

(* A step that revokes at most, and says which sessions it revoked quietly. *)
Revoked ==
    /\ \A s \in Sessions :
          \/ rows'[s] = rows[s]
          \/ /\ rows[s].state \in {"live", "expired"}
             /\ rows'[s].state = "revoked" /\ rows'[s].token = rows[s].token
    /\ \A s \in quiet' \ quiet :
          s \in Sessions /\ rows'[s].state = "revoked" /\ \A r \in Requests : req[r].session # s

(* A step that brings no browser a token or a session it did not have. *)
NothingNew == \A b \in Browsers, s \in Sessions : Holds(b, s)' => Holds(b, s)

IInv == TypeOK /\ Position /\ OneHolder /\ QuietIsOver /\ Steady

LEMMA OneHolderKept == OneHolder /\ NothingNew => OneHolder'
<1> SUFFICES ASSUME OneHolder, NothingNew,
                    NEW s \in Sessions, NEW b \in Browsers, NEW c \in Browsers,
                    Holds(b, s)', Holds(c, s)'
             PROVE  b = c
  BY DEF OneHolder
<1>1. Holds(b, s) /\ Holds(c, s)
  BY DEF NothingNew
<1> QED BY <1>1 DEF OneHolder

LEMMA RevokeEffect ==
  ASSUME RowTypes, Position, NoSession \notin Sessions, NEW ended \in SUBSET Sessions,
         \A s \in ended : rows[s].state \in {"live", "expired"},
         Revoke(ended), minted' = minted
  PROVE  /\ Revoked /\ RowTypes'
         /\ \A s \in Sessions \ ended : rows'[s] = rows[s]
<1>1. rows' = [s \in Sessions |->
                 IF s \in ended THEN [rows[s] EXCEPT !.state = "revoked"] ELSE rows[s]]
  BY DEF Revoke
<1>2. \A s \in Sessions : rows[s] \in [state : {"none", "live", "expired", "revoked"}, token : 0 .. minted]
  BY DEF RowTypes
<1>3. \A s \in ended : /\ rows'[s].state = "revoked" /\ rows'[s].token = rows[s].token
                       /\ rows'[s] \in [state : {"none", "live", "expired", "revoked"}, token : 0 .. minted]
  BY <1>1, <1>2
<1>4. \A s \in Sessions \ ended : rows'[s] = rows[s]
  BY <1>1
<1>5. quiet' = quiet \cup {s \in ended : \A r \in Requests : ~(req[r].at = "found" /\ req[r].session = s)}
  BY DEF Revoke
<1>6. \A s \in quiet' \ quiet :
          s \in Sessions /\ rows'[s].state = "revoked" /\ \A r \in Requests : req[r].session # s
  BY <1>3, <1>5 DEF Position
<1>7. Revoked
  BY <1>3, <1>4, <1>6 DEF Revoked
<1>8. RowTypes'
  <2>1. rows' \in [Sessions -> [state : {"none", "live", "expired", "revoked"}, token : 0 .. minted]]
    BY <1>1, <1>2, <1>3, <1>4
  <2>2. \A s \in Sessions : rows'[s].token = rows[s].token
                           /\ (rows'[s].state # "none" => rows[s].state # "none")
    BY <1>3, <1>4
  <2>3. \A s, u \in Sessions : rows'[s].state # "none" =>
          rows'[s].token # NoToken /\ (s # u => rows'[u].token # rows'[s].token)
    BY <2>2 DEF RowTypes
  <2>4. quiet' \subseteq Sessions
    BY <1>5 DEF RowTypes
  <2> QED BY <2>1, <2>3, <2>4 DEF RowTypes
<1> QED BY <1>4, <1>7, <1>8

LEMMA IInvNext == IInv /\ [Next]_vars => IInv'
<1> SUFFICES ASSUME IInv, [Next]_vars PROVE IInv'
  OBVIOUS
<1>0. TypeOK /\ Position /\ OneHolder /\ QuietIsOver /\ Steady
  BY DEF IInv
<1>b. RowTypes /\ BrowserTypes /\ req \in [Requests -> Call]
  BY <1>0 DEF TypeOK, RowTypes, BrowserTypes, Call
<1>a. NoSession \notin Sessions /\ NoBrowser \notin Browsers /\ quiet \subseteq Sessions
  BY <1>b, BoundAssumption, BrowserAssumption DEF NoSession, Sessions, RowTypes
<1>c. minted \in Nat /\ NoToken = 0 /\ NoToken \in 0 .. minted
  BY <1>b DEF RowTypes, NoToken
<1>d. /\ \A r \in Requests : req[r] \in Call
      /\ \A s \in Sessions : rows[s].token \in 0 .. minted
      /\ \A b \in Browsers : refresh[b] \in 0 .. minted
  BY <1>b DEF RowTypes, BrowserTypes
<1>e. Idle \in Call
  BY <1>c DEF Idle, Call, Kinds, NoSession
<1>f. ASSUME NEW b \in Browsers, NEW kind \in {"api", "logout", "logout_all"}
      PROVE  Sent(b, kind) \in Call
  BY <1>b, <1>c DEF Sent, Idle, Call, Kinds, NoSession, BrowserTypes
<1>g. \A r \in Requests : req[r].at = "found" => req[r].session \in Sessions
  BY <1>0, <1>d DEF Position, Call
<1>1. ASSUME NEW r \in Requests, NEW b \in Browsers, NEW kind \in {"api", "logout", "logout_all"}, Send(r, b, kind) PROVE IInv'
  <2>1. /\ \A q \in Requests \ {r} : req'[q] = req[q]
        /\ req'[r].kind = kind /\ req'[r].by = b
        /\ req[r].at = "idle" /\ req'[r].at = "sent"
        /\ req'[r].session = NoSession
        /\ req'[r].token \in {NoToken, refresh[b]}
        /\ \A c \in Browsers : undisturbed'[c] => undisturbed[c] /\ ~(c = b /\ kind # "api" /\ Busy(b, r))
        /\ UNCHANGED <<rows, minted, refresh, quiet>>
    BY <1>0, <1>1 DEF Send, TypeOK, Position, NoSession, Sessions, Idle, Sent, Disturb, Busy,
        browserVars
  <2>2. req' \in [Requests -> Call']
    <3>1. minted' \in Nat /\ minted <= minted'
      BY <1>1, <1>c DEF Send, browserVars
    <3>2. Call \subseteq Call'
      BY <3>1, <1>c DEF Call
    <3>3. req'[r] \in Call'
      <4>1. req'[r] = Sent(b, kind)
        BY <1>1, <1>b DEF Send
      <4> QED BY <4>1, <3>2, <1>f
    <3> QED
      BY <1>1, <1>b, <3>2, <3>3 DEF Send
  <2>3. TypeOK'
    <3>1. BrowserTypes'
      BY <1>1, <1>b, <1>c, <1>d DEF Send, BrowserTypes, Call, Disturb, browserVars
    <3>2. RowTypes'
      BY <1>1, <1>b DEF Send, RowTypes
    <3> QED BY <2>2, <3>1, <3>2 DEF TypeOK, RowTypes, BrowserTypes, Call
  <2>4. Position'
    BY <1>0, <1>a, <2>1 DEF Position, Refreshing, Answers
  <2>5. NothingNew
    <3> SUFFICES ASSUME NEW c \in Browsers, NEW s \in Sessions, Holds(c, s)' PROVE Holds(c, s)
      BY DEF NothingNew
    <3> QED
      BY <1>a, <2>1 DEF Holds
  <2>6. OneHolder'
    BY <1>0, <2>5, OneHolderKept
  <2>7. QuietIsOver'
    BY <1>0, <1>a, <2>1 DEF QuietIsOver
  <2>8. Steady'
    <3> SUFFICES ASSUME NEW c \in Browsers, undisturbed'[c]
                 PROVE  (OneCookieCall(c) /\ InHand(c) /\ Opens(c))'
      BY DEF Steady
    <3>1. OneCookieCall(c) /\ InHand(c) /\ Opens(c)
      BY <1>0, <2>1 DEF Steady
    <3>2. OneCookieCall(c)'
      BY <1>a, <2>1, <3>1 DEF OneCookieCall, SetsCookies, Refreshing, Busy
    <3>3. InHand(c)'
      BY <1>a, <2>1, <3>1, <3>2 DEF OneCookieCall, SetsCookies, Refreshing, InHand, Opens,
          Usable, Finds, Busy
    <3>4. Opens(c)'
      BY <1>a, <2>1, <3>1 DEF InHand, Opens, Usable, Finds, SetsCookies, Refreshing, Busy
    <3> QED BY <3>2, <3>3, <3>4
  <2> QED BY <2>3, <2>4, <2>6, <2>7, <2>8 DEF IInv
<1>2. ASSUME NEW r \in Requests, StartRefresh(r) PROVE IInv'
  <2>1. /\ \A q \in Requests \ {r} : req'[q] = req[q]
        /\ req'[r].kind = req[r].kind /\ req'[r].by = req[r].by
        /\ req[r].at = "denied" /\ req'[r].at = "refresh"
        /\ req'[r].session = NoSession
        /\ req'[r].token = refresh[req[r].by]
        /\ \A c \in Browsers : undisturbed'[c] => undisturbed[c] /\ ~(c = req[r].by /\ Busy(c, r))
        /\ UNCHANGED <<rows, minted, refresh, quiet>>
    BY <1>0, <1>2 DEF StartRefresh, TypeOK, Position, NoSession, Sessions, Idle, Disturb, Busy,
        browserVars
  <2>2. req' \in [Requests -> Call']
    <3>1. minted' \in Nat /\ minted <= minted'
      BY <1>2, <1>c DEF StartRefresh, browserVars
    <3>2. Call \subseteq Call'
      BY <3>1, <1>c DEF Call
    <3>3. req'[r] \in Call'
      <4>1. req'[r] = [req[r] EXCEPT !.at = "refresh", !.token = refresh[req[r].by], !.cookie = FALSE]
        BY <1>2, <1>b DEF StartRefresh
      <4>2. req'[r] \in Call
        <5>1. req[r].by \in Browsers
          BY <1>0, <2>1 DEF Position
        <5> QED BY <1>d, <4>1, <5>1 DEF Call
      <4> QED BY <4>2, <3>2
    <3> QED
      BY <1>2, <1>b, <3>2, <3>3 DEF StartRefresh
  <2>3. TypeOK'
    <3>1. BrowserTypes'
      BY <1>2, <1>b, <1>c, <1>d DEF StartRefresh, BrowserTypes, Call, Disturb, browserVars
    <3>2. RowTypes'
      BY <1>2, <1>b DEF StartRefresh, RowTypes
    <3> QED BY <2>2, <3>1, <3>2 DEF TypeOK, RowTypes, BrowserTypes, Call
  <2>4. Position'
    BY <1>0, <1>a, <2>1 DEF Position, Refreshing, Answers
  <2>5. NothingNew
    <3> SUFFICES ASSUME NEW c \in Browsers, NEW s \in Sessions, Holds(c, s)' PROVE Holds(c, s)
      BY DEF NothingNew
    <3> QED
      BY <1>a, <2>1 DEF Holds
  <2>6. OneHolder'
    BY <1>0, <2>5, OneHolderKept
  <2>7. QuietIsOver'
    BY <1>0, <1>a, <2>1 DEF QuietIsOver
  <2>8. Steady'
    <3> SUFFICES ASSUME NEW c \in Browsers, undisturbed'[c]
                 PROVE  (OneCookieCall(c) /\ InHand(c) /\ Opens(c))'
      BY DEF Steady
    <3>1. OneCookieCall(c) /\ InHand(c) /\ Opens(c)
      BY <1>0, <2>1 DEF Steady
    <3>2. OneCookieCall(c)'
      BY <1>a, <2>1, <3>1 DEF OneCookieCall, SetsCookies, Refreshing, Busy
    <3>3. InHand(c)'
      BY <1>a, <2>1, <3>1, <3>2 DEF OneCookieCall, SetsCookies, Refreshing, InHand, Opens,
          Usable, Finds, Busy
    <3>4. Opens(c)'
      BY <1>a, <2>1, <3>1 DEF InHand, Opens, Usable, Finds, SetsCookies, Refreshing, Busy
    <3> QED BY <3>2, <3>3, <3>4
  <2> QED BY <2>3, <2>4, <2>6, <2>7, <2>8 DEF IInv
<1>3. ASSUME NEW r \in Requests, Retry(r) PROVE IInv'
  <2>1. /\ \A q \in Requests \ {r} : req'[q] = req[q]
        /\ req'[r].kind = req[r].kind /\ req'[r].by = req[r].by
        /\ req[r].at = "rotated" /\ req'[r].at = "sent"
        /\ req'[r].session = NoSession
        /\ req'[r].token = NoToken
        /\ refresh'[req[r].by] = req[r].token
        /\ \A c \in Browsers \ {req[r].by} : refresh'[c] = refresh[c]
        /\ UNCHANGED <<rows, minted, undisturbed, quiet>>
    BY <1>0, <1>3 DEF Retry, TypeOK, Position, NoSession, Sessions, Idle, Refreshing, Sent
  <2>2. req' \in [Requests -> Call']
    <3>1. minted' \in Nat /\ minted <= minted'
      BY <1>3, <1>c DEF Retry
    <3>2. Call \subseteq Call'
      BY <3>1, <1>c DEF Call
    <3>3. req'[r] \in Call'
      <4>1. req'[r] = [Sent(req[r].by, req[r].kind) EXCEPT !.cookie = TRUE, !.again = TRUE]
        BY <1>3, <1>b DEF Retry
      <4>2. req'[r] \in Call
        <5>1. req[r].by \in Browsers /\ req[r].kind \in {"api", "logout_all"}
          BY <1>0, <2>1 DEF Position, Refreshing
        <5>2. Sent(req[r].by, req[r].kind) \in Call
          BY <1>f, <5>1
        <5> QED BY <4>1, <5>2 DEF Call
      <4> QED BY <4>2, <3>2
    <3> QED
      BY <1>3, <1>b, <3>2, <3>3 DEF Retry
  <2>3. TypeOK'
    <3>1. BrowserTypes'
      BY <1>3, <1>b, <1>c, <1>d DEF Retry, BrowserTypes, Call
    <3>2. RowTypes'
      BY <1>3, <1>b DEF Retry, RowTypes
    <3> QED BY <2>2, <3>1, <3>2 DEF TypeOK, RowTypes, BrowserTypes, Call
  <2>4. Position'
    BY <1>0, <1>a, <2>1 DEF Position, Refreshing, Answers
  <2>5. NothingNew
    <3> SUFFICES ASSUME NEW c \in Browsers, NEW s \in Sessions, Holds(c, s)' PROVE Holds(c, s)
      BY DEF NothingNew
    <3> QED
      BY <1>a, <2>1 DEF Holds
  <2>6. OneHolder'
    BY <1>0, <2>5, OneHolderKept
  <2>7. QuietIsOver'
    BY <1>0, <1>a, <2>1 DEF QuietIsOver
  <2>8. Steady'
    <3> SUFFICES ASSUME NEW c \in Browsers, undisturbed'[c]
                 PROVE  (OneCookieCall(c) /\ InHand(c) /\ Opens(c))'
      BY DEF Steady
    <3>1. OneCookieCall(c) /\ InHand(c) /\ Opens(c)
      BY <1>0, <2>1 DEF Steady
    <3>2. OneCookieCall(c)'
      BY <1>a, <2>1, <3>1 DEF OneCookieCall, SetsCookies, Refreshing
    <3>3. InHand(c)'
      BY <1>a, <2>1, <3>1, <3>2 DEF OneCookieCall, SetsCookies, Refreshing, InHand, Opens,
          Usable, Finds
    <3>4. Opens(c)'
      BY <1>a, <2>1, <3>1 DEF InHand, Opens, Usable, Finds, SetsCookies, Refreshing
    <3> QED BY <3>2, <3>3, <3>4
  <2> QED BY <2>3, <2>4, <2>6, <2>7, <2>8 DEF IInv
<1>4. ASSUME NEW r \in Requests, GiveUp(r) PROVE IInv'
  <2>1. /\ \A q \in Requests \ {r} : req'[q] = req[q]
        /\ req'[r].at = "idle" /\ req'[r].by = NoBrowser /\ req'[r].session = NoSession
        /\ req[r].at \in {"refused", "failed"}
        /\ \/ UNCHANGED refresh
           \/ req[r].at = "refused" /\ refresh'[req[r].by] = NoToken
        /\ \A c \in Browsers \ {req[r].by} : refresh'[c] = refresh[c]
        /\ UNCHANGED <<rows, minted, undisturbed, quiet>>
    BY <1>0, <1>4 DEF GiveUp, TypeOK, Position, NoSession, Sessions, Idle
  <2>2. req' \in [Requests -> Call']
    <3>1. minted' \in Nat /\ minted <= minted'
      BY <1>4, <1>c DEF GiveUp
    <3>2. Call \subseteq Call'
      BY <3>1, <1>c DEF Call
    <3>3. req'[r] \in Call'
      <4>1. req'[r] = Idle
        BY <1>4, <1>b DEF GiveUp
      <4> QED BY <4>1, <3>2, <1>e
    <3> QED
      BY <1>4, <1>b, <3>2, <3>3 DEF GiveUp
  <2>3. TypeOK'
    <3>1. BrowserTypes'
      BY <1>4, <1>b, <1>c, <1>d DEF GiveUp, BrowserTypes, Call
    <3>2. RowTypes'
      BY <1>4, <1>b DEF GiveUp, RowTypes
    <3> QED BY <2>2, <3>1, <3>2 DEF TypeOK, RowTypes, BrowserTypes, Call
  <2>4. Position'
    BY <1>0, <1>a, <2>1 DEF Position, Refreshing, Answers
  <2>5. NothingNew
    <3> SUFFICES ASSUME NEW c \in Browsers, NEW s \in Sessions, Holds(c, s)' PROVE Holds(c, s)
      BY DEF NothingNew
    <3> QED
      BY <1>a, <2>1 DEF Holds
  <2>6. OneHolder'
    BY <1>0, <2>5, OneHolderKept
  <2>7. QuietIsOver'
    BY <1>0, <1>a, <2>1 DEF QuietIsOver
  <2>8. Steady'
    <3> SUFFICES ASSUME NEW c \in Browsers, undisturbed'[c]
                 PROVE  (OneCookieCall(c) /\ InHand(c) /\ Opens(c))'
      BY DEF Steady
    <3>1. OneCookieCall(c) /\ InHand(c) /\ Opens(c)
      BY <1>0, <2>1 DEF Steady
    <3>2. OneCookieCall(c)'
      BY <1>a, <2>1, <3>1 DEF OneCookieCall, SetsCookies, Refreshing
    <3>3. InHand(c)'
      BY <1>a, <2>1, <3>1, <3>2 DEF OneCookieCall, SetsCookies, Refreshing, InHand, Opens,
          Usable, Finds
    <3>4. Opens(c)'
      BY <1>a, <2>1, <3>1 DEF InHand, Opens, Usable, Finds, SetsCookies, Refreshing
    <3> QED BY <3>2, <3>3, <3>4
  <2> QED BY <2>3, <2>4, <2>6, <2>7, <2>8 DEF IInv
<1>5. ASSUME NEW r \in Requests, Fail(r) PROVE IInv'
  <2>1. /\ \A q \in Requests \ {r} : req'[q] = req[q]
        /\ req'[r].at = "idle" /\ req'[r].by = NoBrowser /\ req'[r].session = NoSession
        /\ req[r].at = "denied"
        /\ UNCHANGED <<rows, minted, refresh, undisturbed, quiet>>
    BY <1>0, <1>5 DEF Fail, TypeOK, Position, NoSession, Sessions, Idle
  <2>2. req' \in [Requests -> Call']
    <3>1. minted' \in Nat /\ minted <= minted'
      BY <1>5, <1>c DEF Fail
    <3>2. Call \subseteq Call'
      BY <3>1, <1>c DEF Call
    <3>3. req'[r] \in Call'
      <4>1. req'[r] = Idle
        BY <1>5, <1>b DEF Fail
      <4> QED BY <4>1, <3>2, <1>e
    <3> QED
      BY <1>5, <1>b, <3>2, <3>3 DEF Fail
  <2>3. TypeOK'
    <3>1. BrowserTypes'
      BY <1>5, <1>b, <1>c, <1>d DEF Fail, BrowserTypes, Call
    <3>2. RowTypes'
      BY <1>5, <1>b DEF Fail, RowTypes
    <3> QED BY <2>2, <3>1, <3>2 DEF TypeOK, RowTypes, BrowserTypes, Call
  <2>4. Position'
    BY <1>0, <1>a, <2>1 DEF Position, Refreshing, Answers
  <2>5. NothingNew
    <3> SUFFICES ASSUME NEW c \in Browsers, NEW s \in Sessions, Holds(c, s)' PROVE Holds(c, s)
      BY DEF NothingNew
    <3> QED
      BY <1>a, <2>1 DEF Holds
  <2>6. OneHolder'
    BY <1>0, <2>5, OneHolderKept
  <2>7. QuietIsOver'
    BY <1>0, <1>a, <2>1 DEF QuietIsOver
  <2>8. Steady'
    <3> SUFFICES ASSUME NEW c \in Browsers, undisturbed'[c]
                 PROVE  (OneCookieCall(c) /\ InHand(c) /\ Opens(c))'
      BY DEF Steady
    <3>1. OneCookieCall(c) /\ InHand(c) /\ Opens(c)
      BY <1>0, <2>1 DEF Steady
    <3>2. OneCookieCall(c)'
      BY <1>a, <2>1, <3>1 DEF OneCookieCall, SetsCookies, Refreshing
    <3>3. InHand(c)'
      BY <1>a, <2>1, <3>1, <3>2 DEF OneCookieCall, SetsCookies, Refreshing, InHand, Opens,
          Usable, Finds
    <3>4. Opens(c)'
      BY <1>a, <2>1, <3>1 DEF InHand, Opens, Usable, Finds, SetsCookies, Refreshing
    <3> QED BY <3>2, <3>3, <3>4
  <2> QED BY <2>3, <2>4, <2>6, <2>7, <2>8 DEF IInv
<1>6. ASSUME NEW r \in Requests, SignedIn(r) PROVE IInv'
  <2>1. /\ \A q \in Requests \ {r} : req'[q] = req[q]
        /\ req'[r].at = "idle" /\ req'[r].by = NoBrowser /\ req'[r].session = NoSession
        /\ req[r].at = "in"
        /\ refresh'[req[r].by] = req[r].token
        /\ \A c \in Browsers \ {req[r].by} : refresh'[c] = refresh[c]
        /\ undisturbed'[req[r].by] =>
               /\ Usable(req[r].token)
               /\ \A q \in Requests \ {r} : req[q].by = req[r].by => ~SetsCookies(q)
        /\ \A c \in Browsers \ {req[r].by} : undisturbed'[c] => undisturbed[c]
        /\ UNCHANGED <<rows, minted, quiet>>
    BY <1>0, <1>6 DEF SignedIn, TypeOK, Position, NoSession, Sessions, Idle, Busy, Usable,
        Finds, SetsCookies
  <2>2. req' \in [Requests -> Call']
    <3>1. minted' \in Nat /\ minted <= minted'
      BY <1>6, <1>c DEF SignedIn
    <3>2. Call \subseteq Call'
      BY <3>1, <1>c DEF Call
    <3>3. req'[r] \in Call'
      <4>1. req'[r] = Idle
        BY <1>6, <1>b DEF SignedIn
      <4> QED BY <4>1, <3>2, <1>e
    <3> QED
      BY <1>6, <1>b, <3>2, <3>3 DEF SignedIn
  <2>3. TypeOK'
    <3>1. BrowserTypes'
      BY <1>6, <1>b, <1>c, <1>d DEF SignedIn, BrowserTypes, Call
    <3>2. RowTypes'
      BY <1>6, <1>b DEF SignedIn, RowTypes
    <3> QED BY <2>2, <3>1, <3>2 DEF TypeOK, RowTypes, BrowserTypes, Call
  <2>4. Position'
    BY <1>0, <1>a, <2>1 DEF Position, Refreshing, Answers
  <2>5. NothingNew
    <3> SUFFICES ASSUME NEW c \in Browsers, NEW s \in Sessions, Holds(c, s)' PROVE Holds(c, s)
      BY DEF NothingNew
    <3> QED
      BY <1>a, <2>1 DEF Holds
  <2>6. OneHolder'
    BY <1>0, <2>5, OneHolderKept
  <2>7. QuietIsOver'
    BY <1>0, <1>a, <2>1 DEF QuietIsOver
  <2>8. Steady'
    <3> SUFFICES ASSUME NEW c \in Browsers, undisturbed'[c]
                 PROVE  (OneCookieCall(c) /\ InHand(c) /\ Opens(c))'
      BY DEF Steady
    <3>1. c # req[r].by => OneCookieCall(c) /\ InHand(c) /\ Opens(c)
      BY <1>0, <2>1 DEF Steady, TypeOK
    <3>2. OneCookieCall(c)'
      BY <1>a, <2>1, <3>1 DEF OneCookieCall, SetsCookies, Refreshing
    <3>3. InHand(c)'
      <4>1. CASE c = req[r].by
        <5>1. \A q \in Requests \ {r} : req[q].by = c => ~SetsCookies(q)
          BY <2>1, <4>1
        <5>2. \A q \in Requests \ {r} : req[q].by = c =>
                 req[q].at \notin {"refresh", "found", "rotated", "refused", "failed", "out"}
          BY <1>0, <5>1 DEF SetsCookies, Refreshing, Position
        <5> QED BY <1>a, <2>1, <4>1, <5>2 DEF InHand
      <4>2. CASE c # req[r].by
        BY <1>a, <2>1, <3>1, <4>2 DEF InHand, Usable, Finds
      <4> QED BY <4>1, <4>2
    <3>4. Opens(c)'
      BY <1>a, <2>1, <3>1 DEF InHand, Opens, Usable, Finds, SetsCookies, Refreshing
    <3> QED BY <3>2, <3>3, <3>4
  <2> QED BY <2>3, <2>4, <2>6, <2>7, <2>8 DEF IInv
<1>7. ASSUME NEW r \in Requests, SignedOut(r) PROVE IInv'
  <2>1. /\ \A q \in Requests \ {r} : req'[q] = req[q]
        /\ req'[r].at = "idle" /\ req'[r].by = NoBrowser /\ req'[r].session = NoSession
        /\ req[r].at = "out"
        /\ refresh'[req[r].by] = NoToken
        /\ \A c \in Browsers \ {req[r].by} : refresh'[c] = refresh[c]
        /\ \A c \in Browsers : undisturbed'[c] => undisturbed[c] /\ c # req[r].by
        /\ UNCHANGED <<rows, minted, quiet>>
    BY <1>0, <1>7 DEF SignedOut, TypeOK, Position, NoSession, Sessions, Idle, Disturb
  <2>2. req' \in [Requests -> Call']
    <3>1. minted' \in Nat /\ minted <= minted'
      BY <1>7, <1>c DEF SignedOut
    <3>2. Call \subseteq Call'
      BY <3>1, <1>c DEF Call
    <3>3. req'[r] \in Call'
      <4>1. req'[r] = Idle
        BY <1>7, <1>b DEF SignedOut
      <4> QED BY <4>1, <3>2, <1>e
    <3> QED
      BY <1>7, <1>b, <3>2, <3>3 DEF SignedOut
  <2>3. TypeOK'
    <3>1. BrowserTypes'
      BY <1>7, <1>b, <1>c, <1>d DEF SignedOut, BrowserTypes, Call, Disturb
    <3>2. RowTypes'
      BY <1>7, <1>b DEF SignedOut, RowTypes
    <3> QED BY <2>2, <3>1, <3>2 DEF TypeOK, RowTypes, BrowserTypes, Call
  <2>4. Position'
    BY <1>0, <1>a, <2>1 DEF Position, Refreshing, Answers
  <2>5. NothingNew
    <3> SUFFICES ASSUME NEW c \in Browsers, NEW s \in Sessions, Holds(c, s)' PROVE Holds(c, s)
      BY DEF NothingNew
    <3> QED
      BY <1>a, <2>1 DEF Holds
  <2>6. OneHolder'
    BY <1>0, <2>5, OneHolderKept
  <2>7. QuietIsOver'
    BY <1>0, <1>a, <2>1 DEF QuietIsOver
  <2>8. Steady'
    <3> SUFFICES ASSUME NEW c \in Browsers, undisturbed'[c]
                 PROVE  (OneCookieCall(c) /\ InHand(c) /\ Opens(c))'
      BY DEF Steady
    <3>1. OneCookieCall(c) /\ InHand(c) /\ Opens(c)
      BY <1>0, <2>1 DEF Steady
    <3>2. OneCookieCall(c)'
      BY <1>a, <2>1, <3>1 DEF OneCookieCall, SetsCookies, Refreshing
    <3>3. InHand(c)'
      BY <1>a, <2>1, <3>1, <3>2 DEF OneCookieCall, SetsCookies, Refreshing, InHand, Opens,
          Usable, Finds
    <3>4. Opens(c)'
      BY <1>a, <2>1, <3>1 DEF InHand, Opens, Usable, Finds, SetsCookies, Refreshing
    <3> QED BY <3>2, <3>3, <3>4
  <2> QED BY <2>3, <2>4, <2>6, <2>7, <2>8 DEF IInv
<1>8. ASSUME NEW r \in Requests, LoseAnswer(r) PROVE IInv'
  <2>1. /\ \A q \in Requests \ {r} : req'[q] = req[q]
        /\ req'[r].at = "idle" /\ req'[r].by = NoBrowser /\ req'[r].session = NoSession
        /\ req[r].at \in Answers
        /\ \A c \in Browsers : undisturbed'[c] => undisturbed[c] /\ c # req[r].by
        /\ UNCHANGED <<rows, minted, refresh, quiet>>
    BY <1>0, <1>8 DEF LoseAnswer, TypeOK, Position, NoSession, Sessions, Idle, Disturb
  <2>2. req' \in [Requests -> Call']
    <3>1. minted' \in Nat /\ minted <= minted'
      BY <1>8, <1>c DEF LoseAnswer
    <3>2. Call \subseteq Call'
      BY <3>1, <1>c DEF Call
    <3>3. req'[r] \in Call'
      <4>1. req'[r] = Idle
        BY <1>8, <1>b DEF LoseAnswer
      <4> QED BY <4>1, <3>2, <1>e
    <3> QED
      BY <1>8, <1>b, <3>2, <3>3 DEF LoseAnswer
  <2>3. TypeOK'
    <3>1. BrowserTypes'
      <4>1. stored' \in [Browsers -> {"none", "live", "expired"}]
        BY <1>8, <1>b DEF LoseAnswer, BrowserTypes
      <4>2. undisturbed' \in [Browsers -> BOOLEAN]
        BY <1>8 DEF LoseAnswer, Disturb
      <4>3. faults' \in 0 .. MaxFaults
        BY <1>8, <1>b, BoundAssumption DEF LoseAnswer, Fault, BrowserTypes
      <4> QED BY <1>8, <1>b, <4>1, <4>2, <4>3 DEF LoseAnswer, BrowserTypes
    <3>2. RowTypes'
      BY <1>8, <1>b DEF LoseAnswer, RowTypes
    <3> QED BY <2>2, <3>1, <3>2 DEF TypeOK, RowTypes, BrowserTypes, Call
  <2>4. Position'
    BY <1>0, <1>a, <2>1 DEF Position, Refreshing, Answers
  <2>5. NothingNew
    <3> SUFFICES ASSUME NEW c \in Browsers, NEW s \in Sessions, Holds(c, s)' PROVE Holds(c, s)
      BY DEF NothingNew
    <3> QED
      BY <1>a, <2>1 DEF Holds
  <2>6. OneHolder'
    BY <1>0, <2>5, OneHolderKept
  <2>7. QuietIsOver'
    BY <1>0, <1>a, <2>1 DEF QuietIsOver
  <2>8. Steady'
    <3> SUFFICES ASSUME NEW c \in Browsers, undisturbed'[c]
                 PROVE  (OneCookieCall(c) /\ InHand(c) /\ Opens(c))'
      BY DEF Steady
    <3>1. OneCookieCall(c) /\ InHand(c) /\ Opens(c)
      BY <1>0, <2>1 DEF Steady
    <3>2. OneCookieCall(c)'
      BY <1>a, <2>1, <3>1 DEF OneCookieCall, SetsCookies, Refreshing
    <3>3. InHand(c)'
      BY <1>a, <2>1, <3>1, <3>2 DEF OneCookieCall, SetsCookies, Refreshing, InHand, Opens,
          Usable, Finds
    <3>4. Opens(c)'
      BY <1>a, <2>1, <3>1 DEF InHand, Opens, Usable, Finds, SetsCookies, Refreshing
    <3> QED BY <3>2, <3>3, <3>4
  <2> QED BY <2>3, <2>4, <2>6, <2>7, <2>8 DEF IInv
<1>9. ASSUME NEW r \in Requests, Serve(r) PROVE IInv'
  <2>1. /\ \A q \in Requests \ {r} : req'[q] = req[q]
        /\ req[r].kind = "api" /\ req[r].at = "sent"
        /\ \/ req'[r].at = "idle" /\ req'[r].by = NoBrowser /\ req'[r].session = NoSession
           \/ /\ req'[r].kind = req[r].kind /\ req'[r].by = req[r].by /\ req'[r].token = req[r].token
              /\ req'[r].at = "denied" /\ req'[r].session = NoSession
        /\ UNCHANGED <<rows, minted, refresh, undisturbed, quiet>>
    BY <1>0, <1>9 DEF Serve, TypeOK, Position, NoSession, Sessions, Idle, browserVars
  <2>2. req' \in [Requests -> Call']
    <3>1. minted' \in Nat /\ minted <= minted'
      BY <1>9, <1>c DEF Serve, browserVars
    <3>2. Call \subseteq Call'
      BY <3>1, <1>c DEF Call
    <3>3. req'[r] \in Call'
      <4>1. req'[r] = IF Authorised(r) THEN Idle ELSE [req[r] EXCEPT !.at = "denied"]
        BY <1>9, <1>b DEF Serve
      <4>2. req'[r] \in Call
        BY <1>d, <1>e, <4>1 DEF Call, Answers
      <4> QED BY <4>2, <3>2
    <3> QED
      BY <1>9, <1>b, <3>2, <3>3 DEF Serve
  <2>3. TypeOK'
    <3>1. BrowserTypes'
      BY <1>9, <1>b, <1>c, <1>d DEF Serve, BrowserTypes, Call, browserVars
    <3>2. RowTypes'
      BY <1>9, <1>b DEF Serve, RowTypes
    <3> QED BY <2>2, <3>1, <3>2 DEF TypeOK, RowTypes, BrowserTypes, Call
  <2>4. Position'
    BY <1>0, <1>a, <2>1 DEF Position, Refreshing, Answers
  <2>5. NothingNew
    <3> SUFFICES ASSUME NEW c \in Browsers, NEW s \in Sessions, Holds(c, s)' PROVE Holds(c, s)
      BY DEF NothingNew
    <3> QED
      BY <1>a, <2>1 DEF Holds
  <2>6. OneHolder'
    BY <1>0, <2>5, OneHolderKept
  <2>7. QuietIsOver'
    BY <1>0, <1>a, <2>1 DEF QuietIsOver
  <2>8. Steady'
    <3> SUFFICES ASSUME NEW c \in Browsers, undisturbed'[c]
                 PROVE  (OneCookieCall(c) /\ InHand(c) /\ Opens(c))'
      BY DEF Steady
    <3>1. OneCookieCall(c) /\ InHand(c) /\ Opens(c)
      BY <1>0, <2>1 DEF Steady
    <3>2. OneCookieCall(c)'
      BY <1>a, <2>1, <3>1 DEF OneCookieCall, SetsCookies, Refreshing
    <3>3. InHand(c)'
      BY <1>a, <2>1, <3>1, <3>2 DEF OneCookieCall, SetsCookies, Refreshing, InHand, Opens,
          Usable, Finds
    <3>4. Opens(c)'
      BY <1>a, <2>1, <3>1 DEF InHand, Opens, Usable, Finds, SetsCookies, Refreshing
    <3> QED BY <3>2, <3>3, <3>4
  <2> QED BY <2>3, <2>4, <2>6, <2>7, <2>8 DEF IInv
<1>10. ASSUME NEW r \in Requests, FindSession(r) PROVE IInv'
  <2> DEFINE having == {s \in Sessions : Finds(req[r].token, s)}
  <2>1. /\ \A q \in Requests \ {r} : req'[q] = req[q]
        /\ req'[r].kind = req[r].kind /\ req'[r].by = req[r].by /\ req'[r].token = NoToken
        /\ req[r].at = "refresh"
        /\ \/ /\ \A s \in Sessions : ~Finds(req[r].token, s)
              /\ req'[r].at = "refused" /\ req'[r].session = NoSession
           \/ /\ req'[r].session \in Sessions /\ Finds(req[r].token, req'[r].session)
              /\ req'[r].at = "found"
        /\ UNCHANGED <<rows, minted, refresh, undisturbed, quiet>>
        /\ req' \in [Requests -> Call]
    <3>1. req[r].at = "refresh" /\ UNCHANGED <<rows, minted, browserVars, undisturbed, quiet>>
      BY <1>10 DEF FindSession
    <3>2. req[r].session = NoSession
      BY <1>0, <3>1 DEF Position
    <3>3. CASE having = {}
      <4>1. req' = [req EXCEPT ![r] = [req[r] EXCEPT !.at = "refused", !.token = NoToken]]
        BY <1>10, <1>b, <3>3 DEF FindSession
      <4>2. req'[r] = [req[r] EXCEPT !.at = "refused", !.token = NoToken]
        BY <1>b, <4>1
      <4>3. req'[r] \in Call /\ req'[r].session = NoSession /\ req'[r].at = "refused"
            /\ req'[r].token = NoToken /\ req'[r].kind = req[r].kind /\ req'[r].by = req[r].by
        BY <1>c, <1>d, <3>2, <4>2 DEF Call, Answers
      <4> QED BY <1>b, <3>1, <3>3, <4>1, <4>3 DEF browserVars
    <3>4. CASE having # {}
      <4>1. PICK s \in having :
               req' = [req EXCEPT ![r] = [req[r] EXCEPT !.at = "found", !.session = s, !.token = NoToken]]
        BY <1>10, <1>b, <3>4 DEF FindSession
      <4>2. req'[r] = [req[r] EXCEPT !.at = "found", !.session = s, !.token = NoToken]
        BY <1>b, <4>1
      <4>3. req'[r] \in Call /\ req'[r].session = s /\ req'[r].at = "found"
            /\ req'[r].token = NoToken /\ req'[r].kind = req[r].kind /\ req'[r].by = req[r].by
        BY <1>c, <1>d, <4>2 DEF Call
      <4> QED BY <1>b, <3>1, <4>1, <4>3 DEF browserVars
    <3> QED BY <3>3, <3>4
  <2>2. req' \in [Requests -> Call']
    BY <2>1 DEF Call
  <2>3. TypeOK'
    <3>1. BrowserTypes'
      BY <1>10, <1>b, <1>c, <1>d DEF FindSession, BrowserTypes, Call, browserVars
    <3>2. RowTypes'
      BY <1>10, <1>b DEF FindSession, RowTypes
    <3> QED BY <2>2, <3>1, <3>2 DEF TypeOK, RowTypes, BrowserTypes, Call
  <2>4. Position'
    BY <1>0, <1>a, <2>1 DEF Position, Refreshing, Answers, Finds
  <2>5. NothingNew
    <3> SUFFICES ASSUME NEW c \in Browsers, NEW s \in Sessions, Holds(c, s)' PROVE Holds(c, s)
      BY DEF NothingNew
    <3> QED
      BY <1>a, <2>1 DEF Holds, Finds
  <2>6. OneHolder'
    BY <1>0, <2>5, OneHolderKept
  <2>7. QuietIsOver'
    BY <1>0, <1>a, <2>1 DEF QuietIsOver, Finds
  <2>8. Steady'
    <3> SUFFICES ASSUME NEW c \in Browsers, undisturbed'[c]
                 PROVE  (OneCookieCall(c) /\ InHand(c) /\ Opens(c))'
      BY DEF Steady
    <3>1. OneCookieCall(c) /\ InHand(c) /\ Opens(c)
      BY <1>0, <2>1 DEF Steady
    <3>2. OneCookieCall(c)'
      BY <1>a, <2>1, <3>1 DEF OneCookieCall, SetsCookies, Refreshing
    <3>3. InHand(c)'
      BY <1>a, <2>1, <3>1, <3>2 DEF OneCookieCall, SetsCookies, Refreshing, InHand, Opens,
          Usable, Finds
    <3>4. Opens(c)'
      BY <1>a, <2>1, <3>1 DEF InHand, Opens, Usable, Finds, SetsCookies, Refreshing
    <3> QED BY <3>2, <3>3, <3>4
  <2> QED BY <2>3, <2>4, <2>6, <2>7, <2>8 DEF IInv
<1>11. ASSUME NEW r \in Requests, RotateFails(r) PROVE IInv'
  <2>1. /\ \A q \in Requests \ {r} : req'[q] = req[q]
        /\ req'[r].kind = req[r].kind /\ req'[r].by = req[r].by /\ req'[r].token = req[r].token
        /\ req[r].at = "found" /\ req'[r].at = "failed"
        /\ req'[r].session = NoSession
        /\ UNCHANGED <<rows, minted, refresh, undisturbed, quiet>>
    BY <1>0, <1>11 DEF RotateFails, TypeOK, Position, NoSession, Sessions, Idle, browserVars
  <2>2. req' \in [Requests -> Call']
    <3>1. minted' \in Nat /\ minted <= minted'
      BY <1>11, <1>c DEF RotateFails, browserVars
    <3>2. Call \subseteq Call'
      BY <3>1, <1>c DEF Call
    <3>3. req'[r] \in Call'
      <4>1. req'[r] = [req[r] EXCEPT !.at = "failed", !.session = NoSession]
        BY <1>11, <1>b DEF RotateFails
      <4>2. req'[r] \in Call
        BY <1>d, <4>1 DEF Call, Answers, NoSession
      <4> QED BY <4>2, <3>2
    <3> QED
      BY <1>11, <1>b, <3>2, <3>3 DEF RotateFails
  <2>3. TypeOK'
    <3>1. BrowserTypes'
      BY <1>11, <1>b, BoundAssumption DEF RotateFails, BrowserTypes, Fault, browserVars, Disturb
    <3>2. RowTypes'
      BY <1>11, <1>b DEF RotateFails, RowTypes
    <3> QED BY <2>2, <3>1, <3>2 DEF TypeOK, RowTypes, BrowserTypes, Call
  <2>4. Position'
    BY <1>0, <1>a, <2>1 DEF Position, Refreshing, Answers
  <2>5. NothingNew
    <3> SUFFICES ASSUME NEW c \in Browsers, NEW s \in Sessions, Holds(c, s)' PROVE Holds(c, s)
      BY DEF NothingNew
    <3> QED
      BY <1>a, <2>1 DEF Holds
  <2>6. OneHolder'
    BY <1>0, <2>5, OneHolderKept
  <2>7. QuietIsOver'
    BY <1>0, <1>a, <2>1 DEF QuietIsOver
  <2>8. Steady'
    <3> SUFFICES ASSUME NEW c \in Browsers, undisturbed'[c]
                 PROVE  (OneCookieCall(c) /\ InHand(c) /\ Opens(c))'
      BY DEF Steady
    <3>1. OneCookieCall(c) /\ InHand(c) /\ Opens(c)
      BY <1>0, <2>1 DEF Steady
    <3>2. OneCookieCall(c)'
      BY <1>a, <2>1, <3>1 DEF OneCookieCall, SetsCookies, Refreshing
    <3>3. InHand(c)'
      BY <1>a, <2>1, <3>1, <3>2 DEF OneCookieCall, SetsCookies, Refreshing, InHand, Opens,
          Usable, Finds
    <3>4. Opens(c)'
      BY <1>a, <2>1, <3>1 DEF InHand, Opens, Usable, Finds, SetsCookies, Refreshing
    <3> QED BY <3>2, <3>3, <3>4
  <2> QED BY <2>3, <2>4, <2>6, <2>7, <2>8 DEF IInv
<1>12. ASSUME NEW r \in Requests, NEW b \in Browsers, NEW s \in Sessions, Login(r, b, s)
       PROVE  IInv'
  <2>1. /\ \A q \in Requests \ {r} : req'[q] = req[q]
        /\ req'[r].kind = "login" /\ req'[r].by = b
        /\ req[r].at = "idle" /\ req'[r].at = "in"
        /\ req'[r].session = NoSession
        /\ req'[r].token = minted + 1
        /\ rows[s].state = "none" /\ rows'[s].state = "live" /\ rows'[s].token = minted + 1
        /\ \A u \in Sessions \ {s} : rows'[u] = rows[u]
        /\ \A c \in Browsers : undisturbed'[c] => undisturbed[c] /\ ~(c = b /\ Busy(b, r))
        /\ UNCHANGED <<refresh, quiet>>
    BY <1>0, <1>12 DEF Login, TypeOK, Position, NoSession, Sessions, Idle, Mint, Disturb, Busy,
        browserVars
  <2>2. minted' = minted + 1 /\ minted' \in 0 .. MaxTokens /\ minted' \in 0 .. minted'
    BY <1>12, <1>b, <1>c, BoundAssumption DEF Login, Mint, RowTypes
  <2>3. TypeOK'
    <3>1. Idle \in Call' /\ Call \subseteq Call'
      BY <1>c, <1>e, <2>2 DEF Call
    <3>2. req' = [req EXCEPT ![r] = [Idle EXCEPT !.kind = "login", !.by = b, !.at = "in",
                                                 !.token = minted']]
      BY <1>12 DEF Login
    <3>3. [Idle EXCEPT !.kind = "login", !.by = b, !.at = "in", !.token = minted'] \in Call'
      BY <2>2, <3>1 DEF Call, Kinds, Answers
    <3>4. req' \in [Requests -> Call']
      BY <1>b, <3>1, <3>2, <3>3
    <3>5. BrowserTypes'
      BY <1>12, <1>b, <1>c, <1>d, <2>2 DEF Login, BrowserTypes, Disturb, browserVars
    <3>6. rows' \in [Sessions -> [state : {"none", "live", "expired", "revoked"},
                                  token : 0 .. minted']]
      BY <1>12, <1>b, <1>c, <2>2 DEF Login, RowTypes
    <3>7. ASSUME NEW u \in Sessions, NEW v \in Sessions, rows'[u].state # "none"
          PROVE  rows'[u].token # NoToken /\ (u # v => rows'[v].token # rows'[u].token)
      BY <1>b, <1>c, <1>d, <2>1, <3>7 DEF RowTypes
    <3> QED BY <1>b, <2>1, <2>2, <3>4, <3>5, <3>6, <3>7 DEF TypeOK, RowTypes, BrowserTypes, Call
  <2>4. Position'
    BY <1>0, <1>a, <1>c, <1>d, <1>g, <2>1 DEF Position, Refreshing, Answers
  <2>5. /\ \A q \in Requests : req[q].session # s /\ req[q].token # minted + 1
        /\ \A c \in Browsers : refresh[c] # minted + 1
        /\ rows[s].token = NoToken
        /\ \A u \in Sessions : rows[u].token # minted + 1
    BY <1>0, <1>a, <1>c, <1>d, <2>1 DEF Position, Call
  <2>6. OneHolder'
    <3> SUFFICES ASSUME NEW u \in Sessions, NEW c \in Browsers, NEW d \in Browsers,
                        Holds(c, u)', Holds(d, u)'
                 PROVE  c = d
      BY DEF OneHolder
    <3>1. CASE u = s
      <4>1. c = b /\ d = b
        BY <1>a, <2>1, <2>5, <3>1 DEF Holds
      <4> QED BY <4>1
    <3>2. CASE u # s
      <4>1. Holds(c, u) /\ Holds(d, u)
        BY <1>a, <2>1, <2>5, <3>2 DEF Holds
      <4> QED BY <1>0, <4>1 DEF OneHolder
    <3> QED BY <3>1, <3>2
  <2>7. QuietIsOver'
    BY <1>0, <1>a, <2>1 DEF QuietIsOver
  <2>8. Steady'
    <3> SUFFICES ASSUME NEW c \in Browsers, undisturbed'[c]
                 PROVE  (OneCookieCall(c) /\ InHand(c) /\ Opens(c))'
      BY DEF Steady
    <3>1. OneCookieCall(c) /\ InHand(c) /\ Opens(c)
      BY <1>0, <2>1 DEF Steady
    <3>2. OneCookieCall(c)'
      BY <2>1, <3>1 DEF OneCookieCall, SetsCookies, Refreshing, Busy
    <3>3. \A u \in Sessions : rows[u].state = "live" => rows'[u] = rows[u]
      BY <2>1
    <3>4. InHand(c)'
      BY <1>g, <2>1, <3>1, <3>3 DEF InHand, Usable, Finds
    <3>5. Opens(c)'
      BY <2>1, <3>1, <3>3 DEF Opens, Usable, Finds
    <3> QED BY <3>2, <3>4, <3>5
  <2> QED BY <2>3, <2>4, <2>6, <2>7, <2>8 DEF IInv
<1>13. ASSUME NEW r \in Requests, Rotate(r) PROVE IInv'
  <2> DEFINE s == req[r].session
  <2>1. /\ \A q \in Requests \ {r} : req'[q] = req[q]
        /\ req'[r].kind = req[r].kind /\ req'[r].by = req[r].by
        /\ req[r].at = "found" /\ req'[r].at = "rotated"
        /\ req'[r].session = NoSession
        /\ req'[r].token = minted + 1
        /\ rows'[s].state = "live" /\ rows'[s].token = minted + 1
        /\ \A u \in Sessions \ {s} : rows'[u] = rows[u]
        /\ UNCHANGED <<refresh, undisturbed, quiet>>
        /\ s \in Sessions /\ req[r].by \in Browsers
    BY <1>0, <1>g, <1>13 DEF Rotate, TypeOK, Position, NoSession, Sessions, Mint, browserVars
  <2>2. minted' = minted + 1 /\ minted' \in 0 .. MaxTokens /\ minted' \in 0 .. minted'
    BY <1>13, <1>b, <1>c, BoundAssumption DEF Rotate, Mint, RowTypes
  <2>3. TypeOK'
    <3>1. req[r] \in Call' /\ Call \subseteq Call'
      BY <1>c, <1>d, <2>2 DEF Call
    <3>2. req' = [req EXCEPT ![r] = [req[r] EXCEPT !.at = "rotated", !.token = minted',
                                                   !.session = NoSession]]
      BY <1>13, <1>b DEF Rotate
    <3>3. [req[r] EXCEPT !.at = "rotated", !.token = minted', !.session = NoSession] \in Call'
      BY <2>2, <3>1 DEF Call, Answers
    <3>4. req' \in [Requests -> Call']
      BY <1>b, <3>1, <3>2, <3>3
    <3>5. BrowserTypes'
      BY <1>13, <1>b, <1>c, <1>d, <2>2 DEF Rotate, BrowserTypes, browserVars
    <3>6. rows' \in [Sessions -> [state : {"none", "live", "expired", "revoked"},
                                  token : 0 .. minted']]
      <4>1. rows' = [rows EXCEPT ![s] = [state |-> "live", token |-> minted']]
        BY <1>13 DEF Rotate
      <4> HIDE DEF s
      <4>2. \A u \in Sessions : rows[u] \in [state : {"none", "live", "expired", "revoked"},
                                            token : 0 .. minted']
        BY <1>b, <1>c, <2>2 DEF RowTypes
      <4>3. rows \in [Sessions -> [state : {"none", "live", "expired", "revoked"},
                                   token : 0 .. minted']]
        BY <1>b, <4>2 DEF RowTypes
      <4> QED BY <2>2, <4>1, <4>3
    <3>7. ASSUME NEW u \in Sessions, NEW v \in Sessions, rows'[u].state # "none"
          PROVE  rows'[u].token # NoToken /\ (u # v => rows'[v].token # rows'[u].token)
      BY <1>b, <1>c, <1>d, <2>1, <3>7 DEF RowTypes
    <3> QED BY <1>b, <2>1, <2>2, <3>4, <3>5, <3>6, <3>7 DEF TypeOK, RowTypes, BrowserTypes, Call
  <2> HIDE DEF s
  <2>4. Position'
    BY <1>0, <1>a, <1>c, <1>d, <1>g, <2>1 DEF Position, Refreshing, Answers
  <2>5. NothingNew
    <3> SUFFICES ASSUME NEW c \in Browsers, NEW u \in Sessions, Holds(c, u)' PROVE Holds(c, u)
      BY DEF NothingNew
    <3>1. \A q \in Requests : req[q].token # minted + 1
      BY <1>c, <1>d DEF Call
    <3>2. /\ \A d \in Browsers : refresh[d] # minted + 1
          /\ \A v \in Sessions : rows[v].token # minted + 1
      BY <1>c, <1>d
    <3> QED BY <1>a, <2>1, <3>1, <3>2 DEF Holds, s
  <2>6. OneHolder'
    BY <1>0, <2>5, OneHolderKept
  <2>7. QuietIsOver'
    BY <1>0, <1>a, <2>1 DEF QuietIsOver, s
  <2>8. Steady'
    <3> SUFFICES ASSUME NEW c \in Browsers, undisturbed'[c]
                 PROVE  (OneCookieCall(c) /\ InHand(c) /\ Opens(c))'
      BY DEF Steady
    <3>1. OneCookieCall(c) /\ InHand(c) /\ Opens(c)
      BY <1>0, <2>1 DEF Steady
    <3>2. OneCookieCall(c)'
      BY <2>1, <3>1 DEF OneCookieCall, SetsCookies, Refreshing
    <3>3. CASE req[r].by = c
      <4>1. \A q \in Requests \ {r} : req[q].by = c => ~SetsCookies(q)
        BY <2>1, <3>1, <3>3 DEF OneCookieCall, SetsCookies, Refreshing
      <4>2. \A q \in Requests \ {r} : req[q].by = c =>
               req[q].at \notin {"refresh", "found", "rotated", "refused", "failed", "out"}
        BY <1>0, <4>1 DEF SetsCookies, Refreshing, Position
      <4>3. Usable(req[r].token)'
        BY <1>c, <2>1 DEF Usable, Finds
      <4>4. InHand(c)'
        BY <2>1, <2>2, <3>3, <4>2, <4>3 DEF InHand
      <4> QED BY <2>1, <3>2, <3>3, <4>4 DEF Opens
    <3>4. CASE req[r].by # c
      <4>1. Holds(req[r].by, s)
        BY <2>1 DEF Holds, s
      <4>2. \A u \in Sessions : Holds(c, u) => rows'[u] = rows[u]
        BY <1>0, <2>1, <3>4, <4>1 DEF OneHolder
      <4>3. \A u \in Sessions : Finds(refresh[c], u) => rows'[u] = rows[u]
        BY <4>2 DEF Finds, Holds
      <4>4. \A q \in Requests, u \in Sessions : req[q].by = c /\ Finds(req[q].token, u)
               => rows'[u] = rows[u]
        BY <4>2 DEF Finds, Holds
      <4>5. InHand(c)'
        BY <1>g, <2>1, <3>1, <3>4, <4>3, <4>4 DEF InHand, Usable, Finds
      <4>6. Opens(c)'
        BY <2>1, <3>1, <3>4, <4>3 DEF Opens, Usable, Finds
      <4> QED BY <3>2, <4>5, <4>6
    <3> QED BY <3>3, <3>4
  <2> QED BY <2>3, <2>4, <2>6, <2>7, <2>8 DEF IInv
<1>14. ASSUME NEW r \in Requests, Logout(r) PROVE IInv'
  <2> DEFINE ended == {s \in Sessions : /\ req[r].token # NoToken /\ rows[s].token = req[r].token
                                        /\ rows[s].state \in {"live", "expired"}}
             c0 == [Idle EXCEPT !.kind = req[r].kind, !.by = req[r].by, !.at = "out"]
  <2>0. /\ req[r].kind = "logout" /\ req[r].at = "sent" /\ Revoke(ended)
        /\ req' = [req EXCEPT ![r] = c0]
        /\ Disturb({req[r].by}) /\ UNCHANGED <<minted, browserVars, faults>>
    BY <1>14 DEF Logout
  <2>1. /\ \A q \in Requests \ {r} : req'[q] = req[q]
        /\ req'[r].kind = "logout" /\ req'[r].by = req[r].by
        /\ req'[r].at = "out"
        /\ req'[r].session = NoSession
        /\ req'[r].token = NoToken
        /\ \A c \in Browsers : undisturbed'[c] => undisturbed[c] /\ c # req[r].by
        /\ UNCHANGED <<minted, refresh>>
        /\ req[r].by \in Browsers
    BY <1>0, <1>b, <2>0 DEF Idle, Disturb, browserVars, Position
  <2>2. /\ Revoked /\ RowTypes'
        /\ \A s \in Sessions \ ended : rows'[s] = rows[s]
    <3>1. ended \in SUBSET Sessions /\ \A s \in ended : rows[s].state \in {"live", "expired"}
      OBVIOUS
    <3> HIDE DEF ended
    <3> QED BY <1>0, <1>a, <1>b, <2>0, <3>1, RevokeEffect
  <2>3. TypeOK'
    <3>1. c0 \in Call
      BY <1>d, <1>e DEF Call, Answers
    <3>2. req' \in [Requests -> Call']
      <4> HIDE DEF c0
      <4> QED BY <1>b, <2>0, <3>1 DEF Call
    <3>3. BrowserTypes'
      BY <1>b, <2>0 DEF BrowserTypes, Disturb, browserVars
    <3> QED BY <2>2, <3>2, <3>3 DEF TypeOK, RowTypes, BrowserTypes, Call
  <2> HIDE DEF ended, c0
  <2>4. \A s \in Sessions : /\ rows'[s].token = rows[s].token
                            /\ rows'[s].state = "none" <=> rows[s].state = "none"
    BY <2>2 DEF Revoked
  <2>5. Position'
    BY <1>0, <1>g, <1>a, <2>1, <2>4 DEF Position, Refreshing
  <2>6. OneHolder'
    <3>1. NothingNew
      <4> SUFFICES ASSUME NEW c \in Browsers, NEW s \in Sessions, Holds(c, s)' PROVE Holds(c, s)
        BY DEF NothingNew
      <4> QED BY <1>a, <2>1, <2>4 DEF Holds
    <3> QED BY <1>0, <3>1, OneHolderKept
  <2>7. QuietIsOver'
    <3>1. \A s \in quiet : rows'[s].state = "revoked"
      BY <1>0, <1>a, <2>2 DEF QuietIsOver, Revoked
    <3>2. \A s \in quiet' \ quiet : s \in Sessions /\ rows'[s].state = "revoked"
                                    /\ \A q \in Requests : req[q].session # s
      BY <2>2 DEF Revoked
    <3> QED BY <1>0, <1>a, <2>1, <3>1, <3>2 DEF QuietIsOver
  <2>8. Steady'
    <3> SUFFICES ASSUME NEW c \in Browsers, undisturbed'[c]
                 PROVE  (OneCookieCall(c) /\ InHand(c) /\ Opens(c))'
      BY DEF Steady
    <3>1. OneCookieCall(c) /\ InHand(c) /\ Opens(c) /\ c # req[r].by
      BY <1>0, <2>1 DEF Steady
    <3>2. OneCookieCall(c)'
      BY <2>1, <3>1 DEF OneCookieCall, SetsCookies, Refreshing
    <3>3. \A u \in ended : Holds(req[r].by, u)
      BY DEF Holds, ended
    <3>4. \A u \in Sessions : Holds(c, u) => rows'[u] = rows[u]
      BY <1>0, <2>1, <2>2, <3>1, <3>3 DEF OneHolder
    <3>5. \A u \in Sessions : Finds(refresh[c], u) => rows'[u] = rows[u]
      BY <3>4 DEF Finds, Holds
    <3>6. \A q \in Requests, u \in Sessions : req[q].by = c /\ Finds(req[q].token, u)
             => rows'[u] = rows[u]
      BY <3>4 DEF Finds, Holds
    <3>7. InHand(c)'
      BY <1>g, <2>1, <3>1, <3>5, <3>6 DEF InHand, Usable, Finds
    <3>8. Opens(c)'
      BY <2>1, <3>1, <3>5 DEF Opens, Usable, Finds
    <3> QED BY <3>2, <3>7, <3>8
  <2> QED BY <2>3, <2>5, <2>6, <2>7, <2>8 DEF IInv
<1>15. ASSUME NEW r \in Requests, LogoutAll(r) PROVE IInv'
  <2> DEFINE ended == {s \in Sessions : rows[s].state \in {"live", "expired"}}
             c0 == [Idle EXCEPT !.kind = req[r].kind, !.by = req[r].by, !.at = "out"]
             c1 == [req[r] EXCEPT !.at = "denied"]
  <2>0. /\ req[r].kind = "logout_all" /\ req[r].at = "sent"
        /\ \/ Revoke(ended) /\ req' = [req EXCEPT ![r] = c0] /\ Disturb(Browsers)
           \/ req' = [req EXCEPT ![r] = c1] /\ UNCHANGED <<rows, undisturbed, quiet>>
        /\ UNCHANGED <<minted, browserVars, faults>>
    BY <1>15, <1>b DEF LogoutAll
  <2>1. /\ \A q \in Requests \ {r} : req'[q] = req[q]
        /\ req'[r].kind = "logout_all" /\ req'[r].by = req[r].by
        /\ req[r].at = "sent" /\ req[r].kind = "logout_all"
        /\ req'[r].session = NoSession
        /\ \/ /\ req'[r].at = "out" /\ req'[r].token = NoToken
              /\ \A c \in Browsers : ~undisturbed'[c]
           \/ /\ req'[r].at = "denied" /\ req'[r].token = req[r].token
              /\ UNCHANGED <<rows, undisturbed>>
        /\ UNCHANGED <<minted, refresh>>
        /\ req[r].by \in Browsers
    <3>1. req[r].session = NoSession /\ req[r].by \in Browsers
      BY <1>0, <2>0 DEF Position
    <3>2. CASE Revoke(ended) /\ req' = [req EXCEPT ![r] = c0] /\ Disturb(Browsers)
      BY <1>b, <2>0, <3>1, <3>2 DEF Idle, Disturb, browserVars
    <3>3. CASE req' = [req EXCEPT ![r] = c1] /\ UNCHANGED <<rows, undisturbed, quiet>>
      <4>1. c1.kind = req[r].kind /\ c1.by = req[r].by /\ c1.session = req[r].session
            /\ c1.token = req[r].token /\ c1.at = "denied"
        BY <1>d DEF Call
      <4> HIDE DEF c1
      <4> QED BY <1>b, <2>0, <3>1, <3>3, <4>1 DEF browserVars
    <3> QED BY <2>0, <3>2, <3>3
  <2>2. Revoked /\ RowTypes'
    <3>1. ended \in SUBSET Sessions /\ \A s \in ended : rows[s].state \in {"live", "expired"}
      OBVIOUS
    <3> HIDE DEF ended
    <3>2. CASE Revoke(ended)
      BY <1>0, <1>a, <1>b, <2>0, <3>1, <3>2, RevokeEffect
    <3>3. CASE UNCHANGED <<rows, quiet>>
      BY <1>b, <2>0, <3>3 DEF Revoked, RowTypes
    <3> QED BY <2>0, <3>2, <3>3
  <2>3. TypeOK'
    <3>1. c0 \in Call /\ c1 \in Call
      BY <1>d, <1>e DEF Call, Answers
    <3>2. req' \in [Requests -> Call']
      <4> HIDE DEF c0, c1
      <4> QED BY <1>b, <2>0, <3>1 DEF Call
    <3>3. BrowserTypes'
      BY <1>b, <2>0 DEF BrowserTypes, Disturb, browserVars
    <3> QED BY <2>2, <3>2, <3>3 DEF TypeOK, RowTypes, BrowserTypes, Call
  <2> HIDE DEF ended, c0, c1
  <2>4. \A s \in Sessions : /\ rows'[s].token = rows[s].token
                            /\ rows'[s].state = "none" <=> rows[s].state = "none"
    BY <2>2 DEF Revoked
  <2>5. Position'
    BY <1>0, <1>g, <1>a, <2>1, <2>4 DEF Position, Refreshing
  <2>6. OneHolder'
    <3>1. NothingNew
      <4> SUFFICES ASSUME NEW c \in Browsers, NEW s \in Sessions, Holds(c, s)' PROVE Holds(c, s)
        BY DEF NothingNew
      <4> QED BY <1>a, <2>1, <2>4 DEF Holds
    <3> QED BY <1>0, <3>1, OneHolderKept
  <2>7. QuietIsOver'
    <3>1. \A s \in quiet : rows'[s].state = "revoked"
      BY <1>0, <1>a, <2>2 DEF QuietIsOver, Revoked
    <3>2. \A s \in quiet' \ quiet : s \in Sessions /\ rows'[s].state = "revoked"
                                    /\ \A q \in Requests : req[q].session # s
      BY <2>2 DEF Revoked
    <3> QED BY <1>0, <1>a, <2>1, <3>1, <3>2 DEF QuietIsOver
  <2>8. Steady'
    <3> SUFFICES ASSUME NEW c \in Browsers, undisturbed'[c]
                 PROVE  (OneCookieCall(c) /\ InHand(c) /\ Opens(c))'
      BY DEF Steady
    <3>1. /\ OneCookieCall(c) /\ InHand(c) /\ Opens(c)
          /\ req'[r].at = "denied" /\ UNCHANGED rows
      BY <1>0, <2>1 DEF Steady
    <3>2. OneCookieCall(c)'
      BY <2>1, <3>1 DEF OneCookieCall, SetsCookies, Refreshing
    <3>3. InHand(c)'
      BY <2>1, <3>1 DEF InHand, Usable, Finds
    <3>4. Opens(c)'
      BY <2>1, <3>1 DEF Opens, Usable, Finds
    <3> QED BY <3>2, <3>3, <3>4
  <2> QED BY <2>3, <2>5, <2>6, <2>7, <2>8 DEF IInv
<1>16. ASSUME NEW b \in Browsers, AccessExpires(b) PROVE IInv'
  <2>1. UNCHANGED <<rows, minted, refresh, req, undisturbed, quiet, faults>>
    BY <1>16 DEF AccessExpires
  <2>2. TypeOK'
    <3>1. BrowserTypes'
      BY <1>16, <1>b DEF AccessExpires, BrowserTypes
    <3> QED BY <1>b, <2>1, <3>1 DEF TypeOK, RowTypes, BrowserTypes, Call
  <2>3. Position' /\ OneHolder' /\ QuietIsOver'
    BY <1>0, <2>1 DEF Position, OneHolder, Holds, QuietIsOver
  <2>4. Steady'
    BY <1>0, <2>1 DEF Steady, OneCookieCall, InHand, Opens, SetsCookies, Usable, Finds
  <2> QED BY <2>2, <2>3, <2>4 DEF IInv
<1>17. ASSUME NEW s \in Sessions, SessionExpires(s) PROVE IInv'
  <2>1. /\ rows[s].state = "live"
        /\ rows' = [rows EXCEPT ![s].state = "expired"]
        /\ \A c \in Browsers : undisturbed'[c] =>
              /\ undisturbed[c] /\ refresh[c] # rows[s].token
              /\ \A r \in Requests : req[r].by = c /\ req[r].at = "rotated"
                                       => req[r].token # rows[s].token
        /\ UNCHANGED <<minted, refresh, req, quiet, access, stored, faults>>
    BY <1>17 DEF SessionExpires, Disturb, browserVars
  <2>2. /\ rows'[s].state = "expired" /\ rows'[s].token = rows[s].token
        /\ \A u \in Sessions \ {s} : rows'[u] = rows[u]
        /\ rows' \in [Sessions -> [state : {"none", "live", "expired", "revoked"}, token : 0 .. minted]]
    BY <1>b, <2>1 DEF RowTypes
  <2>3. TypeOK'
    <3>1. undisturbed' \in [Browsers -> BOOLEAN]
      BY <1>17 DEF SessionExpires, Disturb
    <3>2. BrowserTypes'
      BY <1>b, <2>1, <3>1 DEF BrowserTypes
    <3>3. RowTypes'
      BY <1>b, <2>1, <2>2 DEF RowTypes
    <3> QED BY <1>b, <2>1, <3>2, <3>3 DEF TypeOK, RowTypes, BrowserTypes, Call
  <2>4. Position'
    BY <1>0, <1>g, <2>1, <2>2 DEF Position
  <2>5. OneHolder'
    <3>1. \A u \in Sessions : rows'[u].token = rows[u].token
      BY <2>2
    <3>2. NothingNew
      BY <2>1, <3>1 DEF NothingNew, Holds
    <3> QED BY <1>0, <3>2, OneHolderKept
  <2>6. QuietIsOver'
    BY <1>0, <1>a, <2>1, <2>2 DEF QuietIsOver
  <2>7. Steady'
    <3> SUFFICES ASSUME NEW c \in Browsers, undisturbed'[c]
                 PROVE  (OneCookieCall(c) /\ InHand(c) /\ Opens(c))'
      BY DEF Steady
    <3>1. OneCookieCall(c) /\ InHand(c) /\ Opens(c)
      BY <1>0, <2>1 DEF Steady
    <3>2. OneCookieCall(c)'
      BY <2>1, <3>1 DEF OneCookieCall, SetsCookies
    <3>3. \A u \in Sessions : Finds(refresh[c], u) => rows'[u] = rows[u]
      BY <2>1, <2>2 DEF Finds
    <3>4. \A q \in Requests, u \in Sessions :
             req[q].by = c /\ req[q].at = "rotated" /\ Finds(req[q].token, u) => rows'[u] = rows[u]
      BY <2>1, <2>2 DEF Finds
    <3>5. InHand(c)'
      BY <1>g, <2>1, <3>1, <3>3, <3>4 DEF InHand, Usable, Finds
    <3>6. Opens(c)'
      BY <2>1, <3>1, <3>3 DEF Opens, Usable, Finds
    <3> QED BY <3>2, <3>5, <3>6
  <2> QED BY <2>3, <2>4, <2>5, <2>6, <2>7 DEF IInv
<1>18. CASE UNCHANGED vars
  <2>1. UNCHANGED <<rows, minted, refresh, access, stored, req, undisturbed, quiet, faults>>
    BY <1>18 DEF vars, browserVars
  <2>2. TypeOK'
    BY <1>0, <2>1 DEF TypeOK
  <2>3. Position' /\ OneHolder' /\ QuietIsOver'
    BY <1>0, <2>1 DEF Position, OneHolder, Holds, QuietIsOver
  <2>4. Steady'
    BY <1>0, <2>1 DEF Steady, OneCookieCall, InHand, Opens, SetsCookies, Usable, Finds
  <2> QED BY <2>2, <2>3, <2>4 DEF IInv
<1> QED
  BY <1>1, <1>2, <1>3, <1>4, <1>5, <1>6, <1>7, <1>8, <1>9, <1>10, <1>11, <1>12, <1>13, <1>14,
      <1>15, <1>16, <1>17, <1>18 DEF Next

LEMMA IInvInit == Init => IInv
<1> SUFFICES ASSUME Init PROVE IInv
  OBVIOUS
<1>1. /\ NoSession = 0 /\ NoToken = 0 /\ NoSession \notin Sessions
      /\ MaxTokens \in Nat /\ MaxFaults \in Nat
  BY BoundAssumption DEF NoSession, NoToken, Sessions
<1>2. \A r \in Requests : req[r] = Idle
  BY DEF Init
<1>3. TypeOK
  BY <1>1 DEF Init, TypeOK, Idle, Kinds
<1>4. Position
  BY <1>1, <1>2 DEF Init, Position, Idle, Refreshing
<1>5. OneHolder
  <2>1. \A b \in Browsers, s \in Sessions : ~Holds(b, s)
    BY <1>1, <1>2, BrowserAssumption DEF Init, Holds, Idle
  <2> QED BY <2>1 DEF OneHolder
<1>6. QuietIsOver /\ Steady
  BY DEF Init, QuietIsOver, Steady
<1> QED BY <1>3, <1>4, <1>5, <1>6 DEF IInv

LEMMA IInvAlways == Spec => []IInv
  BY IInvInit, IInvNext, PTL DEF Spec

(* Type correctness: the numbering of tokens, and that no two sessions in the  *)
(* database have one token, however logins and rotations interleave.           *)
THEOREM TypeCorrect == Spec => []TypeOK
<1>1. IInv => TypeOK
  BY DEF IInv
<1> QED BY <1>1, IInvAlways, PTL

(* Refreshing alone never signs a browser out: with one call of the browser    *)
(* that sets cookies at a time, and no lost answer, what /auth/refresh and      *)
(* apiFetch do leaves the cookie or the answer on its way with the token of a   *)
(* live session, however the calls of other browsers interleave.                *)
THEOREM RefreshSafety == Spec => []RefreshKeepsSignedIn
<1>1. IInv => RefreshKeepsSignedIn
  BY DEF IInv, Steady, InHand, Opens, Usable, RefreshKeepsSignedIn
<1> QED BY <1>1, IInvAlways, PTL

(* A logout that no refresh overlaps lasts (revokeByRefreshTokenHash,           *)
(* revokeAllForUser, rotate).                                                   *)
THEOREM LogoutSafety == Spec => []QuietLogoutLasts
<1>1. IInv => QuietLogoutLasts
  BY DEF IInv, QuietIsOver, QuietLogoutLasts
<1> QED BY <1>1, IInvAlways, PTL

(* A session that a step changes is no longer live, or has a new token. *)
LEMMA RowSteps ==
  ASSUME IInv, Next, NEW s \in Sessions
  PROVE  \/ rows'[s] = rows[s]
         \/ rows'[s].state # "live"
         \/ rows'[s].token = minted + 1
<1> DEFINE Kept == \/ rows'[s] = rows[s]
                   \/ rows'[s].state # "live"
                   \/ rows'[s].token = minted + 1
<1>0. rows \in [Sessions -> [state : {"none", "live", "expired", "revoked"}, token : 0 .. minted]]
  BY DEF IInv, TypeOK
<1>1. ASSUME NEW ended, Revoke(ended) PROVE Kept
  BY <1>0, <1>1 DEF Revoke
<1>2. CASE UNCHANGED rows
  BY <1>2
<1>3. ASSUME NEW r \in Requests, NEW b \in Browsers, NEW u \in Sessions, Login(r, b, u) PROVE Kept
  BY <1>0, <1>3 DEF Login, Mint
<1>4. ASSUME NEW r \in Requests, Rotate(r) PROVE Kept
  BY <1>0, <1>4 DEF Rotate, Mint
<1>5. ASSUME NEW r \in Requests, Logout(r) PROVE Kept
  BY <1>1, <1>5 DEF Logout
<1>6. ASSUME NEW r \in Requests, LogoutAll(r) PROVE Kept
  BY <1>1, <1>6 DEF LogoutAll
<1>7. ASSUME NEW u \in Sessions, SessionExpires(u) PROVE Kept
  BY <1>0, <1>7 DEF SessionExpires
<1> QED
  BY <1>2, <1>3, <1>4, <1>5, <1>6, <1>7
     DEF Next, Send, StartRefresh, Retry, GiveUp, Fail, SignedIn, SignedOut, LoseAnswer, Serve,
         FindSession, RotateFails, AccessExpires

(* A refresh token that no longer opens a session never opens one again:        *)
(* rotate revives the session, not the token.                                   *)
THEOREM TokenSafety == Spec => DeadTokensStayDead
<1> DEFINE StaysDead == \A t \in 1 .. minted : ~Usable(t) => ~Usable(t)'
<1>1. IInv /\ [Next]_vars => [StaysDead]_vars
  <2> SUFFICES ASSUME IInv, Next, NEW t \in 1 .. minted, NEW s \in Sessions, Finds(t, s)'
               PROVE  Finds(t, s)
    BY DEF Usable
  <2>1. t # minted + 1
    BY DEF IInv, TypeOK
  <2>2. \/ rows'[s] = rows[s]
        \/ rows'[s].state # "live"
        \/ rows'[s].token = minted + 1
    BY RowSteps
  <2> QED BY <2>1, <2>2 DEF Finds
<1> QED BY <1>1, IInvAlways, PTL DEF Spec, DeadTokensStayDead
=============================================================================
