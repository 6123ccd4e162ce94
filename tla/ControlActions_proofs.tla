------------------------- MODULE ControlActions_proofs -------------------------
(***************************************************************************)
(* Proofs about ControlActions, for any set of actions and any number of   *)
(* faults.  What makes the properties inductive is what a payload stands   *)
(* for (Payloads), how far a rendering may lag (Rendering), what a message *)
(* under way says of the desktop (InboxIsTrue) and, as long as the         *)
(* application was not restarted, that the remembered acks keep an action  *)
(* to one approval (Undivided); and, while nothing is lost, who still has  *)
(* to do something for an action (Attended).                               *)
(***************************************************************************)
EXTENDS ControlActions, TLAPS

Says(s, m) == \E i \in 1 .. Len(s) : s[i] = m

Open == {"pending", "executing", "executed"}
Ran == {"executing", "executed", "failed"}

(* Items are numbered from 1 to created. *)
Items ==
    \A p \in Approval :
        /\ state[p] = "none" <=> p > created
        /\ p <= created <=> of[p] \in Actions

(* The route and the command precede all that is heard of an action. *)
Route ==
    \A a \in Actions :
        /\ request[a] = "none" => status[a] = "none"
        /\ request[a] \in {"none", "saving"} => command[a] = "none"
        /\ command[a] = "none" =>
              (\A m \in Message : ~Says(inbox[a], m)) /\ \A p \in Approval : of[p] # a

(* A payload belongs to the only open item of its action in this life of    *)
(* the application, and an execution under way to an item with a payload.   *)
Payloads ==
    /\ \A p \in payloads : state[p] \in {"pending", "executing"} /\ handled[of[p]] = "accepted"
    /\ \A p, q \in payloads : of[p] = of[q] => p = q
    /\ \A p \in running : p \in payloads /\ state[p] = "executing"
    /\ \A p \in payloads : state[p] = "executing" => p \in running

(* An item shown as pending has not been approved. *)
Rendering ==
    \A p \in Approval : shown[p] = "pending" => state[p] \notin Ran

Became(a, s) == \E p \in Approval : of[p] = a /\ state[p] = s

Approved(a) == \E p \in Approval : of[p] = a /\ runs[p] = 1

(* What a message says of an execution is true when it is sent and after. *)
InboxIsTrue ==
    \A a \in Actions :
        /\ Says(inbox[a], "executed") => Became(a, "executed")
        /\ Says(inbox[a], "approved") => Approved(a)
        /\ Says(inbox[a], "denied") => Became(a, "denied")

(* Without a restart an action has one approval, closed once a failure is   *)
(* reported, under way or remembered.                                       *)
Undivided ==
    faults["restart"] = 0 =>
        /\ \A p, q \in 1 .. created : of[p] = of[q] => p = q
        /\ \A p \in 1 .. created : handled[of[p]] # "none"
        /\ \A a \in Actions :
              /\ handled[a] = "none" =>
                    status[a] \notin Settled /\ \A m \in Message : ~Says(inbox[a], m)
              /\ \/ status[a] = "failed"
                 \/ handled[a] = "rejected"
                 \/ Says(inbox[a], "failed")
                 \/ Says(inbox[a], "rejected")
                 => \A p \in Approval : of[p] = a => state[p] \notin Open

IInv ==
    /\ TypeOK
    /\ Items
    /\ Route
    /\ Payloads
    /\ Rendering
    /\ RunsMatchDecision
    /\ InboxIsTrue
    /\ RecordIsTrue
    /\ Undivided

-----------------------------------------------------------------------------
(* What a sequence of messages says, put together and taken apart. *)
LEMMA SaysConcat ==
    ASSUME NEW s \in Seq(Message), NEW t \in Seq(Message), NEW m, Says(s \o t, m)
    PROVE  Says(s, m) \/ Says(t, m)
<1>1. PICK i \in 1 .. Len(s \o t) : (s \o t)[i] = m
  BY DEF Says
<1>2. Len(s \o t) = Len(s) + Len(t) /\ Len(s) \in Nat /\ Len(t) \in Nat
  OBVIOUS
<1>3. CASE i <= Len(s)
  BY <1>1, <1>2, <1>3 DEF Says
<1>4. CASE i > Len(s)
  <2>1. i - Len(s) \in 1 .. Len(t) /\ t[i - Len(s)] = m
    BY <1>1, <1>2, <1>4
  <2> QED BY <2>1 DEF Says
<1> QED BY <1>1, <1>2, <1>3, <1>4

(* Taking the head away adds nothing, and the head was said. *)
LEMMA SaysTail ==
    ASSUME NEW s \in Seq(Message), s # <<>>
    PROVE  /\ Head(s) \in Message /\ Says(s, Head(s)) /\ Tail(s) \in Seq(Message)
           /\ \A m : Says(Tail(s), m) => Says(s, m)
<1>1. Len(s) \in Nat /\ Len(s) > 0 /\ Len(Tail(s)) = Len(s) - 1 /\ Head(s) = s[1]
  OBVIOUS
<1>2. Head(s) \in Message /\ Says(s, Head(s)) /\ Tail(s) \in Seq(Message)
  BY <1>1 DEF Says
<1>3. ASSUME NEW m, NEW i \in 1 .. Len(Tail(s)), Tail(s)[i] = m PROVE Says(s, m)
  <2>1. i + 1 \in 1 .. Len(s) /\ s[i + 1] = m
    BY <1>1, <1>3
  <2> QED BY <2>1 DEF Says
<1> QED BY <1>2, <1>3 DEF Says

(* A send adds what was sent, to the inbox of that action only. *)
LEMMA SentSays ==
    ASSUME TypeOK, NEW a, NEW ms \in Seq(Message), inbox' = Sent(a, ms)
    PROVE  /\ inbox' \in [Actions -> Seq(Message)]
           /\ \A b \in Actions, m \in Message :
                 Says(inbox'[b], m) => Says(inbox[b], m) \/ (b = a /\ Says(ms, m))
<1>1. inbox \in [Actions -> Seq(Message)]
  BY DEF TypeOK
<1>2. ASSUME NEW b \in Actions
      PROVE  inbox[b] \in Seq(Message) /\ inbox[b] \o ms \in Seq(Message)
  <2>1. inbox[b] \in Seq(Message)
    BY <1>1
  <2> QED BY <2>1
<1>3. ASSUME NEW b \in Actions
      PROVE  inbox'[b] = inbox[b] \/ (b = a /\ inbox'[b] = inbox[b] \o ms)
  <2>1. CASE connected /\ b = a
    BY <1>1, <2>1 DEF Sent
  <2>2. CASE ~(connected /\ b = a)
    BY <1>1, <2>2 DEF Sent
  <2> QED BY <2>1, <2>2
<1>4. inbox' \in [Actions -> Seq(Message)]
  <2>1. inbox' = [b \in Actions |-> inbox'[b]]
    BY <1>1 DEF Sent
  <2> QED BY <1>2, <1>3, <2>1
<1>5. ASSUME NEW b \in Actions, NEW m \in Message, Says(inbox'[b], m)
      PROVE  Says(inbox[b], m) \/ (b = a /\ Says(ms, m))
  <2>1. CASE inbox'[b] = inbox[b]
    BY <1>5, <2>1, Zenon
  <2>2. CASE b = a /\ inbox'[b] = inbox[b] \o ms
    <3>1. Says(inbox[b] \o ms, m) /\ inbox[b] \in Seq(Message)
      BY <1>2, <1>5, <2>2, Zenon
    <3>2. Says(inbox[b], m) \/ Says(ms, m)
      BY <3>1, SaysConcat
    <3> QED BY <2>2, <3>2
  <2> QED BY <1>3, <2>1, <2>2
<1> QED BY <1>4, <1>5

(* A refusal adds its messages, for the actions of refused items that had   *)
(* a payload.                                                               *)
LEMMA RefuseSays ==
    ASSUME TypeOK, NEW P, NEW s, NEW acks \in Seq(Message), Refuse(P, s, acks)
    PROVE  /\ inbox' \in [Actions -> Seq(Message)]
           /\ \A b \in Actions, m \in Message :
                 Says(inbox'[b], m) => \/ Says(inbox[b], m)
                                       \/ /\ \E q \in P \cap payloads : of[q] = b
                                          /\ m = "failed" \/ Says(acks, m)
<1>1. inbox \in [Actions -> Seq(Message)]
  BY DEF TypeOK
<1>2. <<"failed">> \in Seq(Message) /\ acks \o <<"failed">> \in Seq(Message)
  BY DEF Message, Result
<1>3. inbox' \in [Actions -> Seq(Message)]
  BY <1>1, <1>2 DEF Refuse
<1>4. ASSUME NEW b \in Actions, NEW m \in Message, Says(inbox'[b], m), ~Says(inbox[b], m)
      PROVE  (\E q \in P \cap payloads : of[q] = b) /\ (m = "failed" \/ Says(acks, m))
  <2>1. /\ \E q \in P \cap payloads : of[q] = b
        /\ inbox'[b] = inbox[b] \o acks \o <<"failed">>
    BY <1>4 DEF Refuse
  <2>2. Says(inbox[b], m) \/ Says(acks \o <<"failed">>, m)
    <3>1. inbox[b] \in Seq(Message) /\ inbox'[b] = inbox[b] \o (acks \o <<"failed">>)
      BY <1>1, <1>2, <2>1
    <3>2. Says(inbox[b] \o (acks \o <<"failed">>), m)
      BY <1>4, <3>1
    <3> QED BY <1>2, <3>1, <3>2, SaysConcat
  <2>3. Says(<<"failed">>, m) => m = "failed"
    BY DEF Says
  <2> QED BY <1>2, <1>4, <2>1, <2>2, <2>3, SaysConcat
<1> QED BY <1>3, <1>4

(* Handling a message takes it from the inbox, where it was. *)
LEMMA ReceivedSays ==
    ASSUME TypeOK, NEW a \in Actions, NEW kind, Received(a, kind)
    PROVE  /\ inbox' \in [Actions -> Seq(Message)]
           /\ \A b \in Actions, m \in Message : Says(inbox'[b], m) => Says(inbox[b], m)
           /\ Head(inbox[a]) \in Message
           /\ Says(inbox[a], Head(inbox[a]))
<1>1. inbox \in [Actions -> Seq(Message)] /\ inbox[a] # <<>>
      /\ inbox' = [inbox EXCEPT ![a] = Tail(@)]
  BY DEF TypeOK, Received
<1>2. inbox[a] \in Seq(Message)
  BY <1>1
<1>3. /\ Head(inbox[a]) \in Message /\ Says(inbox[a], Head(inbox[a]))
      /\ Tail(inbox[a]) \in Seq(Message)
      /\ \A m : Says(Tail(inbox[a]), m) => Says(inbox[a], m)
  BY <1>1, <1>2, SaysTail
<1> QED BY <1>1, <1>3

(* A fault is counted. *)
LEMMA FailCounts ==
    ASSUME TypeOK, NEW f \in Fault, NEW bound, Fail(f, bound)
    PROVE  /\ faults' \in [Fault -> Nat]
           /\ f # "restart" => faults'["restart"] = faults["restart"]
           /\ f = "restart" => faults'["restart"] # 0
  BY DEF TypeOK, Fail, Fault

-----------------------------------------------------------------------------
(* The invariant is inductive: one step per action; under it what the inbox *)
(* says afterwards, one step per conjunct the action can disturb, then one  *)
(* for the others.                                                          *)
LEMMA IInvNext == IInv /\ [Next]_vars => IInv'
<1> SUFFICES ASSUME IInv, [Next]_vars PROVE IInv'
  OBVIOUS
<1> USE ActionAssumption, ApprovalAssumption, BoundAssumption
<1> USE DEF Approval, ActionStatus, Settled, ItemState, Ack, Result, CommandAck,
            Message, Fault, Open, Ran
<1>0. /\ TypeOK /\ Items /\ Route /\ Payloads /\ Rendering /\ RunsMatchDecision
      /\ InboxIsTrue /\ RecordIsTrue /\ Undivided
  BY DEF IInv
<1>1. ASSUME NEW a \in Actions, CreateAction(a) PROVE IInv'
  <2>1. TypeOK'
    BY <1>0, <1>1 DEF CreateAction, TypeOK, serverVars, itemVars, appVars
  <2>2. Route'
    BY <1>0, <1>1 DEF CreateAction, Route, Items, TypeOK, serverVars, itemVars,
        appVars
  <2>3. RecordIsTrue'
    BY <1>0, <1>1 DEF CreateAction, RecordIsTrue, InboxIsTrue, RunsMatchDecision,
        Payloads, Items, Became, Approved, TypeOK, serverVars, itemVars, appVars
  <2>4. Undivided'
    BY <1>0, <1>1 DEF CreateAction, Undivided, Payloads, Items, Route, TypeOK,
        serverVars, itemVars, appVars
  <2>5. Items' /\ Payloads' /\ Rendering' /\ RunsMatchDecision' /\ InboxIsTrue'
    BY <1>0, <1>1 DEF CreateAction, Items, Payloads, Rendering, RunsMatchDecision,
        InboxIsTrue, Became, Approved, serverVars, itemVars, appVars
  <2> QED BY <2>1, <2>2, <2>3, <2>4, <2>5 DEF IInv
<1>2. ASSUME NEW a \in Actions, Dispatch(a) PROVE IInv'
  <2>1. TypeOK'
    BY <1>0, <1>2 DEF Dispatch, TypeOK, serverVars, itemVars, appVars
  <2>2. Route'
    BY <1>0, <1>2 DEF Dispatch, Route, Items, TypeOK, serverVars, itemVars, appVars
  <2>3. Items' /\ Payloads' /\ Rendering' /\ RunsMatchDecision' /\ InboxIsTrue' /\
       RecordIsTrue' /\ Undivided'
    BY <1>0, <1>2 DEF Dispatch, Items, Payloads, Rendering, RunsMatchDecision,
        InboxIsTrue, RecordIsTrue, Undivided, Became, Approved, serverVars, itemVars,
        appVars
  <2> QED BY <2>1, <2>2, <2>3 DEF IInv
<1>3. ASSUME NEW a \in Actions, Dispatched(a) PROVE IInv'
  <2>1. TypeOK'
    BY <1>0, <1>3 DEF Dispatched, SetStatus, TypeOK, serverVars, itemVars, appVars
  <2>2. Route'
    BY <1>0, <1>3 DEF Dispatched, SetStatus, Route, Items, TypeOK, serverVars,
        itemVars, appVars
  <2>3. RecordIsTrue'
    BY <1>0, <1>3 DEF Dispatched, SetStatus, RecordIsTrue, InboxIsTrue,
        RunsMatchDecision, Payloads, Items, Became, Approved, TypeOK, serverVars,
        itemVars, appVars
  <2>4. Undivided'
    BY <1>0, <1>3 DEF Dispatched, SetStatus, Undivided, Payloads, Items, Route,
        TypeOK, serverVars, itemVars, appVars
  <2>5. Items' /\ Payloads' /\ Rendering' /\ RunsMatchDecision' /\ InboxIsTrue'
    BY <1>0, <1>3 DEF Dispatched, Items, Payloads, Rendering, RunsMatchDecision,
        InboxIsTrue, Became, Approved, serverVars, itemVars, appVars
  <2> QED BY <2>1, <2>2, <2>3, <2>4, <2>5 DEF IInv
<1>4. ASSUME NEW a \in Actions, ReplayAck(a) PROVE IInv'
  <2>0. /\ inbox' \in [Actions -> Seq(Message)]
        /\ \A b \in Actions, m \in Message :
              Says(inbox'[b], m) => Says(inbox[b], m) \/ (b = a /\ m \in {handled[a]})
    <3> DEFINE ms == <<handled[a]>>
    <3>1. ms \in Seq(Message)
      <4>1. handled[a] \in Message
        BY <1>0, <1>4 DEF ReplayAck, TypeOK
      <4> QED BY <4>1
    <3>2. inbox' = Sent(a, ms)
      BY <1>4 DEF ReplayAck
    <3>3. \A m : Says(ms, m) => m \in {handled[a]}
      BY DEF Says
    <3> HIDE DEF ms
    <3> QED BY <1>0, <3>1, <3>2, <3>3, SentSays
  <2>1. TypeOK'
    BY <1>0, <1>4, <2>0 DEF ReplayAck, Arrives, TypeOK, serverVars, itemVars, appVars
  <2>2. Route'
    BY <1>0, <1>4, <2>0 DEF ReplayAck, Arrives, Route, Items, TypeOK, serverVars,
        itemVars, appVars
  <2>3. InboxIsTrue'
    <3>1. handled[a] \in {"accepted", "rejected"}
      BY <1>0, <1>4 DEF ReplayAck, TypeOK
    <3> QED BY <1>0, <1>4, <2>0, <3>1 DEF ReplayAck, Arrives, InboxIsTrue, Became, Approved,
        itemVars
  <2>4. Undivided'
    <3> SUFFICES ASSUME faults'["restart"] = 0 PROVE Undivided'
      BY DEF Undivided
    <3>1. faults["restart"] = 0
      BY <1>4 DEF ReplayAck, Arrives
    <3>2. \A q, r \in 1 .. created' : of'[q] = of'[r] => q = r
      BY <1>0, <1>4, <3>1 DEF ReplayAck, Arrives, Undivided, Items, TypeOK, itemVars
    <3>3. \A q \in 1 .. created' : handled'[of'[q]] # "none"
      BY <1>0, <1>4, <3>1 DEF ReplayAck, Arrives, Undivided, Items, TypeOK, itemVars,
          appVars
    <3>4. \A b \in Actions : handled'[b] = "none" =>
             status'[b] \notin Settled /\ \A m \in Message : ~Says(inbox'[b], m)
      BY <1>0, <2>0, <1>4, <3>1 DEF ReplayAck, Arrives, Undivided, Items, TypeOK,
          serverVars, itemVars, appVars
    <3>5. ASSUME NEW b \in Actions,
                 \/ status'[b] = "failed"
                 \/ handled'[b] = "rejected"
                 \/ Says(inbox'[b], "failed")
                 \/ Says(inbox'[b], "rejected"),
                 NEW q \in Approval, of'[q] = b
          PROVE  state'[q] \notin Open
      <4>1. /\ UNCHANGED <<status, handled, state, of>>
            /\ handled[a] \in {"accepted", "rejected"} /\ a \in Actions
        BY <1>0, <1>4 DEF ReplayAck, Arrives, TypeOK, itemVars
      <4>2. ASSUME NEW m \in {"failed", "rejected"}, Says(inbox'[b], m)
            PROVE  Says(inbox[b], m) \/ handled[b] = "rejected"
        BY <2>0, <4>1, <4>2 DEF Message, CommandAck, Ack, Result
      <4>3. \/ status[b] = "failed"
            \/ handled[b] = "rejected"
            \/ Says(inbox[b], "failed")
            \/ Says(inbox[b], "rejected")
        BY <3>5, <4>1, <4>2
      <4>4. \A p \in Approval : of[p] = b => state[p] \notin Open
        BY <1>0, <3>1, <4>3 DEF Undivided
      <4> QED BY <3>5, <4>1, <4>4
    <3> QED BY <3>2, <3>3, <3>4, <3>5 DEF Undivided
  <2>5. Items' /\ Payloads' /\ Rendering' /\ RunsMatchDecision' /\ RecordIsTrue'
    BY <1>0, <1>4 DEF ReplayAck, Arrives, Items, Payloads, Rendering,
        RunsMatchDecision, RecordIsTrue, serverVars, itemVars, appVars
  <2> QED BY <2>1, <2>2, <2>3, <2>4, <2>5 DEF IInv
<1>5. ASSUME NEW a \in Actions, AskUser(a) PROVE IInv'
  <2>0. /\ inbox' \in [Actions -> Seq(Message)]
        /\ \A b \in Actions, m \in Message :
              Says(inbox'[b], m) => Says(inbox[b],
              m) \/ (b = a /\ m \in {"awaiting_user", "accepted"})
    <3> DEFINE ms == <<"awaiting_user", "accepted">>
    <3>1. ms \in Seq(Message)
      OBVIOUS
    <3>2. inbox' = Sent(a, ms)
      BY <1>5 DEF AskUser
    <3>3. \A m : Says(ms, m) => m \in {"awaiting_user", "accepted"}
      BY DEF Says
    <3> HIDE DEF ms
    <3> QED BY <1>0, <3>1, <3>2, <3>3, SentSays
  <2>a. /\ created + 1 \in Approval /\ created' = created + 1
        /\ state[created + 1] = "none" /\ runs[created + 1] = 0
        /\ of[created + 1] = NoAction
        /\ created + 1 \notin payloads
        /\ \A q \in payloads : of[q] # a
    <3>1. created \in Nat /\ created + 1 \in Approval /\ created' = created + 1
      BY <1>0, <1>5 DEF AskUser, CreateApproval, TypeOK
    <3>2. /\ of[created + 1] \notin Actions /\ state[created + 1] = "none"
          /\ created + 1 \notin payloads
      BY <1>0, <3>1 DEF Items, TypeOK
    <3>3. of[created + 1] = NoAction /\ runs[created + 1] = 0
      BY <1>0, <3>1, <3>2 DEF RunsMatchDecision, TypeOK
    <3>4. handled[a] = "none"
      BY <1>5 DEF AskUser
    <3>5. \A q \in payloads : of[q] # a
      BY <1>0, <3>4 DEF Payloads
    <3> QED BY <3>1, <3>2, <3>3, <3>5
  <2>1. TypeOK'
    BY SMTT(60), <1>0, <1>5, <2>0, <2>a DEF AskUser, Arrives, CreateApproval, TypeOK,
        serverVars, itemVars, appVars
  <2>2. Items'
    BY <1>0, <1>5, <2>0, <2>a DEF AskUser, Arrives, CreateApproval, Items, TypeOK,
        serverVars, itemVars, appVars
  <2>3. Route'
    BY <1>0, <1>5, <2>0, <2>a DEF AskUser, Arrives, CreateApproval, Route, Items,
        TypeOK, serverVars, itemVars, appVars
  <2>4. Payloads'
    <3>1. \A q \in payloads : /\ of'[q] = of[q] /\ state'[q] = state[q]
                             /\ handled'[of[q]] = handled[of[q]]
      BY <1>0, <1>5, <2>a DEF AskUser, CreateApproval, Payloads, TypeOK
    <3>2. /\ of'[created + 1] = a /\ state'[created + 1] = "pending"
          /\ handled'[a] = "accepted"
      BY <1>0, <1>5, <2>a DEF AskUser, CreateApproval, TypeOK
    <3>3. payloads' = payloads \cup {created + 1} /\ running' = running
      BY <1>5 DEF AskUser, Arrives
    <3> QED BY <1>0, <2>a, <3>1, <3>2, <3>3 DEF Payloads
  <2>5. Rendering'
    BY <1>0, <1>5, <2>0, <2>a DEF AskUser, Arrives, CreateApproval, Rendering,
        Payloads, Items, TypeOK, serverVars, itemVars, appVars
  <2>6. RunsMatchDecision'
    BY <1>0, <1>5, <2>0, <2>a DEF AskUser, Arrives, CreateApproval, RunsMatchDecision,
        Payloads, Rendering, Items, TypeOK, serverVars, itemVars, appVars
  <2>7. InboxIsTrue'
    <3>1. \A q \in Approval :
             /\ of[q] \in Actions => of'[q] = of[q]
             /\ state[q] \in {"executed", "denied"} => state'[q] = state[q]
             /\ runs[q] = 1 => runs'[q] = 1
      BY <1>0, <1>5, <2>a DEF AskUser, Arrives, CreateApproval, TypeOK
    <3>2. \A b \in Actions : /\ Approved(b) => Approved(b)'
                             /\ Became(b, "executed") => Became(b, "executed")'
                             /\ Became(b, "denied") => Became(b, "denied")'
      BY <3>1 DEF Approved, Became
    <3>4. ASSUME NEW b \in Actions
          PROVE  /\ Says(inbox'[b], "executed") => Became(b, "executed")'
                 /\ Says(inbox'[b], "approved") => Approved(b)'
                 /\ Says(inbox'[b], "denied") => Became(b, "denied")'
      BY <1>0, <2>0, <3>2 DEF InboxIsTrue
    <3> QED BY <3>4 DEF InboxIsTrue, Became, Approved
  <2>8. RecordIsTrue'
    <3>1. \A q \in Approval :
             /\ of[q] \in Actions => of'[q] = of[q]
             /\ state[q] \in {"executed", "denied"} => state'[q] = state[q]
             /\ runs[q] = 1 => runs'[q] = 1
      BY <1>0, <1>5, <2>a DEF AskUser, Arrives, CreateApproval, TypeOK
    <3>2. status' = status
      BY <1>5 DEF AskUser, Arrives
    <3> QED BY <1>0, <3>1, <3>2 DEF RecordIsTrue
  <2>9. Undivided'
    <3> SUFFICES ASSUME faults'["restart"] = 0 PROVE Undivided'
      BY DEF Undivided
    <3>1. faults["restart"] = 0
      BY <1>5, <2>a DEF AskUser, Arrives, CreateApproval
    <3>2. \A q, r \in 1 .. created' : of'[q] = of'[r] => q = r
      BY <1>0, <1>5, <2>a, <3>1 DEF AskUser, Arrives, CreateApproval, Undivided, Items,
          TypeOK, itemVars
    <3>3. \A q \in 1 .. created' : handled'[of'[q]] # "none"
      BY <1>0, <1>5, <2>a, <3>1 DEF AskUser, Arrives, CreateApproval, Undivided, Items,
          TypeOK, itemVars, appVars
    <3>4. \A b \in Actions : handled'[b] = "none" =>
             status'[b] \notin Settled /\ \A m \in Message : ~Says(inbox'[b], m)
      BY <1>0, <2>0, <1>5, <2>a, <3>1 DEF AskUser, Arrives, CreateApproval, Undivided,
          Items, TypeOK, serverVars, itemVars, appVars
    <3>5. ASSUME NEW b \in Actions,
                 \/ status'[b] = "failed"
                 \/ handled'[b] = "rejected"
                 \/ Says(inbox'[b], "failed")
                 \/ Says(inbox'[b], "rejected"),
                 NEW q \in Approval, of'[q] = b
          PROVE  state'[q] \notin Open
      <4>1. status[a] # "failed" /\ \A m \in Message : ~Says(inbox[a], m)
        BY <1>0, <1>5, <3>1 DEF AskUser, Undivided
      <4>2. b # a
        BY <1>0, <1>5, <2>0, <3>5, <4>1 DEF AskUser, Arrives, TypeOK
      <4>3. of[q] = b /\ state'[q] = state[q]
        BY <1>0, <1>5, <2>a, <3>5, <4>2 DEF AskUser, CreateApproval, TypeOK
      <4> QED BY <1>0, <1>5, <2>0, <3>1, <3>5, <4>2, <4>3
          DEF AskUser, Arrives, Undivided, TypeOK
    <3> QED BY <3>2, <3>3, <3>4, <3>5 DEF Undivided
  <2> QED BY <2>1, <2>2, <2>3, <2>4, <2>5, <2>6, <2>7, <2>8, <2>9 DEF IInv
<1>6. ASSUME NEW a \in Actions, RejectByPolicy(a) PROVE IInv'
  <2>0. /\ inbox' \in [Actions -> Seq(Message)]
        /\ \A b \in Actions, m \in Message :
              Says(inbox'[b], m) => Says(inbox[b],
              m) \/ (b = a /\ m \in {"failed", "rejected"})
    <3> DEFINE ms == <<"failed", "rejected">>
    <3>1. ms \in Seq(Message)
      OBVIOUS
    <3>2. inbox' = Sent(a, ms)
      BY <1>6 DEF RejectByPolicy
    <3>3. \A m : Says(ms, m) => m \in {"failed", "rejected"}
      BY DEF Says
    <3> HIDE DEF ms
    <3> QED BY <1>0, <3>1, <3>2, <3>3, SentSays
  <2>a. /\ created + 1 \in Approval /\ created' = created + 1
        /\ state[created + 1] = "none" /\ runs[created + 1] = 0
        /\ of[created + 1] = NoAction
        /\ created + 1 \notin payloads
        /\ \A q \in payloads : of[q] # a
    <3>1. created \in Nat /\ created + 1 \in Approval /\ created' = created + 1
      BY <1>0, <1>6 DEF RejectByPolicy, CreateApproval, TypeOK
    <3>2. /\ of[created + 1] \notin Actions /\ state[created + 1] = "none"
          /\ created + 1 \notin payloads
      BY <1>0, <3>1 DEF Items, TypeOK
    <3>3. of[created + 1] = NoAction /\ runs[created + 1] = 0
      BY <1>0, <3>1, <3>2 DEF RunsMatchDecision, TypeOK
    <3>4. handled[a] = "none"
      BY <1>6 DEF RejectByPolicy
    <3>5. \A q \in payloads : of[q] # a
      BY <1>0, <3>4 DEF Payloads
    <3> QED BY <3>1, <3>2, <3>3, <3>5
  <2>1. TypeOK'
    BY SMTT(60), <1>0, <1>6, <2>0, <2>a DEF RejectByPolicy, Arrives, CreateApproval,
        TypeOK,
        serverVars, itemVars, appVars
  <2>2. Items'
    BY <1>0, <1>6, <2>0, <2>a DEF RejectByPolicy, Arrives, CreateApproval, Items,
        TypeOK, serverVars, itemVars, appVars
  <2>3. Route'
    BY <1>0, <1>6, <2>0, <2>a DEF RejectByPolicy, Arrives, CreateApproval, Route,
        Items, TypeOK, serverVars, itemVars, appVars
  <2>4. Payloads'
    <3>1. \A q \in payloads : /\ of'[q] = of[q] /\ state'[q] = state[q]
                             /\ handled'[of[q]] = handled[of[q]]
      BY <1>0, <1>6, <2>a DEF RejectByPolicy, CreateApproval, Payloads, TypeOK
    <3>2. payloads' = payloads /\ running' = running
      BY <1>6 DEF RejectByPolicy, Arrives
    <3> QED BY <1>0, <3>1, <3>2 DEF Payloads
  <2>5. Rendering'
    BY <1>0, <1>6, <2>0, <2>a DEF RejectByPolicy, Arrives, CreateApproval, Rendering,
        Payloads, Items, TypeOK, serverVars, itemVars, appVars
  <2>6. RunsMatchDecision'
    BY <1>0, <1>6, <2>0, <2>a DEF RejectByPolicy, Arrives, CreateApproval,
        RunsMatchDecision, Payloads, Rendering, Items, TypeOK, serverVars, itemVars,
        appVars
  <2>7. InboxIsTrue'
    <3>1. \A q \in Approval :
             /\ of[q] \in Actions => of'[q] = of[q]
             /\ state[q] \in {"executed", "denied"} => state'[q] = state[q]
             /\ runs[q] = 1 => runs'[q] = 1
      BY <1>0, <1>6, <2>a DEF RejectByPolicy, Arrives, CreateApproval, TypeOK
    <3>2. \A b \in Actions : /\ Approved(b) => Approved(b)'
                             /\ Became(b, "executed") => Became(b, "executed")'
                             /\ Became(b, "denied") => Became(b, "denied")'
      BY <3>1 DEF Approved, Became
    <3>4. ASSUME NEW b \in Actions
          PROVE  /\ Says(inbox'[b], "executed") => Became(b, "executed")'
                 /\ Says(inbox'[b], "approved") => Approved(b)'
                 /\ Says(inbox'[b], "denied") => Became(b, "denied")'
      BY <1>0, <2>0, <3>2 DEF InboxIsTrue
    <3> QED BY <3>4 DEF InboxIsTrue, Became, Approved
  <2>8. RecordIsTrue'
    <3>1. \A q \in Approval :
             /\ of[q] \in Actions => of'[q] = of[q]
             /\ state[q] \in {"executed", "denied"} => state'[q] = state[q]
             /\ runs[q] = 1 => runs'[q] = 1
      BY <1>0, <1>6, <2>a DEF RejectByPolicy, Arrives, CreateApproval, TypeOK
    <3>2. status' = status
      BY <1>6 DEF RejectByPolicy, Arrives
    <3> QED BY <1>0, <3>1, <3>2 DEF RecordIsTrue
  <2>9. Undivided'
    <3> SUFFICES ASSUME faults'["restart"] = 0 PROVE Undivided'
      BY DEF Undivided
    <3>1. faults["restart"] = 0
      BY <1>6, <2>a DEF RejectByPolicy, Arrives, CreateApproval
    <3>2. \A q, r \in 1 .. created' : of'[q] = of'[r] => q = r
      BY <1>0, <1>6, <2>a, <3>1 DEF RejectByPolicy, Arrives, CreateApproval, Undivided,
          Items, TypeOK, itemVars
    <3>3. \A q \in 1 .. created' : handled'[of'[q]] # "none"
      BY <1>0, <1>6, <2>a, <3>1 DEF RejectByPolicy, Arrives, CreateApproval, Undivided,
          Items, TypeOK, itemVars, appVars
    <3>4. \A b \in Actions : handled'[b] = "none" =>
             status'[b] \notin Settled /\ \A m \in Message : ~Says(inbox'[b], m)
      BY <1>0, <2>0, <1>6, <2>a, <3>1 DEF RejectByPolicy, Arrives, CreateApproval,
          Undivided, Items, TypeOK, serverVars, itemVars, appVars
    <3>5. ASSUME NEW b \in Actions,
                 \/ status'[b] = "failed"
                 \/ handled'[b] = "rejected"
                 \/ Says(inbox'[b], "failed")
                 \/ Says(inbox'[b], "rejected"),
                 NEW q \in Approval, of'[q] = b
          PROVE  state'[q] \notin Open
      <4>1. CASE b = a
        <5>1. q = created + 1
          BY <1>0, <1>6, <2>a, <3>1, <3>5, <4>1
          DEF RejectByPolicy, CreateApproval, Undivided, Items, TypeOK
        <5> QED BY <1>0, <1>6, <2>a, <5>1 DEF RejectByPolicy, CreateApproval, TypeOK
      <4>2. CASE b # a
        <5>1. of[q] = b /\ state'[q] = state[q]
          BY <1>0, <1>6, <2>a, <3>5, <4>2 DEF RejectByPolicy, CreateApproval, TypeOK
        <5> QED BY <1>0, <1>6, <2>0, <3>1, <3>5, <4>2, <5>1
            DEF RejectByPolicy, Arrives, Undivided, TypeOK
      <4> QED BY <4>1, <4>2
    <3> QED BY <3>2, <3>3, <3>4, <3>5 DEF Undivided
  <2> QED BY <2>1, <2>2, <2>3, <2>4, <2>5, <2>6, <2>7, <2>8, <2>9 DEF IInv
<1>7. ASSUME NEW a \in Actions, ReceiveAck(a) PROVE IInv'
  <2>0. /\ inbox' \in [Actions -> Seq(Message)]
        /\ \A b \in Actions, m \in Message : Says(inbox'[b], m) => Says(inbox[b], m)
        /\ Head(inbox[a]) \in Message
        /\ Says(inbox[a], Head(inbox[a]))
    BY <1>0, <1>7, ReceivedSays DEF ReceiveAck
  <2>1. TypeOK'
    BY <1>0, <1>7, <2>0 DEF ReceiveAck, Received, SetStatus, TypeOK, serverVars,
        itemVars, appVars
  <2>2. Route'
    BY <1>0, <1>7, <2>0 DEF ReceiveAck, Received, SetStatus, Route, Items, TypeOK,
        serverVars, itemVars, appVars
  <2>3. InboxIsTrue'
    BY <1>0, <1>7, <2>0 DEF ReceiveAck, Received, InboxIsTrue, Became, Approved, itemVars
  <2>4. RecordIsTrue'
    BY <1>0, <1>7, <2>0 DEF ReceiveAck, Received, SetStatus, RecordIsTrue,
        InboxIsTrue, RunsMatchDecision, Payloads, Items, Became, Approved, TypeOK,
        serverVars, itemVars, appVars
  <2>5. Undivided'
    BY <1>0, <1>7, <2>0 DEF ReceiveAck, Received, SetStatus, Undivided, Payloads,
        Items, Route, TypeOK, serverVars, itemVars, appVars
  <2>6. Items' /\ Payloads' /\ Rendering' /\ RunsMatchDecision'
    BY <1>0, <1>7 DEF ReceiveAck, Received, Items, Payloads, Rendering,
        RunsMatchDecision, serverVars, itemVars, appVars
  <2> QED BY <2>1, <2>2, <2>3, <2>4, <2>5, <2>6 DEF IInv
<1>8. ASSUME NEW a \in Actions, ReceiveResult(a) PROVE IInv'
  <2>0. /\ inbox' \in [Actions -> Seq(Message)]
        /\ \A b \in Actions, m \in Message : Says(inbox'[b], m) => Says(inbox[b], m)
        /\ Head(inbox[a]) \in Message
        /\ Says(inbox[a], Head(inbox[a]))
    BY <1>0, <1>8, ReceivedSays DEF ReceiveResult
  <2>1. TypeOK'
    BY <1>0, <1>8, <2>0 DEF ReceiveResult, Received, SetResult, TypeOK, serverVars,
        itemVars, appVars
  <2>2. Route'
    BY <1>0, <1>8, <2>0 DEF ReceiveResult, Received, SetResult, Route, Items, TypeOK,
        serverVars, itemVars, appVars
  <2>3. InboxIsTrue'
    BY <1>0, <1>8, <2>0 DEF ReceiveResult, Received, InboxIsTrue, Became, Approved, itemVars
  <2>4. RecordIsTrue'
    BY <1>0, <1>8, <2>0 DEF ReceiveResult, Received, SetResult, RecordIsTrue,
        InboxIsTrue, RunsMatchDecision, Payloads, Items, Became, Approved, TypeOK,
        serverVars, itemVars, appVars
  <2>5. Undivided'
    BY <1>0, <1>8, <2>0 DEF ReceiveResult, Received, SetResult, Undivided, Payloads,
        Items, Route, TypeOK, serverVars, itemVars, appVars
  <2>6. Items' /\ Payloads' /\ Rendering' /\ RunsMatchDecision'
    BY <1>0, <1>8 DEF ReceiveResult, Received, Items, Payloads, Rendering,
        RunsMatchDecision, serverVars, itemVars, appVars
  <2> QED BY <2>1, <2>2, <2>3, <2>4, <2>5, <2>6 DEF IInv
<1>9. ASSUME NEW a \in Actions, ReceiveCommandAck(a) PROVE IInv'
  <2>0. /\ inbox' \in [Actions -> Seq(Message)]
        /\ \A b \in Actions, m \in Message : Says(inbox'[b], m) => Says(inbox[b], m)
        /\ Head(inbox[a]) \in Message
        /\ Says(inbox[a], Head(inbox[a]))
    BY <1>0, <1>9, ReceivedSays DEF ReceiveCommandAck
  <2>1. TypeOK'
    BY <1>0, <1>9, <2>0 DEF ReceiveCommandAck, Received, SetResult, TypeOK,
        serverVars, itemVars, appVars
  <2>2. Route'
    BY <1>0, <1>9, <2>0 DEF ReceiveCommandAck, Received, SetResult, Route, Items,
        TypeOK, serverVars, itemVars, appVars
  <2>3. InboxIsTrue'
    BY <1>0, <1>9, <2>0 DEF ReceiveCommandAck, Received, InboxIsTrue, Became, Approved,
        itemVars
  <2>4. RecordIsTrue'
    BY <1>0, <1>9, <2>0 DEF ReceiveCommandAck, Received, SetResult, RecordIsTrue,
        InboxIsTrue, RunsMatchDecision, Payloads, Items, Became, Approved, TypeOK,
        serverVars, itemVars, appVars
  <2>5. Undivided'
    BY <1>0, <1>9, <2>0 DEF ReceiveCommandAck, Received, SetResult, Undivided,
        Payloads, Items, Route, TypeOK, serverVars, itemVars, appVars
  <2>6. Items' /\ Payloads' /\ Rendering' /\ RunsMatchDecision'
    BY <1>0, <1>9 DEF ReceiveCommandAck, Received, Items, Payloads, Rendering,
        RunsMatchDecision, serverVars, itemVars, appVars
  <2> QED BY <2>1, <2>2, <2>3, <2>4, <2>5, <2>6 DEF IInv
<1>10. ASSUME NEW a \in Actions, RefuseIngest(a) PROVE IInv'
  <2>0. /\ inbox' \in [Actions -> Seq(Message)]
        /\ \A b \in Actions, m \in Message : Says(inbox'[b], m) => Says(inbox[b], m)
        /\ Head(inbox[a]) \in Message
        /\ Says(inbox[a], Head(inbox[a]))
    BY <1>0, <1>10, ReceivedSays DEF RefuseIngest
  <2>f. /\ faults' \in [Fault -> Nat]
        /\ faults'["restart"] = faults["restart"]
    BY <1>0, <1>10, FailCounts DEF RefuseIngest
  <2>1. TypeOK'
    BY <1>0, <1>10, <2>0, <2>f DEF RefuseIngest, Received, TypeOK, serverVars,
        itemVars, appVars
  <2>2. Route'
    BY <1>0, <1>10, <2>0, <2>f DEF RefuseIngest, Received, Route, Items, TypeOK,
        serverVars, itemVars, appVars
  <2>3. InboxIsTrue'
    BY <1>0, <1>10, <2>0 DEF RefuseIngest, Received, InboxIsTrue, Became, Approved, itemVars
  <2>4. Undivided'
    BY SMTT(60), <1>0, <1>10, <2>0, <2>f DEF RefuseIngest, Received, Undivided, Payloads, Items,
        Route, TypeOK, serverVars, itemVars, appVars
  <2>5. Items' /\ Payloads' /\ Rendering' /\ RunsMatchDecision' /\ RecordIsTrue'
    BY <1>0, <1>10 DEF RefuseIngest, Received, Items, Payloads, Rendering,
        RunsMatchDecision, RecordIsTrue, serverVars, itemVars, appVars
  <2> QED BY <2>1, <2>2, <2>3, <2>4, <2>5 DEF IInv
<1>11. ASSUME NEW p \in Approval, Approve(p) PROVE IInv'
  <2>0. /\ inbox' \in [Actions -> Seq(Message)]
        /\ \A b \in Actions, m \in Message :
              Says(inbox'[b], m) => Says(inbox[b], m) \/ (b = of[p] /\ m \in {"approved"})
    <3> DEFINE ms == <<"approved">>
    <3>1. ms \in Seq(Message)
      OBVIOUS
    <3>2. inbox' = Sent(of[p], ms)
      BY <1>11 DEF Approve
    <3>3. \A m : Says(ms, m) => m \in {"approved"}
      BY DEF Says
    <3> HIDE DEF ms
    <3> QED BY <1>0, <3>1, <3>2, <3>3, SentSays
  <2>a. /\ p \in payloads /\ of[p] \in Actions /\ handled[of[p]] = "accepted"
        /\ state[p] = "pending" /\ runs[p] = 0
        /\ state' = [state EXCEPT ![p] = "executing"]
        /\ runs' = [runs EXCEPT ![p] = 1]
    <3>1. p \in payloads /\ shown[p] = "pending"
      BY <1>11 DEF Approve, NextShown
    <3>2. state[p] = "pending" /\ handled[of[p]] = "accepted"
      BY <1>0, <3>1 DEF Rendering, Payloads
    <3>3. of[p] \in Actions
      BY <1>0, <3>1 DEF Items, TypeOK
    <3>4. runs[p] = 0
      BY <1>0, <3>2 DEF RunsMatchDecision
    <3>5. /\ state' = [state EXCEPT ![p] = "executing"]
          /\ runs' = [runs EXCEPT ![p] = 1]
      BY <1>0, <1>11, <3>2, <3>4 DEF Approve, Pending, TypeOK
    <3> QED BY <3>1, <3>2, <3>3, <3>4, <3>5
  <2>1. TypeOK'
    BY <1>0, <1>11, <2>0, <2>a DEF Approve, Pending, NextShown, TypeOK, serverVars,
        itemVars, appVars
  <2>2. Items'
    BY <1>0, <1>11, <2>0, <2>a DEF Approve, Pending, NextShown, Items, TypeOK,
        serverVars, itemVars, appVars
  <2>3. Route'
    BY <1>0, <1>11, <2>0, <2>a DEF Approve, Pending, NextShown, Route, Items, TypeOK,
        serverVars, itemVars, appVars
  <2>4. Payloads'
    <3>1. /\ payloads' = payloads /\ of' = of /\ handled' = handled
          /\ running' = running \cup {p}
      BY <1>11 DEF Approve
    <3>2. state'[p] = "executing" /\ \A q \in payloads : q # p => state'[q] = state[q]
      BY <1>0, <2>a DEF TypeOK
    <3> QED BY <1>0, <2>a, <3>1, <3>2 DEF Payloads
  <2>5. Rendering'
    BY <1>0, <1>11, <2>0, <2>a DEF Approve, Pending, NextShown, Rendering, Payloads,
        Items, TypeOK, serverVars, itemVars, appVars
  <2>6. RunsMatchDecision'
    BY <1>0, <1>11, <2>0, <2>a DEF Approve, Pending, NextShown, RunsMatchDecision,
        Payloads, Rendering, Items, TypeOK, serverVars, itemVars, appVars
  <2>7. InboxIsTrue'
    <3>1. \A q \in Approval :
             /\ of[q] \in Actions => of'[q] = of[q]
             /\ state[q] \in {"executed", "denied"} => state'[q] = state[q]
             /\ runs[q] = 1 => runs'[q] = 1
      BY <1>0, <1>11, <2>a DEF Approve, TypeOK
    <3>2. \A b \in Actions : /\ Approved(b) => Approved(b)'
                             /\ Became(b, "executed") => Became(b, "executed")'
                             /\ Became(b, "denied") => Became(b, "denied")'
      BY <3>1 DEF Approved, Became
    <3>3. \A b \in Actions : b = of[p] => Approved(b)'
      BY <1>0, <1>11, <2>a DEF Approve, Approved, TypeOK
    <3>4. ASSUME NEW b \in Actions
          PROVE  /\ Says(inbox'[b], "executed") => Became(b, "executed")'
                 /\ Says(inbox'[b], "approved") => Approved(b)'
                 /\ Says(inbox'[b], "denied") => Became(b, "denied")'
      BY <1>0, <2>0, <3>2, <3>3 DEF InboxIsTrue
    <3> QED BY <3>4 DEF InboxIsTrue, Became, Approved
  <2>8. RecordIsTrue'
    <3>1. \A q \in Approval :
             /\ of[q] \in Actions => of'[q] = of[q]
             /\ state[q] \in {"executed", "denied"} => state'[q] = state[q]
             /\ runs[q] = 1 => runs'[q] = 1
      BY <1>0, <1>11, <2>a DEF Approve, TypeOK
    <3>2. status' = status
      BY <1>11 DEF Approve, serverVars
    <3> QED BY <1>0, <3>1, <3>2 DEF RecordIsTrue
  <2>9. Undivided'
    <3>1. UNCHANGED <<status, handled, of, created, faults>>
      BY <1>11 DEF Approve, serverVars
    <3>2. \A q \in Approval : state'[q] \in Open => state[q] \in Open
      BY <1>0, <2>a DEF TypeOK, Open
    <3>3. \A b \in Actions, m \in Message :
             Says(inbox'[b], m) => Says(inbox[b], m) \/ handled[b] = "accepted"
      BY <2>0, <2>a
    <3>4. \A b \in Actions, m \in {"failed", "rejected"} :
             Says(inbox'[b], m) => Says(inbox[b], m)
      BY <2>0 DEF Message
    <3> QED BY <1>0, <3>1, <3>2, <3>3, <3>4 DEF Undivided
  <2> QED BY <2>1, <2>2, <2>3, <2>4, <2>5, <2>6, <2>7, <2>8, <2>9 DEF IInv
<1>12. ASSUME NEW p \in Approval, Deny(p) PROVE IInv'
  <2>0. /\ inbox' \in [Actions -> Seq(Message)]
        /\ \A b \in Actions, m \in Message :
              Says(inbox'[b], m) =>
                  \/ Says(inbox[b], m)
                  \/ /\ \E q \in {p} \cap {q \in Approval : Pending(q)} \cap payloads : of[q] = b
                     /\ m \in {"denied", "failed"}
    <3>1. <<"denied">> \in Seq(Message) /\ \A m : Says(<<"denied">>, m) =>
        m \in {"denied", "failed"}
      BY DEF Says
    <3> QED BY <1>0, <1>12, <3>1, RefuseSays DEF Deny
  <2>1. TypeOK'
    <3>1. /\ state' \in [Approval -> {"none"} \cup ItemState]
          /\ shown' = state' /\ payloads' \subseteq payloads
      BY <1>0, <1>12 DEF Deny, Refuse, TypeOK, ItemState
    <3>2. UNCHANGED <<status, request, command, inflight, connected, control, handled,
                      created, of, due, running, runs, faults>>
      BY <1>12 DEF Deny, serverVars
    <3> QED BY <1>0, <2>0, <3>1, <3>2 DEF TypeOK
  <2>2. Items'
    BY <1>0, <1>12, <2>0 DEF Deny, Pending, NextShown, Refuse, Items, TypeOK,
        serverVars, itemVars, appVars
  <2>3. Route'
    BY <1>0, <1>12, <2>0 DEF Deny, Pending, NextShown, Refuse, Route, Items, TypeOK,
        serverVars, itemVars, appVars
  <2>4. Payloads'
    BY <1>0, <1>12, <2>0 DEF Deny, Pending, NextShown, Refuse, Payloads, Items,
        Rendering, TypeOK, serverVars, itemVars, appVars
  <2>5. Rendering'
    BY <1>0, <1>12, <2>0 DEF Deny, Pending, NextShown, Refuse, Rendering, Payloads,
        Items, TypeOK, serverVars, itemVars, appVars
  <2>6. RunsMatchDecision'
    BY <1>0, <1>12, <2>0 DEF Deny, Pending, NextShown, Refuse, RunsMatchDecision,
        Payloads, Rendering, Items, TypeOK, serverVars, itemVars, appVars
  <2>7. InboxIsTrue'
    <3>1. \A q \in Approval :
             /\ of[q] \in Actions => of'[q] = of[q]
             /\ state[q] \in {"executed", "denied"} => state'[q] = state[q]
             /\ runs[q] = 1 => runs'[q] = 1
      BY <1>0, <1>12 DEF Deny, Refuse, Pending, TypeOK
    <3>2. \A b \in Actions : /\ Approved(b) => Approved(b)'
                             /\ Became(b, "executed") => Became(b, "executed")'
                             /\ Became(b, "denied") => Became(b, "denied")'
      BY <3>1 DEF Approved, Became
    <3>3. \A b \in Actions, q \in {p} \cap {r \in Approval : Pending(r)} :
             of[q] = b => Became(b, "denied")'
      BY <1>0, <1>12 DEF Deny, Refuse, Became, TypeOK
    <3>4. ASSUME NEW b \in Actions
          PROVE  /\ Says(inbox'[b], "executed") => Became(b, "executed")'
                 /\ Says(inbox'[b], "approved") => Approved(b)'
                 /\ Says(inbox'[b], "denied") => Became(b, "denied")'
      BY <1>0, <2>0, <3>2, <3>3 DEF InboxIsTrue
    <3> QED BY <3>4 DEF InboxIsTrue, Became, Approved
  <2>8. RecordIsTrue'
    BY <1>0, <1>12, <2>0 DEF Deny, Pending, NextShown, Refuse, RecordIsTrue,
        InboxIsTrue, RunsMatchDecision, Payloads, Items, Became, Approved, TypeOK,
        serverVars, itemVars, appVars
  <2>9. Undivided'
    BY <1>0, <1>12, <2>0 DEF Deny, Pending, NextShown, Refuse, Undivided, Payloads,
        Items, Route, TypeOK, serverVars, itemVars, appVars
  <2> QED BY <2>1, <2>2, <2>3, <2>4, <2>5, <2>6, <2>7, <2>8, <2>9 DEF IInv
<1>13. ASSUME NEW p \in Approval, FallDue(p) PROVE IInv'
  <2>1. TypeOK'
    BY <1>0, <1>13 DEF FallDue, TypeOK, serverVars, itemVars, appVars
  <2>2. Items' /\ Route' /\ Payloads' /\ Rendering' /\ RunsMatchDecision' /\ InboxIsTrue' /\
       RecordIsTrue' /\ Undivided'
    BY <1>0, <1>13 DEF FallDue, Items, Route, Payloads, Rendering, RunsMatchDecision,
        InboxIsTrue, RecordIsTrue, Undivided, Became, Approved, serverVars, itemVars,
        appVars
  <2> QED BY <2>1, <2>2 DEF IInv
<1>14. ASSUME NEW p \in Approval, NEW ok \in BOOLEAN, Executed(p, ok) PROVE IInv'
  <2>0. /\ inbox' \in [Actions -> Seq(Message)]
        /\ \A b \in Actions, m \in Message :
              Says(inbox'[b], m) => Says(inbox[b],
              m) \/ (b = of[p] /\ m \in {IF ok THEN "executed" ELSE "failed"})
    <3> DEFINE ms == IF ok THEN <<"executed">> ELSE <<"failed">>
    <3>1. ms \in Seq(Message)
      <4>1. CASE ok
        BY <4>1
      <4>2. CASE ~ok
        BY <4>2
      <4> QED BY <4>1, <4>2
    <3>2. inbox' = Sent(of[p], ms)
      BY <1>14 DEF Executed
    <3>3. \A m : Says(ms, m) => m \in {IF ok THEN "executed" ELSE "failed"}
      BY DEF Says
    <3> HIDE DEF ms
    <3> QED BY <1>0, <3>1, <3>2, <3>3, SentSays
  <2>a. /\ p \in payloads /\ of[p] \in Actions /\ state[p] = "executing" /\ runs[p] = 1
        /\ state' = [state EXCEPT ![p] = IF ok THEN "executed" ELSE "failed"]
    <3>1. p \in payloads /\ state[p] = "executing"
      BY <1>0, <1>14 DEF Executed, Payloads
    <3>2. of[p] \in Actions
      BY <1>0, <3>1 DEF Items, TypeOK
    <3>3. runs[p] = 1
      BY <1>0, <3>1 DEF RunsMatchDecision
    <3>4. state' = [state EXCEPT ![p] = IF ok THEN "executed" ELSE "failed"]
      BY <1>0, <1>14, <3>1 DEF Executed, TypeOK
    <3> QED BY <3>1, <3>2, <3>3, <3>4
  <2>1. TypeOK'
    BY <1>0, <1>14, <2>0, <2>a DEF Executed, TypeOK, serverVars, itemVars, appVars
  <2>2. Items'
    BY <1>0, <1>14, <2>0, <2>a DEF Executed, Items, TypeOK, serverVars, itemVars,
        appVars
  <2>3. Route'
    BY <1>0, <1>14, <2>0, <2>a DEF Executed, Route, Items, TypeOK, serverVars,
        itemVars, appVars
  <2>4. Payloads'
    BY SMTT(60), <1>0, <1>14, <2>0, <2>a DEF Executed, Payloads, Items, Rendering, TypeOK,
        serverVars, itemVars, appVars
  <2>5. Rendering'
    BY <1>0, <1>14, <2>0, <2>a DEF Executed, Rendering, Payloads, Items, TypeOK,
        serverVars, itemVars, appVars
  <2>6. RunsMatchDecision'
    BY <1>0, <1>14, <2>0, <2>a DEF Executed, RunsMatchDecision, Payloads, Rendering,
        Items, TypeOK, serverVars, itemVars, appVars
  <2>7. InboxIsTrue'
    <3>1. \A q \in Approval :
             /\ of[q] \in Actions => of'[q] = of[q]
             /\ state[q] \in {"executed", "denied"} => state'[q] = state[q]
             /\ runs[q] = 1 => runs'[q] = 1
      BY <1>0, <1>14, <2>a DEF Executed, TypeOK
    <3>2. \A b \in Actions : /\ Approved(b) => Approved(b)'
                             /\ Became(b, "executed") => Became(b, "executed")'
                             /\ Became(b, "denied") => Became(b, "denied")'
      BY <3>1 DEF Approved, Became
    <3>3. \A b \in Actions : ok /\ b = of[p] => Became(b, "executed")'
      BY <1>0, <1>14, <2>a DEF Executed, Became, TypeOK
    <3>4. ASSUME NEW b \in Actions
          PROVE  /\ Says(inbox'[b], "executed") => Became(b, "executed")'
                 /\ Says(inbox'[b], "approved") => Approved(b)'
                 /\ Says(inbox'[b], "denied") => Became(b, "denied")'
      BY <1>0, <2>0, <3>2, <3>3 DEF InboxIsTrue
    <3> QED BY <3>4 DEF InboxIsTrue, Became, Approved
  <2>8. RecordIsTrue'
    BY <1>0, <1>14, <2>0, <2>a DEF Executed, RecordIsTrue, InboxIsTrue,
        RunsMatchDecision, Payloads, Items, Became, Approved, TypeOK, serverVars,
        itemVars, appVars
  <2>9. Undivided'
    BY SMTT(60), <1>0, <1>14, <2>0, <2>a DEF Executed, Undivided, Payloads, Items, Route,
        TypeOK, serverVars, itemVars, appVars
  <2> QED BY <2>1, <2>2, <2>3, <2>4, <2>5, <2>6, <2>7, <2>8, <2>9 DEF IInv
<1>15. ASSUME Render PROVE IInv'
  <2>1. TypeOK'
    BY <1>0, <1>15 DEF Render, TypeOK, serverVars, itemVars, appVars
  <2>2. Rendering'
    BY <1>0, <1>15 DEF Render, Rendering, Payloads, Items, TypeOK, serverVars,
        itemVars, appVars
  <2>3. Items' /\ Route' /\ Payloads' /\ RunsMatchDecision' /\ InboxIsTrue' /\ RecordIsTrue' /\
       Undivided'
    BY <1>0, <1>15 DEF Render, Items, Route, Payloads, RunsMatchDecision, InboxIsTrue,
        RecordIsTrue, Undivided, Became, Approved, serverVars, itemVars, appVars
  <2> QED BY <2>1, <2>2, <2>3 DEF IInv
<1>16. ASSUME ExpireDue PROVE IInv'
  <2>0. /\ inbox' \in [Actions -> Seq(Message)]
        /\ \A b \in Actions, m \in Message :
              Says(inbox'[b], m) =>
                  \/ Says(inbox[b], m)
                  \/ /\ \E q \in Expirable \cap payloads : of[q] = b
                     /\ m \in {"failed"}
    <3>1. <<>> \in Seq(Message) /\ \A m : Says(<<>>, m) => m \in {"failed"}
      BY DEF Says
    <3> QED BY <1>0, <1>16, <3>1, RefuseSays DEF ExpireDue
  <2>1. TypeOK'
    BY <1>0, <1>16, <2>0 DEF ExpireDue, Expirable, Pending, Refuse, TypeOK,
        serverVars, itemVars, appVars
  <2>2. Items'
    BY <1>0, <1>16, <2>0 DEF ExpireDue, Expirable, Pending, Refuse, Items, TypeOK,
        serverVars, itemVars, appVars
  <2>3. Route'
    BY <1>0, <1>16, <2>0 DEF ExpireDue, Expirable, Pending, Refuse, Route, Items,
        TypeOK, serverVars, itemVars, appVars
  <2>4. Payloads'
    BY SMTT(60), <1>0, <1>16, <2>0 DEF ExpireDue, Expirable, Pending, Refuse, Payloads, Items,
        Rendering, TypeOK, serverVars, itemVars, appVars
  <2>5. Rendering'
    BY <1>0, <1>16, <2>0 DEF ExpireDue, Expirable, Pending, Refuse, Rendering,
        Payloads, Items, TypeOK, serverVars, itemVars, appVars
  <2>6. RunsMatchDecision'
    BY <1>0, <1>16, <2>0 DEF ExpireDue, Expirable, Pending, Refuse, RunsMatchDecision,
        Payloads, Rendering, Items, TypeOK, serverVars, itemVars, appVars
  <2>7. InboxIsTrue'
    <3>1. \A q \in Approval :
             /\ of[q] \in Actions => of'[q] = of[q]
             /\ state[q] \in {"executed", "denied"} => state'[q] = state[q]
             /\ runs[q] = 1 => runs'[q] = 1
      BY <1>0, <1>16 DEF ExpireDue, Expirable, Pending, Refuse, TypeOK
    <3>2. \A b \in Actions : /\ Approved(b) => Approved(b)'
                             /\ Became(b, "executed") => Became(b, "executed")'
                             /\ Became(b, "denied") => Became(b, "denied")'
      BY <3>1 DEF Approved, Became
    <3>4. ASSUME NEW b \in Actions
          PROVE  /\ Says(inbox'[b], "executed") => Became(b, "executed")'
                 /\ Says(inbox'[b], "approved") => Approved(b)'
                 /\ Says(inbox'[b], "denied") => Became(b, "denied")'
      BY <1>0, <2>0, <3>2 DEF InboxIsTrue
    <3> QED BY <3>4 DEF InboxIsTrue, Became, Approved
  <2>8. RecordIsTrue'
    <3>1. \A q \in Approval :
             /\ of[q] \in Actions => of'[q] = of[q]
             /\ state[q] \in {"executed", "denied"} => state'[q] = state[q]
             /\ runs[q] = 1 => runs'[q] = 1
      BY <1>0, <1>16 DEF ExpireDue, Expirable, Pending, Refuse, TypeOK
    <3>2. status' = status
      BY <1>16 DEF ExpireDue, serverVars
    <3> QED BY <1>0, <3>1, <3>2 DEF RecordIsTrue
  <2>9. Undivided'
    BY SMTT(60), <1>0, <1>16, <2>0 DEF ExpireDue, Expirable, Pending, Refuse, Undivided,
        Payloads, Items, Route, TypeOK, serverVars, itemVars, appVars
  <2> QED BY <2>1, <2>2, <2>3, <2>4, <2>5, <2>6, <2>7, <2>8, <2>9 DEF IInv
<1>17. ASSUME DisableControl PROVE IInv'
  <2>0. /\ inbox' \in [Actions -> Seq(Message)]
        /\ \A b \in Actions, m \in Message :
              Says(inbox'[b], m) =>
                  \/ Says(inbox[b], m)
                  \/ /\ \E q \in Cancelable \cap payloads : of[q] = b
                     /\ m \in {"failed"}
    <3>1. <<>> \in Seq(Message) /\ \A m : Says(<<>>, m) => m \in {"failed"}
      BY DEF Says
    <3> QED BY <1>0, <1>17, <3>1, RefuseSays DEF DisableControl
  <2>f. /\ faults' \in [Fault -> Nat]
        /\ faults'["restart"] = faults["restart"]
    BY <1>0, <1>17, FailCounts DEF DisableControl
  <2>1. TypeOK'
    BY <1>0, <1>17, <2>0, <2>f DEF DisableControl, Cancelable, Pending, Refuse,
        TypeOK, serverVars, itemVars, appVars
  <2>2. Items'
    BY <1>0, <1>17, <2>0, <2>f DEF DisableControl, Cancelable, Pending, Refuse, Items,
        TypeOK, serverVars, itemVars, appVars
  <2>3. Route'
    BY <1>0, <1>17, <2>0, <2>f DEF DisableControl, Cancelable, Pending, Refuse, Route,
        Items, TypeOK, serverVars, itemVars, appVars
  <2>4. Payloads'
    <3>1. payloads' = payloads \ Cancelable /\ UNCHANGED <<of, handled, running>>
      BY <1>17 DEF DisableControl, Refuse
    <3>2. \A q \in payloads : q \notin Cancelable => state'[q] = state[q]
      BY <1>0, <1>17 DEF DisableControl, Refuse, TypeOK
    <3>3. \A q \in running : q \notin Cancelable
      BY <1>0 DEF Payloads, Cancelable, Pending
    <3> QED BY <1>0, <3>1, <3>2, <3>3 DEF Payloads
  <2>5. Rendering'
    BY <1>0, <1>17, <2>0, <2>f DEF DisableControl, Cancelable, Pending, Refuse,
        Rendering, Payloads, Items, TypeOK, serverVars, itemVars, appVars
  <2>6. RunsMatchDecision'
    BY <1>0, <1>17, <2>0, <2>f DEF DisableControl, Cancelable, Pending, Refuse,
        RunsMatchDecision, Payloads, Rendering, Items, TypeOK, serverVars, itemVars,
        appVars
  <2>7. InboxIsTrue'
    <3>1. \A q \in Approval :
             /\ of[q] \in Actions => of'[q] = of[q]
             /\ state[q] \in {"executed", "denied"} => state'[q] = state[q]
             /\ runs[q] = 1 => runs'[q] = 1
      BY <1>0, <1>17 DEF DisableControl, Cancelable, Pending, Refuse, TypeOK
    <3>2. \A b \in Actions : /\ Approved(b) => Approved(b)'
                             /\ Became(b, "executed") => Became(b, "executed")'
                             /\ Became(b, "denied") => Became(b, "denied")'
      BY <3>1 DEF Approved, Became
    <3>4. ASSUME NEW b \in Actions
          PROVE  /\ Says(inbox'[b], "executed") => Became(b, "executed")'
                 /\ Says(inbox'[b], "approved") => Approved(b)'
                 /\ Says(inbox'[b], "denied") => Became(b, "denied")'
      BY <1>0, <2>0, <3>2 DEF InboxIsTrue
    <3> QED BY <3>4 DEF InboxIsTrue, Became, Approved
  <2>8. RecordIsTrue'
    <3>1. \A q \in Approval :
             /\ of[q] \in Actions => of'[q] = of[q]
             /\ state[q] \in {"executed", "denied"} => state'[q] = state[q]
             /\ runs[q] = 1 => runs'[q] = 1
      BY <1>0, <1>17 DEF DisableControl, Cancelable, Pending, Refuse, TypeOK
    <3>2. status' = status
      BY <1>17 DEF DisableControl, serverVars
    <3> QED BY <1>0, <3>1, <3>2 DEF RecordIsTrue
  <2>9. Undivided'
    <3> SUFFICES ASSUME faults'["restart"] = 0 PROVE Undivided'
      BY DEF Undivided
    <3>1. faults["restart"] = 0
      BY <2>f
    <3>2. UNCHANGED <<created, of, handled, status>>
      BY <1>17 DEF DisableControl, serverVars
    <3>3. \A q, r \in 1 .. created : of[q] = of[r] => q = r
      BY <1>0, <3>1 DEF Undivided
    <3>4. \A q \in 1 .. created : handled[of[q]] # "none"
      BY <1>0, <3>1 DEF Undivided
    <3>5. \A q \in payloads : handled[of[q]] # "none" /\ q \in 1 .. created
      BY <1>0 DEF Payloads, TypeOK
    <3>6. \A b \in Actions : handled[b] = "none" =>
             status[b] \notin Settled /\ \A m \in Message : ~Says(inbox'[b], m)
      BY <1>0, <2>0, <3>1, <3>5 DEF Undivided
    <3>7. ASSUME NEW b \in Actions,
                 \/ status[b] = "failed"
                 \/ handled[b] = "rejected"
                 \/ Says(inbox'[b], "failed")
                 \/ Says(inbox'[b], "rejected"),
                 NEW q \in Approval, of[q] = b
          PROVE  state'[q] \notin Open
      <4>1. state'[q] = IF q \in Cancelable THEN "canceled" ELSE state[q]
        BY <1>0, <1>17 DEF DisableControl, Refuse, TypeOK
      <4>2. CASE \E r \in Cancelable \cap payloads : of[r] = b
        <5>1. PICK r \in Cancelable \cap payloads : of[r] = b
          BY <4>2
        <5>2. q \in 1 .. created /\ r \in 1 .. created
          <6>1. q <= created
            BY <1>0, <3>7 DEF Items
          <6>2. created \in Nat /\ r \in 1 .. created
            <7>1. payloads \subseteq 1 .. created /\ created \in 0 .. MaxApprovals
              BY <1>0 DEF TypeOK
            <7>2. r \in payloads
              BY <5>1
            <7> QED BY <7>1, <7>2
          <6> QED BY <6>1, <6>2
        <5>3. r = q
          BY <3>3, <3>7, <5>1, <5>2
        <5> QED BY <4>1, <5>1, <5>3
      <4>3. CASE ~\E r \in Cancelable \cap payloads : of[r] = b
        <5>1. state[q] \notin Open
          BY <1>0, <2>0, <3>1, <3>7, <4>3 DEF Undivided
        <5> QED BY <4>1, <5>1
      <4> QED BY <4>2, <4>3
    <3> QED BY <3>2, <3>3, <3>4, <3>6, <3>7 DEF Undivided
  <2> QED BY <2>1, <2>2, <2>3, <2>4, <2>5, <2>6, <2>7, <2>8, <2>9 DEF IInv
<1>18. ASSUME EnableControl PROVE IInv'
  <2>f. /\ faults' \in [Fault -> Nat]
        /\ faults'["restart"] = faults["restart"]
    BY <1>0, <1>18, FailCounts DEF EnableControl
  <2>1. TypeOK'
    BY <1>0, <1>18, <2>f DEF EnableControl, TypeOK, serverVars, itemVars, appVars
  <2>2. Undivided'
    BY <1>0, <1>18, <2>f DEF EnableControl, Undivided, Payloads, Items, Route, TypeOK,
        serverVars, itemVars, appVars
  <2>3. Items' /\ Route' /\ Payloads' /\ Rendering' /\ RunsMatchDecision' /\ InboxIsTrue' /\
       RecordIsTrue'
    BY <1>0, <1>18 DEF EnableControl, Items, Route, Payloads, Rendering,
        RunsMatchDecision, InboxIsTrue, RecordIsTrue, Became, Approved, serverVars,
        itemVars, appVars
  <2> QED BY <2>1, <2>2, <2>3 DEF IInv
<1>19. ASSUME Restart PROVE IInv'
  <2>0. /\ inbox' \in [Actions -> Seq(Message)]
        /\ \A b \in Actions, m \in Message : ~Says(inbox'[b], m)
    BY <1>19 DEF Restart, Says
  <2>f. /\ faults' \in [Fault -> Nat]
        /\ faults'["restart"] # 0
    BY <1>0, <1>19, FailCounts DEF Restart
  <2>1. TypeOK'
    BY <1>0, <1>19, <2>0, <2>f DEF Restart, TypeOK, serverVars, itemVars, appVars
  <2>2. Route'
    BY <1>0, <1>19, <2>0, <2>f DEF Restart, Route, Items, TypeOK, serverVars,
        itemVars, appVars
  <2>3. Payloads'
    BY <1>0, <1>19, <2>0, <2>f DEF Restart, Payloads, Items, Rendering, TypeOK,
        serverVars, itemVars, appVars
  <2>4. Rendering'
    BY <1>0, <1>19, <2>0, <2>f DEF Restart, Rendering, Payloads, Items, TypeOK,
        serverVars, itemVars, appVars
  <2>5. InboxIsTrue'
    BY <1>0, <1>19, <2>0, <2>f DEF Restart, InboxIsTrue, RunsMatchDecision, Payloads,
        Items, Became, Approved, TypeOK, serverVars, itemVars, appVars
  <2>6. Undivided'
    BY <1>0, <1>19, <2>0, <2>f DEF Restart, Undivided, Payloads, Items, Route, TypeOK,
        serverVars, itemVars, appVars
  <2>7. Items' /\ RunsMatchDecision' /\ RecordIsTrue'
    BY <1>0, <1>19 DEF Restart, Items, RunsMatchDecision, RecordIsTrue, serverVars,
        itemVars, appVars
  <2> QED BY <2>1, <2>2, <2>3, <2>4, <2>5, <2>6, <2>7 DEF IInv
<1>20. ASSUME Drop PROVE IInv'
  <2>0. /\ inbox' \in [Actions -> Seq(Message)]
        /\ \A b \in Actions, m \in Message : ~Says(inbox'[b], m)
    BY <1>20 DEF Drop, Says
  <2>f. /\ faults' \in [Fault -> Nat]
        /\ faults'["restart"] = faults["restart"]
    BY <1>0, <1>20, FailCounts DEF Drop
  <2>1. TypeOK'
    BY <1>0, <1>20, <2>0, <2>f DEF Drop, TypeOK, serverVars, itemVars, appVars
  <2>2. Route'
    BY <1>0, <1>20, <2>0, <2>f DEF Drop, Route, Items, TypeOK, serverVars, itemVars,
        appVars
  <2>3. InboxIsTrue'
    BY <1>0, <1>20, <2>0, <2>f DEF Drop, InboxIsTrue, RunsMatchDecision, Payloads,
        Items, Became, Approved, TypeOK, serverVars, itemVars, appVars
  <2>4. Undivided'
    BY <1>0, <1>20, <2>0, <2>f DEF Drop, Undivided, Payloads, Items, Route, TypeOK,
        serverVars, itemVars, appVars
  <2>5. Items' /\ Payloads' /\ Rendering' /\ RunsMatchDecision' /\ RecordIsTrue'
    BY <1>0, <1>20 DEF Drop, Items, Payloads, Rendering, RunsMatchDecision,
        RecordIsTrue, serverVars, itemVars, appVars
  <2> QED BY <2>1, <2>2, <2>3, <2>4, <2>5 DEF IInv
<1>21. ASSUME Connect PROVE IInv'
  <2>1. TypeOK'
    BY <1>0, <1>21 DEF Connect, TypeOK, serverVars, itemVars, appVars
  <2>2. Items' /\ Route' /\ Payloads' /\ Rendering' /\ RunsMatchDecision' /\ InboxIsTrue' /\
       RecordIsTrue' /\ Undivided'
    BY <1>0, <1>21 DEF Connect, Items, Route, Payloads, Rendering, RunsMatchDecision,
        InboxIsTrue, RecordIsTrue, Undivided, Became, Approved, serverVars, itemVars,
        appVars
  <2> QED BY <2>1, <2>2 DEF IInv
<1>22. CASE UNCHANGED vars
  BY <1>0, <1>22 DEF IInv, TypeOK, Items, Route, Payloads, Rendering,
      RunsMatchDecision, InboxIsTrue, RecordIsTrue, Undivided, Became, Approved, vars,
      serverVars, itemVars, appVars, Pending
<1> QED BY <1>1, <1>2, <1>3, <1>4, <1>5, <1>6, <1>7, <1>8, <1>9, <1>10, <1>11, <1>12,
     <1>13, <1>14, <1>15, <1>16, <1>17, <1>18, <1>19, <1>20, <1>21, <1>22 DEF Next

(* The initial state satisfies it. *)
LEMMA IInvInit == Init => IInv
<1> SUFFICES ASSUME Init PROVE IInv
  OBVIOUS
<1> USE ActionAssumption, ApprovalAssumption
<1> USE DEF Init, Approval
<1>1. TypeOK
  BY DEF TypeOK, Message, Fault
<1>2. Items /\ Payloads /\ Rendering /\ RunsMatchDecision /\ RecordIsTrue
  BY DEF Items, Payloads, Rendering, Ran, RunsMatchDecision, RecordIsTrue
<1>3. \A a \in Actions, m \in Message : ~Says(inbox[a], m)
  BY DEF Says
<1>4. Route /\ InboxIsTrue /\ Undivided
  BY <1>3 DEF Route, InboxIsTrue, Undivided, Settled, Message, Ack, Result, CommandAck
<1> QED BY <1>1, <1>2, <1>4 DEF IInv

(* It holds in every reachable state. *)
LEMMA IInvHolds == Spec => []IInv
  BY IInvInit, IInvNext, PTL DEF Spec

(* Every variable keeps its type, and a payload belongs to an item that     *)
(* exists.                                                                  *)
THEOREM TypeCorrect == Spec => []TypeOK
  BY IInvHolds, PTL DEF IInv

(* The input devices are touched once for an approved item and never for    *)
(* another, however late the desktop renders and whatever is lost.          *)
THEOREM RunsMatchDecisionHolds == Spec => []RunsMatchDecision
  BY IInvHolds, PTL DEF IInv

(* The API's record never claims more than the desktop did. *)
THEOREM RecordIsTrueHolds == Spec => []RecordIsTrue
  BY IInvHolds, PTL DEF IInv

(* A failure told to the web is not executed later in the same life of the  *)
(* application.                                                             *)
THEOREM FailureIsHonestHolds == Spec => []FailureIsHonest
<1>1. IInv => FailureIsHonest
  <2> SUFFICES ASSUME IInv, faults["restart"] = 0, NEW p \in Approval,
                      of[p] \in Actions, status[of[p]] = "failed"
               PROVE  state[p] \notin {"pending", "executing", "executed"}
    BY DEF FailureIsHonest
  <2> QED BY DEF IInv, Undivided, Open
<1> QED BY <1>1, IInvHolds, PTL

(* No late message or write changes the outcome of an action. *)
THEOREM OutcomeIsFinalHolds == Spec => OutcomeIsFinal
<1>1. ASSUME IInv, [Next]_vars, NEW a \in Actions, status[a] \in Settled
      PROVE  /\ status'[a] \in Settled
             /\ faults'["restart"] = 0 => status'[a] = status[a]
  <2> USE DEF Settled
  <2>0. TypeOK /\ Route /\ InboxIsTrue /\ RecordIsTrue /\ Undivided
    BY <1>1 DEF IInv
  <2>1. status \in [Actions -> {"none"} \cup ActionStatus]
    BY <2>0 DEF TypeOK
  <2>2. CASE status' = status
    BY <1>1, <2>2, Zenon
  <2>3. ASSUME NEW b \in Actions, CreateAction(b) \/ Dispatched(b) \/ ReceiveAck(b)
        PROVE  status'[a] = status[a]
    BY <1>1, <2>0, <2>1, <2>3 DEF CreateAction, Dispatched, ReceiveAck, SetStatus, Route
  <2>4. ASSUME NEW b \in Actions, NEW ok \in BOOLEAN,
               status' = [status EXCEPT ![b] = SetResult(@, ok)],
               UNCHANGED faults,
               ok => Says(inbox[b], "executed"),
               ~ok => Says(inbox[b], "failed") \/ Says(inbox[b], "rejected")
        PROVE  /\ status'[a] \in Settled
               /\ faults'["restart"] = 0 => status'[a] = status[a]
    <3>1. CASE a # b
      BY <1>1, <2>1, <2>4, <3>1
    <3>2. CASE a = b
      <4>1. status'[a] = IF ok THEN "executed" ELSE "failed"
        BY <2>1, <2>4, <3>2 DEF SetResult
      <4>2. ASSUME faults["restart"] = 0, ok, status[a] = "failed" PROVE FALSE
        <5>1. PICK p \in Approval : of[p] = a /\ state[p] = "executed"
          BY <2>0, <2>4, <3>2, <4>2 DEF InboxIsTrue, Became
        <5> QED BY <2>0, <4>2, <5>1 DEF Undivided, Open
      <4>3. ASSUME faults["restart"] = 0, ~ok, status[a] = "executed" PROVE FALSE
        <5>1. PICK p \in Approval : of[p] = a /\ state[p] = "executed"
          BY <2>0, <4>3 DEF RecordIsTrue
        <5> QED BY <2>0, <2>4, <3>2, <4>3, <5>1 DEF Undivided, Open
      <4> QED BY <1>1, <2>4, <4>1, <4>2, <4>3
    <3> QED BY <3>1, <3>2
  <2>5. ASSUME NEW b \in Actions, ReceiveResult(b)
        PROVE  /\ status'[a] \in Settled
               /\ faults'["restart"] = 0 => status'[a] = status[a]
    <3> DEFINE ok == Head(inbox[b]) = "executed"
    <3>1. Says(inbox[b], Head(inbox[b])) /\ Head(inbox[b]) \in Result
      BY <2>0, <2>5, ReceivedSays DEF ReceiveResult, Received
    <3>2. status' = [status EXCEPT ![b] = SetResult(@, ok)] /\ UNCHANGED faults
      BY <2>5 DEF ReceiveResult
    <3>3. ok => Says(inbox[b], "executed")
      BY <3>1, Zenon
    <3>4. ~ok => Says(inbox[b], "failed")
      BY <3>1 DEF Result
    <3>5. ok \in BOOLEAN
      OBVIOUS
    <3> HIDE DEF ok
    <3> QED BY <2>4, <3>2, <3>3, <3>4, <3>5
  <2>6. ASSUME NEW b \in Actions, ReceiveCommandAck(b), status' # status
        PROVE  /\ status'[a] \in Settled
               /\ faults'["restart"] = 0 => status'[a] = status[a]
    <3>1. Says(inbox[b], "rejected")
      BY <2>0, <2>6, ReceivedSays DEF ReceiveCommandAck
    <3>2. status' = [status EXCEPT ![b] = SetResult(@, FALSE)] /\ UNCHANGED faults
      BY <2>6 DEF ReceiveCommandAck
    <3> QED BY <2>4, <3>1, <3>2
  <2> QED
    BY <1>1, <2>2, <2>3, <2>5, <2>6
    DEF Next, Dispatch, ReplayAck, AskUser, RejectByPolicy, Arrives, RefuseIngest, Approve,
        Deny, FallDue, Executed, Render, ExpireDue, DisableControl, EnableControl, Restart,
        Drop, Connect, serverVars, vars
<1>2. IInv /\ [Next]_vars =>
        [\A a \in Actions :
            status[a] \in Settled =>
                /\ status'[a] \in Settled
                /\ faults'["restart"] = 0 => status'[a] = status[a]]_vars
  BY <1>1
<1> QED BY <1>2, IInvHolds, PTL DEF Spec, OutcomeIsFinal

-----------------------------------------------------------------------------
(* Nothing is lost: the messages of an undisturbed desktop arrive. *)

Keeps(b) == \A m \in Message : Says(inbox[b], m) => Says(inbox'[b], m)

(* Whose hands an action is in. *)
InHands(a) ==
    \/ status[a] \in Settled
    \/ request[a] = "saving"
    \/ command[a] = "queued" /\ handled[a] = "none"
    \/ \E p \in payloads : of[p] = a
    \/ Says(inbox[a], "executed") \/ Says(inbox[a], "failed")

(* Without faults the connection stands; no command is remembered before it *)
(* was queued; and every action that was requested is in hands.             *)
Attended ==
    /\ \A a \in Actions : command[a] = "none" => handled[a] = "none"
    /\ Undisturbed => /\ connected
                      /\ \A a \in Actions : request[a] # "none" => InHands(a)

(* Putting together keeps what both sequences say. *)
LEMMA ConcatSays ==
    ASSUME NEW s \in Seq(Message), NEW t \in Seq(Message), NEW m
    PROVE  /\ Says(s, m) => Says(s \o t, m)
           /\ Says(t, m) => Says(s \o t, m)
<1>1. /\ Len(s) \in Nat /\ Len(t) \in Nat /\ Len(s \o t) = Len(s) + Len(t)
      /\ \A i \in 1 .. Len(s) : (s \o t)[i] = s[i]
      /\ \A i \in 1 .. Len(t) : (s \o t)[Len(s) + i] = t[i]
  OBVIOUS
<1>2. ASSUME NEW i \in 1 .. Len(s), s[i] = m PROVE Says(s \o t, m)
  <2>1. i \in 1 .. Len(s \o t)
    BY <1>1
  <2> QED BY <1>1, <1>2, <2>1, Zenon DEF Says
<1>3. ASSUME NEW i \in 1 .. Len(t), t[i] = m PROVE Says(s \o t, m)
  <2>1. Len(s) + i \in 1 .. Len(s \o t)
    BY <1>1
  <2> QED BY <1>1, <1>3, <2>1, Zenon DEF Says
<1> QED BY <1>2, <1>3 DEF Says

(* Taking the head away loses the head only. *)
LEMMA TailKeeps ==
    ASSUME NEW s \in Seq(Message), s # <<>>, NEW m, m # Head(s), Says(s, m)
    PROVE  Says(Tail(s), m)
<1>1. PICK i \in 1 .. Len(s) : s[i] = m
  BY DEF Says
<1>2. Len(s) \in Nat /\ Len(Tail(s)) = Len(s) - 1 /\ Head(s) = s[1]
  OBVIOUS
<1>3. i # 1
  BY <1>1, <1>2
<1>4. i - 1 \in 1 .. Len(Tail(s)) /\ Tail(s)[i - 1] = m
  BY <1>1, <1>2, <1>3
<1> QED BY <1>4 DEF Says

(* A send loses nothing, and with the connection up it says what was sent. *)
LEMMA SentKeeps ==
    ASSUME TypeOK, NEW a \in Actions, NEW ms \in Seq(Message), inbox' = Sent(a, ms)
    PROVE  /\ \A b \in Actions : Keeps(b)
           /\ connected => \A m : Says(ms, m) => Says(inbox'[a], m)
<1>1. inbox \in [Actions -> Seq(Message)]
  BY DEF TypeOK
<1>2. ASSUME NEW b \in Actions
      PROVE  inbox[b] \in Seq(Message)
             /\ inbox'[b] = IF connected /\ b = a THEN inbox[b] \o ms ELSE inbox[b]
  BY <1>1 DEF Sent
<1>3. ASSUME NEW b \in Actions PROVE Keeps(b)
  <2>1. CASE connected /\ b = a
    <3>1. inbox[b] \in Seq(Message) /\ inbox'[b] = inbox[b] \o ms
      BY <1>2, <2>1
    <3>2. \A m : Says(inbox[b], m) => Says(inbox[b] \o ms, m)
      BY <3>1, ConcatSays
    <3> QED BY <3>1, <3>2, Zenon DEF Keeps
  <2>2. CASE ~(connected /\ b = a)
    <3>1. inbox'[b] = inbox[b]
      BY <1>2, <2>2
    <3> QED BY <3>1, Zenon DEF Keeps
  <2> QED BY <2>1, <2>2
<1>4. ASSUME connected, NEW m, Says(ms, m) PROVE Says(inbox'[a], m)
  <2>1. inbox[a] \in Seq(Message) /\ inbox'[a] = inbox[a] \o ms
    BY <1>2, <1>4
  <2>2. Says(inbox[a] \o ms, m)
    BY <1>4, <2>1, ConcatSays
  <2> QED BY <2>1, <2>2, Zenon
<1> QED BY <1>3, <1>4

(* A refusal loses nothing; with the connection up it says of every action  *)
(* whose payload it forgets that it failed.                                 *)
LEMMA RefuseKeeps ==
    ASSUME TypeOK, NEW P, NEW s, NEW acks \in Seq(Message), Refuse(P, s, acks)
    PROVE  /\ \A b \in Actions : Keeps(b)
           /\ connected => \A b \in Actions :
                 (\E p \in P \cap payloads : of[p] = b) => Says(inbox'[b], "failed")
<1>1. inbox \in [Actions -> Seq(Message)]
  BY DEF TypeOK
<1>2. <<"failed">> \in Seq(Message) /\ acks \o <<"failed">> \in Seq(Message)
  BY DEF Message, Result
<1>3. Says(acks \o <<"failed">>, "failed")
  <2>1. Says(<<"failed">>, "failed")
    BY DEF Says
  <2> QED BY <1>2, <2>1, ConcatSays
<1>4. ASSUME NEW b \in Actions
      PROVE  inbox[b] \in Seq(Message)
             /\ inbox'[b] = IF connected /\ \E p \in P \cap payloads : of[p] = b
                            THEN inbox[b] \o (acks \o <<"failed">>) ELSE inbox[b]
  <2>1. inbox[b] \in Seq(Message)
    BY <1>1
  <2>2. CASE connected /\ \E p \in P \cap payloads : of[p] = b
    <3>1. inbox'[b] = inbox[b] \o acks \o <<"failed">>
      BY <2>2 DEF Refuse
    <3>2. inbox'[b] = inbox[b] \o (acks \o <<"failed">>)
      BY <1>1, <1>2, <3>1
    <3> QED BY <2>1, <2>2, <3>2
  <2>3. CASE ~(connected /\ \E p \in P \cap payloads : of[p] = b)
    BY <2>1, <2>3 DEF Refuse
  <2> QED BY <2>2, <2>3
<1>5. ASSUME NEW b \in Actions PROVE Keeps(b)
  <2> DEFINE t == acks \o <<"failed">>
  <2>1. inbox'[b] = inbox[b] \/ inbox'[b] = inbox[b] \o t
    BY <1>4
  <2>2. t \in Seq(Message) /\ inbox[b] \in Seq(Message)
    BY <1>2, <1>4
  <2> HIDE DEF t
  <2>3. CASE inbox'[b] = inbox[b]
    BY <2>3, Zenon DEF Keeps
  <2>4. CASE inbox'[b] = inbox[b] \o t
    BY <2>2, <2>4, ConcatSays DEF Keeps
  <2> QED BY <2>1, <2>3, <2>4
<1>6. ASSUME connected, NEW b \in Actions, \E p \in P \cap payloads : of[p] = b
      PROVE  Says(inbox'[b], "failed")
  <2>1. inbox'[b] = inbox[b] \o (acks \o <<"failed">>)
    BY <1>4, <1>6
  <2>2. Says(inbox[b] \o (acks \o <<"failed">>), "failed")
    BY <1>2, <1>3, <1>4, ConcatSays
  <2> QED BY <2>1, <2>2, Zenon
<1> QED BY <1>5, <1>6

(* Handling a message that is no result keeps the results under way. *)
LEMMA ReceivedKeeps ==
    ASSUME TypeOK, NEW a \in Actions, NEW kind, Received(a, kind)
    PROVE  \A b \in Actions, m \in Message :
              (b # a \/ m # Head(inbox[a])) /\ Says(inbox[b], m) => Says(inbox'[b], m)
<1>1. inbox \in [Actions -> Seq(Message)] /\ inbox[a] # <<>>
      /\ inbox' = [inbox EXCEPT ![a] = Tail(@)]
  BY DEF TypeOK, Received
<1>2. inbox[a] \in Seq(Message)
  BY <1>1
<1>3. \A b \in Actions : inbox'[b] = IF b = a THEN Tail(inbox[a]) ELSE inbox[b]
  BY <1>1
<1>4. \A m : m # Head(inbox[a]) /\ Says(inbox[a], m) => Says(Tail(inbox[a]), m)
  BY <1>1, <1>2, TailKeeps
<1>5. ASSUME NEW b \in Actions, NEW m \in Message, b # a \/ m # Head(inbox[a]),
             Says(inbox[b], m)
      PROVE  Says(inbox'[b], m)
  <2>1. CASE b = a
    BY <1>3, <1>4, <1>5, <2>1
  <2>2. CASE b # a
    <3>1. inbox'[b] = inbox[b]
      BY <1>3, <2>2
    <3> QED BY <1>5, <3>1, Zenon
  <2> QED BY <2>1, <2>2
<1> QED BY <1>5

(* Setting a status never unsettles it. *)
LEMMA SettledStays ==
    ASSUME NEW s
    PROVE  /\ s \in Settled => \A new : SetStatus(s, new) \in Settled
           /\ \A ok : SetResult(s, ok) \in Settled
  BY DEF SetStatus, SetResult, Settled

(* The invariant is inductive; in each action, what hands an action over to *)
(* whom.                                                                    *)
LEMMA AttendedNext == IInv /\ Attended /\ [Next]_vars => Attended'
<1> SUFFICES ASSUME IInv, Attended, [Next]_vars PROVE Attended'
  OBVIOUS
<1> USE ActionAssumption, ApprovalAssumption, BoundAssumption
<1>0. /\ TypeOK /\ Items /\ Route /\ Payloads /\ Undivided
      /\ status \in [Actions -> {"none"} \cup ActionStatus]
      /\ request \in [Actions -> {"none", "saving", "dispatched", "answered"}]
      /\ command \in [Actions -> {"none", "queued", "answered"}]
      /\ handled \in [Actions -> {"none"} \cup CommandAck]
      /\ payloads \subseteq 1 .. created /\ created \in 0 .. MaxApprovals
      /\ of \in [Approval -> Actions \cup {NoAction}]
      /\ state \in [Approval -> {"none"} \cup ItemState]
      /\ faults \in [Fault -> Nat]
  BY DEF IInv, TypeOK
<1>h. /\ "executed" \in Message /\ "failed" \in Message
  BY DEF Message, Result
<1>1. ASSUME NEW a \in Actions, CreateAction(a) PROVE Attended'
  <2>1. /\ \A b \in Actions : b # a => status'[b] = status[b] /\ request'[b] = request[b]
        /\ request'[a] = "saving" /\ UNCHANGED <<command, handled, connected, inbox, payloads, of, faults>>
    BY <1>0, <1>1 DEF CreateAction, itemVars, appVars
  <2> QED BY <2>1 DEF Attended, InHands, Undisturbed
<1>2. ASSUME NEW a \in Actions, Dispatch(a) PROVE Attended'
  <2>1. /\ \A b \in Actions : b # a => request'[b] = request[b] /\ command'[b] = command[b]
        /\ request[a] = "saving" /\ command'[a] = "queued"
        /\ UNCHANGED <<status, handled, connected, inbox, payloads, of, faults>>
    BY <1>0, <1>2 DEF Dispatch, itemVars, appVars
  <2>2. handled[a] = "none"
    BY <1>0, <2>1 DEF Route, Attended
  <2> QED BY <2>1, <2>2 DEF Attended, InHands, Undisturbed
<1>3. ASSUME NEW a \in Actions, Dispatched(a) PROVE Attended'
  <2>1. /\ \A b \in Actions : b # a => status'[b] = status[b] /\ request'[b] = request[b]
        /\ status[a] \in Settled => status'[a] \in Settled
        /\ request[a] = "dispatched"
        /\ UNCHANGED <<command, handled, connected, inbox, payloads, of, faults>>
    BY <1>0, <1>3, SettledStays DEF Dispatched, itemVars, appVars
  <2> QED BY <2>1 DEF Attended, InHands, Undisturbed
<1>4. ASSUME NEW a \in Actions, ReplayAck(a) PROVE Attended'
  <2>1. UNCHANGED <<status, request, command, handled, connected, payloads, of, faults>>
    BY <1>4 DEF ReplayAck, Arrives, itemVars
  <2>2. \A b \in Actions : Keeps(b)
    <3>1. <<handled[a]>> \in Seq(Message)
      <4>1. handled[a] \in Message
        BY <1>0, <1>4 DEF ReplayAck, Message
      <4> QED BY <4>1
    <3>2. inbox' = Sent(a, <<handled[a]>>)
      BY <1>4 DEF ReplayAck
    <3> HIDE DEF Message
    <3> QED BY <1>0, <3>1, <3>2, SentKeeps
  <2> QED BY <1>h, <2>1, <2>2 DEF Attended, InHands, Undisturbed, Keeps
<1>5. ASSUME NEW a \in Actions, AskUser(a) PROVE Attended'
  <2>1. /\ UNCHANGED <<status, request, command, connected, faults>>
        /\ command[a] = "queued"
        /\ \A b \in Actions : b # a => handled'[b] = handled[b]
        /\ payloads' = payloads \cup {created + 1}
        /\ of'[created + 1] = a /\ \A p \in payloads : of'[p] = of[p]
    BY <1>0, <1>5 DEF AskUser, Arrives, CreateApproval, Approval
  <2>2. \A b \in Actions : Keeps(b)
    <3>1. <<"awaiting_user", "accepted">> \in Seq(Message)
      BY DEF Message, Ack, CommandAck
    <3>2. inbox' = Sent(a, <<"awaiting_user", "accepted">>)
      BY <1>5 DEF AskUser
    <3> QED BY <1>0, <3>1, <3>2, SentKeeps
  <2>3. InHands(a)'
    BY <2>1 DEF InHands
  <2>4. ASSUME NEW b \in Actions, b # a, InHands(b) PROVE InHands(b)'
    BY <1>h, <2>1, <2>2, <2>4 DEF InHands, Keeps
  <2> QED BY <2>1, <2>3, <2>4 DEF Attended, Undisturbed
<1>6. ASSUME NEW a \in Actions, RejectByPolicy(a) PROVE Attended'
  <2>1. /\ UNCHANGED <<status, request, command, connected, faults, payloads>>
        /\ command[a] = "queued" /\ connected
        /\ \A b \in Actions : b # a => handled'[b] = handled[b]
        /\ \A p \in payloads : of'[p] = of[p]
    BY <1>0, <1>6 DEF RejectByPolicy, Arrives, CreateApproval, Approval
  <2>2. (\A b \in Actions : Keeps(b)) /\ Says(inbox'[a], "failed")
    <3> DEFINE ms == <<"failed", "rejected">>
    <3>1. ms \in Seq(Message) /\ Says(ms, "failed")
      <4>1. ms \in Seq(Message)
        BY DEF Message, Result, CommandAck
      <4>2. 1 \in 1 .. Len(ms) /\ ms[1] = "failed"
        OBVIOUS
      <4> QED BY <4>1, <4>2, Zenon DEF Says
    <3>2. inbox' = Sent(a, ms)
      BY <1>6 DEF RejectByPolicy
    <3> HIDE DEF ms
    <3> QED BY <1>0, <2>1, <3>1, <3>2, SentKeeps
  <2>3. InHands(a)'
    BY <2>2 DEF InHands
  <2>4. ASSUME NEW b \in Actions, b # a, InHands(b) PROVE InHands(b)'
    BY <1>h, <2>1, <2>2, <2>4 DEF InHands, Keeps
  <2> QED BY <2>1, <2>3, <2>4 DEF Attended, Undisturbed
<1>7. ASSUME NEW a \in Actions, ReceiveAck(a) PROVE Attended'
  <2>1. /\ UNCHANGED <<request, command, connected, faults, payloads, of, handled>>
        /\ Head(inbox[a]) \in Ack
        /\ \A b \in Actions : status[b] \in Settled => status'[b] \in Settled
    BY <1>0, <1>7, SettledStays DEF ReceiveAck, Received, itemVars, appVars
  <2>2. \A b \in Actions : /\ Says(inbox[b], "executed") => Says(inbox'[b], "executed")
                           /\ Says(inbox[b], "failed") => Says(inbox'[b], "failed")
    <3>1. "executed" # Head(inbox[a]) /\ "failed" # Head(inbox[a])
      BY <2>1 DEF Ack
    <3> QED BY <1>0, <1>h, <1>7, <3>1, ReceivedKeeps DEF ReceiveAck
  <2> QED BY <2>1, <2>2 DEF Attended, InHands, Undisturbed
<1>8. ASSUME NEW a \in Actions, ReceiveResult(a) PROVE Attended'
  <2>1. /\ UNCHANGED <<request, command, connected, faults, payloads, of, handled>>
        /\ status'[a] \in Settled
        /\ \A b \in Actions : b # a => status'[b] = status[b]
    BY <1>0, <1>8, SettledStays DEF ReceiveResult, Received, itemVars, appVars
  <2>2. \A b \in Actions \ {a} :
           /\ Says(inbox[b], "executed") => Says(inbox'[b], "executed")
           /\ Says(inbox[b], "failed") => Says(inbox'[b], "failed")
    BY <1>0, <1>h, <1>8, ReceivedKeeps DEF ReceiveResult
  <2> QED BY <2>1, <2>2 DEF Attended, InHands, Undisturbed
<1>9. ASSUME NEW a \in Actions, ReceiveCommandAck(a) PROVE Attended'
  <2>1. /\ UNCHANGED <<request, connected, faults, payloads, of, handled>>
        /\ Head(inbox[a]) \in CommandAck
        /\ command'[a] = "answered" /\ \A b \in Actions : b # a => command'[b] = command[b]
        /\ \A b \in Actions : status[b] \in Settled => status'[b] \in Settled
    BY <1>0, <1>9, SettledStays DEF ReceiveCommandAck, Received, itemVars, appVars
  <2>2. \A b \in Actions : /\ Says(inbox[b], "executed") => Says(inbox'[b], "executed")
                           /\ Says(inbox[b], "failed") => Says(inbox'[b], "failed")
    <3>1. "executed" # Head(inbox[a]) /\ "failed" # Head(inbox[a])
      BY <2>1 DEF CommandAck
    <3> QED BY <1>0, <1>h, <1>9, <3>1, ReceivedKeeps DEF ReceiveCommandAck
  <2>3. Undisturbed => handled[a] # "none"
    <3>1. Head(inbox[a]) \in Message /\ Says(inbox[a], Head(inbox[a]))
      BY <1>0, <1>9, ReceivedSays DEF ReceiveCommandAck
    <3> QED BY <1>0, <3>1 DEF Undisturbed, Undivided
  <2> QED BY <2>1, <2>2, <2>3 DEF Attended, InHands, Undisturbed
<1>10. ASSUME NEW a \in Actions, RefuseIngest(a) PROVE Attended'
  <2>1. faults'["limit"] # 0 /\ UNCHANGED <<command, handled>>
    BY <1>0, <1>10 DEF RefuseIngest, Received, Fail, Fault, appVars
  <2> QED BY <2>1 DEF Attended, Undisturbed
<1>11. ASSUME NEW p \in Approval, Approve(p) PROVE Attended'
  <2>1. UNCHANGED <<status, request, command, handled, connected, payloads, of, faults>>
    BY <1>11 DEF Approve, serverVars
  <2>2. \A b \in Actions : Keeps(b)
    <3>1. <<"approved">> \in Seq(Message) /\ inbox' = Sent(of[p], <<"approved">>)
      BY <1>11 DEF Approve, Message, Ack
    <3>2. of[p] \in Actions
      BY <1>0, <1>11 DEF Approve, Items
    <3> QED BY <1>0, <3>1, <3>2, SentKeeps
  <2> QED BY <1>h, <2>1, <2>2 DEF Attended, InHands, Undisturbed, Keeps
<1>12. ASSUME NEW p \in Approval, NEW ok \in BOOLEAN, Executed(p, ok) PROVE Attended'
  <2>1. /\ UNCHANGED <<status, request, command, handled, connected, of, faults>>
        /\ payloads' = payloads \ {p}
    BY <1>12 DEF Executed, serverVars
  <2> DEFINE r == IF ok THEN "executed" ELSE "failed"
             ms == <<r>>
  <2>2. ms \in Seq(Message) /\ Says(ms, r) /\ inbox' = Sent(of[p], ms)
    <3>1. r \in Message
      BY DEF Message, Result
    <3>2. ms \in Seq(Message) /\ Says(ms, r)
      BY <3>1 DEF Says
    <3>3. inbox' = Sent(of[p], ms)
      BY <1>12 DEF Executed
    <3> QED BY <3>2, <3>3
  <2>3. of[p] \in Actions
    <3>1. p \in payloads
      BY <1>0, <1>12 DEF Executed, Payloads
    <3>2. p <= created
      BY <1>0, <3>1
    <3> QED BY <1>0, <3>2 DEF Items
  <2>4. /\ \A b \in Actions : Keeps(b)
        /\ connected => Says(inbox'[of[p]], r)
    <3> HIDE DEF ms, r
    <3> QED BY <1>0, <2>2, <2>3, SentKeeps
  <2>5. connected => InHands(of[p])'
    BY <2>1, <2>4 DEF InHands
  <2> HIDE DEF ms, r
  <2>6. ASSUME NEW b \in Actions, b # of[p], InHands(b) PROVE InHands(b)'
    BY <1>h, <2>1, <2>4, <2>6 DEF InHands, Keeps
  <2> QED BY <2>1, <2>5, <2>6 DEF Attended, Undisturbed
(* A refusal: what loses its payload gets its failed result. *)
<1>r. ASSUME NEW P, NEW s, NEW acks \in Seq(Message), Refuse(P, s, acks),
             UNCHANGED <<status, request, command, handled, connected, of>>,
             Undisturbed' => Undisturbed
      PROVE  Attended'
  <2>1. payloads' = payloads \ P
    BY <1>r DEF Refuse
  <2>2. /\ \A b \in Actions : Keeps(b)
        /\ connected => \A b \in Actions :
              (\E p \in P \cap payloads : of[p] = b) => Says(inbox'[b], "failed")
    BY <1>0, <1>r, RefuseKeeps
  <2>3. ASSUME connected, NEW b \in Actions, InHands(b) PROVE InHands(b)'
    <3>1. CASE \E p \in P \cap payloads : of[p] = b
      BY <2>2, <2>3, <3>1 DEF InHands
    <3>2. CASE ~\E p \in P \cap payloads : of[p] = b
      BY <1>h, <1>r, <2>1, <2>2, <2>3, <3>2 DEF InHands, Keeps
    <3> QED BY <3>1, <3>2
  <2> QED BY <1>r, <2>3 DEF Attended
<1>13. ASSUME NEW p \in Approval, Deny(p) PROVE Attended'
  <2>1. <<"denied">> \in Seq(Message)
    BY DEF Message, Ack
  <2>2. UNCHANGED <<status, request, command, handled, connected, of, faults>>
    BY <1>13 DEF Deny, serverVars
  <2> QED BY <1>13, <1>r, <2>1, <2>2 DEF Deny, Undisturbed
<1>14. ASSUME ExpireDue PROVE Attended'
  <2>1. <<>> \in Seq(Message)
    OBVIOUS
  <2>2. UNCHANGED <<status, request, command, handled, connected, of, faults>>
    BY <1>14 DEF ExpireDue, serverVars
  <2> QED BY <1>14, <1>r, <2>1, <2>2 DEF ExpireDue, Undisturbed
<1>15. ASSUME DisableControl PROVE Attended'
  <2>1. <<>> \in Seq(Message)
    OBVIOUS
  <2>2. UNCHANGED <<status, request, command, handled, connected, of>>
    BY <1>15 DEF DisableControl, serverVars
  <2>3. Undisturbed' => Undisturbed
    BY <1>0, <1>15 DEF DisableControl, Fail, Undisturbed, Fault
  <2> QED BY <1>15, <1>r, <2>1, <2>2, <2>3 DEF DisableControl
<1>16. ASSUME NEW p \in Approval, FallDue(p) PROVE Attended'
  BY <1>16 DEF FallDue, Attended, InHands, Undisturbed, serverVars, appVars
<1>17. ASSUME Render PROVE Attended'
  BY <1>17 DEF Render, Attended, InHands, Undisturbed, serverVars, itemVars
<1>18. ASSUME EnableControl PROVE Attended'
  <2>1. Undisturbed' => Undisturbed
    BY <1>0, <1>18 DEF EnableControl, Fail, Undisturbed, Fault
  <2> QED BY <1>18, <2>1 DEF EnableControl, Attended, InHands, serverVars, itemVars
<1>19. ASSUME Restart PROVE Attended'
  <2>1. ~Undisturbed'
    BY <1>0, <1>19 DEF Restart, Fail, Fault, Undisturbed
  <2>2. \A a \in Actions : handled'[a] = "none"
    BY <1>19 DEF Restart
  <2> QED BY <2>1, <2>2 DEF Attended
<1>20. ASSUME Drop PROVE Attended'
  <2>1. ~Undisturbed' /\ UNCHANGED <<command, handled>>
    BY <1>0, <1>20 DEF Drop, Fail, Fault, Undisturbed, appVars
  <2> QED BY <2>1 DEF Attended
<1>21. ASSUME Connect PROVE Attended'
  BY <1>21 DEF Connect, Attended, InHands, Undisturbed, serverVars, itemVars, appVars
<1>22. CASE UNCHANGED vars
  BY <1>22 DEF Attended, InHands, Undisturbed, vars, serverVars, itemVars, appVars
<1> QED BY <1>1, <1>2, <1>3, <1>4, <1>5, <1>6, <1>7, <1>8, <1>9, <1>10, <1>11, <1>12,
     <1>13, <1>14, <1>15, <1>16, <1>17, <1>18, <1>19, <1>20, <1>21, <1>22 DEF Next

(* As long as nothing the desktop sends is lost, an action without outcome  *)
(* has somebody who still has to do something about it.                     *)
THEOREM UnsettledIsUnderWayHolds == Spec => []UnsettledIsUnderWay
<1>1. Init => Attended
  BY DEF Init, Attended, Undisturbed
<1>2. IInv /\ Attended => UnsettledIsUnderWay
  <2> SUFFICES ASSUME IInv, Attended, Undisturbed, NEW a \in Actions, request[a] # "none",
                      Says(inbox[a], "executed") \/ Says(inbox[a], "failed")
               PROVE  \E i \in DOMAIN inbox[a] : inbox[a][i] \in Result
    BY DEF UnsettledIsUnderWay, Attended, InHands
  <2>1. PICK i \in 1 .. Len(inbox[a]) : inbox[a][i] \in Result
    BY DEF Says, Result
  <2>2. inbox[a] \in Seq(Message)
    BY DEF IInv, TypeOK
  <2>3. DOMAIN inbox[a] = 1 .. Len(inbox[a])
    BY <2>2
  <2> QED BY <2>1, <2>3, Zenon
<1> QED BY <1>1, <1>2, IInvInit, IInvNext, IInvHolds, AttendedNext, PTL DEF Spec
=============================================================================
