---------------------------- MODULE ControlActions ----------------------------
(***************************************************************************)
(* A remote control action from the web to the desktop's mouse and back:   *)
(* the route POST /devices/:id/actions (index.ts), the record of the       *)
(* action (store/actions.ts), the desktop's approval controller            *)
(* (desktop lib/approvals.ts) with the handlers that drive it (App.tsx),   *)
(* and the acks and results the desktop sends back (lib/ws-handler.ts).    *)
(*                                                                         *)
(* The command queue is used through what CommandDelivery promises: a      *)
(* command stays queued until it is answered, and may reach the desktop    *)
(* again.  The desktop is one webview: an action is one event handler up   *)
(* to its await.  React renders the approvals later than the controller    *)
(* changes them, except for changes made inside a click.                   *)
(***************************************************************************)
EXTENDS Naturals, Sequences

CONSTANTS
    Actions,        \* the actions the web requests
    NoAction,       \* the actionId of an item that was not created
    MaxApprovals,   \* bound on the approval items ever created
    MaxDrops,       \* bound on lost connections
    MaxRestarts,    \* bound on restarts of the desktop application
    MaxLimited,     \* bound on messages the API's ingest rate limit refuses
    MaxToggles      \* bound on changes of the desktop's Allow Control switch

ASSUME ActionAssumption == NoAction \notin Actions
ASSUME ApprovalAssumption == MaxApprovals \in Nat
ASSUME BoundAssumption ==
    /\ MaxDrops \in Nat
    /\ MaxRestarts \in Nat
    /\ MaxLimited \in Nat
    /\ MaxToggles \in Nat

VARIABLES
    status,     \* action.status in actionStore
    request,    \* where the route's handler is
    command,    \* the action.request command in the device queue
    inflight,   \* commands sent on this connection and not answered
    connected,  \* the desktop's WebSocket is open
    inbox,      \* per action, what the desktop sent and the API has not handled
    control,    \* the desktop's allowControlEnabled
    handled,    \* WsClient.handledCommandAcks, of this life of the application
    created,    \* how many approval items were created; they are numbered by age
    of,         \* item.actionId
    state,      \* item.state in the approval controller, which persists it
    due,        \* item.expiresAt has passed
    payloads,   \* keys of controlApprovalPayloadsRef
    shown,      \* the states last rendered: what a click handler sees
    running,    \* approvals whose executeAction has not returned
    runs,       \* history: calls of executeAction for each approval
    faults      \* how often each fault happened

serverVars == <<status, request, command, inflight>>
itemVars == <<created, of, state, due>>
appVars == <<control, handled, payloads, shown, running>>
vars == <<serverVars, connected, inbox, itemVars, appVars, runs, faults>>

Approval == 1 .. MaxApprovals
Fault == {"drop", "restart", "limit", "toggle"}

ActionStatus == {"requested", "awaiting_user", "approved", "denied", "executed", "failed"}
Settled == {"executed", "failed"}
ItemState == {"pending", "denied", "expired", "canceled", "executing", "executed", "failed"}

Ack == {"awaiting_user", "approved", "denied"}          \* device.action.ack
Result == {"executed", "failed"}                        \* device.action.result
CommandAck == {"accepted", "rejected"}                  \* device.command.ack
Message == Ack \cup Result \cup CommandAck

-----------------------------------------------------------------------------
Init ==
    /\ status = [a \in Actions |-> "none"]
    /\ request = [a \in Actions |-> "none"]
    /\ command = [a \in Actions |-> "none"]
    /\ inflight = {}
    /\ connected = TRUE
    /\ inbox = [a \in Actions |-> <<>>]
    /\ control = TRUE
    /\ handled = [a \in Actions |-> "none"]
    /\ created = 0
    /\ of = [p \in Approval |-> NoAction]
    /\ state = [p \in Approval |-> "none"]
    /\ due = [p \in Approval |-> FALSE]
    /\ payloads = {}
    /\ shown = [p \in Approval |-> "none"]
    /\ running = {}
    /\ runs = [p \in Approval |-> 0]
    /\ faults = [f \in Fault |-> 0]

Fail(f, bound) ==
    /\ faults[f] < bound
    /\ faults' = [faults EXCEPT ![f] = @ + 1]

-----------------------------------------------------------------------------
(* store/actions.ts *)

(* Variant: setStatus without its early return. *)
SetStatusUnguarded(s, new) == new

(* setStatus leaves a settled or denied action alone. *)
SetStatus(s, new) == IF s \in Settled \cup {"denied"} THEN s ELSE new

(* setResult does not look at the status it overwrites. *)
SetResult(s, ok) == IF ok THEN "executed" ELSE "failed"

-----------------------------------------------------------------------------
(* The route: create and save the action; enqueue action.request; mark the *)
(* action as awaiting the user, whatever has been heard of it meanwhile.   *)
(* The checks before (owner, pairing, the server's copy of the switch, the *)
(* limits) only decide that there is no action at all.                     *)

CreateAction(a) ==
    /\ request[a] = "none"
    /\ request' = [request EXCEPT ![a] = "saving"]
    /\ status' = [status EXCEPT ![a] = "requested"]
    /\ UNCHANGED <<command, inflight, connected, inbox, itemVars, appVars, runs, faults>>

Dispatch(a) ==
    /\ request[a] = "saving"
    /\ request' = [request EXCEPT ![a] = "dispatched"]
    /\ command' = [command EXCEPT ![a] = "queued"]
    /\ UNCHANGED <<status, inflight, connected, inbox, itemVars, appVars, runs, faults>>

Dispatched(a) ==
    /\ request[a] = "dispatched"
    /\ request' = [request EXCEPT ![a] = "answered"]
    /\ status' = [status EXCEPT ![a] = SetStatus(@, "awaiting_user")]
    /\ UNCHANGED <<command, inflight, connected, inbox, itemVars, appVars, runs, faults>>

-----------------------------------------------------------------------------
(* What the desktop sends for one action; nothing when the socket is not   *)
(* open: WsClient.send keeps no queue.                                     *)

Sent(a, ms) == [inbox EXCEPT ![a] = IF connected THEN @ \o ms ELSE @]

(* The action.request command reaches the desktop. *)
Arrives(a) ==
    /\ connected
    /\ command[a] = "queued"
    /\ a \notin inflight
    /\ inflight' = inflight \cup {a}
    /\ UNCHANGED <<status, request, command, connected, control, running, runs, faults>>

(* A command handled in this life of the application: the ack again. *)
ReplayAck(a) ==
    /\ Arrives(a)
    /\ handled[a] # "none"
    /\ inbox' = Sent(a, <<handled[a]>>)
    /\ UNCHANGED <<itemVars, handled, payloads, shown>>

(* createApproval prepends a pending item. *)
CreateApproval(a, s) ==
    /\ created < MaxApprovals
    /\ created' = created + 1
    /\ of' = [of EXCEPT ![created + 1] = a]
    /\ state' = [state EXCEPT ![created + 1] = s]
    /\ UNCHANGED <<due, shown>>

(* onActionRequest with the switch on: the user is asked. *)
AskUser(a) ==
    /\ Arrives(a)
    /\ handled[a] = "none"
    /\ control
    /\ CreateApproval(a, "pending")
    /\ payloads' = payloads \cup {created + 1}
    /\ handled' = [handled EXCEPT ![a] = "accepted"]
    /\ inbox' = Sent(a, <<"awaiting_user", "accepted">>)

(* Variant: the command is rejected and the item left open. *)
RejectByPolicyLeavesOpen(a) ==
    /\ Arrives(a)
    /\ handled[a] = "none"
    /\ ~control
    /\ CreateApproval(a, "pending")
    /\ handled' = [handled EXCEPT ![a] = "rejected"]
    /\ inbox' = Sent(a, <<"failed", "rejected">>)
    /\ UNCHANGED payloads

(* With the switch off: the item is created, canceled and reported, and    *)
(* the command is rejected (POLICY_DENIED).                                *)
RejectByPolicy(a) ==
    /\ Arrives(a)
    /\ handled[a] = "none"
    /\ ~control
    /\ CreateApproval(a, "canceled")
    /\ handled' = [handled EXCEPT ![a] = "rejected"]
    /\ inbox' = Sent(a, <<"failed", "rejected">>)
    /\ UNCHANGED payloads

-----------------------------------------------------------------------------
(* The approval controller with App.tsx's listener on its events.          *)

Pending(p) == state[p] = "pending"

(* Variant: the listener does not forget the payload. *)
RefuseKeepsPayload(P, s, acks) ==
    /\ state' = [p \in Approval |-> IF p \in P THEN s ELSE state[p]]
    /\ inbox' = [a \in Actions |->
                    IF connected /\ \E p \in P \cap payloads : of[p] = a
                    THEN inbox[a] \o acks \o <<"failed">>
                    ELSE inbox[a]]
    /\ UNCHANGED payloads

(* The items P become s; the listener reports each of them it has a        *)
(* payload for (acks, then a failed result) and forgets the payload.       *)
Refuse(P, s, acks) ==
    /\ state' = [p \in Approval |-> IF p \in P THEN s ELSE state[p]]
    /\ payloads' = payloads \ P
    /\ inbox' = [a \in Actions |->
                    IF connected /\ \E p \in P \cap payloads : of[p] = a
                    THEN inbox[a] \o acks \o <<"failed">>
                    ELSE inbox[a]]

(* getNextPendingApproval, on the items last rendered. *)
NextShown(p) ==
    /\ shown[p] = "pending"
    /\ \A q \in Approval : shown[q] = "pending" => p <= q

(* React renders what the controller announced. *)
Render ==
    /\ shown # state
    /\ shown' = state
    /\ UNCHANGED <<serverVars, connected, inbox, itemVars, control, handled, payloads,
                   running, runs, faults>>

(* handleActionApprove up to its await.  It goes by the item it sees, its  *)
(* payload and the switch; approve and markExecuting do nothing to an item *)
(* that is no longer pending, and their answer is not looked at.           *)
Approve(p) ==
    /\ NextShown(p)
    /\ p \in payloads
    /\ control
    /\ state' = [state EXCEPT ![p] = IF Pending(p) THEN "executing" ELSE @]
    /\ shown' = state'
    /\ running' = running \cup {p}
    /\ runs' = [runs EXCEPT ![p] = @ + 1]
    /\ inbox' = Sent(of[p], <<"approved">>)
    /\ UNCHANGED <<serverVars, connected, created, of, due, control, handled, payloads, faults>>

(* Variant: the result does not look at what executeAction returned. *)
ExecutedIsSuccess(p, ok) ==
    /\ p \in running
    /\ running' = running \ {p}
    /\ state' = [state EXCEPT ![p] = IF @ # "executing" THEN @
                                     ELSE IF ok THEN "executed" ELSE "failed"]
    /\ payloads' = payloads \ {p}
    /\ inbox' = Sent(of[p], <<"executed">>)
    /\ UNCHANGED <<serverVars, connected, created, of, due, control, handled, shown,
                   runs, faults>>

(* executeAction returned: markExecuted or markFailed, then the result. *)
Executed(p, ok) ==
    /\ p \in running
    /\ running' = running \ {p}
    /\ state' = [state EXCEPT ![p] = IF @ # "executing" THEN @
                                     ELSE IF ok THEN "executed" ELSE "failed"]
    /\ payloads' = payloads \ {p}
    /\ inbox' = Sent(of[p], IF ok THEN <<"executed">> ELSE <<"failed">>)
    /\ UNCHANGED <<serverVars, connected, created, of, due, control, handled, shown,
                   runs, faults>>

(* Variant: a denial is acked but not reported as the action's result. *)
DenyWithoutResult(p) ==
    /\ NextShown(p)
    /\ Pending(p)
    /\ state' = [state EXCEPT ![p] = "denied"]
    /\ payloads' = payloads \ {p}
    /\ inbox' = IF p \in payloads THEN Sent(of[p], <<"denied">>) ELSE inbox
    /\ shown' = state'
    /\ UNCHANGED <<serverVars, connected, created, of, due, control, handled, running,
                   runs, faults>>

Deny(p) ==
    /\ NextShown(p)
    /\ Refuse({p} \cap {q \in Approval : Pending(q)}, "denied", <<"denied">>)
    /\ shown' = state'
    /\ UNCHANGED <<serverVars, connected, created, of, due, control, handled, running,
                   runs, faults>>

(* Sixty seconds have passed; older items are due earlier. *)
FallDue(p) ==
    /\ p <= created
    /\ ~due[p]
    /\ \A q \in 1 .. (p - 1) : due[q]
    /\ due' = [due EXCEPT ![p] = TRUE]
    /\ UNCHANGED <<serverVars, connected, inbox, created, of, state, appVars, runs, faults>>

(* Variant: only items somebody can still execute expire. *)
ExpirableWithPayload == {p \in payloads : Pending(p) /\ due[p]}

(* The controller's one second timer: expireDueApprovals. *)
Expirable == {p \in Approval : Pending(p) /\ due[p]}

ExpireDue ==
    /\ Expirable # {}
    /\ Refuse(Expirable, "expired", <<>>)
    /\ UNCHANGED <<serverVars, connected, created, of, due, control, handled, shown, running,
                   runs, faults>>

(* The switch goes off, by itself or with Stop All: pending approvals are  *)
(* canceled, an execution that has begun is not.                           *)
Cancelable == {p \in Approval : Pending(p)}

DisableControl ==
    /\ control
    /\ Fail("toggle", MaxToggles)
    /\ control' = FALSE
    /\ Refuse(Cancelable, "canceled", <<>>)
    /\ UNCHANGED <<serverVars, connected, created, of, due, handled, shown, running, runs>>

EnableControl ==
    /\ ~control
    /\ Fail("toggle", MaxToggles)
    /\ control' = TRUE
    /\ UNCHANGED <<serverVars, connected, inbox, itemVars, handled, payloads, shown, running, runs>>

(* The application starts over: the items are those it persisted, the      *)
(* payloads, the remembered acks and the running executions are gone.      *)
Restart ==
    /\ Fail("restart", MaxRestarts)
    /\ handled' = [a \in Actions |-> "none"]
    /\ payloads' = {}
    /\ shown' = state
    /\ running' = {}
    /\ connected' = FALSE
    /\ inflight' = {}
    /\ inbox' = [a \in Actions |-> <<>>]
    /\ UNCHANGED <<status, request, command, itemVars, control, runs>>

-----------------------------------------------------------------------------
(* The connection, and the API's handlers of the desktop's messages. *)

Drop ==
    /\ connected
    /\ Fail("drop", MaxDrops)
    /\ connected' = FALSE
    /\ inflight' = {}
    /\ inbox' = [a \in Actions |-> <<>>]
    /\ UNCHANGED <<status, request, command, itemVars, appVars, runs>>

Connect ==
    /\ ~connected
    /\ connected' = TRUE
    /\ UNCHANGED <<serverVars, inbox, itemVars, appVars, runs, faults>>

Received(a, kind) ==
    /\ inbox[a] # <<>>
    /\ Head(inbox[a]) \in kind
    /\ inbox' = [inbox EXCEPT ![a] = Tail(@)]
    /\ UNCHANGED <<request, connected, itemVars, appVars, runs>>

(* device.action.ack *)
ReceiveAck(a) ==
    /\ Received(a, Ack)
    /\ status' = [status EXCEPT ![a] = SetStatus(@, Head(inbox[a]))]
    /\ UNCHANGED <<command, inflight, faults>>

(* device.action.result *)
ReceiveResult(a) ==
    /\ Received(a, Result)
    /\ status' = [status EXCEPT ![a] = SetResult(@, Head(inbox[a]) = "executed")]
    /\ UNCHANGED <<command, inflight, faults>>

(* Acks and results share one small allowance per device and ten seconds;  *)
(* what exceeds it is refused and forgotten.                               *)
RefuseIngest(a) ==
    /\ Received(a, Ack \cup Result)
    /\ Fail("limit", MaxLimited)
    /\ UNCHANGED <<status, command, inflight>>

(* device.command.ack; a rejection is the action's result. *)
ReceiveCommandAck(a) ==
    /\ Received(a, CommandAck)
    /\ command' = [command EXCEPT ![a] = "answered"]
    /\ inflight' = inflight \ {a}
    /\ status' = IF Head(inbox[a]) = "rejected" /\ command[a] = "queued"
                 THEN [status EXCEPT ![a] = SetResult(@, FALSE)]
                 ELSE status
    /\ UNCHANGED faults

-----------------------------------------------------------------------------
Next ==
    \/ \E a \in Actions :
          \/ CreateAction(a) \/ Dispatch(a) \/ Dispatched(a)
          \/ ReplayAck(a) \/ AskUser(a) \/ RejectByPolicy(a)
          \/ ReceiveAck(a) \/ ReceiveResult(a) \/ ReceiveCommandAck(a) \/ RefuseIngest(a)
    \/ \E p \in Approval :
          \/ Approve(p) \/ Deny(p) \/ FallDue(p)
          \/ \E ok \in BOOLEAN : Executed(p, ok)
    \/ Render \/ ExpireDue
    \/ DisableControl \/ EnableControl
    \/ Restart \/ Drop \/ Connect

Spec == Init /\ [][Next]_vars

(* The process, the timer, the renderer and the network run, the desktop   *)
(* reconnects and executeAction returns; nobody has to click.              *)
Fairness ==
    /\ \A a \in Actions :
          /\ WF_vars(Dispatch(a))
          /\ WF_vars(Dispatched(a))
          /\ WF_vars(ReplayAck(a) \/ AskUser(a) \/ RejectByPolicy(a))
          /\ WF_vars(ReceiveAck(a) \/ ReceiveResult(a) \/ ReceiveCommandAck(a))
    /\ \A p \in Approval :
          /\ WF_vars(FallDue(p))
          /\ WF_vars(\E ok \in BOOLEAN : Executed(p, ok))
    /\ WF_vars(ExpireDue)
    /\ WF_vars(Connect)

FairSpec == Spec /\ Fairness

-----------------------------------------------------------------------------
(* Types; a payload is kept only for an item that exists. *)
TypeOK ==
    /\ status \in [Actions -> {"none"} \cup ActionStatus]
    /\ request \in [Actions -> {"none", "saving", "dispatched", "answered"}]
    /\ command \in [Actions -> {"none", "queued", "answered"}]
    /\ inflight \subseteq Actions
    /\ connected \in BOOLEAN
    /\ inbox \in [Actions -> Seq(Message)]
    /\ control \in BOOLEAN
    /\ handled \in [Actions -> {"none"} \cup CommandAck]
    /\ created \in 0 .. MaxApprovals
    /\ of \in [Approval -> Actions \cup {NoAction}]
    /\ state \in [Approval -> {"none"} \cup ItemState]
    /\ due \in [Approval -> BOOLEAN]
    /\ payloads \subseteq 1 .. created
    /\ shown \in [Approval -> {"none"} \cup ItemState]
    /\ running \subseteq Approval
    /\ runs \in [Approval -> Nat]
    /\ faults \in [Fault -> Nat]

(* The mouse and keyboard are touched exactly once for an approval that    *)
(* was approved and never for one that is pending or was denied, expired   *)
(* or canceled, although the handler acts on a stale rendering and ignores *)
(* what the controller answers (App.tsx handleActionApprove).              *)
RunsMatchDecision ==
    \A p \in Approval :
        runs[p] = IF state[p] \in {"executing", "executed", "failed"} THEN 1 ELSE 0

(* What the API's record says of an execution is true on the desktop: a    *)
(* message that the action is approved or executed is only believed, in    *)
(* flight or after a reconnection, if the user approved an approval of it. *)
RecordIsTrue ==
    \A a \in Actions :
        /\ status[a] = "executed" => \E p \in Approval : of[p] = a /\ state[p] = "executed"
        /\ status[a] = "approved" => \E p \in Approval : of[p] = a /\ runs[p] = 1
        /\ status[a] = "denied" => \E p \in Approval : of[p] = a /\ state[p] = "denied"

(* Once the web was told that an action failed, its approval is neither    *)
(* open nor executing, unless the application was restarted meanwhile (the *)
(* remembered command acks die with it and the user is asked again).       *)
FailureIsHonest ==
    faults["restart"] = 0 =>
        \A p \in Approval :
            of[p] \in Actions /\ status[of[p]] = "failed"
                => state[p] \notin {"pending", "executing", "executed"}

(* The outcome of an action does not change: not by the route marking it   *)
(* awaiting_user late, not by a late ack, not by a second result.          *)
OutcomeIsFinal ==
    [][\A a \in Actions :
        status[a] \in Settled =>
            /\ status'[a] \in Settled
            /\ faults'["restart"] = 0 => status'[a] = status[a]]_vars

(* Nothing waits for the user for ever: every pending approval is decided, *)
(* also one that was restored from storage after a restart.                *)
EveryApprovalIsDecided ==
    \A p \in Approval : state[p] = "pending" ~> state[p] # "pending"

Undisturbed == faults["drop"] = 0 /\ faults["restart"] = 0 /\ faults["limit"] = 0

(* Without lost messages, an action that has no outcome yet is in somebody's *)
(* hands: the route's, the queue's before the desktop has handled it, those  *)
(* of an open approval that can still be reported, or its result is on the   *)
(* way.  Whatever closes an approval reports it.                             *)
UnsettledIsUnderWay ==
    Undisturbed =>
        \A a \in Actions : request[a] # "none" =>
            \/ status[a] \in Settled
            \/ request[a] = "saving"
            \/ command[a] = "queued" /\ handled[a] = "none"
            \/ \E p \in payloads : of[p] = a
            \/ \E i \in DOMAIN inbox[a] : inbox[a][i] \in Result

(* Without lost messages, every requested action gets an outcome, whether  *)
(* the user approves, denies, ignores it or turns the control off.         *)
EveryActionIsSettled ==
    \A a \in Actions :
        request[a] = "saving" ~> (status[a] \in Settled \/ ~Undisturbed)
=============================================================================
