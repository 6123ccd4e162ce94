------------------------------ MODULE RunEngine ------------------------------
(***************************************************************************)
(* The life of one run: the in-memory record of store/runs.ts, the server  *)
(* engines of engine/runEngine.ts that execute a manual run step by step,  *)
(* the device messages and the HTTP route that touch the run              *)
(* (lib/ws-handler.ts, index.ts), its row in the database and what a       *)
(* restart of the API makes of it (index.ts, lib/run-recovery.ts).         *)
(*                                                                         *)
(* The API is one Node process: an action is the code between two awaits   *)
(* (or timers) that really suspend.  An engine is a coroutine, pc[e] says  *)
(* at which await it is.  The promise of waitForApproval is continued in   *)
(* the microtask queue of the handler that resolves it, hence in the same  *)
(* action.                                                                 *)
(***************************************************************************)
EXTENDS Naturals

CONSTANTS
    Engines,          \* the engine instances that may ever be created
    NoEngine,         \* activeEngines holds nothing / no pending approval
    RecoveredStatus,  \* what RUN_RECOVERY_POLICY makes of an in-progress run
    MaxRestarts       \* bound on restarts of the API process

ASSUME EngineAssumption == NoEngine \notin Engines
ASSUME RecoveryAssumption == RecoveredStatus \in {"failed", "canceled"}
ASSUME RestartAssumption == MaxRestarts \in Nat

VARIABLES
    mode,       \* run.mode, fixed when the run is created
    status,     \* run.status in runStore
    steps,      \* run.steps[i].status
    approval,   \* run.pendingApproval: id is the engine that asked
    active,     \* activeEngines.get(runId)
    pc,         \* where each engine is suspended
    idx,        \* its currentStepIndex (1-based)
    stopped,    \* its stopped flag
    db,         \* the status column of the run's row
    canceling,  \* where the cancel route is: dispatching run.canceled or canceling
    startCmd,   \* the run.start command in the device queue
    cancelCmd,  \* the run.canceled command in the device queue
    askCmd,     \* the approval.request command of each engine
    shown,      \* approvals the desktop displays and has not answered
    assisting,  \* the desktop's own assistant executes the run (ai_assist)
    restarts,   \* restarts of the API so far
    granted     \* history: engines whose own approval the user granted

engineVars == <<active, pc, idx, stopped>>
runVars == <<mode, status, steps, approval>>
deviceVars == <<startCmd, cancelCmd, askCmd, shown, assisting>>
vars == <<runVars, engineVars, deviceVars, db, canceling, restarts, granted>>

Step == 1 .. 4
ApprovalStep == 3
LastStep == 4

RunStatus == {"queued", "running", "waiting_for_user", "done", "failed", "canceled"}
StepStatus == {"pending", "running", "blocked", "done", "failed"}
Cancelable == {"queued", "running", "waiting_for_user"}
InProgress == {"running", "waiting_for_user"}
Final == {"done", "failed", "canceled"}
Suspended == {"details", "work", "settle", "gap", "ask", "wait"}

NoApproval == [id |-> NoEngine, status |-> "pending"]

-----------------------------------------------------------------------------
(* The run just created and saved, its run.start not dispatched yet. *)
Init ==
    /\ mode \in {"manual", "ai_assist"}
    /\ status = "queued"
    /\ steps = [i \in Step |-> "pending"]
    /\ approval = NoApproval
    /\ active = NoEngine
    /\ pc = [e \in Engines |-> "new"]
    /\ idx = [e \in Engines |-> 0]
    /\ stopped = [e \in Engines |-> FALSE]
    /\ db = "queued"
    /\ canceling = "idle"
    /\ startCmd = "creating"
    /\ cancelCmd = "none"
    /\ askCmd = [e \in Engines |-> "none"]
    /\ shown = {}
    /\ assisting = FALSE
    /\ restarts = 0
    /\ granted = {}

-----------------------------------------------------------------------------
(* runStore.updateStatus followed by a save of the run. *)
UpdateStatus(s) == status' = s /\ db' = s
KeepStatus == UNCHANGED <<status, db>>

SetStep(i, s) == steps' = [steps EXCEPT ![i] = s]

(* The engine returns: deleteEngine removes whatever engine is registered. *)
Finish(e) ==
    /\ pc' = [pc EXCEPT ![e] = "off"]
    /\ active' = NoEngine

(* The head of the loop: break when stopped, else the next step starts. *)
EnterStep(e, i) ==
    IF stopped[e]
    THEN /\ Finish(e)
         /\ UNCHANGED <<steps, idx>>
    ELSE /\ pc' = [pc EXCEPT ![e] = "work"]
         /\ idx' = [idx EXCEPT ![e] = i]
         /\ SetStep(i, "running")
         /\ UNCHANGED active

(* What follows `await waitForApproval` once the promise is resolved. *)
AfterDecision(e, decision) ==
    \/ /\ stopped[e]
       /\ Finish(e)
       /\ KeepStatus
       /\ UNCHANGED steps
    \/ /\ ~stopped[e]
       /\ decision = "approved"
       /\ pc' = [pc EXCEPT ![e] = "gap"]
       /\ SetStep(ApprovalStep, "done")
       /\ KeepStatus
       /\ UNCHANGED active
    \/ /\ ~stopped[e]
       /\ decision = "denied"
       /\ Finish(e)
       /\ SetStep(ApprovalStep, "failed")
       /\ UpdateStatus("failed")

(* engine.handleApproval: the decision is recorded whatever the status of  *)
(* the approval, and resumes the engine only if it is already waiting.     *)
HandleApproval(e, decision) ==
    /\ approval' = [approval EXCEPT !.status = decision]
    /\ \/ pc[e] = "wait" /\ AfterDecision(e, decision)
       \/ pc[e] # "wait" /\ KeepStatus /\ UNCHANGED <<steps, pc, active>>

-----------------------------------------------------------------------------
(* The engine's own steps: what it does when the await it is at returns. *)

DetailsSent(e) ==
    /\ pc[e] = "details"
    /\ UpdateStatus("running")
    /\ EnterStep(e, 1)
    /\ UNCHANGED <<mode, approval, stopped, deviceVars, canceling, restarts, granted>>

(* The simulated work of steps 1, 2 and 4 is over: `if (stopped) return`, *)
(* then a last delay before the step is marked done.                      *)
WorkDone(e) ==
    /\ pc[e] = "work"
    /\ idx[e] # ApprovalStep
    /\ \/ stopped[e] /\ Finish(e)
       \/ ~stopped[e] /\ pc' = [pc EXCEPT ![e] = "settle"] /\ UNCHANGED active
    /\ UNCHANGED <<runVars, idx, stopped, deviceVars, db, canceling, restarts, granted>>

SettleLast(e) ==
    /\ Finish(e)
    /\ IF stopped[e] THEN KeepStatus ELSE UpdateStatus("done")

Settle(e) ==
    /\ pc[e] = "settle"
    /\ SetStep(idx[e], "done")
    /\ IF idx[e] = LastStep
       THEN SettleLast(e)
       ELSE pc' = [pc EXCEPT ![e] = "gap"] /\ KeepStatus /\ UNCHANGED active
    /\ UNCHANGED <<mode, approval, idx, stopped, deviceVars, canceling, restarts, granted>>

NextStep(e) ==
    /\ pc[e] = "gap"
    /\ EnterStep(e, idx[e] + 1)
    /\ KeepStatus
    /\ UNCHANGED <<mode, approval, stopped, deviceVars, canceling, restarts, granted>>

(* Step 3 after its delay: no look at stopped before the run is blocked. *)
AskApproval(e) ==
    /\ pc[e] = "work"
    /\ idx[e] = ApprovalStep
    /\ approval' = [id |-> e, status |-> "pending"]
    /\ UpdateStatus("waiting_for_user")
    /\ SetStep(ApprovalStep, "blocked")
    /\ askCmd' = [askCmd EXCEPT ![e] = "queued"]
    /\ pc' = [pc EXCEPT ![e] = "ask"]
    /\ UNCHANGED <<mode, active, idx, stopped, startCmd, cancelCmd, shown,
                   assisting, canceling, restarts, granted>>

(* Variant: the decision is not awaited. *)
AskSentUnawaited(e) ==
    /\ pc[e] = "ask"
    /\ pc' = [pc EXCEPT ![e] = "gap"]
    /\ SetStep(ApprovalStep, "done")
    /\ UNCHANGED <<mode, status, approval, active, idx, stopped, deviceVars, db,
                   canceling, restarts, granted>>

(* The dispatch returned; only now is approvalResolve registered. *)
AskSent(e) ==
    /\ pc[e] = "ask"
    /\ pc' = [pc EXCEPT ![e] = "wait"]
    /\ UNCHANGED <<runVars, active, idx, stopped, deviceVars, db, canceling,
                   restarts, granted>>

(* Variants: the timeout approves; there is no timeout. *)
ApprovalTimeoutOpen(e) ==
    /\ pc[e] = "wait"
    /\ AfterDecision(e, "approved")
    /\ UNCHANGED <<mode, approval, idx, stopped, deviceVars, canceling, restarts, granted>>

NoApprovalTimeout(e) == FALSE

(* APPROVAL_TIMEOUT_MS: the promise resolves to denied, the approval record *)
(* itself stays as it is.                                                   *)
ApprovalTimeout(e) ==
    /\ pc[e] = "wait"
    /\ AfterDecision(e, "denied")
    /\ UNCHANGED <<mode, approval, idx, stopped, deviceVars, canceling, restarts, granted>>

EngineStep(e) ==
    \/ DetailsSent(e)
    \/ WorkDone(e)
    \/ Settle(e)
    \/ NextStep(e)
    \/ AskApproval(e)
    \/ AskSent(e)
    \/ ApprovalTimeout(e)

-----------------------------------------------------------------------------
(* Commands the device answers, and the messages it sends. *)

DispatchStart ==
    /\ startCmd = "creating"
    /\ startCmd' = "queued"
    /\ UNCHANGED <<runVars, engineVars, cancelCmd, askCmd, shown, assisting, db,
                   canceling, restarts, granted>>

(* Variants: an accept starts an engine beside the registered one; an accept *)
(* starts an engine whatever the status of the run.                          *)
RunAcceptTwice(e) ==
    /\ startCmd \in {"queued", "accepted"}
    /\ startCmd' = "accepted"
    /\ mode = "manual"
    /\ status \in {"queued", "running"}
    /\ pc[e] = "new"
    /\ active' = e
    /\ pc' = [pc EXCEPT ![e] = "details"]
    /\ UNCHANGED <<runVars, idx, stopped, cancelCmd, askCmd, shown, assisting, db,
                   canceling, restarts, granted>>

RunAcceptAnyStatus(e) ==
    /\ startCmd \in {"queued", "accepted"}
    /\ startCmd' = "accepted"
    /\ mode = "manual"
    /\ active = NoEngine
    /\ pc[e] = "new"
    /\ active' = e
    /\ pc' = [pc EXCEPT ![e] = "details"]
    /\ UNCHANGED <<runVars, idx, stopped, cancelCmd, askCmd, shown, assisting, db,
                   canceling, restarts, granted>>

(* device.run.accept: the desktop sends it each time it handles run.start. *)
RunAccept(e) ==
    /\ startCmd \in {"queued", "accepted"}
    /\ startCmd' = "accepted"
    /\ mode = "manual"
    /\ active = NoEngine
    /\ status \in {"queued", "running"}
    /\ pc[e] = "new"
    /\ active' = e
    /\ pc' = [pc EXCEPT ![e] = "details"]
    /\ UNCHANGED <<runVars, idx, stopped, cancelCmd, askCmd, shown, assisting, db,
                   canceling, restarts, granted>>

(* In ai_assist mode the desktop executes the run itself. *)
AssistantStart ==
    /\ startCmd \in {"queued", "accepted"}
    /\ startCmd' = "accepted"
    /\ mode = "ai_assist"
    /\ ~assisting
    /\ assisting' = TRUE
    /\ UNCHANGED <<runVars, engineVars, cancelCmd, askCmd, shown, db,
                   canceling, restarts, granted>>

StartAck ==
    /\ startCmd \in {"queued", "accepted"}
    /\ startCmd' = "answered"
    /\ UNCHANGED <<runVars, engineVars, cancelCmd, askCmd, shown, assisting, db,
                   canceling, restarts, granted>>

(* A terminal nack of run.start (a device that does not know the command)  *)
(* fails the run, only if it is still queued.                              *)
StartNack ==
    /\ startCmd = "queued"
    /\ startCmd' = "answered"
    /\ IF status = "queued" THEN UpdateStatus("failed") ELSE KeepStatus
    /\ UNCHANGED <<mode, steps, approval, engineVars, cancelCmd, askCmd, shown,
                   assisting, canceling, restarts, granted>>

(* markAiAssistRunRunningFromActivity: the first step, log, proposal,      *)
(* action or tool message of the assistant.                                *)
AssistantActivity ==
    /\ assisting
    /\ status = "queued"
    /\ UpdateStatus("running")
    /\ UNCHANGED <<mode, steps, approval, engineVars, deviceVars, canceling, restarts,
                   granted>>

(* device.run.update: the assistant reports how it ended. *)
RunUpdate(s) ==
    /\ assisting
    /\ assisting' = FALSE
    /\ UpdateStatus(s)
    /\ UNCHANGED <<mode, steps, approval, engineVars, startCmd, cancelCmd, askCmd,
                   shown, canceling, restarts, granted>>

HearCancel ==
    /\ cancelCmd = "queued"
    /\ cancelCmd' = "answered"
    /\ assisting' = FALSE
    /\ UNCHANGED <<runVars, engineVars, startCmd, askCmd, shown, db, canceling,
                   restarts, granted>>

(* The desktop displays an approval.request, again after each redelivery. *)
ShowApproval(a) ==
    /\ askCmd[a] = "queued"
    /\ shown' = shown \cup {a}
    /\ UNCHANGED <<runVars, engineVars, startCmd, cancelCmd, askCmd, assisting, db,
                   canceling, restarts, granted>>

AskAck(a) ==
    /\ askCmd[a] = "queued"
    /\ askCmd' = [askCmd EXCEPT ![a] = "answered"]
    /\ UNCHANGED <<runVars, engineVars, startCmd, cancelCmd, shown, assisting, db,
                   canceling, restarts, granted>>

(* A terminal nack of approval.request denies the pending approval of the  *)
(* run, whichever request it answers.                                      *)
AskNack(a) ==
    /\ askCmd[a] = "queued"
    /\ askCmd' = [askCmd EXCEPT ![a] = "answered"]
    /\ \/ /\ approval = NoApproval
          /\ KeepStatus
          /\ UNCHANGED <<approval, steps, pc, active>>
       \/ /\ approval # NoApproval
          /\ active # NoEngine
          /\ HandleApproval(active, "denied")
       \/ /\ approval # NoApproval
          /\ active = NoEngine
          /\ approval' = [approval EXCEPT !.status = "denied"]
          /\ KeepStatus
          /\ UNCHANGED <<steps, pc, active>>
    /\ UNCHANGED <<mode, idx, stopped, startCmd, cancelCmd, shown, assisting,
                   canceling, restarts, granted>>

(* The handler compares the id of the pending approval, nothing else. *)
MatchesPending(a) == approval.id = a

(* device.approval.decision *)
Decide(a, decision) ==
    /\ a \in shown
    /\ shown' = shown \ {a}
    /\ \/ /\ MatchesPending(a)
          /\ active # NoEngine
          /\ HandleApproval(active, decision)
          /\ granted' = IF decision = "approved" THEN granted \cup {a} ELSE granted
       \/ /\ ~MatchesPending(a) \/ active = NoEngine
          /\ KeepStatus
          /\ UNCHANGED <<approval, steps, pc, active, granted>>
    /\ UNCHANGED <<mode, idx, stopped, startCmd, cancelCmd, askCmd, assisting,
                   canceling, restarts>>

-----------------------------------------------------------------------------
(* runStore.cancel: the status changes, the registered engine is stopped    *)
(* and unregistered; an engine that waits for the approval returns at once. *)
Cancel ==
    /\ status \in Cancelable
    /\ status' = "canceled"
    /\ active' = NoEngine
    /\ stopped' = [e \in Engines |-> stopped[e] \/ e = active]
    /\ pc' = [e \in Engines |-> IF e = active /\ pc[e] = "wait" THEN "off" ELSE pc[e]]
    /\ UNCHANGED <<mode, steps, approval, idx, startCmd, askCmd, shown, restarts, granted>>

(* device.run.cancel: the desktop stops its assistant, the server saves. *)
CancelByDevice ==
    /\ Cancel
    /\ db' = "canceled"
    /\ assisting' = FALSE
    /\ UNCHANGED <<cancelCmd, canceling>>

(* POST /runs/:runId/cancel up to its await of the run.canceled dispatch... *)
CancelByUser ==
    /\ Cancel
    /\ canceling = "idle"
    /\ canceling' = "dispatch"
    /\ UNCHANGED <<cancelCmd, assisting, db>>

(* ... the command is in the queue ... *)
CancelDispatched ==
    /\ canceling = "dispatch"
    /\ canceling' = "save"
    /\ cancelCmd' = "queued"
    /\ UNCHANGED <<runVars, engineVars, startCmd, askCmd, shown, assisting, db, restarts,
                   granted>>

(* ... and the run is saved, as it is by then. *)
CancelSaved ==
    /\ canceling = "save"
    /\ canceling' = "idle"
    /\ db' = status
    /\ UNCHANGED <<runVars, engineVars, deviceVars, restarts, granted>>

(* The API process dies and starts again.  The store is loaded from the    *)
(* database first; recovery then rewrites the rows of in-progress runs     *)
(* through objects of its own.  Redis and the desktop survive.             *)
Restart ==
    /\ restarts < MaxRestarts
    /\ restarts' = restarts + 1
    /\ status' = db
    /\ db' = IF db \in InProgress THEN RecoveredStatus ELSE db
    /\ approval' = NoApproval
    /\ active' = NoEngine
    /\ pc' = [e \in Engines |-> IF pc[e] \in Suspended THEN "killed" ELSE pc[e]]
    /\ canceling' = "idle"
    /\ startCmd' = IF startCmd = "creating" THEN "lost" ELSE startCmd
    /\ UNCHANGED <<mode, steps, idx, stopped, cancelCmd, askCmd, shown, assisting,
                   granted>>

(* The desktop restarts: what it displayed and executed is gone. *)
DeviceRestart ==
    /\ assisting \/ shown # {}
    /\ assisting' = FALSE
    /\ shown' = {}
    /\ UNCHANGED <<runVars, engineVars, startCmd, cancelCmd, askCmd, db, canceling,
                   restarts, granted>>

-----------------------------------------------------------------------------
DeviceStep ==
    \/ \E e \in Engines : RunAccept(e) \/ ShowApproval(e) \/ AskAck(e) \/ AskNack(e)
    \/ \E e \in Engines, d \in {"approved", "denied"} : Decide(e, d)
    \/ \E s \in Final : RunUpdate(s)
    \/ AssistantStart \/ StartAck \/ StartNack \/ AssistantActivity \/ HearCancel
    \/ DeviceRestart

Next ==
    \/ \E e \in Engines : EngineStep(e)
    \/ DispatchStart
    \/ DeviceStep
    \/ CancelByDevice \/ CancelByUser \/ CancelDispatched \/ CancelSaved
    \/ Restart

Spec == Init /\ [][Next]_vars

(* Node's timers and the awaits on Redis end; nothing is promised of the    *)
(* device, of the user or of the process staying up.                        *)
FairSpec == Spec /\ \A e \in Engines : WF_vars(EngineStep(e))

-----------------------------------------------------------------------------
(* Properties *)

TypeOK ==
    /\ mode \in {"manual", "ai_assist"}
    /\ status \in RunStatus
    /\ steps \in [Step -> StepStatus]
    /\ approval \in [id : Engines \cup {NoEngine}, status : {"pending", "approved", "denied"}]
    /\ active \in Engines \cup {NoEngine}
    /\ pc \in [Engines -> Suspended \cup {"new", "off", "killed"}]
    /\ idx \in [Engines -> 0 .. LastStep]
    /\ stopped \in [Engines -> BOOLEAN]
    /\ db \in RunStatus
    /\ canceling \in {"idle", "dispatch", "save"}
    /\ startCmd \in {"creating", "queued", "accepted", "answered", "lost"}
    /\ cancelCmd \in {"none", "queued", "answered"}
    /\ askCmd \in [Engines -> {"none", "queued", "answered"}]
    /\ shown \subseteq Engines
    /\ assisting \in BOOLEAN
    /\ restarts \in 0 .. MaxRestarts
    /\ granted \subseteq Engines

(* An engine that was not stopped is the registered one: a cancel or a      *)
(* decision always reaches the engine that is really executing the run,     *)
(* although every engine that returns deletes whatever is registered.       *)
EngineOwned ==
    \A e \in Engines : pc[e] \in Suspended /\ ~stopped[e] => active = e

(* No two engines execute the same run, whatever accepts are repeated and   *)
(* however cancels and restarts fall between them.                          *)
OneEngine ==
    \A e, f \in Engines : pc[e] \in Suspended /\ pc[f] \in Suspended => e = f

(* The step after the approval step is executed only by an engine whose own *)
(* request, not an earlier engine's, was granted by the user.               *)
PastApproval(e) ==
    \/ idx[e] > ApprovalStep
    \/ idx[e] = ApprovalStep /\ pc[e] = "gap"
ApprovalGate ==
    \A e \in Engines : pc[e] \in Suspended /\ PastApproval(e) => e \in granted

(* A manual run is done only with all its steps done and a granted request. *)
DoneMeansComplete ==
    mode = "manual" /\ status = "done" =>
        granted # {} /\ \A i \in Step : steps[i] = "done"

(* An engine works on a step with every earlier step done, also when it     *)
(* runs over the steps an engine before it left half-way.                   *)
StepsInOrder ==
    \A e \in Engines : pc[e] \in Suspended =>
        \A i \in Step : i < idx[e] => steps[i] = "done"

(* Work starts only under an engine that a cancel can reach. *)
StepStarts == \E i \in Step : steps[i] # "running" /\ steps'[i] = "running"
NoUnreachableWork == [][StepStarts => active' # NoEngine]_vars

(* A manual run is in progress only under an engine that will bring it to   *)
(* an end, unless the API restarted or a cancel overtook an engine: whatever *)
(* fails, is denied or times out, no engine leaves a run behind.            *)
NoRunIsLeftBehind ==
    mode = "manual" /\ status \in InProgress =>
        \/ active # NoEngine
        \/ restarts > 0
        \/ \E e \in Engines : stopped[e]

(* What an engine made of a manual run stands: neither a repeated accept,   *)
(* a late decision, an older engine, a cancel nor a restart changes it.     *)
ManualOutcomeIsFinal ==
    [][(mode = "manual" /\ status \in {"done", "failed"}) => status' = status]_vars

(* The engine that executes a run brings it to a final status, unless a     *)
(* cancel or a restart came first: no decision, answer or silence of the    *)
(* device keeps it waiting for ever.                                        *)
EngineOutcome ==
    \A e \in Engines :
        active = e ~> status \in Final \/ stopped[e] \/ pc[e] = "killed"

(* tests/api-run-recovery.test.mjs:4, "run recovery marks in-progress runs  *)
(* as failed": after a restart a manual run is in progress only under a new *)
(* engine.                                                                  *)
RecoveredRunsAreOver ==
    restarts > 0 /\ mode = "manual" /\ status \in InProgress => active # NoEngine
=============================================================================
