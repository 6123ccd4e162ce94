------------------------------ MODULE Assistant ------------------------------
(***************************************************************************)
(* The desktop's assistant on one AI run: AiAssistController               *)
(* (desktop lib/aiAssist.ts), which asks a model for the next step,        *)
(* proposes it and executes it once approved, and what App.tsx does with   *)
(* it: it starts the engine, makes an approval item of each proposal,      *)
(* approves, denies, pauses and stops.                                     *)
(*                                                                         *)
(* The webview has one thread: an action is one event handler, or one      *)
(* continuation of an async function, up to its next await.  runLoop       *)
(* invocations are alike, so they are counted by where they wait.  React   *)
(* renders, and runs the effects that create and cancel items, later than  *)
(* the engine notifies, except for changes made inside a click.            *)
(***************************************************************************)
EXTENDS Naturals, FiniteSets

CONSTANTS
    MaxProposals,   \* bound on the steps the model proposes
    NoProposal,
    Message,        \* a question to the user, or the final summary
    MaxActions,     \* options.constraints.maxActions
    MaxHolds        \* bound on pauses, Stop all and Screen Preview off

Proposals == 1 .. MaxProposals

ASSUME ProposalAssumption ==
    MaxProposals \in Nat /\ NoProposal # Message /\ {NoProposal, Message} \cap Nat = {}
ASSUME BoundAssumption == MaxActions \in Nat \ {0} /\ MaxHolds \in Nat

VARIABLES
    start,      \* where startAssistantEngine is
    engine,     \* assistantEngineRef: none yet, present, or dropped
    running,    \* state.isRunning
    status,     \* state.status
    proposal,   \* state.currentProposal
    paused,     \* this.paused
    before,     \* statusBeforePause
    stopped,    \* aborted, and without activeSettings
    count,      \* state.actionCount
    retryCount,
    loops,      \* how many runLoop invocations wait for what
    jobs,       \* approveAction and approveTool invocations that execute
    made,       \* how many steps were proposed; they are numbered by age
    kind,       \* what each of them is
    items,      \* the approval item of each proposal
    view,       \* aiState and currentProposal as last rendered
    shown,      \* the items last rendered as pending
    canceled,   \* history: the run was canceled or stopped
    holds       \* how many times the assistant was held up

engineVars == <<running, status, proposal, paused, before, stopped, count, retryCount>>
workVars == <<loops, jobs>>
madeVars == <<made, kind>>
viewVars == <<view, shown>>
vars == <<start, engine, engineVars, workVars, madeVars, items, viewVars, canceled, holds>>

Kinds == {"action", "tool", "setting"}
Statuses == {"idle", "capturing", "thinking", "awaiting_approval", "executing",
             "asking_user", "paused", "done", "error"}
ItemStates == {"none", "pending", "executing", "executed", "failed", "denied", "expired",
               "canceled"}

Init ==
    /\ start = "idle"
    /\ engine = "none"
    /\ running = FALSE
    /\ status = "idle"
    /\ proposal = NoProposal
    /\ paused = FALSE
    /\ before = "capturing"
    /\ stopped = FALSE
    /\ count = 0
    /\ retryCount = 0
    /\ loops = [capture |-> 0, think |-> 0, read |-> 0]
    /\ jobs = {}
    /\ made = 0
    /\ kind = [p \in Proposals |-> "action"]
    /\ items = [p \in Proposals |-> "none"]
    /\ view = [status |-> "idle", proposal |-> NoProposal]
    /\ shown = {}
    /\ canceled = FALSE
    /\ holds = 0

-----------------------------------------------------------------------------
(* Parts of the handlers *)

Pending == {p \in Proposals : items[p] = "pending"}

(* proposalApprovalPayloads: the entry goes when its item is decided. *)
HasItem(p) == items[p] \in {"pending", "executing"}

(* React 18 renders what a click has changed before the next event. *)
RenderNow ==
    /\ view' = [status |-> status', proposal |-> proposal']
    /\ shown' = {p \in Proposals : items'[p] = "pending"}

Rendered == view = [status |-> status, proposal |-> proposal] /\ shown = Pending

Ask ==
    /\ proposal' = Message
    /\ status' = "asking_user"

(* resumeLoop on the loops ls, with the pause flag isPaused: a loop starts at *)
(* once with its screenshot.                                                  *)
ResumeLoop(ls, isPaused) ==
    /\ status' = "capturing"
    /\ loops' = IF running /\ ~stopped /\ ~isPaused
                THEN [ls EXCEPT !.capture = @ + 1] ELSE ls

(* dismissPendingProposal, called through assistantEngineRef *)
Dismiss(resume) ==
    IF engine = "present" /\ proposal \in Proposals
    THEN /\ proposal' = NoProposal
         /\ IF resume
            THEN ResumeLoop(loops, paused)
            ELSE /\ status' = IF paused THEN "paused" ELSE status
                 /\ UNCHANGED loops
    ELSE UNCHANGED <<proposal, status, loops>>

(* cancelAllPending of the items P, and what the listener does *)
CancelPending(P, resume) ==
    /\ items' = [p \in Proposals |-> IF p \in P THEN "canceled" ELSE items[p]]
    /\ IF P # {} THEN Dismiss(resume) ELSE UNCHANGED <<proposal, status, loops>>

-----------------------------------------------------------------------------
(* startAssistantEngine: neither await is followed by a look at whether the *)
(* run was canceled meanwhile.  Bound: one engine.                          *)

StartEngine ==
    /\ start = "idle"
    /\ start' = "checking"
    /\ UNCHANGED <<engine, engineVars, workVars, madeVars, items, viewVars, canceled, holds>>

(* The provider is configured, as far as App.tsx can see. *)
CreateEngine ==
    /\ start = "checking"
    /\ start' = "starting"
    /\ engine' = "present"
    /\ UNCHANGED <<engineVars, workVars, madeVars, items, viewVars, canceled, holds>>

(* The controller's start, after its own check, and its first loop. *)
Started ==
    /\ start = "starting"
    /\ start' = "started"
    /\ running' = TRUE
    /\ status' = "capturing"
    /\ paused' = FALSE
    /\ count' = 0
    /\ loops' = [loops EXCEPT !.capture = @ + 1]
    /\ UNCHANGED <<engine, proposal, before, stopped, retryCount, jobs, madeVars, items,
                   viewVars, canceled, holds>>

(* No provider: App.tsx gives up, or the controller does. *)
ProviderMissing ==
    /\ start \in {"checking", "starting"}
    /\ start' = "failed"
    /\ IF start = "starting"
       THEN /\ status' = "error"
            /\ engine' = "dropped"
       ELSE UNCHANGED <<status, engine>>
    /\ UNCHANGED <<running, proposal, paused, before, stopped, count, retryCount, workVars,
                   madeVars, items, viewVars, canceled, holds>>

-----------------------------------------------------------------------------
(* runLoop *)

(* The screenshot is there: a pause ends the loop, a stop does not. *)
Captured ==
    /\ loops.capture > 0
    /\ IF paused
       THEN /\ loops' = [loops EXCEPT !.capture = @ - 1]
            /\ UNCHANGED status
       ELSE /\ loops' = [loops EXCEPT !.capture = @ - 1, !.think = @ + 1]
            /\ status' = "thinking"
    /\ UNCHANGED <<start, engine, running, proposal, paused, before, stopped, count,
                   retryCount, jobs, madeVars, items, viewVars, canceled, holds>>

(* The model is asked longer than a render takes. *)
ThinkEnds == loops.think > 0 /\ Rendered

Propose(k) ==
    /\ made < MaxProposals
    /\ made' = made + 1
    /\ kind' = [kind EXCEPT ![made + 1] = k]
    /\ proposal' = made + 1

(* The model's answer is a step to approve.  Whether the assistant was      *)
(* paused or stopped while the model was asked is not looked at.            *)
Proposed ==
    /\ ThinkEnds
    /\ \E k \in Kinds : Propose(k)
    /\ status' = "awaiting_approval"
    /\ loops' = [loops EXCEPT !.think = @ - 1]
    /\ UNCHANGED <<start, engine, running, paused, before, stopped, count, retryCount, jobs,
                   items, viewVars, canceled, holds>>

(* It is app.get_state, which needs no approval ... *)
ProposedRead ==
    /\ ThinkEnds
    /\ Propose("tool")
    /\ loops' = [loops EXCEPT !.think = @ - 1, !.read = @ + 1]
    /\ UNCHANGED <<start, engine, running, status, paused, before, stopped, count,
                   retryCount, jobs, items, viewVars, canceled, holds>>

(* ... and after which the loop goes on. *)
ReadDone ==
    /\ loops.read > 0
    /\ proposal' = NoProposal
    /\ ResumeLoop([loops EXCEPT !.read = @ - 1], paused)
    /\ UNCHANGED <<start, engine, running, paused, before, stopped, count, retryCount, jobs,
                   madeVars, items, viewVars, canceled, holds>>

(* It is a question. *)
Asked ==
    /\ ThinkEnds
    /\ Ask
    /\ loops' = [loops EXCEPT !.think = @ - 1]
    /\ UNCHANGED <<start, engine, running, paused, before, stopped, count, retryCount, jobs,
                   madeVars, items, viewVars, canceled, holds>>

(* The task is done. *)
Finished ==
    /\ ThinkEnds
    /\ proposal' = Message
    /\ status' = "done"
    /\ running' = FALSE
    /\ loops' = [loops EXCEPT !.think = @ - 1]
    /\ UNCHANGED <<start, engine, paused, before, stopped, count, retryCount, jobs, madeVars,
                   items, viewVars, canceled, holds>>

(* The screenshot or the model fails: setError, which ends a pause, and a   *)
(* question.                                                                *)
LoopFails(s) ==
    /\ loops[s] > 0
    /\ loops' = [loops EXCEPT ![s] = @ - 1]
    /\ IF stopped
       THEN UNCHANGED <<paused, proposal, status>>
       ELSE paused' = FALSE /\ Ask
    /\ UNCHANGED <<start, engine, running, before, stopped, count, retryCount, jobs,
                   madeVars, items, viewVars, canceled, holds>>

LoopStep ==
    \/ Captured \/ Proposed \/ ProposedRead \/ ReadDone \/ Asked \/ Finished
    \/ \E s \in {"capture", "think"} : LoopFails(s)

-----------------------------------------------------------------------------
(* approveAction and approveTool *)

(* Both kinds of tools are one kind of item. *)
SameItemKind(p, q) == (kind[p] = "action") <=> (kind[q] = "action")

(* The oldest pending item of the kind on show: the one a click is about. *)
Clicked(i) ==
    /\ engine = "present"
    /\ view.status = "awaiting_approval"
    /\ view.proposal \in Proposals
    /\ i \in shown
    /\ SameItemKind(i, view.proposal)
    /\ \A j \in shown : SameItemKind(i, j) => i <= j

(* The engine refuses unless it awaits an approval of that kind. *)
Accepts(i) ==
    /\ status = "awaiting_approval"
    /\ proposal \in Proposals
    /\ SameItemKind(i, proposal)

Approve(i) ==
    /\ Clicked(i)
    /\ Accepts(i)
    /\ status' = "executing"
    /\ items' = [items EXCEPT ![i] = IF @ = "pending" THEN "executing" ELSE @]
    /\ jobs' = jobs \cup {[item |-> i, proposal |-> proposal, stage |-> "first"]}
    /\ UNCHANGED <<start, engine, running, proposal, paused, before, stopped, count,
                   retryCount, loops, madeVars, canceled, holds>>
    /\ RenderNow

(* The item fails at once: the engine refuses, or the action has no valid   *)
(* coordinates and it asks the user.                                        *)
ApproveFails(i) ==
    /\ Clicked(i)
    /\ \/ ~Accepts(i) /\ UNCHANGED <<proposal, status>>
       \/ Accepts(i) /\ kind[proposal] = "action" /\ Ask
    /\ items' = [items EXCEPT ![i] = IF HasItem(i) THEN "failed" ELSE @]
    /\ UNCHANGED <<start, engine, running, paused, before, stopped, count, retryCount,
                   workVars, madeVars, canceled, holds>>
    /\ RenderNow

(* The job's handler marks the item it was started for. *)
JobEnds(j, state) ==
    /\ jobs' = jobs \ {j}
    /\ items' = [items EXCEPT ![j.item] = IF @ = "executing" THEN state ELSE @]

(* Execution throws. *)
ExecutionFails(j) ==
    /\ JobEnds(j, "failed")
    /\ Ask
    /\ UNCHANGED <<start, engine, running, paused, before, stopped, count, retryCount, loops,
                   madeVars, viewVars, canceled, holds>>

(* Verification finds no effect: the action is executed once more, unasked. *)
Retry(j) ==
    /\ kind[j.proposal] = "action"
    /\ j.stage = "first"
    /\ retryCount < 1
    /\ retryCount' = retryCount + 1
    /\ jobs' = (jobs \ {j}) \cup {[j EXCEPT !.stage = "again"]}
    /\ UNCHANGED <<start, engine, running, status, proposal, paused, before, stopped, count,
                   loops, madeVars, items, viewVars, canceled, holds>>

(* The retry had no effect either, or the assistant is stuck. *)
GivesUp(j) ==
    /\ kind[j.proposal] = "action"
    /\ JobEnds(j, "executed")
    /\ retryCount' = 0
    /\ Ask
    /\ UNCHANGED <<start, engine, running, paused, before, stopped, count, loops, madeVars,
                   viewVars, canceled, holds>>

(* The step is counted; the limit is not looked at after a setting. *)
Executed(j) ==
    /\ JobEnds(j, "executed")
    /\ retryCount' = IF kind[j.proposal] = "action" THEN 0 ELSE retryCount
    /\ count' = count + 1
    /\ IF count + 1 >= MaxActions /\ kind[j.proposal] # "setting"
       THEN Ask /\ UNCHANGED loops
       ELSE proposal' = NoProposal /\ ResumeLoop(loops, paused)
    /\ UNCHANGED <<start, engine, running, paused, before, stopped, madeVars, viewVars,
                   canceled, holds>>

JobStep == \E j \in jobs : ExecutionFails(j) \/ Retry(j) \/ GivesUp(j) \/ Executed(j)

-----------------------------------------------------------------------------
(* The approval items *)

(* App.tsx's effects: a proposal that awaits approval gets an item, unless   *)
(* it has one; a pause cancels the pending ones.                            *)
Render ==
    /\ ~Rendered
    /\ IF status = "paused"
       THEN CancelPending(Pending, FALSE)
       ELSE /\ items' = [p \in Proposals |->
                           IF status = "awaiting_approval" /\ p = proposal /\ ~HasItem(p)
                           THEN "pending" ELSE items[p]]
            /\ UNCHANGED <<proposal, status, loops>>
    /\ UNCHANGED <<start, engine, running, paused, before, stopped, count, retryCount, jobs,
                   madeVars, canceled, holds>>
    /\ RenderNow

(* Variant: an item that expires leaves the engine alone. *)
ExpireOnly(i) ==
    /\ items[i] = "pending"
    /\ items' = [items EXCEPT ![i] = "expired"]
    /\ UNCHANGED <<start, engine, engineVars, workVars, madeVars, viewVars, canceled, holds>>

(* 60 seconds are over. *)
Expire(i) ==
    /\ items[i] = "pending"
    /\ items' = [items EXCEPT ![i] = "expired"]
    /\ Dismiss(TRUE)
    /\ UNCHANGED <<start, engine, running, paused, before, stopped, count, retryCount, jobs,
                   madeVars, viewVars, canceled, holds>>

Deny(i) ==
    /\ Clicked(i)
    /\ items[i] = "pending"
    /\ items' = [items EXCEPT ![i] = "denied"]
    /\ Dismiss(TRUE)
    /\ UNCHANGED <<start, engine, running, paused, before, stopped, count, retryCount, jobs,
                   madeVars, canceled, holds>>
    /\ RenderNow

(* The workspace is cleared: its tools cannot be executed. *)
ClearWorkspace ==
    /\ {p \in Pending : kind[p] # "action"} # {}
    /\ CancelPending({p \in Pending : kind[p] # "action"}, TRUE)
    /\ UNCHANGED <<start, engine, running, paused, before, stopped, count, retryCount, jobs,
                   madeVars, viewVars, canceled, holds>>

-----------------------------------------------------------------------------
(* What the user does to the assistant *)

(* Variant: an answer is taken at any time. *)
UserResponseAnytime(stop) ==
    /\ engine = "present"
    /\ IF stop
       THEN /\ status' = "done"
            /\ running' = FALSE
            /\ UNCHANGED <<proposal, loops>>
       ELSE /\ proposal' = NoProposal
            /\ ResumeLoop(loops, paused)
            /\ UNCHANGED running
    /\ UNCHANGED <<start, engine, paused, before, stopped, count, retryCount, jobs, madeVars,
                   items, canceled, holds>>
    /\ RenderNow

(* The answer to a question; to stop is one.  Nothing else is answered. *)
UserResponse(stop) ==
    /\ engine = "present"
    /\ status = "asking_user"
    /\ IF stop
       THEN /\ status' = "done"
            /\ running' = FALSE
            /\ UNCHANGED <<proposal, loops>>
       ELSE /\ proposal' = NoProposal
            /\ ResumeLoop(loops, paused)
            /\ UNCHANGED running
    /\ UNCHANGED <<start, engine, paused, before, stopped, count, retryCount, jobs, madeVars,
                   items, canceled, holds>>
    /\ RenderNow

Hold == holds < MaxHolds /\ holds' = holds + 1

(* From the tray; the overlay's button is rendered at once. *)
Pause ==
    /\ Hold
    /\ engine = "present"
    /\ running /\ ~paused
    /\ paused' = TRUE
    /\ before' = status
    /\ status' = "paused"
    /\ UNCHANGED <<start, engine, running, proposal, stopped, count, retryCount, workVars,
                   madeVars, items, viewVars, canceled>>

(* Variant: resume starts no loop. *)
ResumeNoLoop ==
    /\ engine = "present"
    /\ running /\ paused
    /\ paused' = FALSE
    /\ status' = before
    /\ UNCHANGED <<start, engine, running, proposal, before, stopped, count, retryCount,
                   workVars, madeVars, items, viewVars, canceled, holds>>

(* The status is that before the pause, whatever happened since; a loop is  *)
(* started for one that may still be waiting for the screenshot or model.   *)
Resume ==
    /\ engine = "present"
    /\ running /\ paused
    /\ paused' = FALSE
    /\ IF before \in {"capturing", "thinking"}
       THEN ResumeLoop(loops, FALSE)
       ELSE status' = before /\ UNCHANGED loops
    /\ UNCHANGED <<start, engine, running, proposal, before, stopped, count, retryCount,
                   jobs, madeVars, items, viewVars, canceled, holds>>

(* Screen Preview is turned off from the tray, or Stop all is clicked while  *)
(* the assistant is paused or over.  Otherwise Stop all is Pause and Render. *)
PreviewOff ==
    /\ Hold
    /\ CancelPending(Pending, FALSE)
    /\ UNCHANGED <<start, engine, running, paused, before, stopped, count, retryCount, jobs,
                   madeVars, viewVars, canceled>>

(* stop of the controller, which runs *)
Stop ==
    /\ running' = FALSE
    /\ stopped' = TRUE
    /\ paused' = FALSE
    /\ status' = "idle"
    /\ proposal' = NoProposal

(* The run is canceled from the web, or here: the engine is kept, and told  *)
(* if there is one.                                                         *)
CancelRun ==
    /\ start # "idle"
    /\ canceled' = TRUE
    /\ IF engine = "present" /\ running
       THEN Stop
       ELSE UNCHANGED <<running, stopped, paused, status, proposal>>
    /\ UNCHANGED <<start, engine, before, count, retryCount, workVars, madeVars, items,
                   viewVars, holds>>

(* handleStopAi: pending items are canceled, the engine is let go. *)
StopAi ==
    /\ start # "idle"
    /\ canceled' = TRUE
    /\ engine' = IF engine = "present" THEN "dropped" ELSE engine
    /\ IF engine = "present" /\ running
       THEN /\ Stop
            /\ items' = [p \in Proposals |-> IF p \in Pending THEN "canceled" ELSE items[p]]
            /\ UNCHANGED loops
       ELSE /\ CancelPending(Pending, FALSE)
            /\ UNCHANGED <<running, stopped, paused>>
    /\ UNCHANGED <<start, before, count, retryCount, jobs, madeVars, holds>>
    /\ RenderNow

-----------------------------------------------------------------------------
StartStep == CreateEngine \/ Started \/ ProviderMissing

Next ==
    \/ StartEngine \/ StartStep \/ LoopStep \/ JobStep \/ Render
    \/ \E i \in Proposals : Approve(i) \/ ApproveFails(i) \/ Deny(i) \/ Expire(i)
    \/ ClearWorkspace \/ PreviewOff
    \/ \E stop \in BOOLEAN : UserResponse(stop)
    \/ Pause \/ Resume \/ CancelRun \/ StopAi

Spec == Init /\ [][Next]_vars

(* Calls of the backend and of the model return, React renders, the timer  *)
(* of the approvals fires.  The user owes nothing.                          *)
Fairness ==
    /\ WF_vars(StartStep) /\ WF_vars(LoopStep) /\ WF_vars(JobStep) /\ WF_vars(Render)
    /\ \A i \in Proposals : WF_vars(Expire(i))
FairSpec == Spec /\ Fairness

-----------------------------------------------------------------------------
(* Properties *)

Stages == {"capture", "think", "read"}
Job == [item : Proposals, proposal : Proposals, stage : {"first", "again"}]

TypeOK ==
    /\ start \in {"idle", "checking", "starting", "started", "failed"}
    /\ engine \in {"none", "present", "dropped"}
    /\ {running, paused, stopped, canceled} \subseteq BOOLEAN
    /\ {status, before} \subseteq Statuses
    /\ proposal \in Proposals \cup {NoProposal, Message}
    /\ count \in Nat
    /\ retryCount \in 0 .. 1
    /\ loops \in [Stages -> Nat]
    /\ jobs \subseteq Job
    /\ made \in 0 .. MaxProposals
    /\ kind \in [Proposals -> Kinds]
    /\ items \in [Proposals -> ItemStates]
    /\ view \in [status : Statuses, proposal : Proposals \cup {NoProposal, Message}]
    /\ shown \subseteq Proposals
    /\ holds \in 0 .. MaxHolds

Looping == loops.capture + loops.think + loops.read
Working == Looping + Cardinality(jobs)
Waiting == running /\ status \in {"awaiting_approval", "asking_user"}

(* The status the user sees is true: whatever pauses, answers and failures  *)
(* cross each other, an assistant that says it captures or thinks has a     *)
(* loop that does.                                                          *)
WorkIsReal ==
    running /\ ~paused /\ status \in {"capturing", "thinking"} => Looping > 0

(* docs/protocol.md:859, "propose actions one at a time": unless it was held *)
(* up, the assistant either works at one thing or waits for the user.       *)
OneAtATime ==
    holds = 0 => Working + (IF Waiting THEN 1 ELSE 0) <= 1

(* docs/protocol.md:891, "Every action requires explicit user approval on    *)
(* desktop": nothing executes for an item that expired, was denied or        *)
(* canceled, and, unless the assistant was held up, what executes is what    *)
(* the item was created for.                                                *)
ExecutesWhatWasApproved ==
    \A j \in jobs :
        items[j.item] = "executing" /\ (holds = 0 => j.item = j.proposal)

(* An assistant that was not held up awaits an approval only while there is *)
(* something to approve, which then expires: the item of its own proposal,  *)
(* or a rendering still to come that makes it.                              *)
AwaitedIsAsked ==
    running /\ status = "awaiting_approval" /\ engine = "present" /\ holds = 0 =>
        /\ proposal \in Proposals
        /\ items[proposal] = "pending" \/ (items[proposal] = "none" /\ ~Rendered)

(* An assistant that was not held up is not blocked by its own proposal: it *)
(* is decided, if only by its expiry.                                       *)
ProposalIsDecided ==
    (running /\ status = "awaiting_approval" /\ engine = "present")
        ~> (status # "awaiting_approval" \/ engine # "present" \/ holds > 0)
=============================================================================
