--------------------------- MODULE Assistant_proofs ---------------------------
(***************************************************************************)
(* Proofs about Assistant, for any number of proposals, any limit of        *)
(* actions and any number of pauses and Stop alls.  The inductive invariant *)
(* says what is true before the engine runs (Early), that a rendered item a *)
(* click can approve is still pending (Fresh), that an executing item has   *)
(* one job (Jobs), and, while the assistant is not held up, that a loop, a  *)
(* job and a pending item exclude one another (Calm); the proposals are     *)
(* numbered by age (Numbered).                                              *)
(***************************************************************************)
EXTENDS Assistant, FiniteSetTheorems, TLAPS

(* Before startAssistantEngine is over there is nothing to approve or stop. *)
Early ==
    start # "started" =>
        /\ ~running /\ ~stopped /\ proposal = NoProposal /\ status \in {"idle", "error"}
        /\ Looping = 0 /\ jobs = {}
        /\ \A p \in Proposals : items[p] = "none"

Life == stopped => ~running

(* What a click can be about *)
Fresh ==
    /\ \A i \in shown : items[i] # "executing"
    /\ engine = "present" /\ proposal \in Proposals => shown \subseteq Pending

Jobs ==
    /\ \A j \in jobs : items[j.item] = "executing"
    /\ \A j, l \in jobs : j.item = l.item => j = l

AsApproved == holds = 0 => \A j \in jobs : j.item = j.proposal

(* Not held up, there is nothing under way, a loop, or a job. *)
Quiet == /\ Looping = 0 /\ jobs = {}
         /\ status = "asking_user" => Pending = {}
         /\ proposal \in Proposals => Pending \subseteq {proposal}
InLoop == /\ Looping = 1 /\ jobs = {} /\ Pending = {}
          /\ status \in {"idle", "capturing", "thinking"}
InJob == /\ Looping = 0 /\ Pending = {} /\ status \in {"idle", "executing"}
         /\ \A j, l \in jobs : j = l
Calm == holds = 0 => ~paused /\ status # "paused" /\ (Quiet \/ InLoop \/ InJob)

IInv == TypeOK /\ Early /\ Life /\ Fresh /\ Jobs /\ AsApproved /\ Calm /\ WorkIsReal

-----------------------------------------------------------------------------
(* How the number of loops changes *)

Total(L) == L.capture + L.think + L.read

LEMMA ProposalTypes ==
  /\ Proposals \subseteq Nat /\ NoProposal \notin Proposals /\ Message \notin Proposals
  /\ NoProposal # Message
BY ProposalAssumption DEF Proposals

LEMMA TotalIsLooping == Looping = Total(loops) /\ Looping' = Total(loops')
BY DEF Looping, Total

LEMMA TotalIsNat ==
  \A L \in [Stages -> Nat] : Total(L) \in Nat /\ \A s \in Stages : L[s] > 0 => Total(L) > 0
BY DEF Total, Stages

LEMMA OneMore ==
  ASSUME NEW L \in [Stages -> Nat]
  PROVE  /\ [L EXCEPT !.capture = @ + 1] \in [Stages -> Nat]
         /\ Total([L EXCEPT !.capture = @ + 1]) = Total(L) + 1
BY DEF Total, Stages

LEMMA OneLess ==
  ASSUME NEW L \in [Stages -> Nat], NEW s \in Stages, L[s] > 0
  PROVE  /\ [L EXCEPT ![s] = @ - 1] \in [Stages -> Nat]
         /\ Total([L EXCEPT ![s] = @ - 1]) = Total(L) - 1
<1> DEFINE M == [L EXCEPT ![s] = @ - 1]
<1>1. L.capture \in Nat /\ L.think \in Nat /\ L.read \in Nat
  BY DEF Stages
<1>2. M \in [Stages -> Nat]
  OBVIOUS
<1>3. \A t \in Stages : M[t] = IF t = s THEN L[s] - 1 ELSE L[t]
  OBVIOUS
<1>4. Total(M) = Total(L) - 1
  <2>1. CASE s = "capture"
    BY <1>1, <1>3, <2>1 DEF Total, Stages
  <2>2. CASE s = "think"
    BY <1>1, <1>3, <2>2 DEF Total, Stages
  <2>3. CASE s = "read"
    BY <1>1, <1>3, <2>3 DEF Total, Stages
  <2> QED BY <2>1, <2>2, <2>3 DEF Stages
<1> QED BY <1>2, <1>4

LEMMA OneMoves ==
  ASSUME NEW L \in [Stages -> Nat], NEW s \in Stages, NEW t \in Stages, s # t, L[s] > 0
  PROVE  /\ [L EXCEPT ![s] = @ - 1, ![t] = @ + 1] \in [Stages -> Nat]
         /\ Total([L EXCEPT ![s] = @ - 1, ![t] = @ + 1]) = Total(L)
<1> DEFINE M == [L EXCEPT ![s] = @ - 1, ![t] = @ + 1]
<1>1. L.capture \in Nat /\ L.think \in Nat /\ L.read \in Nat
  BY DEF Stages
<1>2. M \in [Stages -> Nat]
  OBVIOUS
<1>3. \A u \in Stages : M[u] = IF u = s THEN L[s] - 1 ELSE IF u = t THEN L[t] + 1 ELSE L[u]
  OBVIOUS
<1>4. s \in {"capture", "think", "read"} /\ t \in {"capture", "think", "read"}
  BY DEF Stages
<1>5. Total(M) = Total(L)
  BY <1>1, <1>3, <1>4 DEF Total, Stages
<1> QED BY <1>2, <1>5

LEMMA Resumed ==
  ASSUME NEW L \in [Stages -> Nat], NEW p, ResumeLoop(L, p)
  PROVE  /\ status' = "capturing" /\ loops' \in [Stages -> Nat]
         /\ Total(loops') \in {Total(L), Total(L) + 1}
         /\ running /\ ~stopped /\ ~p => Total(loops') = Total(L) + 1
BY OneMore DEF ResumeLoop

(* dismissPendingProposal changes the loop, or the status only, or nothing. *)
LEMMA Dismissed ==
  ASSUME TypeOK, NEW r \in BOOLEAN, Dismiss(r)
  PROVE  /\ loops' \in [Stages -> Nat]
         /\ \/ /\ UNCHANGED <<proposal, status, loops>>
               /\ engine # "present" \/ proposal \notin Proposals
            \/ /\ engine = "present" /\ proposal \in Proposals /\ proposal' = NoProposal
               /\ \/ /\ r /\ status' = "capturing" /\ Looping' \in {Looping, Looping + 1}
                     /\ running /\ ~stopped /\ ~paused => Looping' = Looping + 1
                  \/ /\ ~r /\ UNCHANGED loops
                     /\ status' = IF paused THEN "paused" ELSE status
<1>1. loops \in [Stages -> Nat]
  BY DEF TypeOK
<1>2. CASE engine = "present" /\ proposal \in Proposals /\ r
  BY <1>1, <1>2, Resumed, TotalIsLooping DEF Dismiss
<1>3. CASE engine = "present" /\ proposal \in Proposals /\ ~r
  BY <1>1, <1>3 DEF Dismiss
<1>4. CASE ~(engine = "present" /\ proposal \in Proposals)
  BY <1>1, <1>4 DEF Dismiss
<1> QED BY <1>2, <1>3, <1>4

(* cancelAllPending *)
LEMMA Canceled ==
  ASSUME TypeOK, NEW P \in SUBSET Pending, NEW r \in BOOLEAN, CancelPending(P, r)
  PROVE  /\ items' = [p \in Proposals |-> IF p \in P THEN "canceled" ELSE items[p]]
         /\ Pending' = Pending \ P
         /\ loops' \in [Stages -> Nat]
         /\ \/ /\ UNCHANGED <<proposal, status, loops>>
               /\ P = {} \/ engine # "present" \/ proposal \notin Proposals
            \/ /\ P # {} /\ engine = "present" /\ proposal \in Proposals /\ proposal' = NoProposal
               /\ \/ /\ r /\ status' = "capturing" /\ Looping' \in {Looping, Looping + 1}
                     /\ running /\ ~stopped /\ ~paused => Looping' = Looping + 1
                  \/ /\ ~r /\ UNCHANGED loops
                     /\ status' = IF paused THEN "paused" ELSE status
<1>1. items' = [p \in Proposals |-> IF p \in P THEN "canceled" ELSE items[p]]
  BY DEF CancelPending
<1>2. Pending' = Pending \ P
  BY <1>1 DEF Pending
<1>3. loops \in [Stages -> Nat]
  BY DEF TypeOK
<1>4. CASE P = {}
  BY <1>1, <1>2, <1>3, <1>4 DEF CancelPending
<1>5. CASE P # {}
  BY <1>1, <1>2, <1>5, Dismissed DEF CancelPending
<1> QED BY <1>4, <1>5

-----------------------------------------------------------------------------
(* The type invariant *)

LEMMA TypesInit == Init => TypeOK
<1> SUFFICES ASSUME Init PROVE TypeOK
  OBVIOUS
<1>1. loops \in [Stages -> Nat]
  BY DEF Init, Stages
<1>2. items \in [Proposals -> ItemStates] /\ kind \in [Proposals -> Kinds]
  BY DEF Init, ItemStates, Kinds
<1>3. view \in [status : Statuses, proposal : Proposals \cup {NoProposal, Message}]
  BY DEF Init, Statuses
<1>4. made \in 0 .. MaxProposals /\ holds \in 0 .. MaxHolds /\ count \in Nat /\ retryCount \in 0 .. 1
  BY BoundAssumption, ProposalAssumption DEF Init
<1> QED BY <1>1, <1>2, <1>3, <1>4 DEF Init, TypeOK, Statuses

LEMMA TypesNext == TypeOK /\ [Next]_vars => TypeOK'
<1> SUFFICES ASSUME TypeOK, [Next]_vars PROVE TypeOK'
  OBVIOUS
<1>0. loops \in [Stages -> Nat]
  BY DEF TypeOK
<1> USE DEF engineVars, workVars, madeVars, viewVars
<1>1. CASE StartEngine
  BY <1>1 DEF TypeOK, StartEngine
<1>2. CASE CreateEngine
  BY <1>2 DEF TypeOK, CreateEngine
<1>3. CASE Started
  <2>1. loops' \in [Stages -> Nat]
    BY <1>0, <1>3, OneMore DEF Started
  <2> QED BY <1>3, <2>1 DEF TypeOK, Started, Statuses
<1>4. CASE ProviderMissing
  BY <1>4 DEF TypeOK, ProviderMissing, Statuses
<1>5. CASE Captured
  <2>1. loops' \in [Stages -> Nat]
    <3>1. /\ [loops EXCEPT !["capture"] = @ - 1, !["think"] = @ + 1] \in [Stages -> Nat]
          /\ [loops EXCEPT !["capture"] = @ - 1] \in [Stages -> Nat]
      BY <1>0, <1>5, OneMoves, OneLess DEF Captured, Stages
    <3> QED BY <1>5, <3>1 DEF Captured
  <2> QED BY <1>5, <2>1 DEF TypeOK, Captured, Statuses
<1>6. CASE Proposed
  <2>1. loops' \in [Stages -> Nat]
    BY <1>0, <1>6, OneLess DEF Proposed, ThinkEnds, Stages
  <2>2. /\ made' \in 0 .. MaxProposals /\ kind' \in [Proposals -> Kinds]
        /\ proposal' \in Proposals
    BY <1>6, ProposalAssumption DEF TypeOK, Proposed, Propose, Proposals
  <2> QED BY <1>6, <2>1, <2>2 DEF TypeOK, Proposed, Statuses
<1>7. CASE ProposedRead
  <2>1. loops' \in [Stages -> Nat]
    BY <1>0, <1>7, OneMoves DEF ProposedRead, ThinkEnds, Stages
  <2> QED BY <1>7, <2>1, ProposalAssumption DEF TypeOK, ProposedRead, Propose, Proposals, Kinds
<1>8. CASE ReadDone
  <2>1. loops' \in [Stages -> Nat] /\ status' = "capturing"
    <3>1. [loops EXCEPT !.read = @ - 1] \in [Stages -> Nat]
      BY <1>0, <1>8, OneLess DEF ReadDone, Stages
    <3> QED BY <1>8, <3>1, Resumed DEF ReadDone
  <2> QED BY <1>8, <2>1 DEF TypeOK, ReadDone, Statuses
<1>9. CASE Asked
  <2>1. loops' \in [Stages -> Nat]
    BY <1>0, <1>9, OneLess DEF Asked, ThinkEnds, Stages
  <2> QED BY <1>9, <2>1 DEF TypeOK, Asked, Ask, Statuses
<1>10. CASE Finished
  <2>1. loops' \in [Stages -> Nat]
    BY <1>0, <1>10, OneLess DEF Finished, ThinkEnds, Stages
  <2> QED BY <1>10, <2>1 DEF TypeOK, Finished, Statuses
<1>11. ASSUME NEW s \in {"capture", "think"}, LoopFails(s) PROVE TypeOK'
  <2>1. loops' \in [Stages -> Nat]
    BY <1>0, <1>11, OneLess DEF LoopFails, Stages
  <2>2. /\ paused' \in {paused, FALSE} /\ proposal' \in {proposal, Message}
        /\ status' \in {status, "asking_user"}
        /\ UNCHANGED <<start, engine, running, before, stopped, count, retryCount, jobs, madeVars,
                       items, viewVars, canceled, holds>>
    BY <1>11 DEF LoopFails, Ask
  <2>3. paused' \in BOOLEAN /\ status' \in Statuses /\ proposal' \in Proposals \cup {NoProposal, Message}
    BY <2>2 DEF TypeOK, Statuses
  <2> QED BY <2>1, <2>2, <2>3 DEF TypeOK
<1>12. ASSUME NEW i \in Proposals, Approve(i) PROVE TypeOK'
  <2>1. /\ [item |-> i, proposal |-> proposal, stage |-> "first"] \in Job
        /\ shown' \subseteq Proposals
    BY <1>12 DEF Approve, Accepts, Job, RenderNow
  <2>2. items' \in [Proposals -> ItemStates]
    BY <1>12 DEF TypeOK, Approve, ItemStates
  <2> QED BY <1>12, <2>1, <2>2 DEF TypeOK, Approve, RenderNow, Statuses
<1>13. ASSUME NEW i \in Proposals, ApproveFails(i) PROVE TypeOK'
  <2>1. items' \in [Proposals -> ItemStates] /\ shown' \subseteq Proposals
    BY <1>13 DEF TypeOK, ApproveFails, ItemStates, RenderNow
  <2> QED BY <1>13, <2>1 DEF TypeOK, ApproveFails, Ask, RenderNow, Statuses
<1>14. ASSUME NEW j \in jobs, ExecutionFails(j) \/ GivesUp(j) \/ Retry(j) PROVE TypeOK'
  <2>1. items' \in [Proposals -> ItemStates] /\ jobs' \subseteq Job
    BY <1>14 DEF TypeOK, ExecutionFails, GivesUp, Retry, JobEnds, ItemStates, Job
  <2> QED BY <1>14, <2>1 DEF TypeOK, ExecutionFails, GivesUp, Retry, Ask, Statuses
<1>15. ASSUME NEW j \in jobs, Executed(j) PROVE TypeOK'
  <2>1. items' \in [Proposals -> ItemStates] /\ jobs' \subseteq Job
    BY <1>15 DEF TypeOK, Executed, JobEnds, ItemStates
  <2>2. /\ loops' \in [Stages -> Nat] /\ status' \in {"asking_user", "capturing"}
        /\ proposal' \in {Message, NoProposal}
    BY <1>0, <1>15, Resumed DEF Executed, Ask
  <2> QED BY <1>15, <2>1, <2>2 DEF TypeOK, Executed, Statuses
<1>16. CASE Render
  <2>1. /\ items' \in [Proposals -> ItemStates] /\ loops' \in [Stages -> Nat]
        /\ status' \in Statuses /\ proposal' \in Proposals \cup {NoProposal, Message}
    <3>1. CASE status = "paused"
      <4>1. CancelPending(Pending, FALSE)
        BY <1>16, <3>1 DEF Render
      <4>2. items' \in [Proposals -> ItemStates]
        BY <4>1 DEF TypeOK, CancelPending, ItemStates
      <4> QED BY <4>1, <4>2, Canceled DEF TypeOK, Statuses
    <3>2. CASE status # "paused"
      BY <1>16, <3>2 DEF TypeOK, Render, ItemStates
    <3> QED BY <3>1, <3>2
  <2> QED BY <1>16, <2>1 DEF TypeOK, Render, RenderNow
<1>17. ASSUME NEW i \in Proposals, Deny(i) \/ Expire(i) PROVE TypeOK'
  <2>1. items' \in [Proposals -> ItemStates]
    BY <1>17 DEF TypeOK, Deny, Expire, ItemStates
  <2>2. /\ loops' \in [Stages -> Nat]
        /\ status' \in Statuses /\ proposal' \in Proposals \cup {NoProposal, Message}
    BY <1>17, Dismissed DEF TypeOK, Deny, Expire, Statuses
  <2>3. CASE Deny(i)
    BY <2>1, <2>2, <2>3 DEF TypeOK, Deny, RenderNow
  <2>4. CASE Expire(i)
    BY <2>1, <2>2, <2>4 DEF TypeOK, Expire
  <2> QED BY <1>17, <2>3, <2>4
<1>18. CASE ClearWorkspace \/ PreviewOff
  <2>1. PICK P \in SUBSET Pending, r \in BOOLEAN : CancelPending(P, r)
    BY <1>18 DEF ClearWorkspace, PreviewOff
  <2>2. items' \in [Proposals -> ItemStates]
    BY <2>1 DEF TypeOK, CancelPending, ItemStates
  <2>3. /\ loops' \in [Stages -> Nat]
        /\ status' \in Statuses /\ proposal' \in Proposals \cup {NoProposal, Message}
    BY <2>1, Canceled DEF TypeOK, Statuses
  <2>4. CASE ClearWorkspace
    BY <2>2, <2>3, <2>4 DEF TypeOK, ClearWorkspace
  <2>5. CASE PreviewOff
    BY <2>2, <2>3, <2>5, BoundAssumption DEF TypeOK, PreviewOff, Hold
  <2> QED BY <1>18, <2>4, <2>5
<1>19. ASSUME NEW stop \in BOOLEAN, UserResponse(stop) PROVE TypeOK'
  <2>1. /\ loops' \in [Stages -> Nat] /\ status' \in {"done", "capturing"}
        /\ proposal' \in {proposal, NoProposal} /\ running' \in {running, FALSE}
    BY <1>0, <1>19, Resumed DEF UserResponse
  <2> QED BY <1>19, <2>1 DEF TypeOK, UserResponse, RenderNow, Statuses
<1>20. CASE Pause
  BY <1>20, BoundAssumption DEF TypeOK, Pause, Hold, Statuses
<1>21. CASE Resume
  <2>1. loops' \in [Stages -> Nat] /\ status' \in {"capturing", before}
    BY <1>0, <1>21, Resumed DEF Resume
  <2>2. status' \in Statuses
    BY <2>1 DEF TypeOK, Statuses
  <2> QED BY <1>21, <2>1, <2>2 DEF TypeOK, Resume
<1>22. CASE CancelRun
  BY <1>22 DEF TypeOK, CancelRun, Stop, Statuses
<1>23. CASE StopAi
  <2>1. /\ items' \in [Proposals -> ItemStates] /\ loops' \in [Stages -> Nat]
        /\ status' \in Statuses /\ proposal' \in Proposals \cup {NoProposal, Message}
        /\ {running', paused', stopped'} \subseteq BOOLEAN
    <3>1. CASE engine = "present" /\ running
      BY <1>23, <3>1 DEF TypeOK, StopAi, Stop, ItemStates, Statuses
    <3>2. CASE ~(engine = "present" /\ running)
      <4>1. CancelPending(Pending, FALSE) /\ UNCHANGED <<running, paused, stopped>>
        BY <1>23, <3>2 DEF StopAi
      <4>2. items' \in [Proposals -> ItemStates]
        BY <4>1 DEF TypeOK, CancelPending, ItemStates
      <4> QED BY <4>1, <4>2, Canceled DEF TypeOK, Statuses
    <3> QED BY <3>1, <3>2
  <2> QED BY <1>23, <2>1 DEF TypeOK, StopAi, RenderNow
<1>24. CASE UNCHANGED vars
  BY <1>24 DEF TypeOK, vars
<1> QED
  BY <1>1, <1>2, <1>3, <1>4, <1>5, <1>6, <1>7, <1>8, <1>9, <1>10, <1>11, <1>12, <1>13, <1>14, <1>15,
     <1>16, <1>17, <1>18, <1>19, <1>20, <1>21, <1>22, <1>23, <1>24
  DEF Next, StartStep, LoopStep, JobStep

-----------------------------------------------------------------------------
(* Before the engine runs *)

LEMMA EarlyNext == TypeOK /\ Early /\ [Next]_vars => Early'
<1> SUFFICES ASSUME TypeOK, Early, [Next]_vars, start' # "started" PROVE Early'
  BY DEF Early
<1> USE DEF engineVars, workVars, madeVars, viewVars
<1>1. CASE start = "started"
  <2>1. UNCHANGED start
    BY <1>1 DEF Next, StartEngine, StartStep, CreateEngine, Started, ProviderMissing, LoopStep, Captured,
                Proposed, ProposedRead, ReadDone, Asked, Finished, LoopFails, JobStep, ExecutionFails,
                Retry, GivesUp, Executed, Render, Approve, ApproveFails, Deny, Expire, ClearWorkspace,
                PreviewOff, UserResponse, Pause, Resume, CancelRun, StopAi, vars
  <2> QED BY <1>1, <2>1
<1>2. CASE start # "started"
  <2>1. /\ ~running /\ ~stopped /\ proposal = NoProposal /\ status \in {"idle", "error"}
        /\ Looping = 0 /\ jobs = {}
        /\ \A p \in Proposals : items[p] = "none"
    BY <1>2 DEF Early
  <2>2. \A s \in Stages : ~(loops[s] > 0)
    BY <2>1, TotalIsLooping, TotalIsNat DEF TypeOK
  <2>3. ~(loops.capture > 0) /\ ~(loops.think > 0) /\ ~(loops.read > 0)
    BY <2>2 DEF Stages
  <2>4. Pending = {}
    BY <2>1 DEF Pending
  <2>5. ASSUME /\ UNCHANGED <<running, stopped, proposal, loops, jobs>> /\ status' \in {status, "error"}
               /\ \A p \in Proposals : items'[p] = "none"
        PROVE  Early'
    BY <2>1, <2>5 DEF Early, Looping
  <2>6. items = [p \in Proposals |-> items[p]]
    BY DEF TypeOK
  <2>7. CASE StartEngine \/ CreateEngine \/ ProviderMissing
    BY <2>1, <2>5, <2>7 DEF StartEngine, CreateEngine, ProviderMissing
  <2>8. CASE Started
    BY <2>8 DEF Started
  <2>9. CASE LoopStep
    BY <2>3, <2>9 DEF LoopStep, Captured, ThinkEnds, Proposed, ProposedRead, ReadDone, Asked, Finished,
                      LoopFails
  <2>10. CASE JobStep
    BY <2>1, <2>10 DEF JobStep
  <2>11. CASE Render
    BY <2>1, <2>5, <2>11 DEF Render
  <2>12. ASSUME NEW i \in Proposals, Approve(i) \/ ApproveFails(i) \/ Deny(i) \/ Expire(i) PROVE Early'
    <3>1. ApproveFails(i)
      BY <2>1, <2>12 DEF Approve, Accepts, Deny, Expire
    <3>2. /\ UNCHANGED <<running, stopped, proposal, loops, jobs, status>>
          /\ items' = [items EXCEPT ![i] = items[i]]
      BY <2>1, <3>1 DEF ApproveFails, Accepts, HasItem
    <3> QED BY <2>1, <2>5, <2>6, <3>2
  <2>13. CASE ClearWorkspace
    BY <2>4, <2>13 DEF ClearWorkspace
  <2>14. CASE PreviewOff
    BY <2>1, <2>4, <2>5, <2>14 DEF PreviewOff, CancelPending
  <2>15. ASSUME NEW stop \in BOOLEAN, UserResponse(stop) PROVE Early'
    BY <2>1, <2>15 DEF UserResponse
  <2>16. CASE Pause \/ Resume
    BY <2>1, <2>16 DEF Pause, Resume
  <2>17. CASE CancelRun
    BY <2>1, <2>5, <2>17 DEF CancelRun
  <2>18. CASE StopAi
    BY <2>1, <2>4, <2>5, <2>18 DEF StopAi, CancelPending
  <2>19. CASE UNCHANGED vars
    BY <2>1, <2>5, <2>19 DEF vars
  <2> QED BY <2>7, <2>8, <2>9, <2>10, <2>11, <2>12, <2>13, <2>14, <2>15, <2>16, <2>17, <2>18, <2>19
          DEF Next, StartStep
<1> QED BY <1>1, <1>2

-----------------------------------------------------------------------------
(* What the assistant says it does, it does. *)

LEMMA WorkNext == TypeOK /\ Early /\ Life /\ WorkIsReal /\ [Next]_vars => Life' /\ WorkIsReal'
<1> SUFFICES ASSUME TypeOK, Early, Life, WorkIsReal, [Next]_vars PROVE Life' /\ WorkIsReal'
  OBVIOUS
<1> USE DEF engineVars, workVars, madeVars, viewVars
<1>0. /\ loops \in [Stages -> Nat] /\ Looping \in Nat
      /\ running \in BOOLEAN /\ stopped \in BOOLEAN /\ paused \in BOOLEAN
  BY TotalIsLooping, TotalIsNat DEF TypeOK
<1>1. ASSUME UNCHANGED <<running, stopped, paused, loops>>,
             status' \notin {"capturing", "thinking"} \/ status' = status
      PROVE  Life' /\ WorkIsReal'
  BY <1>1 DEF Life, WorkIsReal, Looping
<1>2. ASSUME UNCHANGED <<running, stopped>>, loops' \in [Stages -> Nat],
             \/ paused'
             \/ status' \notin {"capturing", "thinking"}
             \/ running /\ ~stopped /\ ~paused' => Total(loops') > 0
      PROVE  Life' /\ WorkIsReal'
  BY <1>2, TotalIsLooping DEF Life, WorkIsReal
<1>3. ASSUME running' = FALSE, UNCHANGED stopped \/ stopped' PROVE Life' /\ WorkIsReal'
  BY <1>3 DEF Life, WorkIsReal
<1>4. ASSUME NEW L \in [Stages -> Nat], ResumeLoop(L, paused), UNCHANGED <<running, stopped, paused>>
      PROVE  Life' /\ WorkIsReal'
  <2>1. /\ loops' \in [Stages -> Nat]
        /\ running /\ ~stopped /\ ~paused => Total(loops') = Total(L) + 1
    BY <1>4, Resumed
  <2>2. Total(L) \in Nat
    BY TotalIsNat
  <2>3. running /\ ~stopped /\ ~paused' => Total(loops') > 0
    BY <1>4, <2>1, <2>2
  <2> QED BY <1>2, <1>4, <2>1, <2>3
<1>5. ASSUME NEW r \in BOOLEAN, Dismiss(r), UNCHANGED <<running, stopped, paused>>
      PROVE  Life' /\ WorkIsReal'
  <2>1. CASE UNCHANGED <<proposal, status, loops>>
    BY <1>1, <1>5, <2>1
  <2>2. CASE UNCHANGED loops /\ status' = IF paused THEN "paused" ELSE status
    BY <1>1, <1>5, <2>2
  <2>3. CASE ResumeLoop(loops, paused)
    BY <1>0, <1>4, <1>5, <2>3
  <2> QED BY <1>5, <2>1, <2>2, <2>3 DEF Dismiss
<1>6. ASSUME NEW P, NEW r \in BOOLEAN, CancelPending(P, r), UNCHANGED <<running, stopped, paused>>
      PROVE  Life' /\ WorkIsReal'
  <2>1. CASE UNCHANGED <<proposal, status, loops>>
    BY <1>1, <1>6, <2>1
  <2>2. CASE Dismiss(r)
    BY <1>5, <1>6, <2>2
  <2> QED BY <1>6, <2>1, <2>2 DEF CancelPending
<1>10. CASE StartEngine \/ CreateEngine \/ ProviderMissing
  BY <1>1, <1>10 DEF StartEngine, CreateEngine, ProviderMissing
<1>11. CASE Started
  <2>1. ~stopped /\ UNCHANGED stopped /\ Looping' = Looping + 1
    BY <1>0, <1>11, OneMore, TotalIsLooping DEF Started, Early
  <2> QED BY <1>0, <2>1 DEF Life, WorkIsReal
<1>12. CASE Captured
  <2>1. CASE paused
    <3>1. loops' \in [Stages -> Nat]
      BY <1>0, <1>12, <2>1, OneLess DEF Captured, Stages
    <3> QED BY <1>2, <1>12, <2>1, <3>1 DEF Captured
  <2>2. CASE ~paused
    <3>1. loops' = [loops EXCEPT !["capture"] = @ - 1, !["think"] = @ + 1] /\ loops["capture"] > 0
      BY <1>12, <2>2 DEF Captured
    <3>2. loops' \in [Stages -> Nat] /\ Total(loops') = Total(loops)
      BY <1>0, <3>1, OneMoves DEF Stages
    <3>3. Total(loops) > 0
      BY <1>0, <3>1, TotalIsNat DEF Stages
    <3> QED BY <1>2, <1>12, <3>2, <3>3 DEF Captured
  <2> QED BY <1>0, <2>1, <2>2
<1>13. CASE Proposed \/ Asked
  <2>1. loops' \in [Stages -> Nat]
    BY <1>0, <1>13, OneLess DEF Proposed, Asked, ThinkEnds, Stages
  <2> QED BY <1>2, <1>13, <2>1 DEF Proposed, Asked, Ask
<1>14. CASE ProposedRead
  <2>1. /\ loops' = [loops EXCEPT !["think"] = @ - 1, !["read"] = @ + 1] /\ loops["think"] > 0
        /\ UNCHANGED <<running, stopped>>
    BY <1>14 DEF ProposedRead, ThinkEnds
  <2>2. loops' \in [Stages -> Nat] /\ Total(loops') = Total(loops)
    BY <1>0, <2>1, OneMoves DEF Stages
  <2>3. Total(loops) > 0
    BY <1>0, <2>1, TotalIsNat DEF Stages
  <2> QED BY <1>2, <2>1, <2>2, <2>3
<1>15. CASE ReadDone
  <2>1. [loops EXCEPT !.read = @ - 1] \in [Stages -> Nat]
    BY <1>0, <1>15, OneLess DEF ReadDone, Stages
  <2> QED BY <1>4, <1>15, <2>1 DEF ReadDone
<1>16. CASE Finished
  BY <1>3, <1>16 DEF Finished
<1>17. ASSUME NEW s \in {"capture", "think"}, LoopFails(s) PROVE Life' /\ WorkIsReal'
  <2>1. loops' \in [Stages -> Nat]
    BY <1>0, <1>17, OneLess DEF LoopFails, Stages
  <2> QED BY <1>2, <1>17, <2>1 DEF LoopFails, Ask
<1>18. ASSUME NEW i \in Proposals, Approve(i) \/ ApproveFails(i) PROVE Life' /\ WorkIsReal'
  BY <1>1, <1>18 DEF Approve, ApproveFails, Ask
<1>19. ASSUME NEW i \in Proposals, Deny(i) \/ Expire(i) PROVE Life' /\ WorkIsReal'
  BY <1>5, <1>19 DEF Deny, Expire
<1>20. ASSUME NEW j \in jobs, ExecutionFails(j) \/ GivesUp(j) \/ Retry(j) PROVE Life' /\ WorkIsReal'
  BY <1>1, <1>20 DEF ExecutionFails, GivesUp, Retry, Ask
<1>21. ASSUME NEW j \in jobs, Executed(j) PROVE Life' /\ WorkIsReal'
  <2>1. UNCHANGED <<running, stopped, paused>>
    BY <1>21 DEF Executed
  <2>2. \/ Ask /\ UNCHANGED loops
        \/ ResumeLoop(loops, paused)
    BY <1>21 DEF Executed
  <2>3. CASE Ask /\ UNCHANGED loops
    BY <1>1, <2>1, <2>3 DEF Ask
  <2>4. CASE ResumeLoop(loops, paused)
    BY <1>0, <1>4, <2>1, <2>4
  <2> QED BY <2>2, <2>3, <2>4
<1>22. CASE Render
  <2>1. CASE status = "paused"
    BY <1>6, <1>22, <2>1 DEF Render
  <2>2. CASE status # "paused"
    BY <1>1, <1>22, <2>2 DEF Render
  <2> QED BY <2>1, <2>2
<1>23. CASE ClearWorkspace \/ PreviewOff
  BY <1>6, <1>23 DEF ClearWorkspace, PreviewOff
<1>24. ASSUME NEW stop \in BOOLEAN, UserResponse(stop) PROVE Life' /\ WorkIsReal'
  <2>1. CASE stop
    BY <1>3, <1>24, <2>1 DEF UserResponse
  <2>2. CASE ~stop
    BY <1>0, <1>4, <1>24, <2>2 DEF UserResponse
  <2> QED BY <2>1, <2>2
<1>25. CASE Pause
  BY <1>0, <1>2, <1>25 DEF Pause
<1>26. CASE Resume
  <2>1. UNCHANGED <<running, stopped>> /\ paused' = FALSE
    BY <1>26 DEF Resume
  <2>2. CASE before \in {"capturing", "thinking"}
    <3>1. /\ loops' \in [Stages -> Nat]
          /\ running /\ ~stopped => Total(loops') = Total(loops) + 1
      BY <1>0, <1>26, <2>2, Resumed DEF Resume
    <3> QED BY <1>0, <1>2, <2>1, <3>1, TotalIsLooping
  <2>3. CASE before \notin {"capturing", "thinking"}
    BY <1>0, <1>2, <1>26, <2>1, <2>3 DEF Resume
  <2> QED BY <2>2, <2>3
<1>27. CASE CancelRun
  <2>1. CASE engine = "present" /\ running
    BY <1>3, <1>27, <2>1 DEF CancelRun, Stop
  <2>2. CASE ~(engine = "present" /\ running)
    BY <1>1, <1>27, <2>2 DEF CancelRun
  <2> QED BY <2>1, <2>2
<1>28. CASE StopAi
  <2>1. CASE engine = "present" /\ running
    BY <1>3, <1>28, <2>1 DEF StopAi, Stop
  <2>2. CASE ~(engine = "present" /\ running)
    BY <1>6, <1>28, <2>2 DEF StopAi
  <2> QED BY <2>1, <2>2
<1>29. CASE UNCHANGED vars
  BY <1>1, <1>29 DEF vars
<1> QED
  BY <1>10, <1>11, <1>12, <1>13, <1>14, <1>15, <1>16, <1>17, <1>18, <1>19, <1>20, <1>21, <1>22, <1>23,
     <1>24, <1>25, <1>26, <1>27, <1>28, <1>29
  DEF Next, StartStep, LoopStep, JobStep

-----------------------------------------------------------------------------
(* What can be approved, and the jobs *)

LEMMA FreshNext == TypeOK /\ Early /\ Fresh /\ [Next]_vars => Fresh'
<1> SUFFICES ASSUME TypeOK, Early, Fresh, [Next]_vars PROVE Fresh'
  OBVIOUS
<1> USE DEF engineVars, workVars, madeVars, viewVars
<1>0. Message \notin Proposals /\ NoProposal \notin Proposals
  BY ProposalTypes
<1>1. ASSUME RenderNow PROVE Fresh'
  BY <1>1 DEF RenderNow, Fresh, Pending
<1>2. ASSUME UNCHANGED <<items, shown>>, engine' \in {engine, "dropped"},
             proposal' \in {proposal, NoProposal, Message}
      PROVE  Fresh'
  BY <1>0, <1>2 DEF Fresh, Pending
<1>3. ASSUME UNCHANGED <<items, shown>>, Rendered PROVE Fresh'
  BY <1>3 DEF Rendered, Fresh, Pending
<1>4. ASSUME UNCHANGED shown, \A p \in Proposals : items'[p] = "executing" => items[p] = "executing",
             engine' # "present" \/ proposal' \notin Proposals
      PROVE  Fresh'
  <2>1. shown \subseteq Proposals
    BY DEF TypeOK
  <2> QED BY <1>4, <2>1 DEF Fresh
<1>5. ASSUME NEW j \in jobs, NEW state \in {"executed", "failed"}, JobEnds(j, state),
             UNCHANGED <<shown, engine>>,
             proposal' \in {proposal, NoProposal, Message}
      PROVE  Fresh'
  <2>1. items' = [items EXCEPT ![j.item] = IF @ = "executing" THEN state ELSE @]
    BY <1>5 DEF JobEnds
  <2>2. \A p \in Proposals : /\ items'[p] = "executing" => items[p] = "executing"
                             /\ items[p] = "pending" => items'[p] = "pending"
    BY <2>1 DEF TypeOK
  <2>3. shown \subseteq Proposals
    BY DEF TypeOK
  <2> QED BY <1>0, <1>5, <2>2, <2>3 DEF Fresh, Pending
<1>6. ASSUME NEW P \in SUBSET Pending, NEW r \in BOOLEAN, CancelPending(P, r), UNCHANGED <<shown, engine>>
      PROVE  Fresh'
  <2>1. \A p \in Proposals : items'[p] = "executing" => items[p] = "executing"
    BY <1>6, Canceled
  <2>2. CASE P = {}
    <3>1. items' = items /\ UNCHANGED proposal
      BY <1>6, <2>2 DEF CancelPending, TypeOK
    <3> QED BY <1>2, <1>6, <3>1
  <2>3. CASE P # {}
    BY <1>0, <1>4, <1>6, <2>1, <2>3, Canceled
  <2> QED BY <2>2, <2>3
<1>10. CASE StartEngine \/ Started \/ ProviderMissing
  BY <1>2, <1>10 DEF StartEngine, Started, ProviderMissing
<1>11. CASE CreateEngine
  BY <1>0, <1>11 DEF CreateEngine, Early, Fresh
<1>12. CASE Captured \/ ReadDone \/ Asked \/ Finished \/ \E s \in {"capture", "think"} : LoopFails(s)
  BY <1>2, <1>12 DEF Captured, ReadDone, Asked, Finished, LoopFails, Ask
<1>13. CASE Proposed \/ ProposedRead
  BY <1>3, <1>13 DEF Proposed, ProposedRead, ThinkEnds
<1>14. ASSUME NEW i \in Proposals, Approve(i) \/ ApproveFails(i) \/ Deny(i) PROVE Fresh'
  BY <1>1, <1>14 DEF Approve, ApproveFails, Deny
<1>15. ASSUME NEW i \in Proposals, Expire(i) PROVE Fresh'
  <2>1. /\ items' = [items EXCEPT ![i] = "expired"] /\ UNCHANGED <<shown, engine>> /\ Dismiss(TRUE)
    BY <1>15 DEF Expire
  <2>2. \A p \in Proposals : items'[p] = "executing" => items[p] = "executing"
    BY <2>1 DEF TypeOK
  <2> QED BY <1>0, <1>4, <2>1, <2>2, Dismissed
<1>16. ASSUME NEW j \in jobs, Retry(j) PROVE Fresh'
  BY <1>2, <1>16 DEF Retry
<1>17. ASSUME NEW j \in jobs, ExecutionFails(j) \/ GivesUp(j) \/ Executed(j) PROVE Fresh'
  BY <1>5, <1>17 DEF ExecutionFails, GivesUp, Executed, Ask
<1>18. CASE Render
  BY <1>1, <1>18 DEF Render
<1>19. CASE ClearWorkspace \/ PreviewOff
  <2>1. PICK P \in SUBSET Pending, r \in BOOLEAN : CancelPending(P, r)
    BY <1>19 DEF ClearWorkspace, PreviewOff
  <2>2. UNCHANGED <<shown, engine>>
    BY <1>19 DEF ClearWorkspace, PreviewOff
  <2> QED BY <1>6, <2>1, <2>2
<1>20. CASE \E stop \in BOOLEAN : UserResponse(stop)
  BY <1>1, <1>20 DEF UserResponse
<1>21. CASE Pause \/ Resume
  BY <1>2, <1>21 DEF Pause, Resume
<1>22. CASE CancelRun
  BY <1>2, <1>22 DEF CancelRun, Stop
<1>23. CASE StopAi
  BY <1>1, <1>23 DEF StopAi
<1>24. CASE UNCHANGED vars
  BY <1>2, <1>24 DEF vars
<1> QED
  BY <1>10, <1>11, <1>12, <1>13, <1>14, <1>15, <1>16, <1>17, <1>18, <1>19, <1>20, <1>21, <1>22, <1>23, <1>24
  DEF Next, StartStep, LoopStep, JobStep

(* The steps that keep the jobs, and the items they execute *)
LEMMA JobsKept ==
  TypeOK /\ Fresh /\ [Next]_vars =>
    \/ UNCHANGED jobs /\ \A p \in Proposals : items[p] = "executing" => items'[p] = "executing"
    \/ \E i \in Proposals : Approve(i)
    \/ JobStep
<1> SUFFICES ASSUME TypeOK, Fresh, [Next]_vars, ~JobStep, ~\E i \in Proposals : Approve(i)
             PROVE  UNCHANGED jobs /\ \A p \in Proposals : items[p] = "executing" => items'[p] = "executing"
  OBVIOUS
<1> USE DEF engineVars, workVars, madeVars, viewVars
<1>1. CASE UNCHANGED <<jobs, items>>
  BY <1>1
<1>2. ASSUME NEW i \in Proposals, ApproveFails(i) \/ Deny(i) \/ Expire(i)
      PROVE  UNCHANGED jobs /\ \A p \in Proposals : items[p] = "executing" => items'[p] = "executing"
  BY <1>2 DEF ApproveFails, Deny, Expire, Clicked, Fresh, TypeOK
<1>3. ASSUME NEW P \in SUBSET Pending, UNCHANGED jobs,
             items' = [p \in Proposals |-> IF p \in P THEN "canceled" ELSE items[p]]
      PROVE  \A p \in Proposals : items[p] = "executing" => items'[p] = "executing"
  BY <1>3 DEF Pending
<1>4. CASE Render
  <2>1. UNCHANGED jobs
    BY <1>4 DEF Render
  <2>2. CASE status = "paused"
    BY <1>3, <1>4, <2>1, <2>2 DEF Render, CancelPending
  <2>3. CASE status # "paused"
    BY <1>4, <2>1, <2>3 DEF Render, HasItem
  <2> QED BY <2>1, <2>2, <2>3
<1>5. CASE ClearWorkspace
  BY <1>3, <1>5 DEF ClearWorkspace, CancelPending
<1>6. CASE PreviewOff
  BY <1>3, <1>6 DEF PreviewOff, CancelPending
<1>7. CASE StopAi
  BY <1>3, <1>7 DEF StopAi, CancelPending
<1>8. CASE StartEngine \/ StartStep \/ LoopStep
  BY <1>1, <1>8 DEF StartEngine, StartStep, CreateEngine, Started, ProviderMissing, LoopStep, Captured,
                    Proposed, ProposedRead, ReadDone, Asked, Finished, LoopFails
<1>9. CASE (\E stop \in BOOLEAN : UserResponse(stop)) \/ Pause \/ Resume \/ CancelRun \/ UNCHANGED vars
  BY <1>1, <1>9 DEF UserResponse, Pause, Resume, CancelRun, vars
<1> QED BY <1>2, <1>4, <1>5, <1>6, <1>7, <1>8, <1>9 DEF Next

LEMMA JobsNext == TypeOK /\ Fresh /\ Jobs /\ [Next]_vars => Jobs'
<1> SUFFICES ASSUME TypeOK, Fresh, Jobs, [Next]_vars PROVE Jobs'
  OBVIOUS
<1>0. jobs \subseteq Job /\ \A j \in jobs : j.item \in Proposals
  BY DEF TypeOK, Job
<1>1. CASE UNCHANGED jobs /\ \A p \in Proposals : items[p] = "executing" => items'[p] = "executing"
  BY <1>0, <1>1 DEF Jobs
<1>2. ASSUME NEW i \in Proposals, Approve(i) PROVE Jobs'
  <2>1. items[i] = "pending"
    BY <1>2 DEF Approve, Clicked, Accepts, Fresh, Pending
  <2>2. /\ items' = [items EXCEPT ![i] = "executing"]
        /\ jobs' = jobs \cup {[item |-> i, proposal |-> proposal, stage |-> "first"]}
    BY <1>2, <2>1 DEF Approve
  <2>3. items'[i] = "executing" /\ \A p \in Proposals : items[p] = "executing" => items'[p] = "executing"
    BY <2>2 DEF TypeOK
  <2>4. \A j \in jobs : j.item # i
    BY <2>1 DEF Jobs
  <2> QED BY <1>0, <2>2, <2>3, <2>4 DEF Jobs
<1>3. ASSUME NEW j \in jobs, NEW state, JobEnds(j, state) PROVE Jobs'
  <2>1. jobs' = jobs \ {j} /\ \A p \in Proposals : p # j.item => items'[p] = items[p]
    BY <1>0, <1>3 DEF JobEnds, TypeOK
  <2> QED BY <1>0, <2>1 DEF Jobs
<1>4. ASSUME NEW j \in jobs, Retry(j) PROVE Jobs'
  <2>1. UNCHANGED items /\ jobs' = (jobs \ {j}) \cup {[j EXCEPT !.stage = "again"]}
    BY <1>4 DEF Retry
  <2>2. [j EXCEPT !.stage = "again"].item = j.item
    BY <1>0 DEF Job
  <2>3. \A l \in jobs' : \E m \in jobs : m.item = l.item
    BY <2>1, <2>2
  <2>4. \A l \in jobs' : items'[l.item] = "executing"
    BY <2>1, <2>3 DEF Jobs
  <2>5. \A l, m \in jobs' : l.item = m.item => l = m
    <3>1. \A l \in jobs' : \/ l \in jobs /\ l # j
                          \/ l = [j EXCEPT !.stage = "again"]
      BY <2>1
    <3> QED BY <2>2, <3>1 DEF Jobs
  <2> QED BY <2>4, <2>5 DEF Jobs
<1>5. CASE JobStep
  BY <1>3, <1>4, <1>5 DEF JobStep, ExecutionFails, GivesUp, Executed
<1> QED BY <1>1, <1>2, <1>5, JobsKept

LEMMA HoldsGrow == TypeOK /\ [Next]_vars /\ holds' = 0 => holds = 0 /\ ~Pause /\ ~PreviewOff
<1> SUFFICES ASSUME TypeOK, [Next]_vars, holds' = 0 PROVE holds = 0 /\ ~Pause /\ ~PreviewOff
  OBVIOUS
<1>1. holds \in Nat
  BY BoundAssumption DEF TypeOK
<1>2. ~Hold
  BY <1>1 DEF Hold
<1>3. ~Pause /\ ~PreviewOff
  BY <1>2 DEF Pause, PreviewOff
<1>4. UNCHANGED holds
  BY <1>3 DEF Next, StartEngine, StartStep, CreateEngine, Started, ProviderMissing, LoopStep, Captured,
              Proposed, ProposedRead, ReadDone, Asked, Finished, LoopFails, JobStep, ExecutionFails,
              Retry, GivesUp, Executed, Render, Approve, ApproveFails, Deny, Expire, ClearWorkspace,
              UserResponse, Resume, CancelRun, StopAi, vars
<1> QED BY <1>3, <1>4

LEMMA AsApprovedNext == TypeOK /\ Fresh /\ Calm /\ AsApproved /\ [Next]_vars => AsApproved'
<1> SUFFICES ASSUME TypeOK, Fresh, Calm, AsApproved, [Next]_vars, holds' = 0
             PROVE  \A j \in jobs' : j.item = j.proposal
  BY DEF AsApproved
<1>0. /\ \A j \in jobs : j.item = j.proposal /\ jobs \subseteq Job
      /\ proposal \in Proposals => Pending \subseteq {proposal}
  BY HoldsGrow DEF AsApproved, Calm, Quiet, InLoop, InJob, TypeOK
<1>1. ASSUME NEW i \in Proposals, Approve(i) PROVE \A j \in jobs' : j.item = j.proposal
  <2>1. i = proposal
    BY <1>0, <1>1 DEF Approve, Clicked, Accepts, Fresh
  <2>2. jobs' = jobs \cup {[item |-> i, proposal |-> proposal, stage |-> "first"]}
    BY <1>1 DEF Approve
  <2> QED BY <1>0, <2>1, <2>2
<1>2. CASE JobStep
  <2>1. PICK j \in jobs : \/ jobs' = jobs \ {j}
                          \/ jobs' = (jobs \ {j}) \cup {[j EXCEPT !.stage = "again"]}
    BY <1>2 DEF JobStep, ExecutionFails, Retry, GivesUp, Executed, JobEnds
  <2>2. [j EXCEPT !.stage = "again"].item = j.item /\ [j EXCEPT !.stage = "again"].proposal = j.proposal
    BY <1>0 DEF Job
  <2> QED BY <1>0, <2>1, <2>2
<1>3. CASE UNCHANGED jobs
  BY <1>0, <1>3
<1> QED BY <1>1, <1>2, <1>3, JobsKept

-----------------------------------------------------------------------------
(* One thing at a time, while the assistant is not held up *)

LEMMA CalmNext == TypeOK /\ Early /\ Fresh /\ Calm /\ [Next]_vars => Calm'
<1> SUFFICES ASSUME TypeOK, Early, Fresh, Calm, [Next]_vars, TypeOK', holds' = 0
             PROVE  ~paused' /\ status' # "paused" /\ (Quiet \/ InLoop \/ InJob)'
  BY TypesNext DEF Calm
<1> USE DEF engineVars, workVars, madeVars, viewVars
<1>0. /\ ~paused /\ status # "paused" /\ (Quiet \/ InLoop \/ InJob)
      /\ ~Pause /\ ~PreviewOff /\ loops \in [Stages -> Nat]
  BY HoldsGrow DEF Calm, TypeOK
<1>1. /\ \A s \in Stages : loops[s] > 0 => InLoop
      /\ Pending # {} => Quiet
      /\ status \in {"asking_user", "awaiting_approval"} => Quiet
      /\ jobs # {} => InJob
  BY <1>0, TotalIsLooping, TotalIsNat DEF Quiet, InLoop, InJob
<1>2. NoProposal \notin Proposals /\ Message \notin Proposals
  BY ProposalTypes
(* The steps of no loop and no job *)
<1>3. ASSUME UNCHANGED <<loops, jobs>>, ~paused', Pending' \subseteq Pending,
             \/ UNCHANGED <<proposal, status>>
             \/ proposal' \notin Proposals /\ status' = "idle"
             \/ proposal' \notin Proposals /\ UNCHANGED status
      PROVE  ~paused' /\ status' # "paused" /\ (Quiet \/ InLoop \/ InJob)'
  <2>1. Looping' = Looping
    BY <1>3 DEF Looping
  <2>2. CASE Quiet
    BY <1>0, <1>3, <2>1, <2>2 DEF Quiet
  <2>3. CASE InLoop
    BY <1>0, <1>3, <2>1, <2>3 DEF InLoop
  <2>4. CASE InJob
    BY <1>0, <1>3, <2>1, <2>4 DEF InJob
  <2> QED BY <1>0, <2>2, <2>3, <2>4
(* The steps after which nothing waits for approval, and no job is left *)
<1>4. ASSUME ~paused', jobs' = {}, Pending' = {},
             \/ status' \in {"capturing", "thinking"} /\ Looping' \in {0, 1}
             \/ status' # "paused" /\ Looping' = 0
      PROVE  ~paused' /\ status' # "paused" /\ (Quiet \/ InLoop \/ InJob)'
  BY <1>4 DEF Quiet, InLoop
<1>5. ASSUME NEW L \in [Stages -> Nat], Total(L) = 0, ResumeLoop(L, paused)
      PROVE  status' = "capturing" /\ Looping' \in {0, 1}
  BY <1>5, Resumed, TotalIsLooping
<1>6. ASSUME UNCHANGED items PROVE Pending' = Pending
  BY <1>6 DEF Pending
<1>10. CASE StartEngine \/ CreateEngine \/ UNCHANGED vars
  BY <1>0, <1>3, <1>6, <1>10 DEF StartEngine, CreateEngine, vars
<1>11. CASE ProviderMissing \/ Started
  <2>1. Looping = 0 /\ jobs = {} /\ Pending = {}
    BY <1>11 DEF ProviderMissing, Started, Early, Pending
  <2>2. Pending' = {} /\ jobs' = {}
    BY <1>6, <1>11, <2>1 DEF ProviderMissing, Started
  <2>3. CASE ProviderMissing
    BY <1>0, <1>4, <2>1, <2>2, <2>3 DEF ProviderMissing, Looping
  <2>4. CASE Started
    <3>1. Looping' = 1
      BY <1>0, <2>1, <2>4, OneMore, TotalIsLooping DEF Started
    <3> QED BY <1>4, <2>2, <2>4, <3>1 DEF Started
  <2> QED BY <1>11, <2>3, <2>4
<1>12. CASE Captured
  <2>1. loops["capture"] > 0 /\ loops' = [loops EXCEPT !["capture"] = @ - 1, !["think"] = @ + 1]
    BY <1>0, <1>12 DEF Captured
  <2>2. InLoop /\ Looping' = Looping
    BY <1>0, <1>1, <2>1, OneMoves, TotalIsLooping DEF Stages
  <2> QED BY <1>0, <1>4, <1>6, <1>12, <2>2 DEF Captured, InLoop
<1>13. CASE ProposedRead
  <2>1. loops["think"] > 0 /\ loops' = [loops EXCEPT !["think"] = @ - 1, !["read"] = @ + 1]
    BY <1>13 DEF ProposedRead, ThinkEnds
  <2>2. InLoop /\ Looping' = Looping
    BY <1>0, <1>1, <2>1, OneMoves, TotalIsLooping DEF Stages
  <2>3. UNCHANGED <<items, jobs, status, paused>>
    BY <1>13 DEF ProposedRead
  <2> QED BY <1>0, <1>6, <2>2, <2>3 DEF InLoop
<1>14. CASE Proposed \/ Asked \/ Finished
  <2>1. loops["think"] > 0 /\ loops' = [loops EXCEPT !["think"] = @ - 1]
    BY <1>14 DEF Proposed, Asked, Finished, ThinkEnds
  <2>2. InLoop /\ Looping' = Looping - 1
    BY <1>0, <1>1, <2>1, OneLess, TotalIsLooping DEF Stages
  <2>3. UNCHANGED <<items, jobs, paused>> /\ status' \in {"awaiting_approval", "asking_user", "done"}
    BY <1>14 DEF Proposed, Asked, Ask, Finished
  <2> QED BY <1>0, <1>4, <1>6, <2>2, <2>3 DEF InLoop
<1>15. CASE ReadDone
  <2>1. /\ loops["read"] > 0 /\ ResumeLoop([loops EXCEPT !["read"] = @ - 1], paused)
        /\ UNCHANGED <<items, jobs, paused>>
    BY <1>15 DEF ReadDone
  <2>2. /\ InLoop /\ Total([loops EXCEPT !["read"] = @ - 1]) = Looping - 1
        /\ [loops EXCEPT !["read"] = @ - 1] \in [Stages -> Nat]
    BY <1>0, <1>1, <2>1, OneLess, TotalIsLooping DEF Stages
  <2>3. jobs' = {} /\ Pending' = {} /\ Looping = 1
    BY <1>6, <2>1, <2>2 DEF InLoop
  <2>4. status' = "capturing" /\ Looping' \in {0, 1}
    <3>1. PICK L \in [Stages -> Nat] : ResumeLoop(L, paused) /\ Total(L) = Looping - 1
      BY <2>1, <2>2
    <3>2. Total(L) = 0
      BY <2>3, <3>1
    <3> QED BY <1>5, <3>1, <3>2
  <2> QED BY <1>0, <1>4, <2>1, <2>3, <2>4
<1>16. ASSUME NEW s \in {"capture", "think"}, LoopFails(s)
       PROVE  ~paused' /\ status' # "paused" /\ (Quiet \/ InLoop \/ InJob)'
  <2>1. InLoop /\ Looping' = Looping - 1
    BY <1>0, <1>1, <1>16, OneLess, TotalIsLooping DEF LoopFails, Stages
  <2>2. UNCHANGED <<items, jobs>> /\ ~paused' /\ status' \in {status, "asking_user"}
    BY <1>0, <1>16 DEF LoopFails, Ask
  <2> QED BY <1>0, <1>4, <1>6, <2>1, <2>2 DEF InLoop
<1>17. ASSUME NEW i \in Proposals, Approve(i)
       PROVE  ~paused' /\ status' # "paused" /\ (Quiet \/ InLoop \/ InJob)'
  <2>1. Quiet /\ i = proposal /\ Pending \subseteq {i}
    BY <1>1, <1>17 DEF Approve, Clicked, Accepts, Fresh, Quiet
  <2>2. Pending' = {}
    BY <1>17, <2>1 DEF Approve, Pending, TypeOK
  <2>3. /\ jobs' = {[item |-> i, proposal |-> proposal, stage |-> "first"]}
        /\ Looping' = 0 /\ ~paused' /\ status' = "executing"
    BY <1>0, <1>17, <2>1 DEF Approve, Quiet, Looping
  <2> QED BY <2>2, <2>3 DEF InJob
<1>18. ASSUME NEW i \in Proposals, ApproveFails(i)
       PROVE  ~paused' /\ status' # "paused" /\ (Quiet \/ InLoop \/ InJob)'
  <2>1. UNCHANGED <<loops, jobs, paused>> /\ items' = [items EXCEPT ![i] = IF HasItem(i) THEN "failed" ELSE @]
    BY <1>18 DEF ApproveFails
  <2>2. Pending' \subseteq Pending \ {i}
    BY <2>1 DEF Pending, HasItem, TypeOK
  <2>3. CASE UNCHANGED <<proposal, status>>
    BY <1>0, <1>3, <2>1, <2>2, <2>3
  <2>4. CASE Accepts(i) /\ Ask
    <3>1. Quiet /\ Pending \subseteq {i}
      BY <1>1, <1>18, <2>4 DEF ApproveFails, Clicked, Accepts, Fresh, Quiet
    <3> QED BY <1>0, <1>4, <2>1, <2>2, <2>4, <3>1 DEF Quiet, Ask, Looping
  <2> QED BY <1>18, <2>3, <2>4 DEF ApproveFails
(* An item that was denied, that expired or that was canceled *)
<1>19. ASSUME NEW P \in SUBSET Pending, P # {}, Pending' = Pending \ P, UNCHANGED <<jobs, paused>>,
              \/ UNCHANGED <<proposal, status, loops>>
              \/ /\ proposal \in Proposals /\ proposal' = NoProposal
                 /\ status' = "capturing" /\ Looping' \in {Looping, Looping + 1}
       PROVE  ~paused' /\ status' # "paused" /\ (Quiet \/ InLoop \/ InJob)'
  <2>1. Quiet
    BY <1>1, <1>19
  <2>2. CASE UNCHANGED <<proposal, status, loops>>
    BY <1>0, <1>3, <1>19, <2>2
  <2>3. CASE /\ proposal \in Proposals /\ proposal' = NoProposal
             /\ status' = "capturing" /\ Looping' \in {Looping, Looping + 1}
    <3>1. Pending' = {}
      BY <1>19, <2>1, <2>3 DEF Quiet
    <3> QED BY <1>0, <1>4, <1>19, <2>1, <2>3, <3>1 DEF Quiet
  <2> QED BY <1>19, <2>2, <2>3
<1>20. ASSUME NEW i \in Proposals, Deny(i) \/ Expire(i)
       PROVE  ~paused' /\ status' # "paused" /\ (Quiet \/ InLoop \/ InJob)'
  <2>1. /\ i \in Pending /\ UNCHANGED <<jobs, paused>> /\ Dismiss(TRUE)
        /\ items' \in {[items EXCEPT ![i] = "denied"], [items EXCEPT ![i] = "expired"]}
    BY <1>20 DEF Deny, Expire, Pending
  <2>2. Pending' = Pending \ {i}
    BY <2>1 DEF Pending, TypeOK
  <2>3. \/ UNCHANGED <<proposal, status, loops>>
        \/ /\ proposal \in Proposals /\ proposal' = NoProposal
           /\ status' = "capturing" /\ Looping' \in {Looping, Looping + 1}
    BY <2>1, Dismissed
  <2>4. {i} \in SUBSET Pending /\ {i} # {}
    BY <2>1
  <2> QED BY <1>19, <2>1, <2>2, <2>3, <2>4
<1>21. CASE ClearWorkspace
  <2>1. PICK P \in SUBSET Pending : P # {} /\ CancelPending(P, TRUE)
    BY <1>21 DEF ClearWorkspace
  <2>2. /\ Pending' = Pending \ P
        /\ \/ UNCHANGED <<proposal, status, loops>>
           \/ /\ proposal \in Proposals /\ proposal' = NoProposal
              /\ status' = "capturing" /\ Looping' \in {Looping, Looping + 1}
    BY <2>1, Canceled
  <2> QED BY <1>19, <1>21, <2>1, <2>2 DEF ClearWorkspace
<1>22. ASSUME NEW j \in jobs, Retry(j)
       PROVE  ~paused' /\ status' # "paused" /\ (Quiet \/ InLoop \/ InJob)'
  <2>1. /\ InJob /\ UNCHANGED <<items, loops, status, paused>>
        /\ jobs' = (jobs \ {j}) \cup {[j EXCEPT !.stage = "again"]}
    BY <1>1, <1>22 DEF Retry
  <2> QED BY <1>0, <1>6, <2>1 DEF InJob, Looping
<1>23. ASSUME NEW j \in jobs, ExecutionFails(j) \/ GivesUp(j) \/ Executed(j)
       PROVE  ~paused' /\ status' # "paused" /\ (Quiet \/ InLoop \/ InJob)'
  <2>1. PICK state \in {"executed", "failed"} : JobEnds(j, state)
    BY <1>23 DEF ExecutionFails, GivesUp, Executed
  <2>2. InJob /\ jobs' = {}
    BY <1>1, <2>1 DEF JobEnds, InJob
  <2>3. Pending' = {}
    <3>1. j.item \in Proposals
      BY DEF TypeOK, Job
    <3>2. \A p \in Proposals : items'[p] = "pending" => items[p] = "pending"
      BY <2>1, <3>1 DEF JobEnds, TypeOK
    <3> QED BY <2>2, <3>2 DEF InJob, Pending
  <2>4. UNCHANGED paused /\ ((UNCHANGED loops /\ Ask) \/ ResumeLoop(loops, paused))
    BY <1>23 DEF ExecutionFails, GivesUp, Executed
  <2>5. CASE UNCHANGED loops /\ Ask
    BY <1>0, <1>4, <2>2, <2>3, <2>4, <2>5 DEF InJob, Looping, Ask
  <2>6. CASE ResumeLoop(loops, paused)
    BY <1>0, <1>4, <1>5, <2>2, <2>3, <2>4, <2>6, TotalIsLooping DEF InJob
  <2> QED BY <2>4, <2>5, <2>6
<1>24. CASE Render
  <2>1. /\ UNCHANGED <<jobs, paused, proposal, status, loops>>
        /\ items' = [p \in Proposals |->
                       IF status = "awaiting_approval" /\ p = proposal /\ ~HasItem(p)
                       THEN "pending" ELSE items[p]]
    BY <1>0, <1>24 DEF Render
  <2>2. CASE status # "awaiting_approval"
    <3>1. Pending' = Pending
      BY <2>1, <2>2 DEF Pending
    <3> QED BY <1>0, <1>3, <2>1, <3>1
  <2>3. CASE status = "awaiting_approval"
    <3>1. Quiet
      BY <1>1, <2>3
    <3>2. Pending' \subseteq Pending \cup {proposal}
      BY <2>1 DEF Pending
    <3> QED BY <1>0, <2>1, <2>3, <3>1, <3>2 DEF Quiet, Looping
  <2> QED BY <2>2, <2>3
<1>25. ASSUME NEW stop \in BOOLEAN, UserResponse(stop)
       PROVE  ~paused' /\ status' # "paused" /\ (Quiet \/ InLoop \/ InJob)'
  <2>1. /\ Quiet /\ Pending = {} /\ UNCHANGED <<items, jobs, paused>>
        /\ (UNCHANGED loops /\ status' = "done") \/ ResumeLoop(loops, paused)
    BY <1>1, <1>25 DEF UserResponse, Quiet
  <2>2. CASE UNCHANGED loops /\ status' = "done"
    BY <1>0, <1>4, <1>6, <2>1, <2>2 DEF Quiet, Looping
  <2>3. CASE ResumeLoop(loops, paused)
    BY <1>0, <1>4, <1>5, <1>6, <2>1, <2>3, TotalIsLooping DEF Quiet
  <2> QED BY <2>1, <2>2, <2>3
<1>26. CASE Resume
  BY <1>0, <1>26 DEF Resume
<1>27. CASE CancelRun
  <2>1. UNCHANGED <<loops, jobs, items>> /\ ~paused'
    BY <1>0, <1>27 DEF CancelRun, Stop
  <2>2. \/ UNCHANGED <<proposal, status>>
        \/ proposal' = NoProposal /\ status' = "idle"
    BY <1>27 DEF CancelRun, Stop
  <2> QED BY <1>2, <1>3, <1>6, <2>1, <2>2
<1>28. CASE StopAi
  <2>1. UNCHANGED jobs
    BY <1>28 DEF StopAi
  <2>2. CASE engine = "present" /\ running
    <3>1. /\ Stop /\ UNCHANGED loops
          /\ items' = [p \in Proposals |-> IF p \in Pending THEN "canceled" ELSE items[p]]
      BY <1>28, <2>2 DEF StopAi
    <3>2. Pending' \subseteq Pending
      BY <3>1 DEF Pending
    <3> QED BY <1>2, <1>3, <2>1, <3>1, <3>2 DEF Stop
  <2>3. CASE ~(engine = "present" /\ running)
    <3>1. CancelPending(Pending, FALSE) /\ UNCHANGED paused
      BY <1>28, <2>3 DEF StopAi
    <3>2. /\ Pending' \subseteq Pending /\ UNCHANGED loops
          /\ \/ UNCHANGED <<proposal, status>>
             \/ proposal' = NoProposal /\ UNCHANGED status
      BY <1>0, <3>1, Canceled
    <3> QED BY <1>0, <1>2, <1>3, <2>1, <3>1, <3>2
  <2> QED BY <2>2, <2>3
<1> QED
  BY <1>0, <1>10, <1>11, <1>12, <1>13, <1>14, <1>15, <1>16, <1>17, <1>18, <1>20, <1>21, <1>22, <1>23, <1>24,
     <1>25, <1>26, <1>27, <1>28
  DEF Next, StartStep, LoopStep, JobStep

-----------------------------------------------------------------------------
(* What is awaited was asked, while the assistant is not held up *)

(* A step not yet proposed has no item. *)
Numbered ==
    /\ \A p \in Proposals : p > made => items[p] = "none"
    /\ proposal \in Proposals => proposal <= made

LEMMA NumberedNext == TypeOK /\ Numbered /\ [Next]_vars => Numbered'
<1> SUFFICES ASSUME TypeOK, Numbered, [Next]_vars PROVE Numbered'
  OBVIOUS
<1> USE DEF engineVars, workVars, madeVars, viewVars
<1>0. /\ Message \notin Proposals /\ NoProposal \notin Proposals
      /\ items \in [Proposals -> ItemStates] /\ made \in Nat /\ Proposals \subseteq Nat
  BY ProposalTypes, ProposalAssumption DEF TypeOK
<1>1. ASSUME \A p \in Proposals : items[p] = "none" /\ p # proposal => items'[p] = "none",
             UNCHANGED made, proposal' \in {proposal, NoProposal, Message}
      PROVE  Numbered'
  BY <1>0, <1>1 DEF Numbered
<1>2. ASSUME NEW P \in SUBSET Pending, NEW r \in BOOLEAN, CancelPending(P, r), UNCHANGED made
      PROVE  Numbered'
  <2>1. \A p \in Proposals : items[p] = "none" => items'[p] = "none"
    BY <1>2 DEF CancelPending, Pending
  <2> QED BY <1>1, <1>2, <2>1, Canceled
<1>3. CASE Proposed \/ ProposedRead
  <2>1. /\ made < MaxProposals /\ made' = made + 1 /\ proposal' = made + 1 /\ items' = items
    BY <1>3 DEF Proposed, ProposedRead, Propose
  <2> QED BY <1>0, <2>1 DEF Numbered
<1>4. CASE StartEngine \/ StartStep \/ Pause \/ Resume \/ CancelRun
           \/ \E stop \in BOOLEAN : UserResponse(stop)
  BY <1>1, <1>4 DEF StartEngine, StartStep, CreateEngine, Started, ProviderMissing, Pause, Resume,
                    CancelRun, Stop, UserResponse
<1>5. CASE Captured \/ ReadDone \/ Asked \/ Finished \/ \E s \in {"capture", "think"} : LoopFails(s)
  BY <1>1, <1>5 DEF Captured, ReadDone, Asked, Finished, LoopFails, Ask
<1>6. CASE JobStep
  BY <1>0, <1>1, <1>6 DEF JobStep, ExecutionFails, Retry, GivesUp, Executed, JobEnds, Ask
<1>7. ASSUME NEW i \in Proposals, Approve(i) \/ ApproveFails(i) PROVE Numbered'
  BY <1>0, <1>1, <1>7 DEF Approve, ApproveFails, Ask, HasItem
<1>8. ASSUME NEW i \in Proposals, Expire(i) \/ Deny(i) PROVE Numbered'
  <2>1. items[i] = "pending" /\ items'[i] # "none" /\ UNCHANGED made /\ Dismiss(TRUE)
        /\ \A p \in Proposals : items[p] = "none" => items'[p] = "none"
    BY <1>0, <1>8 DEF Expire, Deny
  <2> QED BY <1>1, <2>1, Dismissed
<1>9. CASE Render
  <2>1. CASE status = "paused"
    BY <1>2, <1>9, <2>1 DEF Render
  <2>2. CASE status # "paused"
    BY <1>1, <1>9, <2>2 DEF Render
  <2> QED BY <2>1, <2>2
<1>10. CASE ClearWorkspace \/ PreviewOff
  <2>1. PICK P \in SUBSET Pending, r \in BOOLEAN : CancelPending(P, r)
    BY <1>10 DEF ClearWorkspace, PreviewOff
  <2> QED BY <1>2, <1>10, <2>1 DEF ClearWorkspace, PreviewOff
<1>11. CASE StopAi
  <2>1. CASE engine = "present" /\ running
    BY <1>1, <1>11, <2>1 DEF StopAi, Stop, Pending
  <2>2. CASE ~(engine = "present" /\ running)
    BY <1>2, <1>11, <2>2 DEF StopAi
  <2> QED BY <2>1, <2>2
<1>12. CASE UNCHANGED vars
  BY <1>1, <1>12 DEF vars
<1> QED
  BY <1>3, <1>4, <1>5, <1>6, <1>7, <1>8, <1>9, <1>10, <1>11, <1>12 DEF Next, LoopStep

(* When the assistant waits for an approval it does nothing else (Calm), so  *)
(* only a rendering, a decision or the expiry of the item changes what it    *)
(* waits for; a click on an older rendering finds no other item (Fresh).     *)
LEMMA AwaitedNext ==
    TypeOK /\ Early /\ Fresh /\ Calm /\ Numbered /\ AwaitedIsAsked /\ [Next]_vars => AwaitedIsAsked'
<1> SUFFICES ASSUME TypeOK, Early, Fresh, Calm, Numbered, AwaitedIsAsked, [Next]_vars,
                    running', status' = "awaiting_approval", engine' = "present", holds' = 0
             PROVE  /\ proposal' \in Proposals
                    /\ items'[proposal'] = "pending" \/ (items'[proposal'] = "none" /\ ~Rendered')
  BY DEF AwaitedIsAsked
<1> USE DEF engineVars, workVars, madeVars, viewVars
<1> DEFINE Goal == /\ proposal' \in Proposals
                   /\ items'[proposal'] = "pending" \/ (items'[proposal'] = "none" /\ ~Rendered')
<1>0. /\ ~paused /\ (Quiet \/ InLoop \/ InJob) /\ holds = 0 /\ ~Pause /\ ~PreviewOff
      /\ loops \in [Stages -> Nat] /\ made \in Nat /\ Proposals \subseteq Nat
      /\ Message \notin Proposals /\ NoProposal \notin Proposals
      /\ items \in [Proposals -> ItemStates]
  BY HoldsGrow, ProposalTypes, ProposalAssumption DEF Calm, TypeOK
<1>1. CASE Proposed
  <2>1. /\ made < MaxProposals /\ proposal' = made + 1 /\ items' = items /\ view' = view
        /\ Rendered
    BY <1>1 DEF Proposed, Propose, ThinkEnds
  <2>2. proposal' \in Proposals /\ proposal' > made
    BY <1>0, <2>1, ProposalAssumption DEF Proposals
  <2>3. items'[proposal'] = "none"
    BY <2>1, <2>2 DEF Numbered
  <2>4. view'.proposal # proposal'
    BY <1>0, <2>1, <2>2 DEF Rendered, Numbered
  <2>5. ~Rendered'
    BY <2>4 DEF Rendered
  <2> QED BY <2>2, <2>3, <2>5
<1>2. ASSUME status = "awaiting_approval", running, engine = "present"
      PROVE  /\ Quiet /\ proposal \in Proposals /\ Pending \subseteq {proposal}
             /\ items[proposal] = "pending" \/ (items[proposal] = "none" /\ ~Rendered)
             /\ start = "started"
  BY <1>0, <1>2 DEF AwaitedIsAsked, Quiet, InLoop, InJob, Early
<1>3. \A s \in Stages : loops[s] > 0 => InLoop
  BY <1>0, TotalIsLooping, TotalIsNat DEF Quiet, InJob
(* The steps after which nothing is awaited *)
<1>4. ~StartEngine /\ ~StartStep
  BY <1>2 DEF StartEngine, StartStep, CreateEngine, Started, ProviderMissing, Early
<1>5. ~Captured /\ ~ProposedRead /\ ~ReadDone /\ ~Asked /\ ~Finished
  BY <1>0, <1>3 DEF Captured, ProposedRead, ThinkEnds, ReadDone, ResumeLoop, Asked, Finished, Ask,
                    Stages, InLoop
<1>6. ~\E s \in {"capture", "think"} : LoopFails(s)
  BY <1>3 DEF LoopFails, Ask, Stages, InLoop
<1>7. ~JobStep
  <2>1. ASSUME NEW j \in jobs PROVE ~Retry(j)
    BY <1>0, <2>1 DEF Retry, Quiet, InLoop, InJob
  <2> QED BY <2>1 DEF JobStep, ExecutionFails, GivesUp, Executed, Ask, ResumeLoop
<1>8. ~\E stop \in BOOLEAN : UserResponse(stop)
  BY DEF UserResponse, ResumeLoop
<1>9. ~Resume /\ ~StopAi
  BY <1>0 DEF Resume, StopAi
<1>10. ASSUME NEW i \in Proposals PROVE ~Approve(i)
  BY DEF Approve
<1>11. ASSUME NEW P \in SUBSET Pending, P # {}, NEW r \in BOOLEAN,
              CancelPending(P, r) \/ Dismiss(r), r, UNCHANGED <<engine, running>>
       PROVE  FALSE
  <2>1. status' # "capturing"
    OBVIOUS
  <2>2. status = "awaiting_approval" /\ (engine # "present" \/ proposal \notin Proposals)
    BY <1>11, <2>1, Canceled, Dismissed
  <2> QED BY <1>2, <1>11, <2>2
<1>12. ~ClearWorkspace
  <2>1. ASSUME ClearWorkspace PROVE FALSE
    <3>1. {p \in Pending : kind[p] # "action"} \in SUBSET Pending
      OBVIOUS
    <3> QED BY <1>11, <2>1, <3>1 DEF ClearWorkspace
  <2> QED BY <2>1
<1>13. ASSUME NEW i \in Proposals PROVE ~Expire(i) /\ ~Deny(i)
  <2>1. ASSUME Expire(i) \/ Deny(i) PROVE FALSE
    <3>1. i \in Pending /\ Dismiss(TRUE) /\ UNCHANGED <<engine, running>>
      BY <2>1 DEF Expire, Deny, Pending
    <3>2. {i} \in SUBSET Pending /\ {i} # {}
      BY <3>1
    <3> QED BY <1>11, <3>1, <3>2
  <2> QED BY <2>1
(* The steps that keep what is awaited *)
<1>14. ASSUME NEW i \in Proposals, ApproveFails(i) PROVE Goal
  <2>1. /\ i \in shown /\ engine = "present" /\ UNCHANGED <<running, proposal, status>>
        /\ ~Accepts(i)
    BY <1>14 DEF ApproveFails, Clicked, Ask
  <2>2. proposal \in Proposals /\ Pending \subseteq {proposal}
    BY <1>2, <2>1
  <2>3. i \in Pending
    BY <2>1, <2>2 DEF Fresh
  <2>4. i = proposal
    BY <2>2, <2>3
  <2> QED BY <2>1, <2>2, <2>4 DEF Accepts, SameItemKind
<1>15. CASE Render
  <2>1. /\ status = "awaiting_approval" /\ running /\ engine = "present" /\ proposal' = proposal
        /\ items' = [p \in Proposals |->
                       IF status = "awaiting_approval" /\ p = proposal /\ ~HasItem(p)
                       THEN "pending" ELSE items[p]]
    <3>1. status # "paused"
      BY <1>0 DEF Calm
    <3> QED BY <1>15, <3>1 DEF Render
  <2>2. /\ proposal \in Proposals
        /\ items[proposal] = "pending" \/ items[proposal] = "none"
    BY <1>2, <2>1
  <2> QED BY <2>1, <2>2 DEF HasItem
<1>16. CASE CancelRun
  <2>1. UNCHANGED <<engine, items, viewVars>>
    BY <1>16 DEF CancelRun
  <2>2. UNCHANGED <<running, status, proposal>>
    BY <1>16 DEF CancelRun, Stop
  <2>3. Rendered' = Rendered
    BY <2>1, <2>2 DEF Rendered, Pending
  <2> QED BY <1>2, <2>1, <2>2, <2>3
<1>17. CASE UNCHANGED vars
  <2>1. UNCHANGED <<engine, items, viewVars, running, status, proposal>> /\ Rendered' = Rendered
    BY <1>17 DEF vars, Rendered, Pending
  <2> QED BY <1>2, <2>1
<1> QED
  BY <1>0, <1>1, <1>4, <1>5, <1>6, <1>7, <1>8, <1>9, <1>10, <1>12, <1>13, <1>14, <1>15, <1>16, <1>17
  DEF Next, LoopStep

-----------------------------------------------------------------------------
(* The invariant *)

LEMMA IInvInit == Init => IInv
<1> SUFFICES ASSUME Init PROVE IInv
  OBVIOUS
<1>1. Looping = 0 /\ Pending = {}
  BY DEF Init, Looping, Pending
<1>2. Early /\ Life
  BY <1>1 DEF Init, Early, Life
<1>3. Fresh /\ Jobs /\ AsApproved
  BY DEF Init, Fresh, Jobs, AsApproved
<1>4. Calm /\ WorkIsReal
  BY <1>1 DEF Init, Calm, Quiet, WorkIsReal
<1> QED BY <1>2, <1>3, <1>4, TypesInit DEF IInv

LEMMA IInvAlways == Spec => []IInv
<1>1. IInv /\ [Next]_vars => IInv'
  BY TypesNext, EarlyNext, WorkNext, FreshNext, JobsNext, AsApprovedNext, CalmNext DEF IInv
<1> QED BY <1>1, IInvInit, PTL DEF Spec

-----------------------------------------------------------------------------
(* The controller, its loops and jobs, and the approval items only hold      *)
(* what their types say; no action is retried more than once.               *)
THEOREM TypeCorrect == Spec => []TypeOK
<1>1. IInv => TypeOK
  BY DEF IInv
<1> QED BY <1>1, IInvAlways, PTL

(* Whatever pauses, answers, failures and stops cross each other, an         *)
(* assistant that says it captures or thinks has a loop that does.           *)
THEOREM WorkSafety == Spec => []WorkIsReal
<1>1. IInv => WorkIsReal
  BY DEF IInv
<1> QED BY <1>1, IInvAlways, PTL

(* Until it is held up, the assistant works at one thing or waits for the    *)
(* user, whatever is denied, expires, fails, is canceled or restarted.       *)
THEOREM OneSafety == Spec => []OneAtATime
<1>1. IInv => OneAtATime
  <2> SUFFICES ASSUME IInv, holds = 0
               PROVE  Working + (IF Waiting THEN 1 ELSE 0) <= 1
    BY DEF OneAtATime
  <2>1. Quiet \/ InLoop \/ InJob
    BY DEF IInv, Calm
  <2>2. CASE Quiet
    BY <2>2, FS_EmptySet DEF Quiet, Working, Waiting
  <2>3. CASE InLoop
    BY <2>3, FS_EmptySet DEF InLoop, Working, Waiting
  <2>4. CASE InJob
    <3>1. Cardinality(jobs) \in {0, 1}
      <4>1. CASE jobs = {}
        BY <4>1, FS_EmptySet
      <4>2. CASE jobs # {}
        <5>1. PICK j \in jobs : jobs = {j}
          BY <2>4, <4>2 DEF InJob
        <5> QED BY <5>1, FS_Singleton
      <4> QED BY <4>1, <4>2
    <3> QED BY <2>4, <3>1 DEF InJob, Working, Waiting
  <2> QED BY <2>1, <2>2, <2>3, <2>4
<1> QED BY <1>1, IInvAlways, PTL

(* Nothing executes for an item that expired, was denied or canceled; and,   *)
(* until the assistant is held up, what executes is what its item was for.   *)
THEOREM ApprovalSafety == Spec => []ExecutesWhatWasApproved
<1>1. IInv => ExecutesWhatWasApproved
  BY DEF IInv, Jobs, AsApproved, ExecutesWhatWasApproved
<1> QED BY <1>1, IInvAlways, PTL
(* Until it is held up, an assistant that waits for an approval has asked for *)
(* it, or is about to be rendered; so what it waits for expires.              *)
THEOREM AwaitedSafety == Spec => []AwaitedIsAsked
<1>1. Init => Numbered /\ AwaitedIsAsked
  BY ProposalTypes DEF Init, Numbered, AwaitedIsAsked
<1>2. IInv /\ Numbered /\ AwaitedIsAsked /\ [Next]_vars => Numbered' /\ AwaitedIsAsked'
  BY NumberedNext, AwaitedNext DEF IInv
<1> QED BY <1>1, <1>2, IInvAlways, PTL DEF Spec
=============================================================================
