--------------------------- MODULE RunEngine_proofs ---------------------------
(***************************************************************************)
(* Proofs about RunEngine, for any set of engines, any recovery policy and *)
(* any number of restarts.  The inductive invariant says who may own the   *)
(* run (Ownership), what an engine that was never started has left behind  *)
(* (Freshness), what each suspension point implies (Position) and what the *)
(* row and the record agree on once an engine has finished (Outcome).      *)
(***************************************************************************)
EXTENDS RunEngine, TLAPS

Live(e) == pc[e] \in Suspended

(* A live engine is the registered one, or was stopped by a cancel; in the  *)
(* second case the status is one that no accept starts a new engine from.   *)
Ownership ==
    /\ \A e \in Engines : Live(e) =>
          /\ mode = "manual"
          /\ \/ active = e
             \/ /\ stopped[e]
                /\ active = NoEngine
                /\ status \in {"canceled", "waiting_for_user"}
    /\ \A e \in Engines : active = e => Live(e) /\ ~stopped[e] /\ status \in Cancelable
    /\ assisting => mode = "ai_assist"

Freshness ==
    /\ startCmd \in {"creating", "queued"} => \A e \in Engines : pc[e] = "new"
    /\ \A e \in Engines : pc[e] = "new" =>
          idx[e] = 0 /\ ~stopped[e]

Position ==
    \A e \in Engines :
        /\ pc[e] = "details" => idx[e] = 0
        /\ pc[e] = "work" => idx[e] \in Step
        /\ pc[e] = "settle" => idx[e] \in Step \ {ApprovalStep}
        /\ pc[e] = "gap" => idx[e] \in Step \ {LastStep} /\ steps[idx[e]] = "done"
        /\ pc[e] \in {"ask", "wait"} => idx[e] = ApprovalStep /\ approval.id = e

Outcome ==
    /\ status \in {"done", "failed"} => db = status
    /\ mode = "manual" /\ db = "done" => status = "done"

IInv ==
    /\ TypeOK
    /\ Ownership
    /\ OneEngine
    /\ Freshness
    /\ Position
    /\ ApprovalGate
    /\ StepsInOrder
    /\ Outcome
    /\ DoneMeansComplete

-----------------------------------------------------------------------------
(* The invariant is inductive: one step per action, under it one step per   *)
(* conjunct whose variables the action changes, then one for the others.    *)
LEMMA IInvNext == IInv /\ [Next]_vars => IInv'
<1> SUFFICES ASSUME IInv, [Next]_vars PROVE IInv'
  OBVIOUS
<1> USE EngineAssumption, RecoveryAssumption, RestartAssumption
<1> USE DEF RunStatus, StepStatus, Suspended, Cancelable, InProgress, Final, Step,
            ApprovalStep, LastStep, NoApproval
<1>0. /\ TypeOK /\ Ownership /\ OneEngine /\ Freshness /\ Position
      /\ ApprovalGate /\ StepsInOrder /\ Outcome /\ DoneMeansComplete
  BY DEF IInv
<1>1. ASSUME NEW e \in Engines, DetailsSent(e) PROVE IInv'
  <2>1. TypeOK'
    BY <1>0, <1>1 DEF DetailsSent, TypeOK, UpdateStatus, EnterStep, deviceVars, Finish,
        SetStep
  <2>2. Ownership'
    BY <1>0, <1>1 DEF DetailsSent, Ownership, TypeOK, OneEngine, UpdateStatus,
        EnterStep, deviceVars, Live, Finish, SetStep
  <2>3. OneEngine'
    BY <1>0, <1>1 DEF DetailsSent, OneEngine, TypeOK, UpdateStatus, EnterStep,
        deviceVars, Finish, SetStep
  <2>4. Freshness'
    BY <1>0, <1>1 DEF DetailsSent, Freshness, TypeOK, UpdateStatus, EnterStep,
        deviceVars, Finish, SetStep
  <2>5. Position'
    BY <1>0, <1>1 DEF DetailsSent, Position, TypeOK, OneEngine, UpdateStatus, EnterStep,
        deviceVars, Finish, SetStep
  <2>6. ApprovalGate'
    BY <1>0, <1>1 DEF DetailsSent, ApprovalGate, TypeOK, OneEngine, UpdateStatus,
        EnterStep, deviceVars, PastApproval, Finish, SetStep
  <2>7. StepsInOrder'
    BY <1>0, <1>1 DEF DetailsSent, StepsInOrder, TypeOK, OneEngine, UpdateStatus,
        EnterStep, deviceVars, Finish, SetStep
  <2>8. Outcome'
    BY <1>0, <1>1 DEF DetailsSent, Outcome, TypeOK, UpdateStatus, EnterStep, deviceVars,
        Finish, SetStep
  <2>9. DoneMeansComplete'
    BY <1>0, <1>1 DEF DetailsSent, DoneMeansComplete, TypeOK, UpdateStatus, EnterStep,
        deviceVars, Finish, SetStep
  <2> QED BY <2>1, <2>2, <2>3, <2>4, <2>5, <2>6, <2>7, <2>8, <2>9 DEF IInv
<1>2. ASSUME NEW e \in Engines, WorkDone(e) PROVE IInv'
  <2>1. TypeOK'
    BY <1>0, <1>2 DEF WorkDone, TypeOK, Finish, runVars, deviceVars
  <2>2. Ownership'
    BY <1>0, <1>2 DEF WorkDone, Ownership, TypeOK, Finish, runVars, deviceVars, Live
  <2>3. OneEngine'
    BY <1>0, <1>2 DEF WorkDone, OneEngine, TypeOK, Finish, runVars, deviceVars
  <2>4. Freshness'
    BY <1>0, <1>2 DEF WorkDone, Freshness, TypeOK, Finish, runVars, deviceVars
  <2>5. Position'
    BY <1>0, <1>2 DEF WorkDone, Position, TypeOK, Finish, runVars, deviceVars
  <2>6. ApprovalGate'
    BY <1>0, <1>2 DEF WorkDone, ApprovalGate, TypeOK, Finish, runVars, deviceVars,
        PastApproval
  <2>7. StepsInOrder'
    BY <1>0, <1>2 DEF WorkDone, StepsInOrder, TypeOK, Finish, runVars, deviceVars
  <2>8. Outcome' /\ DoneMeansComplete'
    BY <1>0, <1>2 DEF WorkDone, Outcome, DoneMeansComplete, Finish, runVars, deviceVars
  <2> QED BY <2>1, <2>2, <2>3, <2>4, <2>5, <2>6, <2>7, <2>8 DEF IInv
<1>3. ASSUME NEW e \in Engines, Settle(e) PROVE IInv'
  <2>1. TypeOK'
    BY <1>0, <1>3 DEF Settle, TypeOK, Position, SetStep, SettleLast, KeepStatus,
        deviceVars, Finish, UpdateStatus
  <2>2. Ownership'
    BY <1>0, <1>3 DEF Settle, Ownership, TypeOK, SetStep, SettleLast, KeepStatus,
        deviceVars, Live, Finish, UpdateStatus
  <2>3. OneEngine'
    BY <1>0, <1>3 DEF Settle, OneEngine, TypeOK, SetStep, SettleLast, KeepStatus,
        deviceVars, Finish, UpdateStatus
  <2>4. Freshness'
    BY <1>0, <1>3 DEF Settle, Freshness, TypeOK, SetStep, SettleLast, KeepStatus,
        deviceVars, Finish, UpdateStatus
  <2>5. Position'
    BY <1>0, <1>3 DEF Settle, Position, TypeOK, SetStep, SettleLast, KeepStatus,
        deviceVars, Finish, UpdateStatus
  <2>6. ApprovalGate'
    BY <1>0, <1>3 DEF Settle, ApprovalGate, TypeOK, OneEngine, Position, SetStep,
        SettleLast, KeepStatus, deviceVars, PastApproval, Finish, UpdateStatus
  <2>7. StepsInOrder'
    BY <1>0, <1>3 DEF Settle, StepsInOrder, TypeOK, SetStep, SettleLast, KeepStatus,
        deviceVars, Finish, UpdateStatus
  <2>8. Outcome'
    BY <1>0, <1>3 DEF Settle, Outcome, SetStep, SettleLast, KeepStatus, deviceVars,
        Finish, UpdateStatus
  <2>9. DoneMeansComplete'
    BY <1>0, <1>3 DEF Settle, DoneMeansComplete, TypeOK, Ownership, ApprovalGate,
        StepsInOrder, SetStep, SettleLast, KeepStatus, deviceVars, Live, PastApproval,
        Finish, UpdateStatus
  <2> QED BY <2>1, <2>2, <2>3, <2>4, <2>5, <2>6, <2>7, <2>8, <2>9 DEF IInv
<1>4. ASSUME NEW e \in Engines, NextStep(e) PROVE IInv'
  <2>1. TypeOK'
    BY <1>0, <1>4 DEF NextStep, TypeOK, Position, EnterStep, KeepStatus, deviceVars,
        Finish, SetStep
  <2>2. Ownership'
    BY <1>0, <1>4 DEF NextStep, Ownership, TypeOK, EnterStep, KeepStatus, deviceVars,
        Live, Finish, SetStep
  <2>3. OneEngine'
    BY <1>0, <1>4 DEF NextStep, OneEngine, TypeOK, EnterStep, KeepStatus, deviceVars,
        Finish, SetStep
  <2>4. Freshness'
    BY <1>0, <1>4 DEF NextStep, Freshness, TypeOK, EnterStep, KeepStatus, deviceVars,
        Finish, SetStep
  <2>5. Position'
    BY <1>0, <1>4 DEF NextStep, Position, TypeOK, Ownership, EnterStep, KeepStatus,
        deviceVars, Live, Finish, SetStep
  <2>6. ApprovalGate'
    BY <1>0, <1>4 DEF NextStep, ApprovalGate, TypeOK, EnterStep, KeepStatus, deviceVars,
        PastApproval, Finish, SetStep
  <2>7. StepsInOrder'
    BY <1>0, <1>4 DEF NextStep, StepsInOrder, TypeOK, Ownership, Position, EnterStep,
        KeepStatus, deviceVars, Live, Finish, SetStep
  <2>8. DoneMeansComplete'
    BY <1>0, <1>4 DEF NextStep, DoneMeansComplete, Ownership, EnterStep, KeepStatus,
        deviceVars, Live, Finish, SetStep
  <2>9. Outcome'
    BY <1>0, <1>4 DEF NextStep, Outcome, EnterStep, KeepStatus, deviceVars, Finish,
        SetStep
  <2> QED BY <2>1, <2>2, <2>3, <2>4, <2>5, <2>6, <2>7, <2>8, <2>9 DEF IInv
<1>5. ASSUME NEW e \in Engines, AskApproval(e) PROVE IInv'
  <2>1. TypeOK'
    BY <1>0, <1>5 DEF AskApproval, TypeOK, UpdateStatus, SetStep
  <2>2. Ownership'
    BY <1>0, <1>5 DEF AskApproval, Ownership, UpdateStatus, SetStep, Live
  <2>3. OneEngine'
    BY <1>0, <1>5 DEF AskApproval, OneEngine, UpdateStatus, SetStep
  <2>4. Freshness'
    BY <1>0, <1>5 DEF AskApproval, Freshness, UpdateStatus, SetStep
  <2>5. Position'
    BY <1>0, <1>5 DEF AskApproval, Position, OneEngine, UpdateStatus, SetStep
  <2>6. ApprovalGate'
    BY <1>0, <1>5 DEF AskApproval, ApprovalGate, OneEngine, UpdateStatus, SetStep,
        PastApproval
  <2>7. StepsInOrder'
    BY <1>0, <1>5 DEF AskApproval, StepsInOrder, OneEngine, UpdateStatus, SetStep
  <2>8. Outcome'
    BY <1>0, <1>5 DEF AskApproval, Outcome, TypeOK, UpdateStatus, SetStep
  <2>9. DoneMeansComplete'
    BY <1>0, <1>5 DEF AskApproval, DoneMeansComplete, TypeOK, UpdateStatus, SetStep
  <2> QED BY <2>1, <2>2, <2>3, <2>4, <2>5, <2>6, <2>7, <2>8, <2>9 DEF IInv
<1>6. ASSUME NEW e \in Engines, AskSent(e) PROVE IInv'
  <2>1. TypeOK'
    BY <1>0, <1>6 DEF AskSent, TypeOK, runVars, deviceVars
  <2>2. Ownership'
    BY <1>0, <1>6 DEF AskSent, Ownership, runVars, deviceVars, Live
  <2>3. OneEngine'
    BY <1>0, <1>6 DEF AskSent, OneEngine, runVars, deviceVars
  <2>4. Freshness'
    BY <1>0, <1>6 DEF AskSent, Freshness, runVars, deviceVars
  <2>5. Position'
    BY <1>0, <1>6 DEF AskSent, Position, runVars, deviceVars
  <2>6. ApprovalGate'
    BY <1>0, <1>6 DEF AskSent, ApprovalGate, OneEngine, Position, runVars, deviceVars,
        PastApproval
  <2>7. StepsInOrder'
    BY <1>0, <1>6 DEF AskSent, StepsInOrder, runVars, deviceVars
  <2>8. Outcome' /\ DoneMeansComplete'
    BY <1>0, <1>6 DEF AskSent, Outcome, DoneMeansComplete, runVars, deviceVars
  <2> QED BY <2>1, <2>2, <2>3, <2>4, <2>5, <2>6, <2>7, <2>8 DEF IInv
<1>7. ASSUME NEW e \in Engines, ApprovalTimeout(e) PROVE IInv'
  <2>1. TypeOK'
    BY <1>0, <1>7 DEF ApprovalTimeout, TypeOK, AfterDecision, deviceVars, Finish,
        KeepStatus, SetStep, UpdateStatus
  <2>2. Ownership'
    BY <1>0, <1>7 DEF ApprovalTimeout, Ownership, TypeOK, AfterDecision, deviceVars,
        Live, Finish, KeepStatus, SetStep, UpdateStatus
  <2>3. OneEngine'
    BY <1>0, <1>7 DEF ApprovalTimeout, OneEngine, TypeOK, AfterDecision, deviceVars,
        Finish, KeepStatus, SetStep, UpdateStatus
  <2>4. Freshness'
    BY <1>0, <1>7 DEF ApprovalTimeout, Freshness, TypeOK, AfterDecision, deviceVars,
        Finish, KeepStatus, SetStep, UpdateStatus
  <2>5. Position'
    BY <1>0, <1>7 DEF ApprovalTimeout, Position, TypeOK, OneEngine, AfterDecision,
        deviceVars, Finish, KeepStatus, SetStep, UpdateStatus
  <2>6. ApprovalGate'
    BY <1>0, <1>7 DEF ApprovalTimeout, ApprovalGate, TypeOK, OneEngine, AfterDecision,
        deviceVars, PastApproval, Finish, KeepStatus, SetStep, UpdateStatus
  <2>7. StepsInOrder'
    BY <1>0, <1>7 DEF ApprovalTimeout, StepsInOrder, TypeOK, OneEngine, AfterDecision,
        deviceVars, Finish, KeepStatus, SetStep, UpdateStatus
  <2>8. Outcome'
    BY <1>0, <1>7 DEF ApprovalTimeout, Outcome, AfterDecision, deviceVars, Finish,
        KeepStatus, SetStep, UpdateStatus
  <2>9. DoneMeansComplete'
    BY <1>0, <1>7 DEF ApprovalTimeout, DoneMeansComplete, Ownership, AfterDecision,
        deviceVars, Live, Finish, KeepStatus, SetStep, UpdateStatus
  <2> QED BY <2>1, <2>2, <2>3, <2>4, <2>5, <2>6, <2>7, <2>8, <2>9 DEF IInv
<1>8. ASSUME NEW e \in Engines, RunAccept(e) PROVE IInv'
  <2>1. TypeOK'
    BY <1>0, <1>8 DEF RunAccept, TypeOK, runVars
  <2>2. Ownership'
    BY <1>0, <1>8 DEF RunAccept, Ownership, TypeOK, Freshness, runVars, Live
  <2>3. OneEngine'
    BY <1>0, <1>8 DEF RunAccept, OneEngine, Ownership, runVars, Live
  <2>4. Freshness'
    BY <1>0, <1>8 DEF RunAccept, Freshness, runVars
  <2>5. Position'
    BY <1>0, <1>8 DEF RunAccept, Position, Ownership, Freshness, runVars, Live
  <2>6. ApprovalGate'
    BY <1>0, <1>8 DEF RunAccept, ApprovalGate, Ownership, Freshness, runVars,
        PastApproval, Live
  <2>7. StepsInOrder'
    BY <1>0, <1>8 DEF RunAccept, StepsInOrder, Ownership, Freshness, runVars, Live
  <2>8. Outcome' /\ DoneMeansComplete'
    BY <1>0, <1>8 DEF RunAccept, Outcome, DoneMeansComplete, runVars
  <2> QED BY <2>1, <2>2, <2>3, <2>4, <2>5, <2>6, <2>7, <2>8 DEF IInv
<1>9. ASSUME NEW e \in Engines, ShowApproval(e) PROVE IInv'
  <2>1. TypeOK'
    BY <1>0, <1>9 DEF ShowApproval, TypeOK, runVars, engineVars
  <2>2. Ownership' /\ OneEngine' /\ Freshness' /\ Position'
       /\ ApprovalGate' /\ StepsInOrder' /\ Outcome' /\ DoneMeansComplete'
    BY <1>0, <1>9 DEF ShowApproval, Ownership, OneEngine, Freshness, Position,
        ApprovalGate, StepsInOrder, Outcome, DoneMeansComplete, runVars, engineVars,
        Live, PastApproval
  <2> QED BY <2>1, <2>2 DEF IInv
<1>10. ASSUME NEW e \in Engines, AskAck(e) PROVE IInv'
  <2>1. TypeOK'
    BY <1>0, <1>10 DEF AskAck, TypeOK, runVars, engineVars
  <2>2. Ownership' /\ OneEngine' /\ Freshness' /\ Position'
       /\ ApprovalGate' /\ StepsInOrder' /\ Outcome' /\ DoneMeansComplete'
    BY <1>0, <1>10 DEF AskAck, Ownership, OneEngine, Freshness, Position, ApprovalGate,
        StepsInOrder, Outcome, DoneMeansComplete, runVars, engineVars, Live,
        PastApproval
  <2> QED BY <2>1, <2>2 DEF IInv
<1>11. ASSUME NEW e \in Engines, AskNack(e) PROVE IInv'
  <2>1. TypeOK'
    BY <1>0, <1>11 DEF AskNack, TypeOK, KeepStatus, HandleApproval, AfterDecision,
        Finish, SetStep, UpdateStatus
  <2>2. Ownership'
    BY <1>0, <1>11 DEF AskNack, Ownership, TypeOK, KeepStatus, HandleApproval, Live,
        AfterDecision, Finish, SetStep, UpdateStatus
  <2>3. OneEngine'
    BY <1>0, <1>11 DEF AskNack, OneEngine, TypeOK, KeepStatus, HandleApproval,
        AfterDecision, Finish, SetStep, UpdateStatus
  <2>4. Freshness'
    BY <1>0, <1>11 DEF AskNack, Freshness, TypeOK, KeepStatus, HandleApproval,
        AfterDecision, Finish, SetStep, UpdateStatus
  <2>5. Position'
    BY <1>0, <1>11 DEF AskNack, Position, TypeOK, Ownership, KeepStatus, HandleApproval,
        Live, AfterDecision, Finish, SetStep, UpdateStatus
  <2>6. ApprovalGate'
    BY <1>0, <1>11 DEF AskNack, ApprovalGate, TypeOK, KeepStatus, HandleApproval,
        PastApproval, AfterDecision, Finish, SetStep, UpdateStatus
  <2>7. StepsInOrder'
    BY <1>0, <1>11 DEF AskNack, StepsInOrder, TypeOK, Ownership, KeepStatus,
        HandleApproval, Live, AfterDecision, Finish, SetStep, UpdateStatus
  <2>8. Outcome'
    BY <1>0, <1>11 DEF AskNack, Outcome, KeepStatus, HandleApproval, AfterDecision,
        Finish, SetStep, UpdateStatus
  <2>9. DoneMeansComplete'
    BY <1>0, <1>11 DEF AskNack, DoneMeansComplete, KeepStatus, HandleApproval,
        AfterDecision, Finish, SetStep, UpdateStatus
  <2> QED BY <2>1, <2>2, <2>3, <2>4, <2>5, <2>6, <2>7, <2>8, <2>9 DEF IInv
<1>12. ASSUME NEW e \in Engines, NEW d \in {"approved", "denied"}, Decide(e, d) PROVE IInv'
  <2>1. TypeOK'
    BY <1>0, <1>12 DEF Decide, TypeOK, MatchesPending, HandleApproval, KeepStatus,
        AfterDecision, Finish, SetStep, UpdateStatus
  <2>2. Ownership'
    BY <1>0, <1>12 DEF Decide, Ownership, TypeOK, MatchesPending, HandleApproval,
        KeepStatus, Live, AfterDecision, Finish, SetStep, UpdateStatus
  <2>3. OneEngine'
    BY <1>0, <1>12 DEF Decide, OneEngine, TypeOK, MatchesPending, HandleApproval,
        KeepStatus, AfterDecision, Finish, SetStep, UpdateStatus
  <2>4. Freshness'
    BY <1>0, <1>12 DEF Decide, Freshness, TypeOK, MatchesPending, HandleApproval,
        KeepStatus, AfterDecision, Finish, SetStep, UpdateStatus
  <2>5. Position'
    BY <1>0, <1>12 DEF Decide, Position, TypeOK, Ownership, MatchesPending,
        HandleApproval, KeepStatus, Live, AfterDecision, Finish, SetStep, UpdateStatus
  <2>6. ApprovalGate'
    BY <1>0, <1>12 DEF Decide, ApprovalGate, TypeOK, Position, MatchesPending,
        HandleApproval, KeepStatus, PastApproval, AfterDecision, Finish, SetStep,
        UpdateStatus
  <2>7. StepsInOrder'
    BY <1>0, <1>12 DEF Decide, StepsInOrder, TypeOK, Ownership, MatchesPending,
        HandleApproval, KeepStatus, Live, AfterDecision, Finish, SetStep, UpdateStatus
  <2>8. Outcome'
    BY <1>0, <1>12 DEF Decide, Outcome, MatchesPending, HandleApproval, KeepStatus,
        AfterDecision, Finish, SetStep, UpdateStatus
  <2>9. DoneMeansComplete'
    BY <1>0, <1>12 DEF Decide, DoneMeansComplete, TypeOK, MatchesPending,
        HandleApproval, KeepStatus, AfterDecision, Finish, SetStep, UpdateStatus
  <2> QED BY <2>1, <2>2, <2>3, <2>4, <2>5, <2>6, <2>7, <2>8, <2>9 DEF IInv
<1>13. ASSUME NEW s \in Final, RunUpdate(s) PROVE IInv'
  <2>1. TypeOK'
    <3>1. status' \in RunStatus /\ db' \in RunStatus /\ assisting' \in BOOLEAN
      BY <1>13 DEF RunUpdate, UpdateStatus, Final, RunStatus
    <3>2. UNCHANGED <<mode, steps, approval, engineVars, startCmd, cancelCmd, askCmd,
                      shown, canceling, restarts, granted>>
      BY <1>13 DEF RunUpdate
    <3> QED BY <1>0, <3>1, <3>2 DEF TypeOK, engineVars
  <2>2. Ownership'
    BY <1>0, <1>13 DEF RunUpdate, Ownership, UpdateStatus, engineVars, Live
  <2>3. Outcome'
    BY <1>0, <1>13 DEF RunUpdate, Outcome, TypeOK, UpdateStatus, engineVars
  <2>4. DoneMeansComplete'
    BY <1>0, <1>13 DEF RunUpdate, DoneMeansComplete, Ownership, UpdateStatus,
        engineVars, Live
  <2>5. OneEngine' /\ Freshness' /\ Position' /\ ApprovalGate'
       /\ StepsInOrder'
    BY <1>0, <1>13 DEF RunUpdate, OneEngine, Freshness, Position, ApprovalGate,
        StepsInOrder, UpdateStatus, engineVars, PastApproval
  <2> QED BY <2>1, <2>2, <2>3, <2>4, <2>5 DEF IInv
<1>14. ASSUME AssistantStart PROVE IInv'
  <2>1. TypeOK'
    BY <1>0, <1>14 DEF AssistantStart, TypeOK, runVars, engineVars
  <2>2. Ownership'
    BY <1>0, <1>14 DEF AssistantStart, Ownership, runVars, engineVars, Live
  <2>3. Freshness'
    BY <1>0, <1>14 DEF AssistantStart, Freshness, runVars, engineVars
  <2>4. OneEngine' /\ Position' /\ ApprovalGate' /\ StepsInOrder'
       /\ Outcome' /\ DoneMeansComplete'
    BY <1>0, <1>14 DEF AssistantStart, OneEngine, Position, ApprovalGate, StepsInOrder,
        Outcome, DoneMeansComplete, runVars, engineVars, PastApproval
  <2> QED BY <2>1, <2>2, <2>3, <2>4 DEF IInv
<1>15. ASSUME StartAck PROVE IInv'
  <2>1. TypeOK'
    BY <1>0, <1>15 DEF StartAck, TypeOK, runVars, engineVars
  <2>2. Freshness'
    BY <1>0, <1>15 DEF StartAck, Freshness, runVars, engineVars
  <2>3. Ownership' /\ OneEngine' /\ Position' /\ ApprovalGate'
       /\ StepsInOrder' /\ Outcome' /\ DoneMeansComplete'
    BY <1>0, <1>15 DEF StartAck, Ownership, OneEngine, Position, ApprovalGate,
        StepsInOrder, Outcome, DoneMeansComplete, runVars, engineVars, Live,
        PastApproval
  <2> QED BY <2>1, <2>2, <2>3 DEF IInv
<1>16. ASSUME StartNack PROVE IInv'
  <2>1. TypeOK'
    BY <1>0, <1>16 DEF StartNack, TypeOK, UpdateStatus, KeepStatus, engineVars
  <2>2. Ownership'
    BY <1>0, <1>16 DEF StartNack, Ownership, Freshness, UpdateStatus, KeepStatus,
        engineVars, Live
  <2>3. Freshness'
    BY <1>0, <1>16 DEF StartNack, Freshness, UpdateStatus, KeepStatus, engineVars
  <2>4. Outcome'
    BY <1>0, <1>16 DEF StartNack, Outcome, UpdateStatus, KeepStatus, engineVars
  <2>5. DoneMeansComplete'
    BY <1>0, <1>16 DEF StartNack, DoneMeansComplete, UpdateStatus, KeepStatus,
        engineVars
  <2>6. OneEngine' /\ Position' /\ ApprovalGate' /\ StepsInOrder'
    BY <1>0, <1>16 DEF StartNack, OneEngine, Position, ApprovalGate, StepsInOrder,
        UpdateStatus, KeepStatus, engineVars, PastApproval
  <2> QED BY <2>1, <2>2, <2>3, <2>4, <2>5, <2>6 DEF IInv
<1>17. ASSUME AssistantActivity PROVE IInv'
  <2>1. TypeOK'
    BY <1>0, <1>17 DEF AssistantActivity, TypeOK, UpdateStatus, engineVars, deviceVars
  <2>2. Ownership'
    BY <1>0, <1>17 DEF AssistantActivity, Ownership, UpdateStatus, engineVars,
        deviceVars, Live
  <2>3. Outcome'
    BY <1>0, <1>17 DEF AssistantActivity, Outcome, TypeOK, UpdateStatus, engineVars,
        deviceVars
  <2>4. DoneMeansComplete'
    BY <1>0, <1>17 DEF AssistantActivity, DoneMeansComplete, TypeOK, UpdateStatus,
        engineVars, deviceVars
  <2>5. OneEngine' /\ Freshness' /\ Position' /\ ApprovalGate'
       /\ StepsInOrder'
    BY <1>0, <1>17 DEF AssistantActivity, OneEngine, Freshness, Position, ApprovalGate,
        StepsInOrder, UpdateStatus, engineVars, deviceVars, PastApproval
  <2> QED BY <2>1, <2>2, <2>3, <2>4, <2>5 DEF IInv
<1>18. ASSUME HearCancel PROVE IInv'
  <2>1. TypeOK'
    <3>1. assisting' \in BOOLEAN
      BY <1>18, Zenon DEF HearCancel
    <3> HIDE <1>18
    <3>2. UNCHANGED <<runVars, engineVars, startCmd, askCmd, db, canceling, restarts, granted>>
      BY <1>18 DEF HearCancel
    <3>3. cancelCmd' \in {cancelCmd, "answered"} /\ shown' \in {shown, {}}
      BY <1>18 DEF HearCancel
    <3> QED BY <1>0, <3>1, <3>2, <3>3 DEF TypeOK, runVars, engineVars
  <2>2. Ownership'
    BY <1>0, <1>18 DEF HearCancel, Ownership, runVars, engineVars, Live
  <2>3. OneEngine' /\ Freshness' /\ Position' /\ ApprovalGate'
       /\ StepsInOrder' /\ Outcome' /\ DoneMeansComplete'
    BY <1>0, <1>18 DEF HearCancel, OneEngine, Freshness, Position, ApprovalGate,
        StepsInOrder, Outcome, DoneMeansComplete, runVars, engineVars, PastApproval
  <2> QED BY <2>1, <2>2, <2>3 DEF IInv
<1>19. ASSUME DeviceRestart PROVE IInv'
  <2>1. TypeOK'
    <3>1. assisting' \in BOOLEAN
      BY <1>19, Zenon DEF DeviceRestart
    <3> HIDE <1>19
    <3>2. UNCHANGED <<runVars, engineVars, startCmd, askCmd, db, canceling, restarts, granted>>
      BY <1>19 DEF DeviceRestart
    <3>3. cancelCmd' \in {cancelCmd, "answered"} /\ shown' \in {shown, {}}
      BY <1>19 DEF DeviceRestart
    <3> QED BY <1>0, <3>1, <3>2, <3>3 DEF TypeOK, runVars, engineVars
  <2>2. Ownership'
    BY <1>0, <1>19 DEF DeviceRestart, Ownership, runVars, engineVars, Live
  <2>3. OneEngine' /\ Freshness' /\ Position' /\ ApprovalGate'
       /\ StepsInOrder' /\ Outcome' /\ DoneMeansComplete'
    BY <1>0, <1>19 DEF DeviceRestart, OneEngine, Freshness, Position, ApprovalGate,
        StepsInOrder, Outcome, DoneMeansComplete, runVars, engineVars, PastApproval
  <2> QED BY <2>1, <2>2, <2>3 DEF IInv
<1>20. ASSUME DispatchStart PROVE IInv'
  <2>1. TypeOK'
    BY <1>0, <1>20 DEF DispatchStart, TypeOK, runVars, engineVars
  <2>2. Freshness'
    BY <1>0, <1>20 DEF DispatchStart, Freshness, runVars, engineVars
  <2>3. Ownership' /\ OneEngine' /\ Position' /\ ApprovalGate'
       /\ StepsInOrder' /\ Outcome' /\ DoneMeansComplete'
    BY <1>0, <1>20 DEF DispatchStart, Ownership, OneEngine, Position, ApprovalGate,
        StepsInOrder, Outcome, DoneMeansComplete, runVars, engineVars, Live,
        PastApproval
  <2> QED BY <2>1, <2>2, <2>3 DEF IInv
<1>21. ASSUME CancelByDevice PROVE IInv'
  <2>1. TypeOK'
    <3>1. /\ status' \in RunStatus /\ db' \in RunStatus /\ assisting' \in BOOLEAN
          /\ active' \in Engines \cup {NoEngine}
      BY <1>21 DEF CancelByDevice, Cancel, RunStatus
    <3>2. stopped' \in [Engines -> BOOLEAN]
      BY <1>0, <1>21 DEF CancelByDevice, Cancel, TypeOK
    <3>3. pc' \in [Engines -> Suspended \cup {"new", "off", "killed"}]
      BY <1>0, <1>21 DEF CancelByDevice, Cancel, TypeOK
    <3>4. UNCHANGED <<mode, steps, approval, idx, startCmd, askCmd, shown, restarts,
                      granted, cancelCmd, canceling>>
      BY <1>21 DEF CancelByDevice, Cancel
    <3> QED BY <1>0, <3>1, <3>2, <3>3, <3>4 DEF TypeOK
  <2>2. Ownership'
    BY <1>0, <1>21 DEF CancelByDevice, Ownership, ApprovalGate, Cancel, Live,
        PastApproval
  <2>3. OneEngine'
    BY <1>0, <1>21 DEF CancelByDevice, OneEngine, Cancel
  <2>4. Freshness'
    BY <1>0, <1>21 DEF CancelByDevice, Freshness, Ownership, Cancel, Live
  <2>5. Position'
    BY <1>0, <1>21 DEF CancelByDevice, Position, Cancel
  <2>6. ApprovalGate'
    BY <1>0, <1>21 DEF CancelByDevice, ApprovalGate, Cancel, PastApproval
  <2>7. StepsInOrder'
    BY <1>0, <1>21 DEF CancelByDevice, StepsInOrder, Cancel
  <2>8. Outcome'
    BY <1>0, <1>21 DEF CancelByDevice, Outcome, TypeOK, Cancel
  <2>9. DoneMeansComplete'
    BY <1>0, <1>21 DEF CancelByDevice, DoneMeansComplete, TypeOK, Cancel
  <2> QED BY <2>1, <2>2, <2>3, <2>4, <2>5, <2>6, <2>7, <2>8, <2>9 DEF IInv
<1>22. ASSUME CancelByUser PROVE IInv'
  <2>1. TypeOK'
    BY <1>0, <1>22 DEF CancelByUser, TypeOK, Cancel
  <2>2. Ownership'
    BY <1>0, <1>22 DEF CancelByUser, Ownership, Cancel, Live
  <2>3. OneEngine'
    BY <1>0, <1>22 DEF CancelByUser, OneEngine, Cancel
  <2>4. Freshness'
    BY <1>0, <1>22 DEF CancelByUser, Freshness, Ownership, Cancel, Live
  <2>5. Position'
    BY <1>0, <1>22 DEF CancelByUser, Position, Cancel
  <2>6. ApprovalGate'
    BY <1>0, <1>22 DEF CancelByUser, ApprovalGate, Cancel, PastApproval
  <2>7. StepsInOrder'
    BY <1>0, <1>22 DEF CancelByUser, StepsInOrder, Cancel
  <2>8. Outcome'
    BY <1>0, <1>22 DEF CancelByUser, Outcome, Cancel
  <2>9. DoneMeansComplete'
    BY <1>0, <1>22 DEF CancelByUser, DoneMeansComplete, TypeOK, Cancel
  <2> QED BY <2>1, <2>2, <2>3, <2>4, <2>5, <2>6, <2>7, <2>8, <2>9 DEF IInv
<1>23. ASSUME CancelDispatched PROVE IInv'
  <2>1. TypeOK'
    BY <1>0, <1>23 DEF CancelDispatched, TypeOK, runVars, engineVars
  <2>2. Ownership' /\ OneEngine' /\ Freshness' /\ Position'
       /\ ApprovalGate' /\ StepsInOrder' /\ Outcome' /\ DoneMeansComplete'
    BY <1>0, <1>23 DEF CancelDispatched, Ownership, OneEngine, Freshness, Position,
        ApprovalGate, StepsInOrder, Outcome, DoneMeansComplete, runVars, engineVars,
        Live, PastApproval
  <2> QED BY <2>1, <2>2 DEF IInv
<1>24. ASSUME CancelSaved PROVE IInv'
  <2>1. TypeOK'
    BY <1>0, <1>24 DEF CancelSaved, TypeOK, runVars, engineVars, deviceVars
  <2>2. Outcome'
    BY <1>0, <1>24 DEF CancelSaved, Outcome, TypeOK, runVars, engineVars, deviceVars
  <2>3. Ownership' /\ OneEngine' /\ Freshness' /\ Position'
       /\ ApprovalGate' /\ StepsInOrder' /\ DoneMeansComplete'
    BY <1>0, <1>24 DEF CancelSaved, Ownership, OneEngine, Freshness, Position,
        ApprovalGate, StepsInOrder, DoneMeansComplete, runVars, engineVars, deviceVars,
        Live, PastApproval
  <2> QED BY <2>1, <2>2, <2>3 DEF IInv
<1>25. ASSUME Restart PROVE IInv'
  <2>1. TypeOK'
    BY <1>0, <1>25 DEF Restart, TypeOK
  <2>2. Ownership'
    BY <1>0, <1>25 DEF Restart, Ownership, Live
  <2>3. OneEngine'
    BY <1>0, <1>25 DEF Restart, OneEngine, TypeOK
  <2>4. Freshness'
    BY <1>0, <1>25 DEF Restart, Freshness
  <2>5. Position'
    BY <1>0, <1>25 DEF Restart, Position, TypeOK
  <2>6. ApprovalGate'
    BY <1>0, <1>25 DEF Restart, ApprovalGate, TypeOK, PastApproval
  <2>7. StepsInOrder'
    BY <1>0, <1>25 DEF Restart, StepsInOrder, TypeOK
  <2>8. Outcome'
    BY <1>0, <1>25 DEF Restart, Outcome, TypeOK
  <2>9. DoneMeansComplete'
    BY <1>0, <1>25 DEF Restart, DoneMeansComplete, Outcome
  <2> QED BY <2>1, <2>2, <2>3, <2>4, <2>5, <2>6, <2>7, <2>8, <2>9 DEF IInv
<1>26. CASE UNCHANGED vars
  BY <1>0, <1>26 DEF IInv, TypeOK, Ownership, OneEngine, Freshness, Position,
      ApprovalGate, StepsInOrder, Outcome, DoneMeansComplete, Live, PastApproval, vars,
      runVars, engineVars, deviceVars
<1> QED
  BY <1>1, <1>2, <1>3, <1>4, <1>5, <1>6, <1>7, <1>8, <1>9, <1>10, <1>11, <1>12, <1>13,
     <1>14, <1>15, <1>16, <1>17, <1>18, <1>19, <1>20, <1>21, <1>22, <1>23, <1>24, <1>25,
     <1>26 DEF Next, EngineStep, DeviceStep

-----------------------------------------------------------------------------
(* The initial states satisfy it. *)
LEMMA IInvInit == Init => IInv
<1> SUFFICES ASSUME Init PROVE IInv
  OBVIOUS
<1> USE EngineAssumption, RestartAssumption
<1> USE DEF Init, RunStatus, StepStatus, Suspended, Cancelable, Step, ApprovalStep,
            LastStep, NoApproval
<1>1. stopped \in [Engines -> BOOLEAN] /\ assisting \in BOOLEAN
  BY Zenon
<1>2. TypeOK
  BY <1>1 DEF TypeOK
<1>3. Ownership /\ OneEngine /\ Position /\ ApprovalGate /\ StepsInOrder
  BY DEF Ownership, OneEngine, Position, ApprovalGate, StepsInOrder, Live
<1>4. Freshness /\ Outcome /\ DoneMeansComplete
  BY DEF Freshness, Outcome, DoneMeansComplete
<1> QED BY <1>2, <1>3, <1>4 DEF IInv

(* It holds in every reachable state. *)
LEMMA IInvHolds == Spec => []IInv
  BY IInvInit, IInvNext, PTL DEF Spec

(* Every variable keeps its type. *)
THEOREM TypeCorrect == Spec => []TypeOK
  BY IInvHolds, PTL DEF IInv

(* A live engine that was not stopped is the registered one. *)
THEOREM EngineOwnedHolds == Spec => []EngineOwned
<1>1. IInv => EngineOwned
  BY DEF IInv, Ownership, Live, EngineOwned
<1> QED BY <1>1, IInvHolds, PTL

(* A run is executed by at most one engine. *)
THEOREM OneEngineHolds == Spec => []OneEngine
  BY IInvHolds, PTL DEF IInv

(* No engine passes the approval step without its own request granted. *)
THEOREM ApprovalGateHolds == Spec => []ApprovalGate
  BY IInvHolds, PTL DEF IInv

(* An engine works on a step with the earlier ones done. *)
THEOREM StepsInOrderHolds == Spec => []StepsInOrder
  BY IInvHolds, PTL DEF IInv

(* A manual run is done only with every step done and a granted request. *)
THEOREM DoneMeansCompleteHolds == Spec => []DoneMeansComplete
  BY IInvHolds, PTL DEF IInv

(* What an engine made of a manual run stands. *)
THEOREM ManualOutcomeHolds == Spec => ManualOutcomeIsFinal
<1>1. ASSUME IInv, [Next]_vars, mode = "manual", status \in {"done", "failed"}
      PROVE  status' = status
  <2> USE <1>1 DEF IInv, Suspended, Cancelable, Final
  <2>1. \A e \in Engines : ~Live(e) /\ active # e
    BY DEF Ownership, Live
  <2>2. active = NoEngine /\ ~assisting /\ db = status
    BY <2>1 DEF TypeOK, Ownership, Outcome
  <2>3. \A e \in Engines : ~EngineStep(e)
    BY <2>1 DEF Live, EngineStep, DetailsSent, WorkDone, Settle, NextStep, AskApproval,
                AskSent, ApprovalTimeout
  <2>4. CASE DeviceStep
    <3>1. ASSUME NEW e \in Engines, AskNack(e) PROVE status' = status
      BY <3>1, <2>2 DEF AskNack, KeepStatus
    <3>2. ASSUME NEW e \in Engines, NEW d \in {"approved", "denied"}, Decide(e, d)
          PROVE  status' = status
      BY <3>2, <2>2 DEF Decide, KeepStatus
    <3>3. ASSUME StartNack PROVE status' = status
      BY <3>3 DEF StartNack, KeepStatus
    <3> QED
      BY <2>4, <2>2, <3>1, <3>2, <3>3
      DEF DeviceStep, RunAccept, ShowApproval, AskAck, RunUpdate, AssistantStart,
          StartAck, AssistantActivity, HearCancel, DeviceRestart, runVars
  <2> QED
    BY <2>2, <2>3, <2>4
    DEF Next, DispatchStart, CancelByDevice, CancelByUser, CancelDispatched, CancelSaved,
        Cancel, Restart, runVars, vars
<1> QED BY <1>1, IInvHolds, PTL DEF Spec, ManualOutcomeIsFinal

(* Work starts only under a registered engine. *)
THEOREM NoUnreachableWorkHolds == Spec => NoUnreachableWork
<1>1. ASSUME IInv, [Next]_vars, StepStarts
      PROVE  active' # NoEngine
  <2> USE <1>1 DEF IInv, StepStarts, SetStep, Finish
  <2> USE EngineAssumption
  <2>1. PICK e \in Engines : DetailsSent(e) \/ NextStep(e)
    <3> USE DEF AfterDecision, runVars, deviceVars
    <3>1. ASSUME NEW e \in Engines, EngineStep(e), ~DetailsSent(e), ~NextStep(e)
          PROVE  FALSE
      BY <3>1 DEF TypeOK, EngineStep, WorkDone, Settle, AskApproval, AskSent,
                  ApprovalTimeout, StepStatus
    <3>2. ASSUME DeviceStep PROVE FALSE
      BY <3>2 DEF TypeOK, StepStatus, DeviceStep, RunAccept, ShowApproval, AskAck, AskNack,
                  Decide, HandleApproval, RunUpdate, AssistantStart, StartAck, StartNack,
                  AssistantActivity, HearCancel, DeviceRestart
    <3> QED
      BY <3>1, <3>2 DEF Next, DispatchStart, CancelByDevice, CancelByUser, CancelDispatched,
         CancelSaved, Cancel, Restart, vars
  <2>2. ~stopped[e]
    BY <2>1 DEF DetailsSent, NextStep, EnterStep
  <2>3. active = e
    BY <2>1, <2>2 DEF Ownership, Live, Suspended, DetailsSent, NextStep
  <2> QED BY <2>1, <2>2, <2>3 DEF DetailsSent, NextStep, EnterStep
<1> QED BY <1>1, IInvHolds, PTL DEF Spec, NoUnreachableWork

(* Who returns without an outcome was stopped, so without a cancel and      *)
(* without a restart a run in progress has its engine.                      *)
THEOREM NoRunIsLeftBehindHolds == Spec => []NoRunIsLeftBehind
<1>1. Init => NoRunIsLeftBehind
  BY DEF Init, NoRunIsLeftBehind, InProgress
<1>2. ASSUME IInv, NoRunIsLeftBehind, [Next]_vars PROVE NoRunIsLeftBehind'
  <2> SUFFICES ASSUME mode' = "manual", status' \in InProgress, active' = NoEngine,
                      restarts' = 0, \A e \in Engines : ~stopped'[e]
               PROVE  FALSE
    <3>1. restarts' \in Nat
      BY <1>2, IInvNext, RestartAssumption DEF IInv, TypeOK
    <3> QED BY <3>1 DEF NoRunIsLeftBehind
  <2> USE EngineAssumption DEF InProgress
  <2>0. TypeOK /\ Ownership /\ mode = "manual"
    BY <1>2
    DEF IInv, Next, EngineStep, DetailsSent, WorkDone, Settle, NextStep, AskApproval, AskSent,
        ApprovalTimeout, DeviceStep, RunAccept, ShowApproval, AskAck, AskNack, Decide,
        RunUpdate, AssistantStart, StartAck, StartNack, AssistantActivity, HearCancel,
        DeviceRestart, DispatchStart, CancelByDevice, CancelByUser, CancelDispatched,
        CancelSaved, Cancel, Restart, runVars, vars
  <2>1. ~assisting
    BY <2>0 DEF Ownership
  (* A step that leaves who executes and the status alone. *)
  <2>2. ASSUME UNCHANGED <<status, active, stopped, restarts>> PROVE FALSE
    BY <1>2, <2>0, <2>2 DEF NoRunIsLeftBehind
  <2>3. ASSUME NEW e \in Engines, EngineStep(e) PROVE FALSE
    <3>1. stopped' = stopped /\ restarts' = restarts /\ ~stopped[e] /\ Live(e)
      BY <2>3 DEF EngineStep, DetailsSent, WorkDone, Settle, NextStep, AskApproval, AskSent,
                  ApprovalTimeout, Live, Suspended
    <3>2. active = e
      BY <2>0, <3>1 DEF Ownership
    <3> QED
      BY <2>0, <2>3, <3>1, <3>2
      DEF EngineStep, DetailsSent, WorkDone, Settle, SettleLast, NextStep, AskApproval,
          AskSent, ApprovalTimeout, AfterDecision, EnterStep, Finish, UpdateStatus, KeepStatus
  <2>4. ASSUME NEW e \in Engines, \/ AskNack(e)
                                  \/ \E d \in {"approved", "denied"} : Decide(e, d)
        PROVE  FALSE
    <3>1. UNCHANGED <<stopped, restarts>>
      BY <2>4 DEF AskNack, Decide
    <3>2. CASE UNCHANGED <<status, active>>
      BY <2>2, <3>1, <3>2
    <3>3. CASE ~UNCHANGED <<status, active>>
      <4>1. PICK d \in {"approved", "denied"} : AfterDecision(active, d) /\ active # NoEngine
        BY <2>4, <3>3 DEF AskNack, Decide, HandleApproval, KeepStatus
      <4>2. ~stopped[active]
        BY <2>0, <3>1, <4>1 DEF TypeOK
      <4> QED BY <4>1, <4>2 DEF AfterDecision, UpdateStatus
    <3> QED BY <3>2, <3>3
  <2>5. ASSUME NEW e \in Engines, RunAccept(e) PROVE FALSE
    BY <2>0, <2>5 DEF RunAccept
  <2>6. CASE StartNack
    BY <2>2, <2>6 DEF StartNack, UpdateStatus, KeepStatus, engineVars
  <2>7. CASE Cancel
    BY <2>7 DEF Cancel
  <2>8. CASE Restart
    <3>1. restarts' = restarts + 1 /\ restarts \in Nat
      BY <2>0, <2>8, RestartAssumption DEF Restart, TypeOK
    <3> QED BY <3>1
  <2> QED
    BY <1>2, <2>1, <2>2, <2>3, <2>4, <2>5, <2>6, <2>7, <2>8
    DEF Next, DeviceStep, ShowApproval, AskAck, RunUpdate, AssistantStart, StartAck,
        AssistantActivity, HearCancel, DeviceRestart, DispatchStart, CancelByDevice,
        CancelByUser, CancelDispatched, CancelSaved, runVars, engineVars, vars
<1> QED BY <1>1, <1>2, IInvHolds, PTL DEF Spec
=============================================================================
