------------------------- MODULE CloakDeposit_proofs -------------------------
(***************************************************************************)
(* Proofs about CloakDeposit, for any number of calls, amounts, drafts and *)
(* signatures.  The inductive invariant says what the position of a call   *)
(* says of its draft and its transaction (Position), that two calls do not *)
(* execute one draft unless it was approved twice at a time (OneCall),     *)
(* that a session of a draft that is marked as used is such a second one   *)
(* (Marked), and that a call or the keychain holds the note of each        *)
(* transaction that is not lost (Held).  That a busy panel is held by a    *)
(* call needs the types only (BusyNext).                                   *)
(***************************************************************************)
EXTENDS CloakDeposit, TLAPS

HoldsNote(x, s) == calls[x].at \in {"submit", "save"} /\ calls[x].tx = s

Position ==
    \A x \in Calls :
        /\ calls[x].at \in Executing => calls[x].draft \in 1 .. made
        /\ calls[x].at \in {"submit", "save"} \/ (calls[x].at = "end" /\ calls[x].ok) =>
              calls[x].tx \in 1 .. signed
        /\ calls[x].at = "save" => txs[calls[x].tx].state = "landed"
        /\ calls[x].at = "end" /\ calls[x].ok =>
              txs[calls[x].tx].state = "landed" /\ txs[calls[x].tx].noted
        /\ calls[x].at # "end" => ~calls[x].ok
        /\ calls[x].at = "prepare" /\ calls[x].here /\ ~calls[x].stale =>
              calls[x].amount = amount

Shown == draft <= made /\ DraftIsShown

OneCall ==
    \A x, y \in Calls :
        /\ calls[x].at \in Executing /\ calls[y].at \in Executing
        /\ calls[x].draft = calls[y].draft /\ calls[x].draft \notin together
        => x = y

Marked ==
    /\ \A s \in 1 .. signed : txs[s].draft \in used
    /\ \A x \in Calls : calls[x].at = "prove" /\ calls[x].draft \in used =>
          calls[x].draft \in together

Held ==
    \A s \in 1 .. signed : s \notin lost => txs[s].noted \/ \E x \in Calls : HoldsNote(x, s)

IInv == TypeOK /\ Position /\ Shown /\ OneCall /\ Marked /\ SignedOnceAlone /\ Held

-----------------------------------------------------------------------------
LEMMA InitInv == Init => IInv
<1> SUFFICES ASSUME Init PROVE IInv
  OBVIOUS
<1> USE BoundAssumption DEF Init, Idle, NoDraft, NoTx
<1>1. TypeOK
  BY DEF TypeOK, Call
<1>2. Position
  BY DEF Position, Executing
<1>3. Shown
  BY DEF Shown, DraftIsShown
<1>4. OneCall
  BY DEF OneCall, Executing
<1>5. Marked /\ SignedOnceAlone /\ Held
  BY DEF Marked, SignedOnceAlone, Held
<1> QED BY <1>1, <1>2, <1>3, <1>4, <1>5 DEF IInv

LEMMA CallTypes ==
    ASSUME NEW c \in Call
    PROVE  /\ [c EXCEPT !.here = FALSE] \in Call
           /\ [c EXCEPT !.stale = @ \/ c.at = "prepare"] \in Call
           /\ \A at \in Executing : [c EXCEPT !.at = at] \in Call
           /\ [c EXCEPT !.at = "end", !.ok = TRUE] \in Call
           /\ \A s \in Txs : [c EXCEPT !.at = "submit", !.tx = s] \in Call
<1>1. [c EXCEPT !.here = FALSE] \in Call /\ [c EXCEPT !.stale = @ \/ c.at = "prepare"] \in Call
  BY DEF Call
<1>2. ASSUME NEW at \in Executing PROVE [c EXCEPT !.at = at] \in Call
  BY <1>2 DEF Call
<1>3. [c EXCEPT !.at = "end", !.ok = TRUE] \in Call
  BY DEF Call, Executing
<1>4. ASSUME NEW s \in Txs PROVE [c EXCEPT !.at = "submit", !.tx = s] \in Call
  BY <1>4 DEF Call, Executing
<1> QED BY <1>1, <1>2, <1>3, <1>4

LEMMA IdleIsCall == Idle \in Call
BY DEF Call, Idle

LEMMA EditInv ==
    ASSUME IInv, NEW a \in Amounts \cup {NoAmount}, Edit(a)
    PROVE  IInv'
<1> USE BoundAssumption DEF NoDraft, NoTx, Drafts, Txs
<1>0. TypeOK /\ Position /\ Shown /\ OneCall /\ Marked /\ SignedOnceAlone /\ Held
  BY DEF IInv
<1>1. TypeOK'
  <2>1. calls' \in [Calls -> Call]
    BY <1>0, CallTypes DEF TypeOK, Edit
  <2> QED BY <1>0, <2>1 DEF TypeOK, Edit, draftVars, history
<1> DEFINE Same(x) == /\ calls'[x].at = calls[x].at /\ calls'[x].draft = calls[x].draft
                       /\ calls'[x].tx = calls[x].tx /\ calls'[x].ok = calls[x].ok
<1>8. \A x \in Calls : Same(x)
  BY <1>0 DEF TypeOK, Call, Edit
<1>9. UNCHANGED <<draftVars, used, signed, txs, history>>
  BY DEF Edit
<1>2. Position'
  BY <1>0, <1>1 DEF TypeOK, Call, Position, Executing, Edit, draftVars
<1>3. Shown'
  BY <1>0, <1>1 DEF TypeOK, Shown, DraftIsShown, Edit
<1>4. OneCall'
  BY <1>0, <1>8, <1>9 DEF OneCall, history
<1>5. Marked'
  BY <1>0, <1>8, <1>9 DEF Marked, history
<1>6. SignedOnceAlone'
  BY <1>0, <1>9 DEF SignedOnceAlone, history
<1>7. Held'
  BY <1>0, <1>8, <1>9 DEF Held, HoldsNote, history
<1> QED BY <1>1, <1>2, <1>3, <1>4, <1>5, <1>6, <1>7 DEF IInv

LEMMA ClickPrepareInv ==
    ASSUME IInv, NEW z \in Calls, ClickPrepare(z)
    PROVE  IInv'
<1> USE BoundAssumption DEF NoDraft, NoTx, Drafts, Txs
<1>0. TypeOK /\ Position /\ Shown /\ OneCall /\ Marked /\ SignedOnceAlone /\ Held
  BY DEF IInv
<1>1. TypeOK'
  BY <1>0 DEF TypeOK, Call, ClickPrepare, draftVars, history, Idle
<1>2. Position'
  BY <1>0, <1>1 DEF TypeOK, Position, Executing, ClickPrepare, draftVars, Idle
<1>3. Shown'
  BY <1>0, <1>1 DEF TypeOK, Shown, DraftIsShown, ClickPrepare, draftVars, history
<1>4. OneCall'
  BY <1>0, <1>1 DEF TypeOK, OneCall, Executing, ClickPrepare, history
<1>5. Marked'
  BY <1>0, <1>1 DEF TypeOK, OneCall, Marked, ClickPrepare, history
<1>6. SignedOnceAlone'
  BY <1>0, <1>1 DEF TypeOK, Marked, SignedOnceAlone, ClickPrepare, history
<1>7. Held'
  BY <1>0, <1>1 DEF TypeOK, Held, HoldsNote, ClickPrepare, history
<1> QED BY <1>1, <1>2, <1>3, <1>4, <1>5, <1>6, <1>7 DEF IInv

LEMMA PreparedInv ==
    ASSUME IInv, NEW z \in Calls, Prepared(z)
    PROVE  IInv'
<1> USE BoundAssumption DEF NoDraft, NoTx, Drafts, Txs
<1>0. TypeOK /\ Position /\ Shown /\ OneCall /\ Marked /\ SignedOnceAlone /\ Held
  BY DEF IInv
<1>1. TypeOK'
  BY <1>0 DEF TypeOK, Call, Prepared, Idle
<1>2. Position'
  BY <1>0, <1>1 DEF TypeOK, Position, Executing, Prepared, Idle
<1>3. Shown'
  BY <1>0, <1>1 DEF TypeOK, Position, Shown, DraftIsShown, Prepared
<1>4. OneCall'
  BY <1>0, <1>1 DEF TypeOK, OneCall, Executing, Prepared, Idle
<1>5. Marked'
  BY <1>0, <1>1 DEF TypeOK, OneCall, Marked, Prepared, Idle
<1>6. SignedOnceAlone'
  BY <1>0, <1>1 DEF TypeOK, Marked, SignedOnceAlone, Prepared
<1>7. Held'
  BY <1>0, <1>1 DEF TypeOK, Held, HoldsNote, Prepared
<1> QED BY <1>1, <1>2, <1>3, <1>4, <1>5, <1>6, <1>7 DEF IInv

LEMMA PrepareFailsInv ==
    ASSUME IInv, NEW z \in Calls, PrepareFails(z)
    PROVE  IInv'
<1> USE BoundAssumption DEF NoDraft, NoTx, Drafts, Txs
<1>0. TypeOK /\ Position /\ Shown /\ OneCall /\ Marked /\ SignedOnceAlone /\ Held
  BY DEF IInv
<1>1. TypeOK'
  BY <1>0 DEF TypeOK, Call, PrepareFails, draftVars, history, Idle
<1>2. Position'
  BY <1>0, <1>1 DEF TypeOK, Position, Executing, PrepareFails, draftVars, Idle
<1>3. Shown'
  BY <1>0, <1>1 DEF TypeOK, Shown, DraftIsShown, PrepareFails, draftVars, history
<1>4. OneCall'
  BY <1>0, <1>1 DEF TypeOK, OneCall, Executing, PrepareFails, history, Idle
<1>5. Marked'
  BY <1>0, <1>1 DEF TypeOK, OneCall, Marked, PrepareFails, history, Idle
<1>6. SignedOnceAlone'
  BY <1>0, <1>1 DEF TypeOK, Marked, SignedOnceAlone, PrepareFails, history
<1>7. Held'
  BY <1>0, <1>1 DEF TypeOK, Held, HoldsNote, PrepareFails, history
<1> QED BY <1>1, <1>2, <1>3, <1>4, <1>5, <1>6, <1>7 DEF IInv

LEMMA ClickDepositInv ==
    ASSUME IInv, NEW z \in Calls, ClickDeposit(z)
    PROVE  IInv'
<1> USE BoundAssumption DEF NoDraft, NoTx, Drafts, Txs
<1>0. TypeOK /\ Position /\ Shown /\ OneCall /\ Marked /\ SignedOnceAlone /\ Held
  BY DEF IInv
<1>1. TypeOK'
  BY <1>0 DEF TypeOK, Call, Executing, ClickDeposit, draftVars, Idle
<1>2. Position'
  BY <1>0, <1>1 DEF TypeOK, Position, Shown, ClickDeposit, draftVars, Idle
<1>3. Shown'
  BY <1>0, <1>1 DEF TypeOK, Shown, DraftIsShown, ClickDeposit, draftVars
<1>4. OneCall'
  BY <1>0, <1>1 DEF TypeOK, OneCall, ClickDeposit
<1>5. Marked'
  BY <1>0, <1>1 DEF TypeOK, OneCall, Marked, ClickDeposit
<1>6. SignedOnceAlone'
  BY <1>0, <1>1 DEF TypeOK, Marked, SignedOnceAlone, ClickDeposit
<1>7. Held'
  BY <1>0, <1>1 DEF TypeOK, Held, HoldsNote, ClickDeposit
<1> QED BY <1>1, <1>2, <1>3, <1>4, <1>5, <1>6, <1>7 DEF IInv

LEMMA BeginInv ==
    ASSUME IInv, NEW z \in Calls, Begin(z)
    PROVE  IInv'
<1> USE BoundAssumption DEF NoDraft, NoTx, Drafts, Txs
<1>0. TypeOK /\ Position /\ Shown /\ OneCall /\ Marked /\ SignedOnceAlone /\ Held
  BY DEF IInv
<1>1. TypeOK'
  <2>1. calls' \in [Calls -> Call]
    BY <1>0, CallTypes DEF TypeOK, Executing, Begin, Proceed
  <2> QED BY <1>0, <2>1 DEF TypeOK, Begin, panelVars, draftVars, history
<1>2. Position'
  BY <1>0, <1>1 DEF TypeOK, Position, Executing, Begin, panelVars, draftVars, Proceed
<1>3. Shown'
  BY <1>0, <1>1 DEF TypeOK, Shown, DraftIsShown, Begin, panelVars, draftVars, history
<1>4. OneCall'
  BY <1>0, <1>1 DEF TypeOK, OneCall, Executing, Begin, history, Proceed
<1>5. Marked'
  BY <1>0, <1>1 DEF TypeOK, OneCall, Marked, Begin, history, Proceed
<1>6. SignedOnceAlone'
  BY <1>0, <1>1 DEF TypeOK, Marked, SignedOnceAlone, Begin, history
<1>7. Held'
  BY <1>0, <1>1 DEF TypeOK, Held, HoldsNote, Begin, history, Proceed
<1> QED BY <1>1, <1>2, <1>3, <1>4, <1>5, <1>6, <1>7 DEF IInv

LEMMA BeginFailsInv ==
    ASSUME IInv, NEW z \in Calls, BeginFails(z)
    PROVE  IInv'
<1> USE BoundAssumption DEF NoDraft, NoTx, Drafts, Txs
<1>0. TypeOK /\ Position /\ Shown /\ OneCall /\ Marked /\ SignedOnceAlone /\ Held
  BY DEF IInv
<1>1. TypeOK'
  <2>1. calls' \in [Calls -> Call]
    BY <1>0, CallTypes DEF TypeOK, Executing, BeginFails, Proceed
  <2> QED BY <1>0, <2>1 DEF TypeOK, BeginFails, panelVars, draftVars, history
<1>2. Position'
  BY <1>0, <1>1 DEF TypeOK, Position, Executing, BeginFails, panelVars, draftVars, Proceed
<1>3. Shown'
  BY <1>0, <1>1 DEF TypeOK, Shown, DraftIsShown, BeginFails, panelVars, draftVars, history
<1>4. OneCall'
  BY <1>0, <1>1 DEF TypeOK, OneCall, Executing, BeginFails, history, Proceed
<1>5. Marked'
  BY <1>0, <1>1 DEF TypeOK, OneCall, Marked, BeginFails, history, Proceed
<1>6. SignedOnceAlone'
  BY <1>0, <1>1 DEF TypeOK, Marked, SignedOnceAlone, BeginFails, history
<1>7. Held'
  BY <1>0, <1>1 DEF TypeOK, Held, HoldsNote, BeginFails, history, Proceed
<1> QED BY <1>1, <1>2, <1>3, <1>4, <1>5, <1>6, <1>7 DEF IInv

LEMMA SignInv ==
    ASSUME IInv, NEW z \in Calls, Sign(z)
    PROVE  IInv'
<1> USE BoundAssumption DEF NoDraft, NoTx, Drafts, Txs
<1>0. TypeOK /\ Position /\ Shown /\ OneCall /\ Marked /\ SignedOnceAlone /\ Held
  BY DEF IInv
<1>1. TypeOK'
  <2>1. signed' \in Txs /\ signed' = signed + 1 /\ calls[z].draft \in Drafts
    BY <1>0 DEF TypeOK, Position, Executing, Sign
  <2>2. calls' \in [Calls -> Call]
    BY <1>0, <2>1, CallTypes DEF TypeOK, Sign
  <2>3. txs' \in [Txs -> [draft : Drafts \cup {NoDraft}, noted : BOOLEAN,
                          state : {"none", "signed", "landed"}]]
    BY <1>0, <2>1 DEF TypeOK, Sign
  <2> QED BY <1>0, <2>1, <2>2, <2>3 DEF TypeOK, Sign, panelVars, draftVars, history
<1>2. Position'
  BY <1>0, <1>1 DEF TypeOK, Position, Executing, Sign, panelVars, draftVars
<1>3. Shown'
  BY <1>0, <1>1 DEF TypeOK, Shown, DraftIsShown, Sign, panelVars, draftVars, history
<1>4. OneCall'
  BY <1>0, <1>1 DEF TypeOK, OneCall, Executing, Sign, history
<1>5. Marked'
  BY <1>0, <1>1 DEF TypeOK, OneCall, Marked, Executing, Sign, history
<1>6. SignedOnceAlone'
  <2>1. \A s \in 1 .. signed : txs[s].draft = calls[z].draft => calls[z].draft \in together
    BY <1>0 DEF Marked, Sign
  <2>2. signed' = signed + 1 /\ signed' \in Txs /\ txs'[signed'].draft = calls[z].draft
    BY <1>0 DEF TypeOK, Sign
  <2>3. \A s \in 1 .. signed : txs'[s] = txs[s]
    BY <1>0 DEF TypeOK, Sign
  <2> QED BY <1>0, <2>1, <2>2, <2>3 DEF TypeOK, SignedOnceAlone, Sign, history
<1>7. Held'
  <2>1. signed' = signed + 1 /\ calls'[z].at = "submit" /\ calls'[z].tx = signed'
    BY <1>0 DEF TypeOK, Sign
  <2>2. \A s \in 1 .. signed : txs'[s] = txs[s]
    BY <1>0 DEF TypeOK, Sign
  <2>3. \A x \in Calls, s \in 1 .. signed : HoldsNote(x, s) => HoldsNote(x, s)'
    BY <1>0 DEF TypeOK, Sign, HoldsNote
  <2>4. \A s \in 1 .. signed' : s \in 1 .. signed \/ s = signed'
    BY <1>0, <2>1 DEF TypeOK
  <2>6. lost' = lost
    BY DEF Sign, history
  <2> SUFFICES ASSUME NEW s \in 1 .. signed', s \notin lost
               PROVE  txs'[s].noted \/ \E x \in Calls : HoldsNote(x, s)'
    BY <2>6 DEF Held
  <2>7. CASE s \in 1 .. signed
    BY <1>0, <2>2, <2>3, <2>7 DEF Held
  <2>8. CASE s = signed'
    BY <2>1, <2>8 DEF HoldsNote
  <2> QED BY <2>4, <2>7, <2>8
<1> QED BY <1>1, <1>2, <1>3, <1>4, <1>5, <1>6, <1>7 DEF IInv

LEMMA SignFailsInv ==
    ASSUME IInv, NEW z \in Calls, SignFails(z)
    PROVE  IInv'
<1> USE BoundAssumption DEF NoDraft, NoTx, Drafts, Txs
<1>0. TypeOK /\ Position /\ Shown /\ OneCall /\ Marked /\ SignedOnceAlone /\ Held
  BY DEF IInv
<1>1. TypeOK'
  <2>1. calls' \in [Calls -> Call]
    BY <1>0, CallTypes DEF TypeOK, Executing, SignFails, Proceed
  <2> QED BY <1>0, <2>1 DEF TypeOK, SignFails, panelVars, draftVars, history
<1>2. Position'
  BY <1>0, <1>1 DEF TypeOK, Position, Executing, SignFails, panelVars, draftVars, Proceed
<1>3. Shown'
  BY <1>0, <1>1 DEF TypeOK, Shown, DraftIsShown, SignFails, panelVars, draftVars, history
<1>4. OneCall'
  BY <1>0, <1>1 DEF TypeOK, OneCall, Executing, SignFails, history, Proceed
<1>5. Marked'
  BY <1>0, <1>1 DEF TypeOK, OneCall, Marked, SignFails, history, Proceed
<1>6. SignedOnceAlone'
  BY <1>0, <1>1 DEF TypeOK, Marked, SignedOnceAlone, SignFails, history
<1>7. Held'
  BY <1>0, <1>1 DEF TypeOK, Held, HoldsNote, SignFails, history, Proceed
<1> QED BY <1>1, <1>2, <1>3, <1>4, <1>5, <1>6, <1>7 DEF IInv

LEMMA SubmittedInv ==
    ASSUME IInv, NEW z \in Calls, Submitted(z)
    PROVE  IInv'
<1> USE BoundAssumption DEF NoDraft, NoTx, Drafts, Txs
<1>0. TypeOK /\ Position /\ Shown /\ OneCall /\ Marked /\ SignedOnceAlone /\ Held
  BY DEF IInv
<1>1. TypeOK'
  <2>1. calls' \in [Calls -> Call]
    BY <1>0, CallTypes DEF TypeOK, Executing, Submitted, Proceed
  <2> QED BY <1>0, <2>1 DEF TypeOK, Submitted, panelVars, draftVars, history
<1>2. Position'
  BY <1>0, <1>1 DEF TypeOK, Position, Executing, Submitted, panelVars, draftVars, Proceed
<1>3. Shown'
  BY <1>0, <1>1 DEF TypeOK, Shown, DraftIsShown, Submitted, panelVars, draftVars, history
<1>4. OneCall'
  BY <1>0, <1>1 DEF TypeOK, OneCall, Executing, Submitted, history, Proceed
<1>5. Marked'
  BY <1>0, <1>1 DEF TypeOK, OneCall, Marked, Submitted, history, Proceed
<1>6. SignedOnceAlone'
  BY <1>0, <1>1 DEF TypeOK, Marked, SignedOnceAlone, Submitted, history
<1>7. Held'
  BY <1>0, <1>1 DEF TypeOK, Held, HoldsNote, Submitted, history, Proceed
<1> QED BY <1>1, <1>2, <1>3, <1>4, <1>5, <1>6, <1>7 DEF IInv

LEMMA DepositFailsInv ==
    ASSUME IInv, NEW z \in Calls, DepositFails(z)
    PROVE  IInv'
<1> USE BoundAssumption DEF NoDraft, NoTx, Drafts, Txs
<1>0. TypeOK /\ Position /\ Shown /\ OneCall /\ Marked /\ SignedOnceAlone /\ Held
  BY DEF IInv
<1>1. TypeOK'
  <2>1. calls[z] \in Call /\ calls[z].tx \in Txs
    BY <1>0 DEF TypeOK, Position, DepositFails
  <2>2. calls' \in [Calls -> Call]
    BY <1>0, <2>1 DEF TypeOK, Call, Executing, DepositFails, Proceed
  <2>3. lost' \subseteq Txs
    BY <1>0, <2>1 DEF TypeOK, DepositFails
  <2> QED BY <1>0, <2>2, <2>3 DEF TypeOK, DepositFails, panelVars, draftVars
<1>2. Position'
  BY <1>0, <1>1 DEF TypeOK, Position, Executing, DepositFails, panelVars, draftVars, Proceed
<1>3. Shown'
  BY <1>0, <1>1 DEF TypeOK, Shown, DraftIsShown, DepositFails, panelVars, draftVars
<1>4. OneCall'
  BY <1>0, <1>1 DEF TypeOK, OneCall, Executing, DepositFails, Proceed
<1>5. Marked'
  BY <1>0, <1>1 DEF TypeOK, OneCall, Marked, DepositFails, Proceed
<1>6. SignedOnceAlone'
  BY <1>0, <1>1 DEF TypeOK, Marked, SignedOnceAlone, DepositFails
<1>7. Held'
  BY <1>0, <1>1 DEF TypeOK, Held, HoldsNote, DepositFails, Proceed
<1> QED BY <1>1, <1>2, <1>3, <1>4, <1>5, <1>6, <1>7 DEF IInv

LEMMA SaveInv ==
    ASSUME IInv, NEW z \in Calls, Save(z)
    PROVE  IInv'
<1> USE BoundAssumption DEF NoDraft, NoTx, Drafts, Txs
<1>0. TypeOK /\ Position /\ Shown /\ OneCall /\ Marked /\ SignedOnceAlone /\ Held
  BY DEF IInv
<1>1. TypeOK'
  <2>1. calls' \in [Calls -> Call]
    BY <1>0, CallTypes DEF TypeOK, Save
  <2>2. txs' \in [Txs -> [draft : Drafts \cup {NoDraft}, noted : BOOLEAN,
                          state : {"none", "signed", "landed"}]]
    <3>1. txs' = [txs EXCEPT ![calls[z].tx].noted = TRUE]
      BY DEF Save
    <3> DEFINE Record == [draft : Drafts \cup {NoDraft}, noted : BOOLEAN,
                          state : {"none", "signed", "landed"}]
    <3>2. \A t \in Txs : txs[t] \in Record /\ [txs[t] EXCEPT !.noted = TRUE] \in Record
      BY <1>0 DEF TypeOK
    <3>3. txs \in [Txs -> Record]
      BY <1>0 DEF TypeOK
    <3> HIDE DEF Record
    <3>4. txs' \in [Txs -> Record]
      BY <3>1, <3>2, <3>3
    <3> QED BY <3>4 DEF Record
  <2>3. UNCHANGED <<panelVars, draftVars, used, signed, history>>
    BY DEF Save
  <2> QED BY <1>0, <2>1, <2>2, <2>3 DEF TypeOK, panelVars, draftVars, history
<1>2. Position'
  <2>1. /\ calls[z].at = "save" /\ calls[z].tx \in 1 .. signed /\ calls[z].draft \in 1 .. made
        /\ txs[calls[z].tx].state = "landed" /\ calls[z].tx \in Txs
    BY <1>0 DEF TypeOK, Position, Executing, Save
  <2>2. \A x \in Calls : x # z => calls'[x] = calls[x]
    BY <1>0 DEF TypeOK, Save
  <2>3. /\ calls'[z].at = "end" /\ calls'[z].ok
        /\ calls'[z].tx = calls[z].tx /\ calls'[z].draft = calls[z].draft
    BY <1>0 DEF TypeOK, Call, Save
  <2>4. \A s \in Txs : /\ txs'[s].state = txs[s].state
                       /\ txs[s].noted \/ s = calls[z].tx => txs'[s].noted
    BY <1>0, <2>1 DEF TypeOK, Save
  <2>5. signed' = signed /\ made' = made /\ amount' = amount /\ signed \in Txs \cup {0}
    BY <1>0 DEF TypeOK, Save, panelVars, draftVars
  <2> QED BY <1>0, <2>1, <2>2, <2>3, <2>4, <2>5 DEF Position, Executing
<1>3. Shown'
  BY <1>0, <1>1 DEF TypeOK, Shown, DraftIsShown, Save, panelVars, draftVars, history
<1>4. OneCall'
  BY <1>0, <1>1 DEF TypeOK, OneCall, Executing, Save, history
<1>5. Marked'
  BY <1>0, <1>1 DEF TypeOK, OneCall, Marked, Save, history
<1>6. SignedOnceAlone'
  BY <1>0, <1>1 DEF TypeOK, Marked, SignedOnceAlone, Save, history
<1>7. Held'
  BY <1>0, <1>1 DEF TypeOK, Call, Position, Held, HoldsNote, Save, panelVars, draftVars, history
<1> QED BY <1>1, <1>2, <1>3, <1>4, <1>5, <1>6, <1>7 DEF IInv

LEMMA EndInv ==
    ASSUME IInv, NEW z \in Calls, End(z)
    PROVE  IInv'
<1> USE BoundAssumption DEF NoDraft, NoTx, Drafts, Txs
<1>0. TypeOK /\ Position /\ Shown /\ OneCall /\ Marked /\ SignedOnceAlone /\ Held
  BY DEF IInv
<1>1. TypeOK'
  BY <1>0 DEF TypeOK, Call, End, draftVars, history, Idle
<1>2. Position'
  BY <1>0, <1>1 DEF TypeOK, Position, Executing, End, draftVars, Idle
<1>3. Shown'
  BY <1>0, <1>1 DEF TypeOK, Shown, DraftIsShown, End, draftVars, history
<1>4. OneCall'
  BY <1>0, <1>1 DEF TypeOK, OneCall, Executing, End, history, Idle
<1>5. Marked'
  BY <1>0, <1>1 DEF TypeOK, OneCall, Marked, End, history, Idle
<1>6. SignedOnceAlone'
  BY <1>0, <1>1 DEF TypeOK, Marked, SignedOnceAlone, End, history
<1>7. Held'
  BY <1>0, <1>1 DEF TypeOK, Held, HoldsNote, End, history
<1> QED BY <1>1, <1>2, <1>3, <1>4, <1>5, <1>6, <1>7 DEF IInv

LEMMA ExpireDraftInv ==
    ASSUME IInv, NEW d \in Drafts, ExpireDraft(d)
    PROVE  IInv'
<1> USE BoundAssumption DEF NoDraft, NoTx, Drafts, Txs
<1>0. TypeOK /\ Position /\ Shown /\ OneCall /\ Marked /\ SignedOnceAlone /\ Held
  BY DEF IInv
<1>1. TypeOK'
  BY <1>0 DEF TypeOK, ExpireDraft, panelVars, history
<1>2. Position'
  BY <1>0, <1>1 DEF TypeOK, Position, ExpireDraft, panelVars
<1>3. Shown'
  BY <1>0, <1>1 DEF TypeOK, Shown, DraftIsShown, ExpireDraft, panelVars, history
<1>4. OneCall'
  BY <1>0, <1>1 DEF TypeOK, OneCall, ExpireDraft, history
<1>5. Marked'
  BY <1>0, <1>1 DEF TypeOK, OneCall, Marked, ExpireDraft, history
<1>6. SignedOnceAlone'
  BY <1>0, <1>1 DEF TypeOK, Marked, SignedOnceAlone, ExpireDraft, history
<1>7. Held'
  BY <1>0, <1>1 DEF TypeOK, Held, HoldsNote, ExpireDraft, history
<1> QED BY <1>1, <1>2, <1>3, <1>4, <1>5, <1>6, <1>7 DEF IInv

LEMMA LandInv ==
    ASSUME IInv, NEW t \in Txs, Land(t)
    PROVE  IInv'
<1> USE BoundAssumption DEF NoDraft, NoTx, Drafts, Txs
<1>0. TypeOK /\ Position /\ Shown /\ OneCall /\ Marked /\ SignedOnceAlone /\ Held
  BY DEF IInv
<1>1. TypeOK'
  BY <1>0 DEF TypeOK, Land, panelVars, draftVars, history
<1>2. Position'
  BY <1>0, <1>1 DEF TypeOK, Position, Land, panelVars, draftVars
<1>3. Shown'
  BY <1>0, <1>1 DEF TypeOK, Shown, DraftIsShown, Land, panelVars, draftVars, history
<1>4. OneCall'
  BY <1>0, <1>1 DEF TypeOK, OneCall, Land, history
<1>5. Marked'
  BY <1>0, <1>1 DEF TypeOK, OneCall, Marked, Land, history
<1>6. SignedOnceAlone'
  BY <1>0, <1>1 DEF TypeOK, Marked, SignedOnceAlone, Land, history
<1>7. Held'
  BY <1>0, <1>1 DEF TypeOK, Held, HoldsNote, Land, history
<1> QED BY <1>1, <1>2, <1>3, <1>4, <1>5, <1>6, <1>7 DEF IInv

LEMMA LeaveInv ==
    ASSUME IInv, Leave
    PROVE  IInv'
<1> USE BoundAssumption DEF NoDraft, NoTx, Drafts, Txs
<1>0. TypeOK /\ Position /\ Shown /\ OneCall /\ Marked /\ SignedOnceAlone /\ Held
  BY DEF IInv
<1>1. TypeOK'
  <2>1. calls' \in [Calls -> Call]
    BY <1>0, CallTypes, IdleIsCall DEF TypeOK, Leave
  <2> QED BY <1>0, <2>1 DEF TypeOK, Leave, draftVars, history
<1>2. Position'
  BY <1>0, <1>1 DEF TypeOK, Position, Executing, Leave, draftVars, Idle
<1>3. Shown'
  BY <1>0, <1>1 DEF TypeOK, Shown, DraftIsShown, Leave
<1>4. OneCall'
  BY <1>0, <1>1 DEF TypeOK, OneCall, Executing, Leave, history, Idle
<1>5. Marked'
  BY <1>0, <1>1 DEF TypeOK, OneCall, Marked, Leave, history, Idle
<1>6. SignedOnceAlone'
  BY <1>0, <1>1 DEF TypeOK, Marked, SignedOnceAlone, Leave, history
<1>7. Held'
  BY <1>0, <1>1 DEF TypeOK, Held, HoldsNote, Leave, draftVars, history, Idle
<1> QED BY <1>1, <1>2, <1>3, <1>4, <1>5, <1>6, <1>7 DEF IInv

LEMMA QuitInv ==
    ASSUME IInv, Quit
    PROVE  IInv'
<1> USE BoundAssumption DEF NoDraft, NoTx, Drafts, Txs
<1>0. TypeOK /\ Position /\ Shown /\ OneCall /\ Marked /\ SignedOnceAlone /\ Held
  BY DEF IInv
<1>1. TypeOK'
  <2>1. calls' \in [Calls -> Call]
    BY DEF Quit, Idle, Call
  <2>2. \A x \in Calls : calls[x].at \in {"submit", "save"} => calls[x].tx \in Txs
    BY <1>0 DEF TypeOK, Position
  <2>3. lost' \subseteq Txs
    BY <1>0, <2>2 DEF TypeOK, Quit
  <2> QED BY <1>0, <2>1, <2>3 DEF TypeOK, Quit, draftVars
<1>2. Position'
  BY <1>0, <1>1 DEF TypeOK, Position, Executing, Quit, Idle
<1>3. Shown'
  BY <1>0, <1>1 DEF TypeOK, Shown, DraftIsShown, Quit
<1>4. OneCall'
  BY <1>0, <1>1 DEF TypeOK, OneCall, Executing, Quit, Idle
<1>5. Marked'
  BY <1>0, <1>1 DEF TypeOK, OneCall, Marked, Quit, Idle
<1>6. SignedOnceAlone'
  BY <1>0, <1>1 DEF TypeOK, Marked, SignedOnceAlone, Quit
<1>7. Held'
  <2>1. ASSUME NEW s \in 1 .. signed, s \notin lost' PROVE txs[s].noted
    <3>1. \A x \in Calls : ~HoldsNote(x, s)
      BY <2>1 DEF HoldsNote, Quit
    <3> QED BY <1>0, <2>1, <3>1 DEF Held, Quit
  <2> QED BY <2>1 DEF Held, Quit
<1> QED BY <1>1, <1>2, <1>3, <1>4, <1>5, <1>6, <1>7 DEF IInv

LEMMA NextInv == IInv /\ [Next]_vars => IInv'
<1> SUFFICES ASSUME IInv, [Next]_vars PROVE IInv'
  OBVIOUS
<1>1. CASE \E a \in Amounts \cup {NoAmount} : Edit(a)
  BY <1>1, EditInv
<1>2. CASE \E x \in Calls : PanelStep(x)
  BY <1>2, ClickPrepareInv, PreparedInv, PrepareFailsInv, ClickDepositInv DEF PanelStep
<1>3. CASE \E x \in Calls : Execution(x)
  BY <1>3, BeginInv, BeginFailsInv, SignInv, SignFailsInv, SubmittedInv, DepositFailsInv,
     SaveInv, EndInv DEF Execution
<1>4. CASE \E d \in Drafts : ExpireDraft(d)
  BY <1>4, ExpireDraftInv
<1>5. CASE \E s \in Txs : Land(s)
  BY <1>5, LandInv
<1>6. CASE Leave \/ Quit
  BY <1>6, LeaveInv, QuitInv
<1>7. CASE UNCHANGED vars
  BY <1>7 DEF vars, panelVars, draftVars, history, IInv, TypeOK, Position, Shown, DraftIsShown,
     OneCall, Marked, SignedOnceAlone, Held, HoldsNote
<1> QED BY <1>1, <1>2, <1>3, <1>4, <1>5, <1>6, <1>7 DEF Next

(* The inductive invariant holds in every reachable state. *)
THEOREM Invariance == Spec => []IInv
BY InitInv, NextInv, PTL DEF Spec

(* The types hold in every reachable state: in particular no more drafts are *)
(* marked or signed than were prepared.                                      *)
THEOREM TypeCorrect == Spec => []TypeOK
<1>1. IInv => TypeOK
  BY DEF IInv
<1> QED BY <1>1, Invariance, PTL

(* A draft that is not approved while a call executes it is signed once, by *)
(* whatever order of failures, expiries and approvals.                      *)
THEOREM SignedOnceAloneHolds == Spec => []SignedOnceAlone
<1>1. IInv => SignedOnceAlone
  BY DEF IInv
<1> QED BY <1>1, Invariance, PTL

(* The note of a deposit that landed is saved or about to be, unless its call *)
(* failed or the application ended after the signature.                       *)
THEOREM EveryDepositHasItsNoteHolds == Spec => []EveryDepositHasItsNote
<1>1. IInv => EveryDepositHasItsNote
  BY DEF IInv, Held, HoldsNote, EveryDepositHasItsNote
<1> QED BY <1>1, Invariance, PTL

(* The draft that would be deposited is of the amount in the field, unless that *)
(* was edited while the draft was prepared.                                     *)
THEOREM DraftIsShownHolds == Spec => []DraftIsShown
<1>1. IInv => DraftIsShown
  BY DEF IInv, Shown
<1> QED BY <1>1, Invariance, PTL

(* The panel says "confirmed" only of a deposit that landed and whose note is *)
(* in the keychain.                                                           *)
THEOREM ConfirmedIsSavedHolds == Spec => ConfirmedIsSaved
<1> DEFINE Ended == \E x \in Calls : \E s \in 1 .. signed :
                       /\ calls[x].at = "end" /\ calls'[x].at = "idle" /\ calls[x].tx = s
                       /\ txs[s].state = "landed" /\ txs[s].noted
           Says == status # "confirmed" /\ status' = "confirmed"
<1>1. IInv /\ [Next]_vars => [Says => Ended]_vars
  <2> SUFFICES ASSUME IInv, Next, Says PROVE Ended
    BY DEF vars
  <2>1. PICK x \in Calls : End(x)
    BY DEF Next, PanelStep, Execution, panelVars, Edit, ClickPrepare, Prepared, PrepareFails,
       ClickDeposit, Leave, Begin, BeginFails, Sign, SignFails, Submitted, DepositFails, Save,
       ExpireDraft, Land, Quit
  <2>2. calls[x].at = "end" /\ calls[x].ok
    BY <2>1 DEF End
  <2>3. calls'[x].at = "idle"
    BY <2>1 DEF End, Idle, IInv, TypeOK
  <2> QED BY <2>2, <2>3 DEF IInv, Position
<1>2. [][Says => Ended]_vars <=> ConfirmedIsSaved
  BY DEF ConfirmedIsSaved
<1> QED BY <1>1, <1>2, Invariance, PTL DEF Spec
-----------------------------------------------------------------------------
(* The panel is busy with something *)

(* A call of the panel that is still there goes on with what it does. *)
GoesOn(x) ==
    calls[x].here =>
        /\ calls[x].at \in Executing => calls'[x].at \in Executing /\ calls'[x].here
        /\ calls[x].at = "prepare" => calls'[x].at = "prepare" /\ calls'[x].here

LEMMA BusyFrame ==
    ASSUME BusyIsReal,
           \/ status' \notin {"submitting", "preparing"}
           \/ status' = status /\ \A x \in Calls : GoesOn(x)
    PROVE  BusyIsReal'
BY DEF BusyIsReal, GoesOn

(* A call that ends frees the panel that made it; what no longer has one is *)
(* not busy.                                                                *)
LEMMA BusyNext == TypeOK /\ BusyIsReal /\ [Next]_vars => BusyIsReal'
<1> SUFFICES ASSUME TypeOK, BusyIsReal, [Next]_vars PROVE BusyIsReal'
  OBVIOUS
<1>0. calls \in [Calls -> Call] /\ \A x \in Calls : calls[x].here \in BOOLEAN
  BY DEF TypeOK, Call
<1>1. ASSUME NEW a \in Amounts \cup {NoAmount}, Edit(a) PROVE BusyIsReal'
  <2>1. \A x \in Calls : GoesOn(x)
    BY <1>0, <1>1 DEF Edit, GoesOn, Call
  <2> QED BY <1>1, <2>1, BusyFrame DEF Edit
<1>2. ASSUME NEW x \in Calls, PanelStep(x) PROVE BusyIsReal'
  <2>1. CASE ClickPrepare(x)
    <3>1. status' = "preparing" /\ calls'[x].at = "prepare" /\ calls'[x].here
      BY <1>0, <2>1 DEF ClickPrepare, Idle
    <3> QED BY <3>1 DEF BusyIsReal
  <2>2. CASE ClickDeposit(x)
    <3>1. status' = "submitting" /\ calls'[x].at \in Executing /\ calls'[x].here
      BY <1>0, <2>2 DEF ClickDeposit, Idle, Executing
    <3> QED BY <3>1 DEF BusyIsReal
  <2>3. CASE Prepared(x) \/ PrepareFails(x)
    <3>1. CASE calls[x].here
      BY <2>3, <3>1, BusyFrame DEF Prepared, PrepareFails
    <3>2. CASE ~calls[x].here
      <4>1. \A y \in Calls : GoesOn(y)
        BY <1>0, <2>3, <3>2 DEF Prepared, PrepareFails, GoesOn
      <4> QED BY <2>3, <3>2, <4>1, BusyFrame DEF Prepared, PrepareFails
    <3> QED BY <3>1, <3>2
  <2> QED BY <1>2, <2>1, <2>2, <2>3 DEF PanelStep
<1>3. ASSUME NEW x \in Calls, Execution(x) PROVE BusyIsReal'
  <2>1. CASE End(x)
    <3>1. CASE calls[x].here
      BY <2>1, <3>1, BusyFrame DEF End
    <3>2. CASE ~calls[x].here
      <4>1. \A y \in Calls : GoesOn(y)
        BY <1>0, <2>1, <3>2 DEF End, GoesOn
      <4> QED BY <2>1, <3>2, <4>1, BusyFrame DEF End
    <3> QED BY <3>1, <3>2
  <2>2. CASE Begin(x) \/ BeginFails(x) \/ SignFails(x) \/ Submitted(x) \/ DepositFails(x)
    <3>1. PICK at \in Executing : Proceed(x, at)
      BY <2>2 DEF Begin, BeginFails, SignFails, Submitted, DepositFails, Executing
    <3>2. calls[x].at \in Executing
      BY <2>2 DEF Begin, BeginFails, SignFails, Submitted, DepositFails, Executing
    <3>3. \A y \in Calls : GoesOn(y)
      BY <1>0, <3>1, <3>2 DEF Proceed, GoesOn, Call, Executing
    <3>4. status' = status
      BY <2>2 DEF Begin, BeginFails, SignFails, Submitted, DepositFails, panelVars
    <3> QED BY <3>3, <3>4, BusyFrame
  <2>3. CASE Sign(x) \/ Save(x)
    <3>1. \A y \in Calls : GoesOn(y)
      BY <1>0, <2>3 DEF Sign, Save, GoesOn, Call, Executing
    <3>2. status' = status
      BY <2>3 DEF Sign, Save, panelVars
    <3> QED BY <3>1, <3>2, BusyFrame
  <2> QED BY <1>3, <2>1, <2>2, <2>3 DEF Execution
<1>4. ASSUME \/ \E d \in Drafts : ExpireDraft(d)
             \/ \E s \in Txs : Land(s)
             \/ UNCHANGED vars
      PROVE  BusyIsReal'
  <2>1. UNCHANGED <<status, calls>>
    BY <1>4 DEF ExpireDraft, Land, vars, panelVars
  <2> QED BY <2>1, BusyFrame DEF GoesOn
<1>5. CASE Leave \/ Quit
  BY <1>5, BusyFrame DEF Leave, Quit
<1> QED BY <1>1, <1>2, <1>3, <1>4, <1>5 DEF Next

(* The panel is busy only while a call of its own is in progress, so its *)
(* buttons come back, whatever fails and whatever else ends meanwhile.   *)
THEOREM BusyIsRealHolds == Spec => []BusyIsReal
<1>1. Init => BusyIsReal
  BY DEF Init, BusyIsReal
<1>2. TypeOK /\ BusyIsReal /\ [Next]_vars => BusyIsReal'
  BY BusyNext
<1> QED BY <1>1, <1>2, TypeCorrect, PTL DEF Spec
=============================================================================
