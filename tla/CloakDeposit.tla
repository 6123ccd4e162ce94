---------------------------- MODULE CloakDeposit ----------------------------
(***************************************************************************)
(* Deposits of SOL into Cloak from the desktop wallet: the panel, where    *)
(* the user prepares and approves a draft (CloakWalletPanel.tsx), the call *)
(* that executes it through the SDK (cloakDeposit.ts), and the commands    *)
(* in Rust that prepare the draft, open a signing session, sign once and   *)
(* keep the note without which the deposit cannot be spent (lib.rs).       *)
(*                                                                         *)
(* The panel's handlers run to their first await, so several calls may be  *)
(* in flight; a command in Rust is one step.  The wallet, its lock, the    *)
(* approval checkbox and the viewing-key message are left out: they allow  *)
(* or forbid a step but change nothing that is modelled.                   *)
(***************************************************************************)
EXTENDS Naturals

CONSTANTS
    Calls,               \* the panel's calls in flight at a time
    Amounts, NoAmount,   \* what may be in the amount field
    MaxDrafts,           \* bound on drafts
    MaxSigned            \* bound on signed transactions

ASSUME AmountAssumption == NoAmount \notin Amounts
ASSUME BoundAssumption == {MaxDrafts, MaxSigned} \subseteq Nat

Drafts == 1 .. MaxDrafts
NoDraft == 0
Txs == 1 .. MaxSigned
NoTx == 0

VARIABLES
    amount, draft, status,  \* the panel: depositLamports, depositDraft, depositStatus
    calls,
    made, amountOf,         \* the drafts in the keychain, numbered
    expired, used,          \* those that are too old, and those marked as used
    signed, txs,            \* the transactions signed, numbered, and their fate
    together,               \* history: drafts approved while a call executed them
    overtaken,              \* history: drafts whose amount was edited as they were prepared
    lost                    \* history: transactions whose call failed or died on the way

panelVars == <<amount, draft, status>>
draftVars == <<made, amountOf, expired>>
history == <<together, overtaken, lost>>
vars == <<panelVars, calls, draftVars, used, signed, txs, history>>

(* here: the panel that made the call is still mounted; stale: the amount was *)
(* edited since; at "prove" a signing session is open that allows a signature *)
Idle == [at |-> "idle", draft |-> NoDraft, amount |-> NoAmount, here |-> TRUE,
         stale |-> FALSE, tx |-> NoTx, ok |-> FALSE]

Executing == {"begin", "prove", "submit", "save", "end"}

Init ==
    /\ amount = NoAmount /\ draft = NoDraft /\ status = "idle"
    /\ calls = [x \in Calls |-> Idle]
    /\ made = 0 /\ amountOf = [d \in Drafts |-> NoAmount]
    /\ expired = {} /\ used = {}
    /\ signed = 0
    /\ txs = [s \in Txs |-> [draft |-> NoDraft, state |-> "none", noted |-> FALSE]]
    /\ together = {} /\ overtaken = {} /\ lost = {}

-----------------------------------------------------------------------------
(* The panel *)

(* Variant: the draft of the old amount stays. *)
EditKeepsDraft(a) ==
    /\ amount' = a
    /\ calls' = [x \in Calls |-> [calls[x] EXCEPT !.stale = @ \/ calls[x].at = "prepare"]]
    /\ UNCHANGED <<draft, status, draftVars, used, signed, txs, history>>

(* Something else is typed, an amount or not: the draft is dropped, a prepare *)
(* in flight is not.                                                          *)
Edit(a) ==
    /\ amount' = a
    /\ draft' = NoDraft
    /\ calls' = [x \in Calls |-> [calls[x] EXCEPT !.stale = @ \/ calls[x].at = "prepare"]]
    /\ UNCHANGED <<status, draftVars, used, signed, txs, history>>

(* handlePrepareDeposit; the draft shown stays *)
ClickPrepare(x) ==
    /\ calls[x].at = "idle"
    /\ amount # NoAmount
    /\ status \notin {"preparing", "submitting"}
    /\ status' = "preparing"
    /\ calls' = [calls EXCEPT ![x] = [Idle EXCEPT !.at = "prepare", !.amount = amount]]
    /\ UNCHANGED <<amount, draft, draftVars, used, signed, txs, history>>

(* wallet_cloak_deposit_prepare, and its answer *)
Prepared(x) ==
    LET d == made + 1
        c == calls[x]
    IN
    /\ c.at = "prepare"
    /\ made < MaxDrafts
    /\ made' = d
    /\ amountOf' = [amountOf EXCEPT ![d] = c.amount]
    /\ draft' = IF c.here THEN d ELSE draft
    /\ status' = IF c.here THEN "ready" ELSE status
    /\ overtaken' = IF c.stale THEN overtaken \cup {d} ELSE overtaken
    /\ calls' = [calls EXCEPT ![x] = Idle]
    /\ UNCHANGED <<amount, expired, used, signed, txs, together, lost>>

PrepareFails(x) ==
    LET c == calls[x] IN
    /\ c.at = "prepare"
    /\ draft' = IF c.here THEN NoDraft ELSE draft
    /\ status' = IF c.here THEN "failed" ELSE status
    /\ calls' = [calls EXCEPT ![x] = Idle]
    /\ UNCHANGED <<amount, draftVars, used, signed, txs, history>>

(* handleExecuteDeposit *)
ClickDeposit(x) ==
    /\ calls[x].at = "idle"
    /\ draft # NoDraft
    /\ status # "submitting"
    /\ status' = "submitting"
    /\ together' = IF \E y \in Calls : calls[y].at \in Executing /\ calls[y].draft = draft
                   THEN together \cup {draft} ELSE together
    /\ calls' = [calls EXCEPT ![x] = [Idle EXCEPT !.at = "begin", !.draft = draft]]
    /\ UNCHANGED <<amount, draft, draftVars, used, signed, txs, overtaken, lost>>

(* Another tab of the workbench is opened: the panel is unmounted, and its *)
(* calls go on for nobody.                                                  *)
Leave ==
    /\ amount' = NoAmount /\ draft' = NoDraft /\ status' = "idle"
    /\ calls' = [x \in Calls |-> IF calls[x].at = "idle" THEN Idle
                                 ELSE [calls[x] EXCEPT !.here = FALSE]]
    /\ UNCHANGED <<draftVars, used, signed, txs, history>>

-----------------------------------------------------------------------------
(* executeCloakDepositWithSignerBridge, and the commands it invokes *)

Proceed(x, at) == calls' = [calls EXCEPT ![x].at = at]

(* Variant: the used marker is not looked at. *)
BeginUsed(x) ==
    /\ calls[x].at = "begin"
    /\ calls[x].draft \notin expired
    /\ Proceed(x, "prove")
    /\ UNCHANGED <<panelVars, draftVars, used, signed, txs, history>>

(* wallet_cloak_begin_signing_session: the approval is valid, a session opens *)
Begin(x) ==
    /\ calls[x].at = "begin"
    /\ calls[x].draft \notin used \cup expired
    /\ Proceed(x, "prove")
    /\ UNCHANGED <<panelVars, draftVars, used, signed, txs, history>>

(* The session is refused, or the SDK does not load. *)
BeginFails(x) ==
    /\ calls[x].at = "begin"
    /\ Proceed(x, "end")
    /\ UNCHANGED <<panelVars, draftVars, used, signed, txs, history>>

(* The proof is made, and wallet_cloak_sign_transaction signs the deposit: it *)
(* looks at the session only, and marks the draft.                            *)
Sign(x) ==
    LET s == signed + 1
        d == calls[x].draft
    IN
    /\ calls[x].at = "prove"
    /\ signed < MaxSigned
    /\ signed' = s
    /\ txs' = [txs EXCEPT ![s] = [draft |-> d, state |-> "signed", noted |-> FALSE]]
    /\ used' = used \cup {d}
    /\ calls' = [calls EXCEPT ![x].at = "submit", ![x].tx = s]
    /\ UNCHANGED <<panelVars, draftVars, history>>

(* The proof fails, or the session has expired or does not sign. *)
SignFails(x) ==
    /\ calls[x].at = "prove"
    /\ Proceed(x, "end")
    /\ UNCHANGED <<panelVars, draftVars, used, signed, txs, history>>

(* Variant: the deposit is reported without its note. *)
SubmittedUnsaved(x) ==
    /\ calls[x].at = "submit"
    /\ txs[calls[x].tx].state = "landed"
    /\ calls' = [calls EXCEPT ![x].at = "end", ![x].ok = TRUE]
    /\ UNCHANGED <<panelVars, draftVars, used, signed, txs, history>>

(* The SDK sees the transaction confirmed. *)
Submitted(x) ==
    /\ calls[x].at = "submit"
    /\ txs[calls[x].tx].state = "landed"
    /\ Proceed(x, "save")
    /\ UNCHANGED <<panelVars, draftVars, used, signed, txs, history>>

(* The SDK gives up, though the transaction may have landed or land yet; or *)
(* wallet_cloak_note_save_secure fails.  The note was in memory only.       *)
DepositFails(x) ==
    /\ calls[x].at \in {"submit", "save"}
    /\ Proceed(x, "end")
    /\ lost' = lost \cup {calls[x].tx}
    /\ UNCHANGED <<panelVars, draftVars, used, signed, txs, together, overtaken>>

(* Variant: the save asks for a valid approval again. *)
SaveValidated(x) ==
    /\ calls[x].at = "save"
    /\ IF calls[x].draft \in expired
       THEN Proceed(x, "end") /\ UNCHANGED txs
       ELSE /\ txs' = [txs EXCEPT ![calls[x].tx].noted = TRUE]
            /\ calls' = [calls EXCEPT ![x].at = "end", ![x].ok = TRUE]
    /\ UNCHANGED <<panelVars, draftVars, used, signed, history>>

(* wallet_cloak_note_save_secure: the draft need not be valid any more *)
Save(x) ==
    /\ calls[x].at = "save"
    /\ txs' = [txs EXCEPT ![calls[x].tx].noted = TRUE]
    /\ calls' = [calls EXCEPT ![x].at = "end", ![x].ok = TRUE]
    /\ UNCHANGED <<panelVars, draftVars, used, signed, history>>

(* Variant: the failure is not caught. *)
EndUncaught(x) ==
    LET c == calls[x] IN
    /\ c.at = "end"
    /\ status' = IF c.here /\ c.ok THEN "confirmed" ELSE status
    /\ calls' = [calls EXCEPT ![x] = Idle]
    /\ UNCHANGED <<amount, draft, draftVars, used, signed, txs, history>>

(* The session is removed, and the panel told. *)
End(x) ==
    LET c == calls[x] IN
    /\ c.at = "end"
    /\ status' = IF ~c.here THEN status ELSE IF c.ok THEN "confirmed" ELSE "failed"
    /\ calls' = [calls EXCEPT ![x] = Idle]
    /\ UNCHANGED <<amount, draft, draftVars, used, signed, txs, history>>

-----------------------------------------------------------------------------
(* Time, the chain, and the end of the process *)

ExpireDraft(d) ==
    /\ d <= made /\ d \notin expired
    /\ expired' = expired \cup {d}
    /\ UNCHANGED <<panelVars, calls, made, amountOf, used, signed, txs, history>>

(* A signed transaction lands, though its call may have ended; it need not, *)
(* as its blockhash becomes too old.                                        *)
Land(s) ==
    /\ txs[s].state = "signed"
    /\ txs' = [txs EXCEPT ![s].state = "landed"]
    /\ UNCHANGED <<panelVars, calls, draftVars, used, signed, history>>

(* The application quits or crashes: only the keychain stays. *)
Quit ==
    /\ amount' = NoAmount /\ draft' = NoDraft /\ status' = "idle"
    /\ calls' = [x \in Calls |-> Idle]
    /\ lost' = lost \cup {calls[x].tx : x \in {y \in Calls : calls[y].at \in {"submit", "save"}}}
    /\ UNCHANGED <<draftVars, used, signed, txs, together, overtaken>>

-----------------------------------------------------------------------------
PanelStep(x) == ClickPrepare(x) \/ Prepared(x) \/ PrepareFails(x) \/ ClickDeposit(x)

Execution(x) ==
    \/ Begin(x) \/ BeginFails(x)
    \/ Sign(x) \/ SignFails(x)
    \/ Submitted(x) \/ DepositFails(x)
    \/ Save(x) \/ End(x)

Next ==
    \/ \E a \in Amounts \cup {NoAmount} : Edit(a)
    \/ \E x \in Calls : PanelStep(x) \/ Execution(x)
    \/ \E d \in Drafts : ExpireDraft(d)
    \/ \E s \in Txs : Land(s)
    \/ Leave \/ Quit

(* A call that executes a deposit goes on: the commands and the SDK answer. *)
Fairness == \A x \in Calls : WF_vars(Execution(x))

Spec == Init /\ [][Next]_vars
FairSpec == Spec /\ Fairness

-----------------------------------------------------------------------------
Call == [at : {"idle", "prepare"} \cup Executing, draft : Drafts \cup {NoDraft},
         amount : Amounts \cup {NoAmount}, here : BOOLEAN, stale : BOOLEAN,
         tx : Txs \cup {NoTx}, ok : BOOLEAN]

(* Every variable has the values the code gives it, and the counters stay *)
(* within their bounds.                                                   *)
TypeOK ==
    /\ amount \in Amounts \cup {NoAmount}
    /\ draft \in Drafts \cup {NoDraft}
    /\ status \in {"idle", "preparing", "ready", "submitting", "confirmed", "failed"}
    /\ calls \in [Calls -> Call]
    /\ made \in Drafts \cup {0}
    /\ amountOf \in [Drafts -> Amounts \cup {NoAmount}]
    /\ expired \subseteq Drafts /\ used \subseteq Drafts
    /\ signed \in Txs \cup {0}
    /\ txs \in [Txs -> [draft : Drafts \cup {NoDraft}, noted : BOOLEAN,
                        state : {"none", "signed", "landed"}]]
    /\ together \subseteq Drafts /\ overtaken \subseteq Drafts /\ lost \subseteq Txs

(* A draft that is approved again only when its call is over is signed once, *)
(* although signing looks at the session only: the session before it expired *)
(* unused, or has left its mark for the next one to see.                     *)
SignedOnceAlone ==
    \A s, t \in 1 .. signed :
        txs[s].draft = txs[t].draft /\ txs[s].draft \notin together => s = t

(* What landed on the chain can be spent: its note is in the keychain or on *)
(* the way there, unless its call failed or the application ended after the *)
(* signature.  The age of the draft, the age of the session, another tab    *)
(* and a second deposit do not lose it.                                     *)
EveryDepositHasItsNote ==
    \A s \in 1 .. signed :
        txs[s].state = "landed" /\ s \notin lost =>
            \/ txs[s].noted
            \/ \E x \in Calls : calls[x].at \in {"submit", "save"} /\ calls[x].tx = s

(* The draft the button would deposit is of the amount in the field above it, *)
(* unless that was edited while the draft was prepared.                       *)
DraftIsShown == draft \notin overtaken \cup {NoDraft} => amountOf[draft] = amount

(* The panel says "confirmed" when a deposit that landed and whose note was *)
(* saved ends, whatever other calls do meanwhile.                           *)
ConfirmedIsSaved ==
    [][status # "confirmed" /\ status' = "confirmed" =>
          \E x \in Calls : \E s \in 1 .. signed :
             /\ calls[x].at = "end" /\ calls'[x].at = "idle" /\ calls[x].tx = s
             /\ txs[s].state = "landed" /\ txs[s].noted]_vars

(* The panel is busy, its buttons off, only while a call it made itself is   *)
(* in progress, whose end will free it: not one of a panel that was left,    *)
(* and whatever other calls end meanwhile.                                   *)
BusyIsReal ==
    /\ status = "submitting" => \E x \in Calls : calls[x].at \in Executing /\ calls[x].here
    /\ status = "preparing" => \E x \in Calls : calls[x].at = "prepare" /\ calls[x].here

(* The panel does not say "Running..." for ever. *)
DepositEnds == status = "submitting" ~> status # "submitting"
=============================================================================
