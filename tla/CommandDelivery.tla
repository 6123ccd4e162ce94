---------------------------- MODULE CommandDelivery ----------------------------
(***************************************************************************)
(* What the device command queue promises to the routes and engines that   *)
(* enqueue, without Redis, loops or connections: a command stays queued    *)
(* until the desktop answered it or its lifetime is over, and it counts as *)
(* a success only if the desktop executed it.                              *)
(***************************************************************************)
CONSTANT Commands

VARIABLES
    accepted,   \* commands the API enqueued
    queued,     \* commands still in the queue
    answer,     \* the terminal answer of each
    executed,   \* commands the desktop executed
    lapsed      \* commands whose lifetime is over

deliveryVars == <<accepted, queued, answer, executed, lapsed>>

Init ==
    /\ accepted = {}
    /\ queued = {}
    /\ answer = [c \in Commands |-> "none"]
    /\ executed = {}
    /\ lapsed = {}

(* Once, and for good. *)
Accept(c) ==
    /\ c \notin accepted
    /\ accepted' = accepted \cup {c}
    /\ queued' = queued \cup {c}
    /\ UNCHANGED <<answer, executed, lapsed>>

Execute(c) ==
    /\ c \in accepted
    /\ executed' = executed \cup {c}
    /\ UNCHANGED <<accepted, queued, answer, lapsed>>

Answer(c, a) ==
    /\ c \in accepted
    /\ a = "ok" => c \in executed
    /\ answer' = [answer EXCEPT ![c] = a]
    /\ UNCHANGED <<accepted, queued, executed, lapsed>>

Lapse(c) ==
    /\ c \in accepted
    /\ lapsed' = lapsed \cup {c}
    /\ UNCHANGED <<accepted, queued, answer, executed>>

(* Answered commands leave. *)
Withdraw(c) ==
    /\ c \in queued
    /\ answer[c] # "none"
    /\ queued' = queued \ {c}
    /\ UNCHANGED <<accepted, answer, executed, lapsed>>

(* Lapsed commands leave, with or without the answer that says so. *)
Purge(D) ==
    /\ D \subseteq queued \cap lapsed
    /\ queued' = queued \ D
    /\ \/ answer' = [c \in Commands |-> IF c \in D THEN "expired" ELSE answer[c]]
       \/ UNCHANGED answer
    /\ UNCHANGED <<accepted, executed, lapsed>>

Next ==
    \/ \E c \in Commands :
          \/ Accept(c) \/ Execute(c) \/ Lapse(c) \/ Withdraw(c)
          \/ \E a \in {"ok", "rejected"} : Answer(c, a)
    \/ \E D \in SUBSET Commands : Purge(D)

Spec == Init /\ [][Next]_deliveryVars
=============================================================================
