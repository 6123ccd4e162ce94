------------------------------ MODULE Billing ------------------------------
(***************************************************************************)
(* Subscriptions: the checkout route and the Stripe webhook of             *)
(* apps/api/src/index.ts, with the users' billing columns (repos/users.ts) *)
(* and the table of Stripe events already seen (repos/stripe-events.ts).   *)
(*                                                                         *)
(* Stripe is external, modelled from how the code uses it: it makes        *)
(* customers and checkout pages, takes the payment, and reports what       *)
(* becomes of a subscription in events, which it delivers until they are   *)
(* answered with success, possibly more than once, in any order and in     *)
(* parallel.  A webhook the rate limit refuses is one that was not         *)
(* delivered.  Events are kept longer than Stripe repeats them.            *)
(***************************************************************************)
EXTENDS Naturals, Sequences, FiniteSets

CONSTANTS
    Users, NoUser,
    Requests,          \* checkouts and webhooks the API works on at a time
    MaxCustomers,      \* bound on customers Stripe makes
    MaxSubscriptions,  \* bound on payments
    MaxEvents,         \* bound on events Stripe reports
    MaxFaults          \* bound on crashes and on writes that fail

ASSUME UserAssumption == NoUser \notin Users
ASSUME BoundAssumption == {MaxCustomers, MaxSubscriptions, MaxEvents, MaxFaults} \subseteq Nat

Customers == 1 .. MaxCustomers
NoCustomer == 0
Subscriptions == 1 .. MaxSubscriptions
Events == 1 .. MaxEvents

VARIABLES
    customer,   \* users.stripeCustomerId
    status,     \* users.subscriptionStatus
    seen,       \* the Stripe events in the database
    req,        \* what each request in progress does next
    made,       \* Stripe: the users its customers were made for, in order
    pages,      \* Stripe: customers with a checkout page that was not paid yet
    paid,       \* Stripe: the subscriptions, [customer, state], in order
    events,     \* Stripe: the events reported, [customer, says], in order
    answered,   \* history: events answered with success
    applied,    \* history: how often each event was applied
    lost,       \* history: events whose processing failed once they were recorded
    calm,       \* history: nothing happened that the code does not cope with
    faults

userVars == <<customer, status>>
stripeVars == <<made, pages, paid, events>>
historyVars == <<answered, applied, lost>>
vars == <<userVars, seen, req, stripeVars, historyVars, calm, faults>>

Idle == [at |-> "idle", user |-> NoUser, customer |-> NoCustomer, event |-> 0]

Init ==
    /\ customer = [u \in Users |-> NoCustomer]
    /\ status = [u \in Users |-> "inactive"]
    /\ seen = {}
    /\ req = [r \in Requests |-> Idle]
    /\ made = <<>>
    /\ pages = {}
    /\ paid = <<>>
    /\ events = <<>>
    /\ answered = {}
    /\ applied = [e \in Events |-> 0]
    /\ lost = {}
    /\ calm = TRUE
    /\ faults = 0

Fault == faults < MaxFaults /\ faults' = faults + 1

CheckoutSteps == {"read", "made", "ready"}

-----------------------------------------------------------------------------
(* Stripe *)

Report(reports) ==
    /\ Len(events) + Len(reports) <= MaxEvents
    /\ events' = events \o reports

Says(c, what) == [customer |-> c, says |-> what]

(* The states in which a subscription is active or trialing, or is not. *)
Active(c) == {i \in DOMAIN paid : paid[i].customer = c /\ paid[i].state = "active"}

(* A checkout page is paid: at once, or only after a while.  Stripe does not *)
(* promise the order of the two events it reports.                           *)
Pay(c) ==
    LET done == Says(c, "completed")
        created == Says(c, "active")
    IN
    /\ c \in pages
    /\ Len(paid) < MaxSubscriptions
    /\ pages' = pages \ {c}
    /\ \/ /\ paid' = Append(paid, [customer |-> c, state |-> "active"])
          /\ Report(<<done, created>>) \/ Report(<<created, done>>)
       \/ /\ paid' = Append(paid, [customer |-> c, state |-> "incomplete"])
          /\ Report(<<Says(c, "inactive")>>)
    /\ calm' = (calm /\ \A i \in DOMAIN paid : paid[i].customer # c)
    /\ UNCHANGED <<userVars, seen, req, made, historyVars, faults>>

(* A payment that was late succeeds, or one that was due fails. *)
Settle(i) ==
    LET c == paid[i].customer IN
    /\ paid[i].state \in {"incomplete", "past_due"}
    /\ paid' = [paid EXCEPT ![i].state = "active"]
    /\ IF paid[i].state = "incomplete"
       THEN Report(<<Says(c, "active"), Says(c, "completed")>>)
       ELSE Report(<<Says(c, "active")>>)
    /\ UNCHANGED <<userVars, seen, req, made, pages, historyVars, calm, faults>>

Lapse(i) ==
    /\ paid[i].state = "active"
    /\ paid' = [paid EXCEPT ![i].state = "past_due"]
    /\ Report(<<Says(paid[i].customer, "inactive")>>)
    /\ UNCHANGED <<userVars, seen, req, made, pages, historyVars, calm, faults>>

-----------------------------------------------------------------------------
(* /billing/checkout *)

(* getBilling, and the choice made on what it read *)
Checkout(r, u) ==
    /\ req[r].at = "idle"
    /\ req' = [req EXCEPT ![r] =
                 [Idle EXCEPT !.user = u, !.customer = customer[u],
                              !.at = IF customer[u] = NoCustomer THEN "read" ELSE "ready"]]
    /\ calm' = (calm /\ \A q \in Requests : req[q].at \in CheckoutSteps => req[q].user # u)
    /\ UNCHANGED <<userVars, seen, stripeVars, historyVars, faults>>

(* stripe.customers.create *)
MakeCustomer(r) ==
    /\ req[r].at = "read"
    /\ Len(made) < MaxCustomers
    /\ made' = Append(made, req[r].user)
    /\ req' = [req EXCEPT ![r].at = "made", ![r].customer = Len(made')]
    /\ UNCHANGED <<userVars, seen, pages, paid, events, historyVars, calm, faults>>

(* Variant: the customer is used, and not stored. *)
StoreNothing(r) ==
    /\ req[r].at = "made"
    /\ req' = [req EXCEPT ![r].at = "ready"]
    /\ UNCHANGED <<userVars, seen, stripeVars, historyVars, calm, faults>>

(* updateStripeCustomerId *)
StoreCustomer(r) ==
    /\ req[r].at = "made"
    /\ customer' = [customer EXCEPT ![req[r].user] = req[r].customer]
    /\ req' = [req EXCEPT ![r].at = "ready"]
    /\ UNCHANGED <<status, seen, stripeVars, historyVars, calm, faults>>

(* stripe.checkout.sessions.create.  Nothing asks whether the user has a *)
(* subscription already.                                                 *)
OpenPage(r) ==
    /\ req[r].at = "ready"
    /\ pages' = pages \cup {req[r].customer}
    /\ req' = [req EXCEPT ![r] = Idle]
    /\ UNCHANGED <<userVars, seen, made, paid, events, historyVars, calm, faults>>

(* One of the calls to Stripe or to the database fails: the route answers 500. *)
CheckoutFails(r) ==
    /\ req[r].at \in CheckoutSteps
    /\ Fault
    /\ req' = [req EXCEPT ![r] = Idle]
    /\ UNCHANGED <<userVars, seen, stripeVars, historyVars, calm>>

-----------------------------------------------------------------------------
(* /billing/webhook *)

(* stripeEventsRepo.exists: an event seen before is answered at once. *)
Deliver(r, e) ==
    /\ req[r].at = "idle"
    /\ e \in DOMAIN events
    /\ IF e \in seen
       THEN answered' = answered \cup {e} /\ UNCHANGED req
       ELSE req' = [req EXCEPT ![r] = [Idle EXCEPT !.at = "new", !.event = e]] /\ UNCHANGED answered
    /\ UNCHANGED <<userVars, seen, stripeVars, applied, lost, calm, faults>>

(* Variant: the event is stored whether or not it is there already. *)
RecordAgain(r) ==
    /\ req[r].at = "new"
    /\ seen' = seen \cup {req[r].event}
    /\ req' = [req EXCEPT ![r].at = "recorded"]
    /\ UNCHANGED <<userVars, stripeVars, historyVars, calm, faults>>

(* stripeEventsRepo.create: the id is unique, so one of two deliveries fails, *)
(* and is answered as a duplicate.                                            *)
Record(r) ==
    LET e == req[r].event IN
    /\ req[r].at = "new"
    /\ seen' = seen \cup {e}
    /\ IF e \in seen
       THEN answered' = answered \cup {e} /\ req' = [req EXCEPT ![r] = Idle]
       ELSE req' = [req EXCEPT ![r].at = "recorded"] /\ UNCHANGED answered
    /\ UNCHANGED <<userVars, stripeVars, applied, lost, calm, faults>>

(* Any other error of create is taken for a duplicate too. *)
RecordFails(r) ==
    LET e == req[r].event IN
    /\ req[r].at = "new"
    /\ Fault
    /\ answered' = answered \cup {e}
    /\ lost' = lost \cup {e}
    /\ req' = [req EXCEPT ![r] = Idle]
    /\ calm' = FALSE
    /\ UNCHANGED <<userVars, seen, stripeVars, applied>>

(* Variant: whatever is reported of a subscription, there is one. *)
StatusOfAny(what) == "active"

(* mapStripeSubscriptionStatus; a completed checkout is active. *)
StatusOf(what) == IF what \in {"active", "completed"} THEN "active" ELSE "inactive"

(* The users a change is stored for: none when the customer was replaced. *)
AppliesTo(e) == {u \in Users : customer[u] = events[e].customer}

(* updateSubscriptionByStripeCustomerId, and the answer.  Events are in order *)
(* when all the earlier ones of the customer were applied, and no later one.  *)
Process(r) ==
    LET e == req[r].event
        inOrder == \A f \in DOMAIN events : events[f].customer = events[e].customer =>
                       (applied[f] > 0) = (f < e)
    IN
    /\ req[r].at = "recorded"
    /\ status' = [u \in Users |->
                    IF u \in AppliesTo(e) THEN StatusOf(events[e].says) ELSE status[u]]
    /\ applied' = [applied EXCEPT ![e] = @ + 1]
    /\ answered' = answered \cup {e}
    /\ calm' = (calm /\ inOrder)
    /\ req' = [req EXCEPT ![r] = Idle]
    /\ UNCHANGED <<customer, seen, stripeVars, lost, faults>>

(* The update fails: Stripe is answered 500, and its next delivery is a duplicate. *)
ProcessFails(r) ==
    /\ req[r].at = "recorded"
    /\ Fault
    /\ lost' = lost \cup {req[r].event}
    /\ calm' = FALSE
    /\ req' = [req EXCEPT ![r] = Idle]
    /\ UNCHANGED <<userVars, seen, stripeVars, answered, applied>>

(* The API stops, with all it was working on. *)
Crash ==
    LET cut == {req[r].event : r \in {q \in Requests : req[q].at = "recorded"}} IN
    /\ Fault
    /\ lost' = lost \cup cut
    /\ calm' = (calm /\ cut = {})
    /\ req' = [r \in Requests |-> Idle]
    /\ UNCHANGED <<userVars, seen, stripeVars, answered, applied>>

Next ==
    \/ \E c \in Customers : Pay(c)
    \/ \E i \in DOMAIN paid : Settle(i) \/ Lapse(i)
    \/ \E r \in Requests :
          \/ \E u \in Users : Checkout(r, u)
          \/ MakeCustomer(r) \/ StoreCustomer(r) \/ OpenPage(r) \/ CheckoutFails(r)
          \/ \E e \in Events : Deliver(r, e)
          \/ Record(r) \/ RecordFails(r) \/ Process(r) \/ ProcessFails(r)
    \/ Crash

Spec == Init /\ [][Next]_vars

-----------------------------------------------------------------------------
(* Every variable has the type of the code's data: users and requests name only *)
(* customers and events that exist, and a status is one of the two the code     *)
(* knows.                                                                       *)
TypeOK ==
    /\ customer \in [Users -> 0 .. Len(made)]
    /\ status \in [Users -> {"active", "inactive"}]
    /\ seen \subseteq DOMAIN events
    /\ req \in [Requests -> [at : {"idle", "new", "recorded"} \cup CheckoutSteps,
                              user : Users \cup {NoUser}, customer : 0 .. Len(made),
                              event : 0 .. Len(events)]]
    /\ made \in Seq(Users)
    /\ pages \subseteq DOMAIN made
    /\ paid \in Seq([customer : DOMAIN made, state : {"incomplete", "active", "past_due"}])
    /\ events \in Seq([customer : DOMAIN made, says : {"completed", "active", "inactive"}])
    /\ answered \subseteq DOMAIN events
    /\ applied \in [Events -> Nat]
    /\ lost \subseteq DOMAIN events
    /\ calm \in BOOLEAN
    /\ faults \in 0 .. MaxFaults

(* However often and in parallel Stripe delivers an event, its effect happens  *)
(* once; and an event answered with success has had it, is having it, or lost  *)
(* it when its processing failed (/billing/webhook).                           *)
AnsweredOnce ==
    /\ \A e \in Events : applied[e] <= 1
    /\ \A e \in answered :
          \/ applied[e] = 1 \/ e \in lost
          \/ \E r \in Requests : req[r].at = "recorded" /\ req[r].event = e

(* A user is active only when a customer Stripe made for this very user has    *)
(* paid a subscription (checkout, webhook and updateSubscriptionByStripe-      *)
(* CustomerId together), whatever happens on the way.                          *)
ActiveHasPaid ==
    \A u \in Users : status[u] = "active" =>
        \E i \in DOMAIN paid : made[paid[i].customer] = u /\ paid[i].state # "incomplete"

(* Once everything Stripe reported is answered, each user is active exactly    *)
(* when a customer made for them has an active subscription: provided that     *)
(* events were applied in order, none was lost, no two first checkouts of a    *)
(* user overlapped, and nobody paid twice.  Without each of these conditions   *)
(* the code may leave the two apart for good.                                  *)
StatusIsStripes ==
    calm /\ answered = DOMAIN events /\ (\A r \in Requests : req[r].at # "recorded") =>
        \A u \in Users :
            status[u] = "active" <=> \E c \in DOMAIN made : made[c] = u /\ Active(c) # {}
=============================================================================
