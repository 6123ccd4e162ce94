--------------------------- MODULE Billing_proofs ----------------------------
(***************************************************************************)
(* Proofs about what an account may use: Billing, which decides who is     *)
(* active, and, in the second half, FreeTier, which decides what the       *)
(* others may have.                                                        *)
(*                                                                         *)
(* Billing, for any set of users, any number of requests at a time, and    *)
(* any number of customers, payments, events and faults.  The inductive    *)
(* invariant IInv says what becomes of an event (EventsOnce), whose the    *)
(* customers are (OwnCustomers), and that what Stripe reports of a         *)
(* subscription was paid for (ReportsArePaid).  A second one holds only    *)
(* while nothing happens that the code does not cope with: how the         *)
(* checkouts, the payments and the events of a user then line up (Calm).   *)
(*                                                                         *)
(* FreeTier, for any finite set of calls, any limits, windows, times and   *)
(* numbers of failures.  QuotaInv counts how many slots the calls that     *)
(* stand before their insertion can still take (RedisBound), what the      *)
(* memory forgot (MemoryBound), and what a count has really seen (Counted).*)
(***************************************************************************)
EXTENDS Billing, FreeTier, FiniteSetTheorems, SequenceTheorems, TLAPS

Request == [at : {"idle", "new", "recorded"} \cup CheckoutSteps,
            user : Users \cup {NoUser}, customer : 0 .. Len(made), event : 0 .. Len(events)]
Subscription == [customer : DOMAIN made, state : {"incomplete", "active", "past_due"}]
Event == [customer : DOMAIN made, says : {"completed", "active", "inactive"}]

(* An event that is in the database was applied, or lost, or is being applied. *)
Handled(e) ==
    \/ applied[e] = 1 \/ e \in lost
    \/ \E r \in Requests : req[r].at = "recorded" /\ req[r].event = e

(* An event that was not seen was not applied; one that is recorded is worked  *)
(* on by one request, which has yet to apply it.                               *)
EventsOnce ==
    /\ Len(events) <= MaxEvents
    /\ \A e \in Events : applied[e] \in {0, 1} /\ (e \notin seen => applied[e] = 0)
    /\ \A r \in Requests :
          /\ req[r].at \in {"new", "recorded"} => req[r].event \in DOMAIN events
          /\ req[r].at = "recorded" => req[r].event \in seen /\ applied[req[r].event] = 0
    /\ \A e \in seen : Handled(e)
    /\ \A q, r \in Requests :
          req[q].at = "recorded" /\ req[r].at = "recorded" /\ req[q].event = req[r].event => q = r

(* A customer was made for the user who has it, or whose checkout uses it. *)
OwnCustomers ==
    /\ \A u \in Users : customer[u] # NoCustomer => made[customer[u]] = u
    /\ \A r \in Requests :
          /\ req[r].at \in CheckoutSteps => req[r].user \in Users
          /\ req[r].at \in {"made", "ready"} =>
                req[r].customer \in DOMAIN made /\ made[req[r].customer] = req[r].user

PaidFor(c) == \E i \in DOMAIN paid : paid[i].customer = c /\ paid[i].state # "incomplete"

ReportsArePaid ==
    \A e \in DOMAIN events : events[e].says # "inactive" => PaidFor(events[e].customer)

IInv == TypeOK /\ EventsOnce /\ AnsweredOnce /\ OwnCustomers /\ ReportsArePaid /\ ActiveHasPaid

-----------------------------------------------------------------------------
(* What a step leaves alone. *)

(* A step that touches no webhook and reports, if anything, something new. *)
LEMMA EventsFrame ==
  ASSUME EventsOnce, AnsweredOnce, UNCHANGED <<seen, answered, applied, lost>>,
         DOMAIN events \subseteq DOMAIN events', Len(events') <= MaxEvents,
         \A r \in Requests :
            \/ UNCHANGED <<req[r].at, req[r].event>>
            \/ req[r].at # "recorded" /\ req'[r].at \notin {"new", "recorded"}
  PROVE  EventsOnce' /\ AnsweredOnce'
<1>1. \A e : (\E r \in Requests : req[r].at = "recorded" /\ req[r].event = e)
            => \E r \in Requests : req'[r].at = "recorded" /\ req'[r].event = e
  OBVIOUS
<1>2. \A e \in seen' : Handled(e)'
  BY <1>1 DEF EventsOnce, Handled
<1>3. EventsOnce'
  BY <1>2 DEF EventsOnce
<1>4. AnsweredOnce'
  BY <1>1 DEF AnsweredOnce
<1> QED BY <1>3, <1>4

(* A step that touches no checkout. *)
LEMMA CustomersFrame ==
  ASSUME OwnCustomers, UNCHANGED <<customer, made>>,
         \A r \in Requests :
            \/ UNCHANGED <<req[r].at, req[r].user, req[r].customer>>
            \/ req'[r].at \notin CheckoutSteps
  PROVE  OwnCustomers'
BY DEF OwnCustomers, CheckoutSteps

(* A step that reports nothing, and activates nobody. *)
LEMMA PaidFrame ==
  ASSUME ReportsArePaid, ActiveHasPaid, UNCHANGED <<paid, events, made>>,
         \A u \in Users : status'[u] = "active" => status[u] = "active"
  PROVE  ReportsArePaid' /\ ActiveHasPaid'
BY DEF ReportsArePaid, ActiveHasPaid, PaidFor

(* A subscription, once paid, is never incomplete again. *)
LEMMA PaidStays ==
  ASSUME \A i \in DOMAIN paid :
            /\ i \in DOMAIN paid' /\ paid'[i].customer = paid[i].customer
            /\ paid[i].state # "incomplete" => paid'[i].state # "incomplete",
         NEW c, PaidFor(c)
  PROVE  PaidFor(c)'
BY DEF PaidFor

LEMMA ReportEffect ==
  ASSUME NEW reports \in Seq(Event), events \in Seq(Event), MaxEvents \in Nat, Report(reports)
  PROVE  /\ events' \in Seq(Event) /\ Len(events') <= MaxEvents
         /\ DOMAIN events \subseteq DOMAIN events'
         /\ Len(events) <= Len(events')
         /\ \A e \in DOMAIN events : events'[e] = events[e]
         /\ \A e \in DOMAIN events' \ DOMAIN events :
               \E i \in DOMAIN reports : events'[e] = reports[i]
<1>1. Len(events) \in Nat /\ Len(reports) \in Nat
      /\ DOMAIN events = 1 .. Len(events) /\ DOMAIN reports = 1 .. Len(reports)
  BY LenProperties
<1>2. events' = events \o reports
  BY DEF Report
<1>3. /\ events' \in Seq(Event) /\ Len(events') = Len(events) + Len(reports)
      /\ \A i \in 1 .. Len(events) + Len(reports) :
            events'[i] = IF i <= Len(events) THEN events[i] ELSE reports[i - Len(events)]
  BY <1>2, ConcatProperties
<1>4. DOMAIN events' = 1 .. Len(events')
  BY <1>3, LenProperties
<1> QED
  <2>1. ASSUME NEW e \in DOMAIN events' \ DOMAIN events
        PROVE  \E i \in DOMAIN reports : events'[e] = reports[i]
    <3>1. e - Len(events) \in DOMAIN reports /\ events'[e] = reports[e - Len(events)]
      BY <1>1, <1>3, <1>4
    <3> QED BY <3>1
  <2> QED BY <1>1, <1>3, <1>4, <2>1 DEF Report

(* What Stripe reports in one step: one event, or two. *)
LEMMA ShortSeq ==
  ASSUME NEW S, NEW a \in S, NEW b \in S, NEW t, t = <<a, b>> \/ t = <<b, a>> \/ t = <<a>>
  PROVE  t \in Seq(S) /\ Len(t) > 0 /\ \A i \in DOMAIN t : t[i] \in {a, b}
<1>1. CASE t = <<a, b>>
  BY <1>1
<1>2. CASE t = <<b, a>>
  BY <1>2
<1>3. CASE t = <<a>>
  BY <1>3
<1> QED BY <1>1, <1>2, <1>3

(* The type of the state, with made, events and paid as they are or longer. *)
LEMMA TypesGrow ==
  ASSUME TypeOK, Len(made) \in Nat, Len(made') \in Nat, Len(made) <= Len(made'),
         Len(events) \in Nat, Len(events') \in Nat, Len(events) <= Len(events'),
         DOMAIN made = 1 .. Len(made), DOMAIN made' = 1 .. Len(made')
  PROVE  /\ Request \subseteq Request'
         /\ Subscription \subseteq Subscription'
         /\ Event \subseteq Event'
         /\ 0 .. Len(made) \subseteq 0 .. Len(made')
         /\ DOMAIN made \subseteq DOMAIN made'
BY DEF Request, Subscription, Event, TypeOK

-----------------------------------------------------------------------------
(* The invariant is inductive: one step per action. *)
LEMMA IInvNext == IInv /\ [Next]_vars => IInv'
<1> SUFFICES ASSUME IInv, [Next]_vars PROVE IInv'
  OBVIOUS
<1>0. /\ TypeOK /\ EventsOnce /\ AnsweredOnce /\ OwnCustomers /\ ReportsArePaid /\ ActiveHasPaid
      /\ MaxEvents \in Nat /\ MaxFaults \in Nat
  BY BoundAssumption DEF IInv
<1>1. /\ made \in Seq(Users) /\ paid \in Seq(Subscription) /\ events \in Seq(Event)
      /\ req \in [Requests -> Request]
      /\ customer \in [Users -> 0 .. Len(made)] /\ status \in [Users -> {"active", "inactive"}]
      /\ seen \subseteq DOMAIN events /\ answered \subseteq DOMAIN events
      /\ lost \subseteq DOMAIN events /\ pages \subseteq DOMAIN made
      /\ applied \in [Events -> Nat] /\ calm \in BOOLEAN /\ faults \in 0 .. MaxFaults
  BY <1>0 DEF TypeOK, Request, Subscription, Event
<1>2. /\ Len(made) \in Nat /\ DOMAIN made = 1 .. Len(made)
      /\ Len(events) \in Nat /\ DOMAIN events = 1 .. Len(events)
      /\ Len(paid) \in Nat /\ DOMAIN paid = 1 .. Len(paid)
  BY <1>1, LenProperties
<1>3. Idle \in Request /\ Idle.at = "idle"
  BY <1>2 DEF Idle, Request, NoCustomer
<1>4. ASSUME made' \in Seq(Users), paid' \in Seq(Subscription'), events' \in Seq(Event'),
             req' \in [Requests -> Request'],
             customer' \in [Users -> 0 .. Len(made')], status' \in [Users -> {"active", "inactive"}],
             seen' \subseteq DOMAIN events', answered' \subseteq DOMAIN events',
             lost' \subseteq DOMAIN events', pages' \subseteq DOMAIN made',
             applied' \in [Events -> Nat], calm' \in BOOLEAN, faults' \in 0 .. MaxFaults
      PROVE  TypeOK'
  BY <1>4 DEF TypeOK, Request, Subscription, Event
<1>5. ASSUME UNCHANGED <<made, events>>
      PROVE  Request' = Request /\ Subscription' = Subscription /\ Event' = Event
  BY <1>5 DEF Request, Subscription, Event
<1>6. ASSUME UNCHANGED <<req, customer, made, seen, answered, applied, lost, status, faults>>,
             pages' \subseteq DOMAIN made, calm' \in BOOLEAN,
             NEW reports \in Seq(Event), Report(reports), paid' \in Seq(Subscription),
             \A i \in DOMAIN paid :
                /\ i \in DOMAIN paid' /\ paid'[i].customer = paid[i].customer
                /\ paid[i].state # "incomplete" => paid'[i].state # "incomplete",
             \A i \in DOMAIN reports : reports[i].says # "inactive" => PaidFor(reports[i].customer)'
      PROVE  IInv'
  <2>1. /\ events' \in Seq(Event) /\ Len(events') <= MaxEvents
        /\ DOMAIN events \subseteq DOMAIN events' /\ Len(events) <= Len(events')
        /\ \A e \in DOMAIN events : events'[e] = events[e]
        /\ \A e \in DOMAIN events' \ DOMAIN events :
               \E i \in DOMAIN reports : events'[e] = reports[i]
    BY <1>0, <1>1, <1>6, ReportEffect
  <2>2. TypeOK'
    <3>1. Len(events') \in Nat /\ made' = made
      BY <1>6, <2>1, LenProperties
    <3>2. Request \subseteq Request' /\ Subscription' = Subscription /\ Event' = Event
      <4>1. DOMAIN made' = 1 .. Len(made') /\ Len(made') = Len(made)
        BY <1>2, <3>1
      <4>2. Subscription' = Subscription /\ Event' = Event
        BY <3>1 DEF Subscription, Event
      <4>3. Request \subseteq Request'
        BY <1>2, <2>1, <3>1 DEF Request
      <4> QED BY <4>2, <4>3
    <3> QED BY <1>1, <1>4, <1>6, <2>1, <3>1, <3>2
  <2>3. EventsOnce' /\ AnsweredOnce'
    BY <1>0, <1>6, <2>1, EventsFrame
  <2>4. OwnCustomers'
    BY <1>0, <1>6, CustomersFrame
  <2>5. \A c : PaidFor(c) => PaidFor(c)'
    BY <1>6, PaidStays
  <2>6. ReportsArePaid'
    <3> SUFFICES ASSUME NEW e \in DOMAIN events', events'[e].says # "inactive"
                 PROVE  \E j \in DOMAIN paid' : /\ paid'[j].customer = events'[e].customer
                                               /\ paid'[j].state # "incomplete"
      BY DEF ReportsArePaid, PaidFor
    <3>1. CASE e \in DOMAIN events
      <4>1. PICK j \in DOMAIN paid : paid[j].customer = events[e].customer /\ paid[j].state # "incomplete"
        BY <1>0, <2>1, <3>1 DEF ReportsArePaid, PaidFor
      <4>2. j \in DOMAIN paid' /\ paid'[j].customer = paid[j].customer /\ paid'[j].state # "incomplete"
        BY <1>6, <4>1
      <4> QED BY <2>1, <3>1, <4>1, <4>2
    <3>2. CASE e \notin DOMAIN events
      <4>1. PICK i \in DOMAIN reports : events'[e] = reports[i]
        BY <2>1, <3>2
      <4>2. PICK j \in DOMAIN paid' : paid'[j].customer = reports[i].customer /\ paid'[j].state # "incomplete"
        BY <1>6, <4>1 DEF PaidFor
      <4> QED BY <4>1, <4>2
    <3> QED BY <3>1, <3>2
  <2>7. ActiveHasPaid'
    BY <1>0, <1>6 DEF ActiveHasPaid
  <2> QED BY <2>2, <2>3, <2>4, <2>6, <2>7 DEF IInv
<1>7. ASSUME NEW c \in Customers, Pay(c) PROVE IInv'
  <2> DEFINE sub(st) == [customer |-> c, state |-> st]
  <2>1. /\ UNCHANGED <<req, customer, made, seen, answered, applied, lost, status, faults>>
        /\ pages' \subseteq DOMAIN made /\ calm' \in BOOLEAN /\ c \in DOMAIN made
    BY <1>1, <1>7 DEF Pay, userVars, historyVars
  <2>2. /\ Says(c, "completed") \in Event /\ Says(c, "active") \in Event /\ Says(c, "inactive") \in Event
        /\ \A st \in {"incomplete", "active"} : sub(st) \in Subscription
    BY <2>1 DEF Says, Event, Subscription
  <2>3. ASSUME NEW st \in {"incomplete", "active"}, paid' = Append(paid, sub(st))
        PROVE  /\ paid' \in Seq(Subscription)
               /\ \A i \in DOMAIN paid :
                     /\ i \in DOMAIN paid' /\ paid'[i].customer = paid[i].customer
                     /\ paid[i].state # "incomplete" => paid'[i].state # "incomplete"
               /\ st = "active" => PaidFor(c)'
    <3> HIDE DEF sub
    <3>1. /\ paid' \in Seq(Subscription) /\ Len(paid') = Len(paid) + 1
          /\ \A i \in 1 .. Len(paid) : paid'[i] = paid[i]
          /\ paid'[Len(paid) + 1] = sub(st)
      BY <1>1, <2>2, <2>3, AppendProperties
    <3>2. DOMAIN paid' = 1 .. Len(paid) + 1
      BY <3>1, LenProperties
    <3>3. Len(paid) + 1 \in DOMAIN paid' /\ sub(st).customer = c /\ sub(st).state = st
      BY <1>2, <3>2 DEF sub
    <3>4. st = "active" => PaidFor(c)'
      BY <3>1, <3>3 DEF PaidFor
    <3> QED BY <1>2, <3>1, <3>2, <3>4
  <2>4. ASSUME NEW reports \in {<<Says(c, "completed"), Says(c, "active")>>,
                                <<Says(c, "active"), Says(c, "completed")>>},
               paid' = Append(paid, sub("active")), Report(reports)
        PROVE  IInv'
    <3>1. reports \in Seq(Event) /\ \A i \in DOMAIN reports : reports[i].customer = c
      <4>1. Says(c, "completed").customer = c /\ Says(c, "active").customer = c
        BY DEF Says
      <4> HIDE DEF Says
      <4>2. reports \in Seq(Event)
            /\ \A i \in DOMAIN reports : reports[i] \in {Says(c, "completed"), Says(c, "active")}
        <5> DEFINE a == Says(c, "completed")
                   b == Says(c, "active")
        <5>1. a \in Event /\ b \in Event /\ (reports = <<a, b>> \/ reports = <<b, a>>)
          BY <2>2, <2>4
        <5> HIDE DEF a, b
        <5>2. reports \in Seq(Event) /\ \A i \in DOMAIN reports : reports[i] \in {a, b}
          BY <5>1, ShortSeq
        <5> QED BY <5>2 DEF a, b
      <4> QED BY <4>1, <4>2
    <3>2. PaidFor(c)'
      BY <2>3, <2>4
    <3>3. \A i \in DOMAIN reports : PaidFor(reports[i].customer)'
      BY <3>1, <3>2 DEF PaidFor
    <3> HIDE DEF sub
    <3> QED BY <1>6, <2>1, <2>3, <2>4, <3>1, <3>3
  <2>5. ASSUME paid' = Append(paid, sub("incomplete")), Report(<<Says(c, "inactive")>>)
        PROVE  IInv'
    <3>1. /\ <<Says(c, "inactive")>> \in Seq(Event)
          /\ \A i \in DOMAIN <<Says(c, "inactive")>> : <<Says(c, "inactive")>>[i].says = "inactive"
      BY <2>2 DEF Says
    <3> HIDE DEF sub
    <3> QED BY <1>6, <2>1, <2>3, <2>5, <3>1
  <2> QED BY <1>7, <2>4, <2>5 DEF Pay
<1>8. ASSUME NEW i \in DOMAIN paid, Settle(i) \/ Lapse(i) PROVE IInv'
  <2>0. PICK c \in DOMAIN made : c = paid[i].customer
    <3>1. paid[i] \in Subscription
      BY <1>1, <1>2, ElementOfSeq
    <3> QED BY <3>1 DEF Subscription
  <2>1. UNCHANGED <<req, customer, made, seen, answered, applied, lost, status, faults, pages, calm>>
    BY <1>8 DEF Settle, Lapse, userVars, historyVars
  <2>2. /\ Says(c, "completed") \in Event /\ Says(c, "active") \in Event /\ Says(c, "inactive") \in Event
    BY <2>0 DEF Says, Event
  <2>3. ASSUME NEW st \in {"active", "past_due"}, paid' = [paid EXCEPT ![i].state = st]
        PROVE  /\ paid' \in Seq(Subscription)
               /\ \A j \in DOMAIN paid :
                     /\ j \in DOMAIN paid' /\ paid'[j].customer = paid[j].customer
                     /\ paid[j].state # "incomplete" => paid'[j].state # "incomplete"
               /\ PaidFor(c)'
    <3>1. paid[i] \in Subscription
      BY <1>1, <1>2, ElementOfSeq
    <3>2. [paid[i] EXCEPT !.state = st] \in Subscription
          /\ [paid[i] EXCEPT !.state = st].customer = c /\ [paid[i] EXCEPT !.state = st].state = st
      BY <2>0, <3>1 DEF Subscription
    <3>3. paid' = [paid EXCEPT ![i] = [paid[i] EXCEPT !.state = st]]
      BY <2>3
    <3>4. /\ paid' \in Seq(Subscription) /\ Len(paid') = Len(paid)
          /\ \A j \in 1 .. Len(paid) :
                paid'[j] = IF j = i THEN [paid[i] EXCEPT !.state = st] ELSE paid[j]
      BY <1>1, <1>2, <3>2, <3>3, ExceptSeq
    <3>5. DOMAIN paid' = 1 .. Len(paid)
      BY <3>4, LenProperties
    <3>6. i \in DOMAIN paid' /\ paid'[i].customer = c /\ paid'[i].state = st
      BY <1>2, <3>2, <3>4, <3>5
    <3>7. PaidFor(c)'
      BY <3>6 DEF PaidFor
    <3>8. ASSUME NEW j \in DOMAIN paid
          PROVE  /\ j \in DOMAIN paid' /\ paid'[j].customer = paid[j].customer
                 /\ paid[j].state # "incomplete" => paid'[j].state # "incomplete"
      <4>1. CASE j = i
        BY <2>0, <3>6, <4>1
      <4>2. CASE j # i
        BY <1>2, <3>4, <3>5, <4>2
      <4> QED BY <4>1, <4>2
    <3> QED BY <3>4, <3>7, <3>8
  <2>4. ASSUME NEW reports \in {<<Says(c, "active"), Says(c, "completed")>>, <<Says(c, "active")>>,
                                <<Says(c, "inactive")>>},
               NEW st \in {"active", "past_due"}, paid' = [paid EXCEPT ![i].state = st],
               Report(reports)
        PROVE  IInv'
    <3>1. reports \in Seq(Event) /\ \A j \in DOMAIN reports : reports[j].customer = c
      <4>1. /\ Says(c, "completed").customer = c /\ Says(c, "active").customer = c
            /\ Says(c, "inactive").customer = c
        BY DEF Says
      <4>2. reports \in Seq(Event)
            /\ \A j \in DOMAIN reports :
                  reports[j] \in {Says(c, "completed"), Says(c, "active"), Says(c, "inactive")}
        <5> DEFINE a == Says(c, "active")
                   b == Says(c, "completed")
                   d == Says(c, "inactive")
        <5>1. /\ a \in Event /\ b \in Event /\ d \in Event
              /\ reports = <<a, b>> \/ reports = <<a>> \/ reports = <<d>>
          BY <2>2, <2>4
        <5> HIDE DEF a, b, d
        <5>2. reports \in Seq(Event) /\ \A j \in DOMAIN reports : reports[j] \in {a, b, d}
          BY <5>1, ShortSeq
        <5> QED BY <5>2 DEF a, b, d
      <4> QED BY <4>1, <4>2
    <3>2. /\ paid' \in Seq(Subscription)
          /\ \A j \in DOMAIN paid :
                     /\ j \in DOMAIN paid' /\ paid'[j].customer = paid[j].customer
                     /\ paid[j].state # "incomplete" => paid'[j].state # "incomplete"
          /\ PaidFor(c)'
      BY <2>3, <2>4
    <3>3. \A j \in DOMAIN reports : PaidFor(reports[j].customer)'
      BY <3>1, <3>2 DEF PaidFor
    <3>4. pages' \subseteq DOMAIN made /\ calm' \in BOOLEAN
      BY <1>1, <2>1
    <3> QED BY <1>6, <2>1, <2>4, <3>1, <3>2, <3>3, <3>4
  <2> QED BY <1>8, <2>0, <2>4 DEF Settle, Lapse
<1>9. DOMAIN events \subseteq Events
  BY <1>0, <1>2 DEF EventsOnce, Events
<1>10. \A r \in Requests : req[r] \in Request
  BY <1>1
<1>11. ASSUME NEW r \in Requests, NEW u \in Users, Checkout(r, u) PROVE IInv'
  <2>1. /\ req[r].at = "idle" /\ UNCHANGED <<customer, made, seen, status, pages, paid, events,
                                             answered, applied, lost, faults>>
        /\ calm' \in BOOLEAN
    BY <1>1, <1>11 DEF Checkout, userVars, stripeVars, historyVars
  <2>2. /\ req'[r].user = u /\ req'[r].customer = customer[u] /\ req'[r].event = 0
        /\ req'[r].at = IF customer[u] = NoCustomer THEN "read" ELSE "ready"
        /\ \A q \in Requests : q # r => req'[q] = req[q]
        /\ req' \in [Requests -> Request]
    BY <1>1, <1>2, <1>3, <1>11 DEF Checkout, Idle, Request, CheckoutSteps, NoCustomer
  <2>3. TypeOK'
    BY <1>1, <1>4, <1>5, <2>1, <2>2
  <2>4. EventsOnce' /\ AnsweredOnce'
    <3>1. \A q \in Requests :
            \/ UNCHANGED <<req[q].at, req[q].event>>
            \/ req[q].at # "recorded" /\ req'[q].at \notin {"new", "recorded"}
      BY <2>1, <2>2
    <3>2. Len(events') <= MaxEvents
      BY <1>0, <2>1 DEF EventsOnce
    <3> QED BY <1>0, <2>1, <3>1, <3>2, EventsFrame
  <2>5. OwnCustomers'
    <3>1. customer[u] \in 0 .. Len(made) /\ (customer[u] # NoCustomer => customer[u] \in DOMAIN made)
      BY <1>1, <1>2 DEF NoCustomer
    <3> QED BY <1>0, <2>1, <2>2, <3>1 DEF OwnCustomers, CheckoutSteps
  <2>6. ReportsArePaid' /\ ActiveHasPaid'
    BY <1>0, <2>1, PaidFrame
  <2> QED BY <2>3, <2>4, <2>5, <2>6 DEF IInv
<1>12. ASSUME NEW r \in Requests, MakeCustomer(r) PROVE IInv'
  <2>1. /\ req[r].at = "read" /\ UNCHANGED <<customer, seen, status, pages, paid, events,
                                             answered, applied, lost, calm, faults>>
        /\ made' = Append(made, req[r].user) /\ req[r].user \in Users
    BY <1>0, <1>12 DEF MakeCustomer, userVars, historyVars, OwnCustomers, CheckoutSteps
  <2>2. /\ made' \in Seq(Users) /\ Len(made') = Len(made) + 1
        /\ \A i \in 1 .. Len(made) : made'[i] = made[i]
        /\ made'[Len(made) + 1] = req[r].user
    BY <1>1, <2>1, AppendProperties
  <2>3. Len(made') \in Nat /\ DOMAIN made' = 1 .. Len(made')
    BY <2>2, LenProperties
  <2>4. /\ Request \subseteq Request' /\ Subscription \subseteq Subscription'
        /\ Event \subseteq Event' /\ 0 .. Len(made) \subseteq 0 .. Len(made')
        /\ DOMAIN made \subseteq DOMAIN made'
    BY <1>0, <1>2, <2>1, <2>2, <2>3, TypesGrow
  <2>5. /\ req'[r].user = req[r].user /\ req'[r].customer = Len(made') /\ req'[r].event = req[r].event
        /\ req'[r].at = "made"
        /\ \A q \in Requests : q # r => req'[q] = req[q]
    BY <1>1, <1>10, <1>12 DEF MakeCustomer, Request
  <2>6. req' \in [Requests -> Request']
    <3>1. [req[r] EXCEPT !.at = "made", !.customer = Len(made')] \in Request'
      <4>1. req[r] \in Request'
        BY <1>10, <2>4
      <4>2. Len(made') \in 0 .. Len(made')
        BY <2>3
      <4> QED BY <4>1, <4>2 DEF Request, CheckoutSteps
    <3>2. req' = [req EXCEPT ![r] = [req[r] EXCEPT !.at = "made", !.customer = Len(made')]]
      BY <1>12 DEF MakeCustomer
    <3> QED BY <1>1, <2>4, <3>1, <3>2
  <2>7. TypeOK'
    <3>1. paid' \in Seq(Subscription') /\ events' \in Seq(Event')
      BY <1>1, <2>1, <2>4
    <3> QED BY <1>1, <1>4, <2>1, <2>2, <2>4, <2>6, <3>1
  <2>8. EventsOnce' /\ AnsweredOnce'
    <3>1. \A q \in Requests :
            \/ UNCHANGED <<req[q].at, req[q].event>>
            \/ req[q].at # "recorded" /\ req'[q].at \notin {"new", "recorded"}
      BY <2>1, <2>5
    <3>2. Len(events') <= MaxEvents
      BY <1>0, <2>1 DEF EventsOnce
    <3> QED BY <1>0, <2>1, <3>1, <3>2, EventsFrame
  <2>9. OwnCustomers'
    <3>1. \A u \in Users : customer[u] # NoCustomer => made'[customer[u]] = made[customer[u]]
      BY <1>1, <1>2, <2>2 DEF NoCustomer
    <3>2. \A c \in DOMAIN made : c \in DOMAIN made' /\ made'[c] = made[c]
      BY <1>2, <2>2, <2>4
    <3>3. Len(made') \in DOMAIN made' /\ made'[Len(made')] = req[r].user
      BY <1>2, <2>2, <2>3
    <3>4. \A u \in Users : customer'[u] # NoCustomer => made'[customer'[u]] = u
      BY <1>0, <2>1, <3>1 DEF OwnCustomers
    <3>5. ASSUME NEW q \in Requests
          PROVE  /\ req'[q].at \in CheckoutSteps => req'[q].user \in Users
                 /\ req'[q].at \in {"made", "ready"} =>
                       req'[q].customer \in DOMAIN made' /\ made'[req'[q].customer] = req'[q].user
      <4>1. CASE q = r
        BY <2>1, <2>5, <3>3, <4>1
      <4>2. CASE q # r
        BY <1>0, <2>5, <3>2, <4>2 DEF OwnCustomers
      <4> QED BY <4>1, <4>2
    <3> QED BY <3>4, <3>5 DEF OwnCustomers
  <2>10. ReportsArePaid'
    BY <1>0, <2>1 DEF ReportsArePaid, PaidFor
  <2>11. ActiveHasPaid'
    <3>1. \A i \in DOMAIN paid : paid[i].customer \in DOMAIN made
      <4>1. \A i \in DOMAIN paid : paid[i] \in Subscription
        BY <1>1, <1>2, ElementOfSeq
      <4> QED BY <4>1 DEF Subscription
    <3>2. \A i \in DOMAIN paid : made'[paid[i].customer] = made[paid[i].customer]
      BY <1>2, <2>2, <3>1
    <3> QED BY <1>0, <2>1, <3>2 DEF ActiveHasPaid
  <2> QED BY <2>7, <2>8, <2>9, <2>10, <2>11 DEF IInv
(* The steps of a checkout that end it, or go on to the page. *)
<1>13. ASSUME NEW r \in Requests, req[r].at \in CheckoutSteps,
              UNCHANGED <<made, seen, status, paid, events, answered, applied, lost, calm>>,
              req'[r].at = "idle" \/ req'[r] = [req[r] EXCEPT !.at = "ready"],
              \A q \in Requests : q # r => req'[q] = req[q],
              req' \in [Requests -> Request],
              customer' \in [Users -> 0 .. Len(made)], pages' \subseteq DOMAIN made,
              faults' \in 0 .. MaxFaults, OwnCustomers'
       PROVE  IInv'
  <2>1. TypeOK'
    BY <1>1, <1>4, <1>5, <1>13
  <2>2. EventsOnce' /\ AnsweredOnce'
    <3>1. req'[r].at \in {"idle", "ready"}
      BY <1>10, <1>13 DEF Request
    <3>2. \A q \in Requests :
            \/ UNCHANGED <<req[q].at, req[q].event>>
            \/ req[q].at # "recorded" /\ req'[q].at \notin {"new", "recorded"}
      BY <1>13, <3>1 DEF CheckoutSteps
    <3>3. Len(events') <= MaxEvents
      BY <1>0, <1>13 DEF EventsOnce
    <3> QED BY <1>0, <1>13, <3>2, <3>3, EventsFrame
  <2>3. ReportsArePaid' /\ ActiveHasPaid'
    BY <1>0, <1>13, PaidFrame
  <2> QED BY <1>13, <2>1, <2>2, <2>3 DEF IInv
<1>14. ASSUME NEW r \in Requests, StoreCustomer(r) PROVE IInv'
  <2>1. /\ req[r].at = "made" /\ UNCHANGED <<made, seen, status, pages, paid, events,
                                             answered, applied, lost, calm, faults>>
        /\ req[r].user \in Users /\ req[r].customer \in DOMAIN made
        /\ made[req[r].customer] = req[r].user
    BY <1>0, <1>14 DEF StoreCustomer, stripeVars, historyVars, OwnCustomers, CheckoutSteps
  <2>2. /\ req'[r] = [req[r] EXCEPT !.at = "ready"]
        /\ \A q \in Requests : q # r => req'[q] = req[q]
        /\ req' \in [Requests -> Request]
    <3>1. [req[r] EXCEPT !.at = "ready"] \in Request
      BY <1>10 DEF Request, CheckoutSteps
    <3>2. req' = [req EXCEPT ![r] = [req[r] EXCEPT !.at = "ready"]]
      BY <1>14 DEF StoreCustomer
    <3> QED BY <1>1, <3>1, <3>2
  <2>3. /\ customer' \in [Users -> 0 .. Len(made)]
        /\ \A u \in Users : customer'[u] = IF u = req[r].user THEN req[r].customer ELSE customer[u]
    BY <1>1, <1>2, <1>14, <2>1 DEF StoreCustomer
  <2>4. OwnCustomers'
    <3>1. req'[r].user = req[r].user /\ req'[r].customer = req[r].customer /\ req'[r].at = "ready"
      BY <1>10, <2>2 DEF Request
    <3>2. \A u \in Users : customer'[u] # NoCustomer => made'[customer'[u]] = u
      BY <1>0, <2>1, <2>3 DEF OwnCustomers
    <3>3. ASSUME NEW q \in Requests
          PROVE  /\ req'[q].at \in CheckoutSteps => req'[q].user \in Users
                 /\ req'[q].at \in {"made", "ready"} =>
                       req'[q].customer \in DOMAIN made' /\ made'[req'[q].customer] = req'[q].user
      <4>1. CASE q = r
        BY <2>1, <3>1, <4>1
      <4>2. CASE q # r
        BY <1>0, <2>1, <2>2, <4>2 DEF OwnCustomers
      <4> QED BY <4>1, <4>2
    <3> QED BY <3>2, <3>3 DEF OwnCustomers
  <2>5. req[r].at \in CheckoutSteps
    BY <2>1 DEF CheckoutSteps
  <2> QED BY <1>1, <1>13, <2>1, <2>2, <2>3, <2>4, <2>5
<1>15. ASSUME NEW r \in Requests, OpenPage(r) \/ CheckoutFails(r) PROVE IInv'
  <2>1. /\ req[r].at \in CheckoutSteps
        /\ UNCHANGED <<customer, made, seen, status, paid, events, answered, applied, lost, calm>>
    BY <1>15 DEF OpenPage, CheckoutFails, userVars, stripeVars, historyVars, CheckoutSteps
  <2>2. /\ req'[r] = Idle /\ \A q \in Requests : q # r => req'[q] = req[q]
        /\ req' \in [Requests -> Request]
    BY <1>1, <1>3, <1>15 DEF OpenPage, CheckoutFails
  <2>3. pages' \subseteq DOMAIN made
    <3>1. CASE OpenPage(r)
      BY <1>0, <1>1, <3>1 DEF OpenPage, OwnCustomers
    <3>2. CASE CheckoutFails(r)
      BY <1>1, <3>2 DEF CheckoutFails, stripeVars
    <3> QED BY <1>15, <3>1, <3>2
  <2>4. faults' \in 0 .. MaxFaults
    BY <1>0, <1>1, <1>15 DEF OpenPage, CheckoutFails, Fault
  <2>5. OwnCustomers'
    <3>1. req'[r].at \notin CheckoutSteps
      BY <1>3, <2>2 DEF CheckoutSteps
    <3> QED BY <1>0, <2>1, <2>2, <3>1, CustomersFrame
  <2> QED BY <1>1, <1>3, <1>13, <2>1, <2>2, <2>3, <2>4, <2>5
(* The steps of a webhook: its request was idle or had the event, and the event *)
(* it answers is handled.                                                       *)
<1>16. ASSUME UNCHANGED <<customer, made, pages, paid, events>>,
              req' \in [Requests -> Request],
              \A r \in Requests : req'[r] = req[r] \/ req'[r].at \notin CheckoutSteps,
              status' \in [Users -> {"active", "inactive"}],
              seen' \subseteq DOMAIN events, answered' \subseteq DOMAIN events,
              lost' \subseteq DOMAIN events, applied' \in [Events -> Nat],
              calm' \in BOOLEAN, faults' \in 0 .. MaxFaults,
              EventsOnce', AnsweredOnce', ActiveHasPaid'
       PROVE  IInv'
  <2>1. TypeOK'
    BY <1>1, <1>4, <1>5, <1>16
  <2>2. OwnCustomers'
    BY <1>0, <1>16, CustomersFrame
  <2>3. ReportsArePaid'
    BY <1>0, <1>16 DEF ReportsArePaid, PaidFor
  <2> QED BY <1>16, <2>1, <2>2, <2>3 DEF IInv
<1>17. \A e \in answered : Handled(e)
  BY <1>0 DEF AnsweredOnce, Handled
<1>18. ASSUME NEW r \in Requests, NEW e \in Events, Deliver(r, e) PROVE IInv'
  <2>1. /\ req[r].at = "idle" /\ UNCHANGED <<customer, made, seen, status, pages, paid, events,
                                             applied, lost, calm, faults>>
        /\ e \in DOMAIN events
    BY <1>18 DEF Deliver, userVars, stripeVars
  <2>2. ActiveHasPaid'
    BY <1>0, <2>1, PaidFrame
  <2>3. CASE e \in seen
    <3>1. req' = req /\ answered' = answered \cup {e}
      BY <1>18, <2>3 DEF Deliver
    <3>2. EventsOnce'
      BY <1>0, <2>1, <3>1 DEF EventsOnce, Handled
    <3>3. AnsweredOnce'
      BY <1>0, <1>17, <2>1, <2>3, <3>1 DEF EventsOnce, AnsweredOnce, Handled
    <3> QED BY <1>1, <1>16, <2>1, <2>2, <3>1, <3>2, <3>3
  <2>4. CASE e \notin seen
    <3>1. answered' = answered /\ req' = [req EXCEPT ![r] = [Idle EXCEPT !.at = "new", !.event = e]]
      BY <1>18, <2>4 DEF Deliver
    <3>2. /\ req'[r].at = "new" /\ req'[r].event = e
          /\ \A q \in Requests : q # r => req'[q] = req[q]
          /\ req' \in [Requests -> Request]
      <4>1. [Idle EXCEPT !.at = "new", !.event = e] \in Request
        <5>1. e \in 0 .. Len(events)
          BY <1>2, <2>1
        <5>2. "new" \in {"idle", "new", "recorded"} \cup CheckoutSteps
          OBVIOUS
        <5> QED BY <1>3, <5>1, <5>2 DEF Request
      <4>2. [Idle EXCEPT !.at = "new", !.event = e].at = "new"
            /\ [Idle EXCEPT !.at = "new", !.event = e].event = e
        BY DEF Idle
      <4> QED BY <1>1, <3>1, <4>1, <4>2
    <3>3. \A f : Handled(f) => Handled(f)'
      BY <2>1, <3>2 DEF Handled
    <3>4. EventsOnce'
      <4>1. \A f \in seen' : Handled(f)'
        BY <1>0, <2>1, <3>3 DEF EventsOnce
      <4> QED BY <1>0, <2>1, <3>2, <4>1 DEF EventsOnce
    <3>5. AnsweredOnce'
      BY <1>0, <1>17, <2>1, <3>1, <3>3 DEF AnsweredOnce, Handled
    <3>6. req'[r].at \notin CheckoutSteps
      BY <3>2 DEF CheckoutSteps
    <3> QED BY <1>1, <1>16, <2>1, <2>2, <3>1, <3>2, <3>4, <3>5, <3>6
  <2> QED BY <2>3, <2>4
<1>19. ASSUME NEW r \in Requests, Record(r) PROVE IInv'
  <2> DEFINE e == req[r].event
  <2>1. /\ req[r].at = "new" /\ UNCHANGED <<customer, made, status, pages, paid, events,
                                            applied, lost, calm, faults>>
        /\ seen' = seen \cup {e}
    BY <1>19 DEF Record, userVars, stripeVars
  <2>2. e \in DOMAIN events /\ e \in Events
    BY <1>0, <1>9, <2>1 DEF EventsOnce
  <2>3. ActiveHasPaid'
    BY <1>0, <2>1, PaidFrame
  <2>4. CASE e \in seen
    <3>1. answered' = answered \cup {e} /\ req' = [req EXCEPT ![r] = Idle] /\ seen' = seen
      BY <1>19, <2>1, <2>4 DEF Record
    <3>2. /\ req'[r].at = "idle" /\ \A q \in Requests : q # r => req'[q] = req[q]
          /\ req' \in [Requests -> Request]
      BY <1>1, <1>3, <3>1
    <3>3. \A f : Handled(f) => Handled(f)'
      BY <2>1, <3>2 DEF Handled
    <3>4. EventsOnce'
      <4>1. \A f \in seen' : Handled(f)'
        BY <1>0, <3>1, <3>3 DEF EventsOnce
      <4> QED BY <1>0, <2>1, <3>1, <3>2, <4>1 DEF EventsOnce
    <3>5. AnsweredOnce'
      <4>1. \A f \in answered' : Handled(f)'
        BY <1>0, <1>17, <2>4, <3>1, <3>3 DEF EventsOnce
      <4> QED BY <1>0, <2>1, <4>1 DEF AnsweredOnce, Handled
    <3>6. req'[r].at \notin CheckoutSteps
      BY <3>2 DEF CheckoutSteps
    <3> QED BY <1>1, <1>16, <2>1, <2>2, <2>3, <3>1, <3>2, <3>4, <3>5, <3>6
  <2>5. CASE e \notin seen
    <3>1. answered' = answered /\ req' = [req EXCEPT ![r].at = "recorded"]
      BY <1>19, <2>5 DEF Record
    <3>2. /\ req'[r].at = "recorded" /\ req'[r].event = e
          /\ \A q \in Requests : q # r => req'[q] = req[q]
          /\ req' \in [Requests -> Request]
      BY <1>1, <1>10, <3>1 DEF Request
    <3>3. \A f : Handled(f) => Handled(f)'
      BY <2>1, <3>2 DEF Handled
    <3>4. EventsOnce'
      <4>1. \A f \in seen' : Handled(f)'
        BY <1>0, <2>1, <3>2, <3>3 DEF EventsOnce, Handled
      <4>2. applied[e] = 0
        BY <1>0, <2>2, <2>5 DEF EventsOnce
      <4>3. \A q \in Requests : req[q].at = "recorded" => req[q].event # e
        BY <1>0, <2>5 DEF EventsOnce
      <4> QED BY <1>0, <2>1, <2>2, <3>2, <4>1, <4>2, <4>3 DEF EventsOnce
    <3>5. AnsweredOnce'
      BY <1>0, <1>17, <2>1, <3>1, <3>3 DEF AnsweredOnce, Handled
    <3>6. req'[r].at \notin CheckoutSteps
      BY <3>2 DEF CheckoutSteps
    <3>7. seen' \subseteq DOMAIN events
      BY <1>1, <2>1, <2>2
    <3> QED BY <1>1, <1>16, <2>1, <2>3, <3>1, <3>2, <3>4, <3>5, <3>6, <3>7
  <2> QED BY <2>4, <2>5
(* The webhook of one event fails, and the event is lost. *)
<1>20. ASSUME NEW r \in Requests, RecordFails(r) \/ ProcessFails(r) PROVE IInv'
  <2>0. PICK e \in DOMAIN events : e = req[r].event /\ e \in Events
    BY <1>0, <1>9, <1>20 DEF EventsOnce, RecordFails, ProcessFails
  <2>1. /\ req[r].at \in {"new", "recorded"}
        /\ UNCHANGED <<customer, made, seen, status, pages, paid, events, applied>>
        /\ lost' = lost \cup {e} /\ answered \subseteq answered' /\ answered' \subseteq answered \cup {e}
        /\ req' = [req EXCEPT ![r] = Idle] /\ calm' = FALSE
    BY <1>20, <2>0 DEF RecordFails, ProcessFails, userVars, stripeVars
  <2>3. ActiveHasPaid'
    BY <1>0, <2>1, PaidFrame
  <2>4. /\ req'[r].at = "idle" /\ \A q \in Requests : q # r => req'[q] = req[q]
        /\ req' \in [Requests -> Request]
    BY <1>1, <1>3, <2>1
  <2>5. (\A f : Handled(f) => Handled(f)') /\ Handled(e)'
    <3>1. Handled(e)'
      BY <2>1, <2>0 DEF Handled
    <3>2. ASSUME NEW f, f # e, Handled(f) PROVE Handled(f)'
      BY <2>0, <2>1, <2>4, <3>2 DEF Handled
    <3> QED BY <3>1, <3>2
  <2>6. EventsOnce'
    <3>1. \A f \in seen' : Handled(f)'
      BY <1>0, <2>1, <2>5 DEF EventsOnce
    <3> QED BY <1>0, <2>1, <2>4, <3>1 DEF EventsOnce
  <2>7. AnsweredOnce'
    <3>1. \A f \in answered' : Handled(f)'
      BY <1>17, <2>1, <2>5
    <3> QED BY <1>0, <2>1, <3>1 DEF AnsweredOnce, Handled
  <2>8. faults' \in 0 .. MaxFaults
    BY <1>0, <1>1, <1>20 DEF RecordFails, ProcessFails, Fault
  <2>9. req'[r].at \notin CheckoutSteps
    BY <2>4 DEF CheckoutSteps
  <2>10. seen' \subseteq DOMAIN events /\ answered' \subseteq DOMAIN events /\ lost' \subseteq DOMAIN events
    BY <1>1, <2>0, <2>1
  <2> QED BY <1>1, <1>16, <2>1, <2>3, <2>4, <2>6, <2>7, <2>8, <2>9, <2>10
<1>21. ASSUME NEW r \in Requests, Process(r) PROVE IInv'
  <2>0. PICK e \in DOMAIN events : e = req[r].event /\ e \in Events
    BY <1>0, <1>9, <1>21 DEF EventsOnce, Process
  <2>1. /\ req[r].at = "recorded" /\ UNCHANGED <<customer, made, seen, pages, paid, events, lost, faults>>
        /\ req' = [req EXCEPT ![r] = Idle] /\ answered' = answered \cup {e}
        /\ applied' = [applied EXCEPT ![e] = @ + 1]
        /\ status' = [u \in Users |->
                        IF u \in AppliesTo(e) THEN StatusOf(events[e].says) ELSE status[u]]
    BY <1>21, <2>0 DEF Process, stripeVars
  <2>2. calm' \in BOOLEAN
    BY <1>1, <1>21 DEF Process
  <2>3. e \in DOMAIN events /\ e \in Events /\ e \in seen /\ applied[e] = 0
    BY <1>0, <2>0, <2>1 DEF EventsOnce
  <2>4. /\ req'[r].at = "idle" /\ \A q \in Requests : q # r => req'[q] = req[q]
        /\ req' \in [Requests -> Request]
    BY <1>1, <1>3, <2>1
  <2>5. applied'[e] = 1 /\ (\A f \in Events : f # e => applied'[f] = applied[f])
        /\ applied' \in [Events -> Nat]
    BY <1>1, <2>1, <2>3
  <2>6. \A f \in Events : Handled(f) => Handled(f)'
    <3>1. Handled(e)'
      BY <2>5 DEF Handled
    <3>2. ASSUME NEW f \in Events, f # e, Handled(f) PROVE Handled(f)'
      BY <2>0, <2>1, <2>4, <2>5, <3>2 DEF Handled
    <3> QED BY <3>1, <3>2
  <2>7. seen \subseteq Events /\ answered \subseteq Events /\ Handled(e)'
    BY <1>1, <1>9, <2>5 DEF Handled
  <2>8. EventsOnce'
    <3>1. \A f \in seen' : Handled(f)'
      BY <1>0, <2>1, <2>6, <2>7 DEF EventsOnce
    <3>2. \A f \in Events : applied'[f] \in {0, 1} /\ (f \notin seen' => applied'[f] = 0)
      BY <1>0, <2>1, <2>3, <2>5 DEF EventsOnce
    <3>3. ASSUME NEW q \in Requests
          PROVE  /\ req'[q].at \in {"new", "recorded"} => req'[q].event \in DOMAIN events'
                 /\ req'[q].at = "recorded" => req'[q].event \in seen' /\ applied'[req'[q].event] = 0
      <4>1. CASE q = r
        BY <2>4, <4>1
      <4>2. CASE q # r
        <5>1. req[q].at = "recorded" => req[q].event # e
          BY <1>0, <2>0, <2>1, <4>2 DEF EventsOnce
        <5> QED BY <1>0, <1>9, <2>1, <2>4, <2>5, <4>2, <5>1 DEF EventsOnce
      <4> QED BY <4>1, <4>2
    <3> QED BY <1>0, <2>1, <2>4, <3>1, <3>2, <3>3 DEF EventsOnce
  <2>9. AnsweredOnce'
    <3>1. \A f \in answered' : Handled(f)'
      BY <1>17, <2>1, <2>6, <2>7
    <3>2. \A f \in Events : applied'[f] <= 1
      BY <2>8 DEF EventsOnce
    <3> QED BY <3>1, <3>2 DEF AnsweredOnce, Handled
  <2>10. ActiveHasPaid'
    <3> SUFFICES ASSUME NEW u \in Users, status'[u] = "active"
                 PROVE  \E i \in DOMAIN paid : made[paid[i].customer] = u /\ paid[i].state # "incomplete"
      BY <2>1 DEF ActiveHasPaid
    <3>1. CASE u \notin AppliesTo(e)
      BY <1>0, <2>1, <3>1 DEF ActiveHasPaid
    <3>2. CASE u \in AppliesTo(e)
      <4>1. customer[u] = events[e].customer /\ events[e].says # "inactive"
        BY <2>1, <3>2 DEF AppliesTo, StatusOf
      <4>2. events[e] \in Event
        BY <1>1, <1>2, <2>3, ElementOfSeq
      <4>3. customer[u] # NoCustomer
        BY <1>2, <4>1, <4>2 DEF Event, NoCustomer
      <4>4. made[customer[u]] = u
        BY <1>0, <4>3 DEF OwnCustomers
      <4> QED BY <1>0, <2>3, <4>1, <4>4 DEF ReportsArePaid, PaidFor
    <3> QED BY <3>1, <3>2
  <2>11. status' \in [Users -> {"active", "inactive"}]
    BY <1>1, <2>1 DEF StatusOf
  <2>12. req'[r].at \notin CheckoutSteps
    BY <2>4 DEF CheckoutSteps
  <2>13. seen' \subseteq DOMAIN events /\ answered' \subseteq DOMAIN events /\ lost' \subseteq DOMAIN events
    BY <1>1, <2>1, <2>3
  <2> QED BY <1>1, <1>16, <2>1, <2>2, <2>4, <2>5, <2>8, <2>9, <2>10, <2>11, <2>12, <2>13
<1>22. ASSUME Crash PROVE IInv'
  <2>1. /\ UNCHANGED <<customer, made, seen, status, pages, paid, events, answered, applied>>
        /\ req' = [r \in Requests |-> Idle] /\ faults' \in 0 .. MaxFaults
        /\ lost' = lost \cup {req[r].event : r \in {q \in Requests : req[q].at = "recorded"}}
    BY <1>0, <1>1, <1>22 DEF Crash, Fault, userVars, stripeVars
  <2>2. calm' \in BOOLEAN
    BY <1>1, <1>22 DEF Crash
  <2>3. /\ \A r \in Requests : req'[r].at = "idle" /\ req'[r].at \notin CheckoutSteps
        /\ req' \in [Requests -> Request]
    BY <1>3, <2>1 DEF CheckoutSteps
  <2>4. \A f : Handled(f) => Handled(f)'
    BY <2>1 DEF Handled
  <2>5. EventsOnce'
    <3>1. \A f \in seen' : Handled(f)'
      BY <1>0, <2>1, <2>4 DEF EventsOnce
    <3> QED BY <1>0, <2>1, <2>3, <3>1 DEF EventsOnce
  <2>6. AnsweredOnce'
    <3>1. \A f \in answered' : Handled(f)'
      BY <1>17, <2>1, <2>4
    <3> QED BY <1>0, <2>1, <3>1 DEF AnsweredOnce, Handled
  <2>7. ActiveHasPaid'
    BY <1>0, <2>1, PaidFrame
  <2>8. lost' \subseteq DOMAIN events
    BY <1>0, <1>1, <2>1 DEF EventsOnce
  <2> QED BY <1>1, <1>16, <2>1, <2>2, <2>3, <2>5, <2>6, <2>7, <2>8
<1>23. CASE UNCHANGED vars
  BY <1>0, <1>23 DEF vars, userVars, stripeVars, historyVars, IInv, TypeOK, EventsOnce, Handled,
     AnsweredOnce, OwnCustomers, ReportsArePaid, PaidFor, ActiveHasPaid
<1> QED
  BY <1>7, <1>8, <1>11, <1>12, <1>14, <1>15, <1>18, <1>19, <1>20, <1>21, <1>22, <1>23 DEF Next

LEMMA IInvInit == Init => IInv
<1> SUFFICES ASSUME Init PROVE IInv
  OBVIOUS
<1>0. MaxEvents \in Nat /\ MaxFaults \in Nat
  BY BoundAssumption
<1>1. /\ Len(made) = 0 /\ Len(events) = 0 /\ DOMAIN made = {} /\ DOMAIN events = {} /\ DOMAIN paid = {}
  BY DEF Init
<1>2. TypeOK
  <2>1. /\ made \in Seq(Users)
        /\ paid \in Seq([customer : DOMAIN made, state : {"incomplete", "active", "past_due"}])
        /\ events \in Seq([customer : DOMAIN made, says : {"completed", "active", "inactive"}])
    BY EmptySeq DEF Init
  <2>2. req \in [Requests -> [at : {"idle", "new", "recorded"} \cup CheckoutSteps,
                              user : Users \cup {NoUser}, customer : 0 .. Len(made),
                              event : 0 .. Len(events)]]
    BY <1>1 DEF Init, Idle, NoCustomer
  <2> QED BY <1>0, <1>1, <2>1, <2>2 DEF TypeOK, Init, NoCustomer
<1>3. \A r \in Requests : req[r].at = "idle"
  BY DEF Init, Idle
<1>4. EventsOnce /\ AnsweredOnce
  BY <1>0, <1>1, <1>3 DEF Init, EventsOnce, AnsweredOnce
<1>5. OwnCustomers
  BY <1>3 DEF Init, OwnCustomers, CheckoutSteps
<1>6. ReportsArePaid /\ ActiveHasPaid
  BY <1>1 DEF Init, ReportsArePaid, ActiveHasPaid
<1> QED BY <1>2, <1>4, <1>5, <1>6 DEF IInv

LEMMA IInvAlways == Spec => []IInv
BY IInvInit, IInvNext, PTL DEF Spec

-----------------------------------------------------------------------------
(* Users, requests and events name only customers and events that exist, at *)
(* every step of the checkout route and the webhook.                        *)
THEOREM TypeCorrect == Spec => []TypeOK
<1>1. IInv => TypeOK
  BY DEF IInv
<1> QED BY <1>1, IInvAlways, PTL

(* However often and in parallel Stripe delivers an event, and whatever fails, *)
(* its effect happens once, and an event answered with success was handled or  *)
(* lost (/billing/webhook and the unique id of the events' table).             *)
THEOREM EventSafety == Spec => []AnsweredOnce
<1>1. IInv => AnsweredOnce
  BY DEF IInv
<1> QED BY <1>1, IInvAlways, PTL

(* Nobody is active without a payment of a customer made for them, in whatever *)
(* order events arrive and however checkouts overlap (/billing/checkout and    *)
(* the webhook together).                                                      *)
THEOREM PaymentSafety == Spec => []ActiveHasPaid
<1>1. IInv => ActiveHasPaid
  BY DEF IInv
<1> QED BY <1>1, IInvAlways, PTL
-----------------------------------------------------------------------------
(* The status of a user follows Stripe while the code copes with what happens. *)

(* A user has one checkout at a time, and the customer it uses is stored. *)
OneCheckout ==
    /\ \A q, r \in Requests :
          req[q].at \in CheckoutSteps /\ req[r].at \in CheckoutSteps /\ req[q].user = req[r].user
          => q = r
    /\ \A r \in Requests :
          /\ req[r].at \in {"read", "made"} => customer[req[r].user] = NoCustomer
          /\ req[r].at = "ready" => customer[req[r].user] = req[r].customer

Stored(c) == c \in DOMAIN made /\ customer[made[c]] = c

(* Only stored customers pay, and each of them once. *)
OnePayment ==
    /\ \A c \in pages : Stored(c)
    /\ \A i \in DOMAIN paid : Stored(paid[i].customer)
    /\ \A i, j \in DOMAIN paid : paid[i].customer = paid[j].customer => i = j
    /\ \A e \in DOMAIN events : Stored(events[e].customer)

(* What Stripe reported last of a subscription is how it stands. *)
LastReport ==
    \A i \in DOMAIN paid : \E e \in DOMAIN events :
       /\ events[e].customer = paid[i].customer
       /\ \A f \in DOMAIN events : f > e => events[f].customer # paid[i].customer
       /\ StatusOf(events[e].says) = "active" <=> paid[i].state = "active"

(* Of the events of a customer the first were applied. *)
InOrder ==
    \A e, f \in DOMAIN events :
       events[e].customer = events[f].customer /\ e < f /\ applied[f] > 0 => applied[e] > 0

(* Of these the last says what the status is, and without one it is inactive. *)
StatusFollows ==
    \A u \in Users :
       /\ (\A e \in DOMAIN events : events[e].customer = customer[u] => applied[e] = 0)
          => status[u] = "inactive"
       /\ \A e \in DOMAIN events :
             /\ events[e].customer = customer[u] /\ applied[e] > 0
             /\ \A f \in DOMAIN events :
                   f > e /\ events[f].customer = customer[u] => applied[f] = 0
             => status[u] = StatusOf(events[e].says)

Calm == OneCheckout /\ OnePayment /\ LastReport /\ InOrder /\ StatusFollows /\ lost = {}

CalmInv == calm => Calm

(* The types that the steps below need, from the invariant. *)
LEMMA Types ==
  ASSUME IInv
  PROVE  /\ made \in Seq(Users) /\ Len(made) \in Nat /\ DOMAIN made = 1 .. Len(made)
         /\ paid \in Seq(Subscription) /\ Len(paid) \in Nat /\ DOMAIN paid = 1 .. Len(paid)
         /\ events \in Seq(Event) /\ Len(events) \in Nat /\ DOMAIN events = 1 .. Len(events)
         /\ DOMAIN events \subseteq Events /\ Len(events) <= MaxEvents /\ MaxEvents \in Nat
         /\ \A i \in DOMAIN paid : paid[i].customer \in DOMAIN made
         /\ \A e \in DOMAIN events : events[e].customer \in DOMAIN made
         /\ req \in [Requests -> Request] /\ applied \in [Events -> Nat]
         /\ customer \in [Users -> 0 .. Len(made)] /\ status \in [Users -> {"active", "inactive"}]
<1>1. /\ made \in Seq(Users) /\ paid \in Seq(Subscription) /\ events \in Seq(Event)
      /\ req \in [Requests -> Request] /\ applied \in [Events -> Nat]
      /\ customer \in [Users -> 0 .. Len(made)] /\ status \in [Users -> {"active", "inactive"}]
  BY DEF IInv, TypeOK, Request, Subscription, Event
<1>2. /\ Len(made) \in Nat /\ DOMAIN made = 1 .. Len(made)
      /\ Len(events) \in Nat /\ DOMAIN events = 1 .. Len(events)
      /\ Len(paid) \in Nat /\ DOMAIN paid = 1 .. Len(paid)
  BY <1>1, LenProperties
<1>3. \A i \in DOMAIN paid : paid[i].customer \in DOMAIN made
  <2>1. \A i \in DOMAIN paid : paid[i] \in Subscription
    BY <1>1, <1>2, ElementOfSeq
  <2> QED BY <2>1 DEF Subscription
<1>4. \A e \in DOMAIN events : events[e].customer \in DOMAIN made
  <2>1. \A e \in DOMAIN events : events[e] \in Event
    BY <1>1, <1>2, ElementOfSeq
  <2> QED BY <2>1 DEF Event
<1>5. Len(events) <= MaxEvents /\ MaxEvents \in Nat
  BY BoundAssumption DEF IInv, EventsOnce
<1>6. DOMAIN events \subseteq Events
  BY <1>2, <1>5 DEF Events
<1> QED BY <1>1, <1>2, <1>3, <1>4, <1>5, <1>6

(* A step that touches no checkout, or ends one. *)
LEMMA CheckoutFrame ==
  ASSUME OneCheckout, UNCHANGED customer,
         \A r \in Requests :
            \/ UNCHANGED <<req[r].at, req[r].user, req[r].customer>>
            \/ req'[r].at \notin CheckoutSteps
  PROVE  OneCheckout'
<1>1. \A r \in Requests : req'[r].at \in CheckoutSteps =>
         UNCHANGED <<req[r].at, req[r].user, req[r].customer>>
  OBVIOUS
<1> QED BY <1>1 DEF OneCheckout, CheckoutSteps

(* A step after which the customers, payments, events and statuses are the same. *)
LEMMA FollowFrame ==
  ASSUME OnePayment, LastReport, InOrder, StatusFollows,
         UNCHANGED <<customer, made, paid, events, applied, status>>,
         \A c \in pages' : c \in pages \/ Stored(c)
  PROVE  OnePayment' /\ LastReport' /\ InOrder' /\ StatusFollows'
<1>1. OnePayment'
  BY DEF OnePayment, Stored
<1>2. LastReport'
  BY DEF LastReport
<1>3. InOrder'
  BY DEF InOrder
<1>4. StatusFollows'
  BY DEF StatusFollows
<1> QED BY <1>1, <1>2, <1>3, <1>4

(* What is reported of a customer says that the subscription is active, or not. *)
SayOf(reports, c, state) ==
    /\ reports \in Seq(Event) /\ Len(reports) > 0
    /\ \A j \in DOMAIN reports :
          /\ reports[j].customer = c
          /\ StatusOf(reports[j].says) = "active" <=> state = "active"

(* Payment k is of that customer, in the state after this step; others are as they were. *)
PaymentNow(k, c, state) ==
    /\ k \in DOMAIN paid' /\ paid'[k].customer = c /\ paid'[k].state = state
    /\ \A i \in DOMAIN paid' : i # k =>
          i \in DOMAIN paid /\ paid'[i] = paid[i] /\ paid[i].customer # c

(* Stripe reports what it has just done to the subscription of one customer. *)
LEMMA ReportCalm ==
  ASSUME IInv, Calm, UNCHANGED <<customer, made, req, applied, status, lost>>,
         pages' \subseteq pages,
         NEW c, NEW state, NEW reports, NEW k,
         Stored(c), Report(reports), SayOf(reports, c, state), PaymentNow(k, c, state)
  PROVE  Calm'
<1> USE DEF SayOf, PaymentNow
<1>0. /\ OneCheckout /\ OnePayment /\ LastReport /\ InOrder /\ StatusFollows /\ lost = {}
      /\ \A e \in Events : e \notin seen => applied[e] = 0
      /\ seen \subseteq DOMAIN events
  BY DEF Calm, IInv, EventsOnce, TypeOK
<1>1. /\ events \in Seq(Event) /\ Len(events) \in Nat /\ DOMAIN events = 1 .. Len(events)
      /\ DOMAIN events \subseteq Events /\ MaxEvents \in Nat /\ customer \in [Users -> 0 .. Len(made)]
  BY Types
<1>2. /\ events' \in Seq(Event) /\ Len(events') <= MaxEvents /\ Len(events) <= Len(events')
      /\ DOMAIN events \subseteq DOMAIN events'
      /\ \A e \in DOMAIN events : events'[e] = events[e]
      /\ \A e \in DOMAIN events' \ DOMAIN events : \E j \in DOMAIN reports : events'[e] = reports[j]
  BY <1>1, ReportEffect
<1>3. /\ DOMAIN events' = 1 .. Len(events') /\ Len(events') \in Nat /\ Len(events') > Len(events)
      /\ DOMAIN events' \subseteq Events
  <2>1. DOMAIN events' = 1 .. Len(events') /\ Len(events') \in Nat
    BY <1>2, LenProperties
  <2>2. Len(events') = Len(events) + Len(reports)
    BY <1>1, ConcatProperties DEF Report
  <2>3. Len(reports) \in Nat
    BY LenProperties
  <2> QED BY <1>1, <1>2, <2>1, <2>2, <2>3 DEF Events
<1>4. \A e \in DOMAIN events' : e \notin DOMAIN events =>
         /\ e > Len(events) /\ events'[e].customer = c /\ applied'[e] = 0
         /\ StatusOf(events'[e].says) = "active" <=> state = "active"
  BY <1>0, <1>1, <1>2, <1>3
<1>5. OneCheckout'
  BY <1>0, CheckoutFrame
<1>6. OnePayment'
  <2>1. c \in DOMAIN made' /\ customer'[made'[c]] = c
    BY DEF Stored
  <2>2. \A d \in pages' : d \in DOMAIN made' /\ customer'[made'[d]] = d
    BY <1>0 DEF OnePayment, Stored
  <2>3. \A i \in DOMAIN paid' :
           /\ paid'[i].customer \in DOMAIN made'
           /\ customer'[made'[paid'[i].customer]] = paid'[i].customer
    BY <1>0, <2>1 DEF OnePayment, Stored
  <2>4. \A i, j \in DOMAIN paid' : paid'[i].customer = paid'[j].customer => i = j
    BY <1>0 DEF OnePayment
  <2>5. \A e \in DOMAIN events' :
           /\ events'[e].customer \in DOMAIN made'
           /\ customer'[made'[events'[e].customer]] = events'[e].customer
    BY <1>0, <1>2, <1>4, <2>1 DEF OnePayment, Stored
  <2> QED BY <2>2, <2>3, <2>4, <2>5 DEF OnePayment, Stored
<1>7. LastReport'
  <2> SUFFICES ASSUME NEW i \in DOMAIN paid'
               PROVE  \E e \in DOMAIN events' :
                         /\ events'[e].customer = paid'[i].customer
                         /\ \A f \in DOMAIN events' : f > e => events'[f].customer # paid'[i].customer
                         /\ StatusOf(events'[e].says) = "active" <=> paid'[i].state = "active"
    BY DEF LastReport, StatusOf
  <2>1. CASE i = k
    <3>1. Len(events') \in DOMAIN events' /\ Len(events') \notin DOMAIN events
      BY <1>1, <1>3
    <3>2. \A f \in DOMAIN events' : ~(f > Len(events'))
      BY <1>3
    <3> QED BY <1>4, <2>1, <3>1, <3>2
  <2>2. CASE i # k
    <3>1. PICK e \in DOMAIN events :
             /\ events[e].customer = paid[i].customer
             /\ \A f \in DOMAIN events : f > e => events[f].customer # paid[i].customer
             /\ StatusOf(events[e].says) = "active" <=> paid[i].state = "active"
      BY <1>0, <2>2 DEF LastReport
    <3> QED BY <1>2, <1>4, <2>2, <3>1
  <2> QED BY <2>1, <2>2
<1>8. InOrder'
  BY <1>0, <1>1, <1>2, <1>3, <1>4 DEF InOrder
<1>9. StatusFollows'
  <2> SUFFICES ASSUME NEW u \in Users
               PROVE  /\ (\A e \in DOMAIN events' : events'[e].customer = customer[u] => applied[e] = 0)
                         => status[u] = "inactive"
                      /\ \A e \in DOMAIN events' :
                            /\ events'[e].customer = customer[u] /\ applied[e] > 0
                            /\ \A f \in DOMAIN events' :
                                  f > e /\ events'[f].customer = customer[u] => applied[f] = 0
                            => status[u] = StatusOf(events'[e].says)
    BY DEF StatusFollows, StatusOf
  <2>1. (\A e \in DOMAIN events' : events'[e].customer = customer[u] => applied[e] = 0)
        => status[u] = "inactive"
    BY <1>0, <1>2 DEF StatusFollows
  <2>2. ASSUME NEW e \in DOMAIN events', events'[e].customer = customer[u], applied[e] > 0,
               \A f \in DOMAIN events' :
                  f > e /\ events'[f].customer = customer[u] => applied[f] = 0
        PROVE  status[u] = StatusOf(events'[e].says)
    <3>1. e \in DOMAIN events /\ events'[e] = events[e]
      BY <1>2, <1>4, <2>2
    <3>2. \A f \in DOMAIN events :
             f > e /\ events[f].customer = customer[u] => applied[f] = 0
      BY <1>2, <2>2
    <3> QED BY <1>0, <2>2, <3>1, <3>2 DEF StatusFollows
  <2> QED BY <2>1, <2>2
<1> QED BY <1>0, <1>5, <1>6, <1>7, <1>8, <1>9 DEF Calm

LEMMA PayCalm ==
  ASSUME IInv, CalmInv, calm', NEW c \in Customers, Pay(c)
  PROVE  Calm'
<1>1. /\ calm /\ c \in pages /\ pages' = pages \ {c} /\ Len(paid) < MaxSubscriptions
      /\ \A i \in DOMAIN paid : paid[i].customer # c
      /\ UNCHANGED <<customer, made, req, applied, status, lost>>
  BY DEF Pay, userVars, historyVars
<1>2. Calm /\ Stored(c)
  BY <1>1 DEF CalmInv, Calm, OnePayment
<1>3. /\ paid \in Seq(Subscription) /\ Len(paid) \in Nat /\ DOMAIN paid = 1 .. Len(paid)
      /\ c \in DOMAIN made
  BY <1>2, Types DEF Stored
<1>4. ASSUME NEW state \in {"active", "incomplete"},
             paid' = Append(paid, [customer |-> c, state |-> state]),
             NEW reports, Report(reports), SayOf(reports, c, state)
      PROVE  Calm'
  <2> DEFINE sub == [customer |-> c, state |-> state]
  <2>1. sub \in Subscription /\ sub.customer = c /\ sub.state = state
    BY <1>3 DEF Subscription
  <2> HIDE DEF sub
  <2>2. /\ paid' \in Seq(Subscription) /\ Len(paid') = Len(paid) + 1
        /\ \A i \in 1 .. Len(paid) : paid'[i] = paid[i]
        /\ paid'[Len(paid) + 1] = sub
    BY <1>3, <1>4, <2>1, AppendProperties DEF sub
  <2>3. DOMAIN paid' = 1 .. Len(paid) + 1
    BY <2>2, LenProperties
  <2> DEFINE k == Len(paid) + 1
  <2>4. PaymentNow(k, c, state)
    BY <1>1, <1>3, <2>1, <2>2, <2>3 DEF PaymentNow
  <2> HIDE DEF k
  <2>5. pages' \subseteq pages
    BY <1>1
  <2> QED BY <1>1, <1>2, <1>4, <2>4, <2>5, ReportCalm
<1>5. /\ Says(c, "completed") \in Event /\ Says(c, "active") \in Event /\ Says(c, "inactive") \in Event
      /\ \A what : Says(c, what).customer = c /\ Says(c, what).says = what
  BY <1>3 DEF Says, Event
<1>6. CASE /\ paid' = Append(paid, [customer |-> c, state |-> "active"])
           /\ \/ Report(<<Says(c, "completed"), Says(c, "active")>>)
              \/ Report(<<Says(c, "active"), Says(c, "completed")>>)
  <2>1. ASSUME NEW reports, Report(reports),
               \/ reports = <<Says(c, "completed"), Says(c, "active")>>
               \/ reports = <<Says(c, "active"), Says(c, "completed")>>
        PROVE  Calm'
    <3> DEFINE a == Says(c, "completed")
               b == Says(c, "active")
    <3>1. /\ a \in Event /\ b \in Event /\ a.customer = c /\ b.customer = c
          /\ StatusOf(a.says) = "active" /\ StatusOf(b.says) = "active"
          /\ reports = <<a, b>> \/ reports = <<b, a>>
      BY <1>5, <2>1 DEF StatusOf
    <3> HIDE DEF a, b
    <3>2. reports \in Seq(Event) /\ Len(reports) > 0 /\ \A j \in DOMAIN reports : reports[j] \in {a, b}
      BY <3>1, ShortSeq
    <3>3. SayOf(reports, c, "active")
      BY <3>1, <3>2 DEF SayOf
    <3> QED BY <1>4, <1>6, <2>1, <3>3
  <2> QED BY <1>6, <2>1
<1>7. CASE /\ paid' = Append(paid, [customer |-> c, state |-> "incomplete"])
           /\ Report(<<Says(c, "inactive")>>)
  <2> DEFINE a == Says(c, "inactive")
  <2>1. a \in Event /\ a.customer = c /\ StatusOf(a.says) = "inactive"
    BY <1>5 DEF StatusOf
  <2> HIDE DEF a
  <2> DEFINE reports == <<a>>
  <2>2. /\ reports \in Seq(Event) /\ Len(reports) > 0
        /\ \A j \in DOMAIN reports : reports[j] = a
    BY <2>1
  <2>3. Report(reports)
    BY <1>7 DEF a
  <2> HIDE DEF reports
  <2>4. SayOf(reports, c, "incomplete")
    BY <2>1, <2>2 DEF SayOf
  <2> HIDE DEF a
  <2> QED BY <1>4, <1>7, <2>3, <2>4
<1> QED BY <1>6, <1>7 DEF Pay

LEMMA SubscriptionCalm ==
  ASSUME IInv, CalmInv, calm', NEW k \in DOMAIN paid, Settle(k) \/ Lapse(k)
  PROVE  Calm'
<1> DEFINE c == paid[k].customer
<1>1. calm /\ UNCHANGED <<customer, made, req, applied, status, lost, pages>>
  BY DEF Settle, Lapse, userVars, historyVars
<1>2. Calm /\ Stored(c) /\ \A i \in DOMAIN paid : i # k => paid[i].customer # c
  BY <1>1 DEF CalmInv, Calm, OnePayment
<1>3. /\ paid \in Seq(Subscription) /\ Len(paid) \in Nat /\ DOMAIN paid = 1 .. Len(paid)
      /\ paid[k] \in Subscription /\ c \in DOMAIN made
  <2>1. paid \in Seq(Subscription) /\ Len(paid) \in Nat /\ DOMAIN paid = 1 .. Len(paid)
    BY Types
  <2> QED BY <1>2, <2>1, ElementOfSeq DEF Stored
<1>4. ASSUME NEW state \in {"active", "past_due"}, paid' = [paid EXCEPT ![k].state = state],
             NEW reports, Report(reports), SayOf(reports, c, state)
      PROVE  Calm'
  <2> DEFINE sub == [paid[k] EXCEPT !.state = state]
  <2>1. sub \in Subscription /\ sub.customer = c /\ sub.state = state
    BY <1>3 DEF Subscription
  <2>2. paid' = [paid EXCEPT ![k] = sub]
    BY <1>4
  <2> HIDE DEF sub
  <2>3. /\ paid' \in Seq(Subscription) /\ Len(paid') = Len(paid)
        /\ \A i \in 1 .. Len(paid) : paid'[i] = IF i = k THEN sub ELSE paid[i]
    BY <1>3, <2>1, <2>2, ExceptSeq
  <2>4. DOMAIN paid' = 1 .. Len(paid)
    BY <2>3, LenProperties
  <2>5. PaymentNow(k, c, state)
    BY <1>2, <1>3, <2>1, <2>3, <2>4 DEF PaymentNow
  <2>6. pages' \subseteq pages
    BY <1>1
  <2> HIDE DEF c
  <2> QED BY <1>1, <1>2, <1>4, <2>5, <2>6, ReportCalm
<1>5. /\ Says(c, "completed") \in Event /\ Says(c, "active") \in Event /\ Says(c, "inactive") \in Event
      /\ \A what : Says(c, what).customer = c /\ Says(c, what).says = what
  BY <1>3 DEF Says, Event
<1>6. ASSUME paid' = [paid EXCEPT ![k].state = "active"], NEW reports, Report(reports),
             reports = <<Says(c, "active"), Says(c, "completed")>> \/ reports = <<Says(c, "active")>>
      PROVE  Calm'
  <2> DEFINE a == Says(c, "active")
             b == Says(c, "completed")
  <2>1. /\ a \in Event /\ b \in Event /\ a.customer = c /\ b.customer = c
        /\ StatusOf(a.says) = "active" /\ StatusOf(b.says) = "active"
        /\ reports = <<a, b>> \/ reports = <<a>>
    BY <1>5, <1>6 DEF StatusOf
  <2> HIDE DEF a, b
  <2>2. reports \in Seq(Event) /\ Len(reports) > 0 /\ \A j \in DOMAIN reports : reports[j] \in {a, b}
    BY <2>1, ShortSeq
  <2>3. SayOf(reports, c, "active")
    BY <2>1, <2>2 DEF SayOf
  <2> HIDE DEF c
  <2> QED BY <1>4, <1>6, <2>3
<1>7. ASSUME paid' = [paid EXCEPT ![k].state = "past_due"], Report(<<Says(c, "inactive")>>)
      PROVE  Calm'
  <2> DEFINE a == Says(c, "inactive")
  <2>1. a \in Event /\ a.customer = c /\ StatusOf(a.says) = "inactive"
    BY <1>5 DEF StatusOf
  <2> HIDE DEF a
  <2> DEFINE reports == <<a>>
  <2>2. /\ reports \in Seq(Event) /\ Len(reports) > 0
        /\ \A j \in DOMAIN reports : reports[j] = a
    BY <2>1
  <2>3. Report(reports)
    BY <1>7 DEF a
  <2> HIDE DEF reports
  <2>4. SayOf(reports, c, "past_due")
    BY <2>1, <2>2 DEF SayOf
  <2> HIDE DEF a, c
  <2> QED BY <1>4, <1>7, <2>3, <2>4
<1>8. CASE Settle(k)
  BY <1>6, <1>8 DEF Settle
<1>9. CASE Lapse(k)
  BY <1>7, <1>9 DEF Lapse
<1> QED BY <1>8, <1>9

LEMMA CheckoutCalm ==
  ASSUME IInv, CalmInv, calm', NEW r \in Requests, NEW u \in Users, Checkout(r, u)
  PROVE  Calm'
<1>1. /\ calm /\ \A q \in Requests : req[q].at \in CheckoutSteps => req[q].user # u
      /\ UNCHANGED <<customer, status, made, pages, paid, events, applied, lost>>
  BY DEF Checkout, userVars, stripeVars, historyVars
<1>2. Calm
  BY <1>1 DEF CalmInv
<1>3. /\ req'[r].user = u /\ req'[r].customer = customer[u]
      /\ req'[r].at = IF customer[u] = NoCustomer THEN "read" ELSE "ready"
      /\ \A q \in Requests : q # r => req'[q] = req[q]
  <2>1. req \in [Requests -> Request]
    BY Types
  <2> QED BY <2>1 DEF Checkout, Idle
<1>4. OneCheckout'
  BY <1>1, <1>2, <1>3 DEF Calm, OneCheckout, CheckoutSteps
<1> QED BY <1>1, <1>2, <1>4, FollowFrame DEF Calm

LEMMA MakeCustomerCalm ==
  ASSUME IInv, CalmInv, calm', NEW r \in Requests, MakeCustomer(r)
  PROVE  Calm'
<1>1. /\ calm /\ req[r].at = "read" /\ made' = Append(made, req[r].user)
      /\ UNCHANGED <<customer, status, pages, paid, events, applied, lost>>
  BY DEF MakeCustomer, userVars, historyVars
<1>2. Calm /\ req[r].user \in Users
  BY <1>1 DEF CalmInv, IInv, OwnCustomers, CheckoutSteps
<1>3. /\ made \in Seq(Users) /\ Len(made) \in Nat /\ DOMAIN made = 1 .. Len(made)
      /\ req \in [Requests -> Request]
  BY Types
<1>4. \A c \in DOMAIN made : c \in DOMAIN made' /\ made'[c] = made[c]
  <2>1. /\ made' \in Seq(Users) /\ Len(made') = Len(made) + 1
        /\ \A i \in 1 .. Len(made) : made'[i] = made[i]
    BY <1>1, <1>2, <1>3, AppendProperties
  <2>2. DOMAIN made' = 1 .. Len(made')
    BY <2>1, LenProperties
  <2> QED BY <1>3, <2>1, <2>2
<1>5. /\ req'[r].user = req[r].user /\ req'[r].at = "made"
      /\ \A q \in Requests : q # r => req'[q] = req[q]
  BY <1>3 DEF MakeCustomer, Request
<1>6. OneCheckout'
  BY <1>1, <1>2, <1>5 DEF Calm, OneCheckout, CheckoutSteps
<1>7. OnePayment'
  BY <1>1, <1>2, <1>4 DEF Calm, OnePayment, Stored
<1>8. LastReport' /\ InOrder'
  BY <1>1, <1>2 DEF Calm, LastReport, InOrder
<1>9. StatusFollows'
  BY <1>1, <1>2 DEF Calm, StatusFollows
<1> QED BY <1>1, <1>2, <1>6, <1>7, <1>8, <1>9 DEF Calm

LEMMA StoreCustomerCalm ==
  ASSUME IInv, CalmInv, calm', NEW r \in Requests, StoreCustomer(r)
  PROVE  Calm'
<1> DEFINE u == req[r].user
           c == req[r].customer
<1>1. /\ calm /\ req[r].at = "made" /\ customer' = [customer EXCEPT ![u] = c]
      /\ UNCHANGED <<status, made, pages, paid, events, applied, lost>>
  BY DEF StoreCustomer, stripeVars, historyVars
<1>2. Calm /\ u \in Users /\ c \in DOMAIN made /\ made[c] = u
  BY <1>1 DEF CalmInv, IInv, OwnCustomers, CheckoutSteps
<1>3. /\ req \in [Requests -> Request] /\ customer \in [Users -> 0 .. Len(made)]
      /\ DOMAIN made = 1 .. Len(made) /\ Len(made) \in Nat
      /\ \A e \in DOMAIN events : events[e].customer \in DOMAIN made
  BY Types
<1>4. /\ req'[r].user = u /\ req'[r].customer = c /\ req'[r].at = "ready"
      /\ \A q \in Requests : q # r => req'[q] = req[q]
  BY <1>3 DEF StoreCustomer, Request
<1>5. customer[u] = NoCustomer /\ customer'[u] = c /\ \A v \in Users : v # u => customer'[v] = customer[v]
  BY <1>1, <1>2, <1>3 DEF Calm, OneCheckout
<1>6. \A d : Stored(d) => d # c /\ made[d] # u /\ customer'[made[d]] = d
  <2> SUFFICES ASSUME NEW d, Stored(d) PROVE d # c /\ made[d] # u /\ customer'[made[d]] = d
    OBVIOUS
  <2>1. d \in DOMAIN made /\ customer[made[d]] = d /\ d # NoCustomer
    BY <1>3 DEF Stored, NoCustomer
  <2>2. made[d] # u
    BY <1>5, <2>1
  <2>3. made[d] \in Users
    <3>1. made \in Seq(Users)
      BY Types
    <3> QED BY <1>3, <2>1, <3>1, ElementOfSeq
  <2> QED BY <1>2, <1>5, <2>1, <2>2, <2>3
<1>7. OneCheckout'
  <2>1. \A q \in Requests : q # r /\ req[q].at \in CheckoutSteps => req[q].user # u
    BY <1>1, <1>2 DEF Calm, OneCheckout, CheckoutSteps
  <2>2. \A q \in Requests : req[q].at \in CheckoutSteps => req[q].user \in Users
    BY DEF IInv, OwnCustomers
  <2> QED BY <1>1, <1>2, <1>4, <1>5, <2>1, <2>2 DEF Calm, OneCheckout, CheckoutSteps
<1>8. OnePayment'
  BY <1>1, <1>2, <1>6 DEF Calm, OnePayment, Stored
<1>9. LastReport' /\ InOrder'
  BY <1>1, <1>2 DEF Calm, LastReport, InOrder
<1>10. StatusFollows'
  <2>1. \A e \in DOMAIN events : events[e].customer # c /\ events[e].customer # NoCustomer
    BY <1>2, <1>3, <1>6 DEF Calm, OnePayment, NoCustomer
  <2>2. status[u] = "inactive"
    BY <1>2, <1>5, <2>1 DEF Calm, StatusFollows
  <2> QED BY <1>1, <1>2, <1>5, <2>1, <2>2 DEF Calm, StatusFollows
<1> QED BY <1>1, <1>2, <1>7, <1>8, <1>9, <1>10 DEF Calm

LEMMA OpenPageCalm ==
  ASSUME IInv, CalmInv, calm', NEW r \in Requests, OpenPage(r)
  PROVE  Calm'
<1>1. /\ calm /\ req[r].at = "ready" /\ pages' = pages \cup {req[r].customer}
      /\ req' = [req EXCEPT ![r] = Idle]
      /\ UNCHANGED <<customer, status, made, paid, events, applied, lost>>
  BY DEF OpenPage, userVars, historyVars
<1>2. Calm /\ req \in [Requests -> Request]
  BY <1>1, Types DEF CalmInv
<1>3. Stored(req[r].customer)
  BY <1>1, <1>2 DEF IInv, OwnCustomers, Calm, OneCheckout, Stored
<1>4. req'[r].at \notin CheckoutSteps /\ \A q \in Requests : q # r => req'[q] = req[q]
  BY <1>1, <1>2 DEF Idle, CheckoutSteps
<1>5. OneCheckout'
  BY <1>1, <1>2, <1>4, CheckoutFrame DEF Calm
<1>6. \A c \in pages' : c \in pages \/ Stored(c)
  BY <1>1, <1>3
<1> QED BY <1>1, <1>2, <1>5, <1>6, FollowFrame DEF Calm

(* A webhook's step before it applies its event, or a step that ends a checkout. *)
LEMMA WaitCalm ==
  ASSUME CalmInv, calm,
         UNCHANGED <<customer, status, made, pages, paid, events, applied, lost>>,
         \A r \in Requests :
            \/ UNCHANGED <<req[r].at, req[r].user, req[r].customer>>
            \/ req'[r].at \notin CheckoutSteps
  PROVE  Calm'
<1>1. Calm
  BY DEF CalmInv
<1>2. OneCheckout'
  BY <1>1, CheckoutFrame DEF Calm
<1> QED BY <1>1, <1>2, FollowFrame DEF Calm

LEMMA ProcessCalm ==
  ASSUME IInv, CalmInv, calm', NEW r \in Requests, Process(r)
  PROVE  Calm'
<1> DEFINE e == req[r].event
<1>1. /\ calm
      /\ \A f \in DOMAIN events : events[f].customer = events[e].customer =>
            (applied[f] > 0) = (f < e)
      /\ req[r].at = "recorded" /\ req' = [req EXCEPT ![r] = Idle]
      /\ applied' = [applied EXCEPT ![e] = @ + 1]
      /\ status' = [u \in Users |->
                      IF u \in AppliesTo(e) THEN StatusOf(events[e].says) ELSE status[u]]
      /\ UNCHANGED <<customer, made, pages, paid, events, lost>>
  BY DEF Process, stripeVars
<1>2. Calm /\ e \in DOMAIN events /\ applied[e] = 0
  BY <1>1 DEF CalmInv, IInv, EventsOnce
<1>3. /\ req \in [Requests -> Request] /\ applied \in [Events -> Nat]
      /\ DOMAIN events \subseteq Events /\ DOMAIN events = 1 .. Len(events) /\ Len(events) \in Nat
  BY Types
<1>4. applied'[e] = 1 /\ \A f \in DOMAIN events : f # e => applied'[f] = applied[f]
  BY <1>1, <1>2, <1>3
<1>5. OneCheckout'
  <2>1. req'[r].at \notin CheckoutSteps /\ \A q \in Requests : q # r => req'[q] = req[q]
    BY <1>1, <1>3 DEF Idle, CheckoutSteps
  <2> QED BY <1>1, <1>2, <2>1, CheckoutFrame DEF Calm
<1>6. OnePayment' /\ LastReport'
  BY <1>1, <1>2 DEF Calm, OnePayment, Stored, LastReport
<1>7. InOrder'
  <2> SUFFICES ASSUME NEW f \in DOMAIN events, NEW g \in DOMAIN events,
                      events[f].customer = events[g].customer, f < g, applied'[g] > 0
               PROVE  applied'[f] > 0
    BY <1>1 DEF InOrder
  <2>1. CASE g = e
    BY <1>1, <1>3, <1>4, <2>1
  <2>2. CASE g # e
    BY <1>2, <1>3, <1>4, <2>2 DEF Calm, InOrder
  <2> QED BY <2>1, <2>2
<1>8. StatusFollows'
  <2> SUFFICES ASSUME NEW u \in Users
               PROVE  /\ (\A f \in DOMAIN events : events[f].customer = customer[u] => applied'[f] = 0)
                         => status'[u] = "inactive"
                      /\ \A f \in DOMAIN events :
                            /\ events[f].customer = customer[u] /\ applied'[f] > 0
                            /\ \A g \in DOMAIN events :
                                  g > f /\ events[g].customer = customer[u] => applied'[g] = 0
                            => status'[u] = StatusOf(events[f].says)
    BY <1>1 DEF StatusFollows, StatusOf
  <2>1. CASE events[e].customer = customer[u]
    <3>1. status'[u] = StatusOf(events[e].says)
      BY <1>1, <2>1 DEF AppliesTo
    <3>2. ASSUME NEW f \in DOMAIN events, events[f].customer = customer[u], applied'[f] > 0,
                 \A g \in DOMAIN events :
                    g > f /\ events[g].customer = customer[u] => applied'[g] = 0
          PROVE  f = e
      BY <1>1, <1>2, <1>3, <1>4, <2>1, <3>2
    <3> QED BY <1>2, <1>4, <2>1, <3>1, <3>2
  <2>2. CASE events[e].customer # customer[u]
    <3>1. status'[u] = status[u]
      BY <1>1, <2>2 DEF AppliesTo
    <3>2. \A f \in DOMAIN events : events[f].customer = customer[u] => applied'[f] = applied[f]
      BY <1>4, <2>2
    <3> QED BY <1>2, <2>2, <3>1, <3>2 DEF Calm, StatusFollows
  <2> QED BY <2>1, <2>2
<1> QED BY <1>1, <1>2, <1>5, <1>6, <1>7, <1>8 DEF Calm

LEMMA CalmNext == IInv /\ CalmInv /\ [Next]_vars => CalmInv'
<1> SUFFICES ASSUME IInv, CalmInv, [Next]_vars, calm' PROVE Calm'
  BY DEF CalmInv
<1>0. req \in [Requests -> Request]
  BY Types
<1>1. ASSUME NEW r \in Requests, req' = [req EXCEPT ![r] = Idle] \/ req' = req
      PROVE  \A q \in Requests : UNCHANGED <<req[q].at, req[q].user, req[q].customer>>
                                 \/ req'[q].at \notin CheckoutSteps
  BY <1>0, <1>1 DEF Idle, CheckoutSteps
<1>2. ASSUME NEW r \in Requests, CheckoutFails(r) PROVE Calm'
  BY <1>1, <1>2, WaitCalm DEF CheckoutFails, userVars, stripeVars, historyVars
<1>3. ASSUME NEW r \in Requests, NEW e \in Events, Deliver(r, e) PROVE Calm'
  <2>1. \A q \in Requests : UNCHANGED <<req[q].at, req[q].user, req[q].customer>>
                            \/ req'[q].at \notin CheckoutSteps
    BY <1>0, <1>3 DEF Deliver, Idle, CheckoutSteps
  <2> QED BY <1>3, <2>1, WaitCalm DEF Deliver, userVars, stripeVars
<1>4. ASSUME NEW r \in Requests, Record(r) PROVE Calm'
  <2>1. \A q \in Requests : UNCHANGED <<req[q].at, req[q].user, req[q].customer>>
                            \/ req'[q].at \notin CheckoutSteps
    <3>1. req[r] \in Request
      BY <1>0
    <3>2. req' = [req EXCEPT ![r] = Idle] \/ req' = [req EXCEPT ![r].at = "recorded"]
      BY <1>4 DEF Record
    <3>3. req'[r].at \in {"idle", "recorded"}
      BY <1>0, <3>1, <3>2 DEF Idle, Request
    <3>4. \A q \in Requests : q # r => req'[q] = req[q]
      BY <1>0, <3>2
    <3> QED BY <3>3, <3>4 DEF CheckoutSteps
  <2> QED BY <1>4, <2>1, WaitCalm DEF Record, userVars, stripeVars
<1>5. ASSUME NEW r \in Requests, RecordFails(r) \/ ProcessFails(r) PROVE FALSE
  BY <1>5 DEF RecordFails, ProcessFails
<1>6. CASE Crash
  <2>1. /\ calm /\ {req[r].event : r \in {q \in Requests : req[q].at = "recorded"}} = {}
        /\ UNCHANGED <<customer, status, made, pages, paid, events, applied>>
        /\ lost' = lost \cup {req[r].event : r \in {q \in Requests : req[q].at = "recorded"}}
        /\ req' = [r \in Requests |-> Idle]
    BY <1>6 DEF Crash, userVars, stripeVars
  <2>2. lost' = lost
    BY <2>1
  <2>3. \A q \in Requests : req'[q].at \notin CheckoutSteps
    BY <2>1 DEF Idle, CheckoutSteps
  <2> QED BY <2>1, <2>2, <2>3, WaitCalm
<1>7. CASE UNCHANGED vars
  BY <1>7, WaitCalm DEF vars, userVars, stripeVars, historyVars
<1> QED
  BY <1>2, <1>3, <1>4, <1>5, <1>6, <1>7, PayCalm, SubscriptionCalm, CheckoutCalm,
     MakeCustomerCalm, StoreCustomerCalm, OpenPageCalm, ProcessCalm DEF Next

LEMMA CalmInit == Init => CalmInv
<1> SUFFICES ASSUME Init PROVE Calm
  BY DEF CalmInv
<1>1. \A r \in Requests : req[r].at = "idle"
  BY DEF Init, Idle
<1>2. DOMAIN paid = {} /\ DOMAIN events = {} /\ pages = {}
  BY DEF Init
<1>3. OneCheckout
  BY <1>1 DEF OneCheckout, CheckoutSteps
<1>4. OnePayment /\ LastReport /\ InOrder
  BY <1>2 DEF OnePayment, LastReport, InOrder
<1>5. StatusFollows
  BY <1>2 DEF Init, StatusFollows
<1> QED BY <1>3, <1>4, <1>5 DEF Calm, Init

LEMMA CalmIsStripes == IInv /\ CalmInv => StatusIsStripes
<1> SUFFICES ASSUME IInv, CalmInv, calm, answered = DOMAIN events,
                    \A r \in Requests : req[r].at # "recorded",
                    NEW u \in Users
             PROVE  status[u] = "active" <=> \E c \in DOMAIN made : made[c] = u /\ Active(c) # {}
  BY DEF StatusIsStripes
<1>1. Calm /\ AnsweredOnce /\ OwnCustomers
  BY DEF CalmInv, IInv
<1>2. \A e \in DOMAIN events : applied[e] > 0
  BY <1>1 DEF Calm, AnsweredOnce
<1>3. /\ DOMAIN events = 1 .. Len(events) /\ Len(events) \in Nat
      /\ customer \in [Users -> 0 .. Len(made)] /\ DOMAIN made = 1 .. Len(made) /\ Len(made) \in Nat
  BY Types
(* The status says of each payment of the user's customer how it stands. *)
<1>4. ASSUME NEW i \in DOMAIN paid, paid[i].customer = customer[u]
      PROVE  status[u] = "active" <=> paid[i].state = "active"
  <2>1. PICK e \in DOMAIN events :
           /\ events[e].customer = customer[u]
           /\ \A f \in DOMAIN events : f > e => events[f].customer # customer[u]
           /\ StatusOf(events[e].says) = "active" <=> paid[i].state = "active"
    BY <1>1, <1>4 DEF Calm, LastReport
  <2>2. status[u] = StatusOf(events[e].says)
    BY <1>1, <1>2, <2>1 DEF Calm, StatusFollows
  <2> QED BY <2>1, <2>2
(* Whoever pays is the user's customer. *)
<1>5. \A i \in DOMAIN paid : made[paid[i].customer] = u => paid[i].customer = customer[u]
  BY <1>1 DEF Calm, OnePayment, Stored
<1>6. ASSUME status[u] = "active" PROVE \E c \in DOMAIN made : made[c] = u /\ Active(c) # {}
  <2>1. PICK i \in DOMAIN paid : made[paid[i].customer] = u
    BY <1>6 DEF IInv, ActiveHasPaid
  <2>2. paid[i].state = "active" /\ paid[i].customer \in DOMAIN made
    BY <1>4, <1>5, <1>6, <2>1, Types
  <2>3. i \in Active(paid[i].customer)
    BY <2>1, <2>2 DEF Active
  <2> QED BY <2>1, <2>2, <2>3
<1>7. ASSUME NEW c \in DOMAIN made, made[c] = u, Active(c) # {} PROVE status[u] = "active"
  <2>1. PICK i \in DOMAIN paid : paid[i].customer = c /\ paid[i].state = "active"
    BY <1>7 DEF Active
  <2> QED BY <1>4, <1>5, <1>7, <2>1
<1> QED BY <1>6, <1>7

(* Once everything Stripe reported is answered, a user is active exactly when   *)
(* a customer made for them has an active subscription, provided that checkouts *)
(* of a user did not overlap, nobody paid twice, events were applied in the     *)
(* order of the reports, and none was lost (/billing/checkout, the webhook and  *)
(* updateSubscriptionByStripeCustomerId together).                              *)
THEOREM StatusSafety == Spec => []StatusIsStripes
BY IInvInit, IInvNext, CalmInit, CalmNext, CalmIsStripes, PTL DEF Spec

-----------------------------------------------------------------------------
(* The free tier *)

LimiterSteps == {"prune", "count", "oldest", "add", "memory"}
CallStates == LimiterSteps \cup {"idle", "checks", "refused", "upstream"}

(* The entries of a window that are still in it *)
Recent(w, k) == After(w, now - Window[k])

(* The calls that found room in Redis and have yet to add their entry *)
Admitted(k) ==
    {c \in Calls : /\ call[c].key = k
                   /\ \/ call[c].at = "add"
                      \/ call[c].at = "oldest" /\ ~Full(k, call[c].count)}

(* Members with one score are numbered, so that each entry is another one. *)
Numbered ==
    \A s \in Stores, k \in Keys :
       /\ IsFiniteSet(granted[s][k])
       /\ \A e \in granted[s][k] : e[2] <= Cardinality({f \in granted[s][k] : f[1] = e[1]})

(* No limiter call lasts a window. *)
InTime == \A c \in Calls : call[c].at \in LimiterSteps => call[c].from \in {now - 1, now}

Spent == (\A k \in Keys : unadded[k] <= failures) /\ restarts <= failures

(* A call that is admitted has room unless another is admitted as well; what  *)
(* Redis does not hold of the slots granted is what it did not add.           *)
RedisBound(k) ==
    /\ redis[k] \subseteq granted["redis"][k]
    /\ Cardinality(Recent(redis[k], k)) + Cardinality(Admitted(k))
          <= Limit[k] + (Cardinality(Calls) - 1)
    /\ Cardinality(Recent(granted["redis"][k], k) \ redis[k]) <= unadded[k]

(* What the memory does not hold of them was lost with it, up to a limit each time. *)
MemoryBound(k) ==
    /\ memory[k] \subseteq granted["memory"][k]
    /\ Cardinality(memory[k]) <= Limit[k]
    /\ Cardinality(Recent(granted["memory"][k], k) \ memory[k]) <= Limit[k] * restarts

(* A window that could be pruned holds only entries of the window before the call. *)
Counted(c) ==
    LET k == call[c].key
        start == call[c].from - Window[k]
    IN
    k \notin unpruned =>
       /\ call[c].at = "count" => \A e \in redis[k] : e[1] > start
       /\ call[c].at = "oldest" => call[c].count <= Cardinality(After(granted["redis"][k], start))

QuotaInv ==
    /\ FreeTierTypeOK /\ Numbered /\ InTime /\ Spent
    /\ \A k \in Keys : RedisBound(k) /\ MemoryBound(k)
    /\ \A c \in Calls : Counted(c)
    /\ RefusedHasUsedUp

-----------------------------------------------------------------------------
(* Sizes of sets *)

LEMMA SmallerSet ==
  ASSUME NEW S, NEW T, IsFiniteSet(T), S \subseteq T
  PROVE  /\ IsFiniteSet(S) /\ Cardinality(S) \in Nat /\ Cardinality(T) \in Nat
         /\ Cardinality(S) <= Cardinality(T)
BY FS_Subset, FS_CardinalityType

LEMMA OneMore ==
  ASSUME NEW S, NEW T, NEW e, IsFiniteSet(T), S \subseteq T \cup {e}
  PROVE  /\ IsFiniteSet(S) /\ Cardinality(S) \in Nat /\ Cardinality(T) \in Nat
         /\ Cardinality(S) <= Cardinality(T) + 1
<1>1. IsFiniteSet(T \cup {e}) /\ Cardinality(T \cup {e}) \in {Cardinality(T), Cardinality(T) + 1}
  BY FS_AddElement
<1>2. Cardinality(T) \in Nat
  BY FS_CardinalityType
<1>3. IsFiniteSet(S) /\ Cardinality(S) \in Nat /\ Cardinality(S) <= Cardinality(T \cup {e})
  BY <1>1, SmallerSet
<1> QED BY <1>1, <1>2, <1>3

LEMMA OneLess ==
  ASSUME NEW S, NEW T, NEW e \in T, IsFiniteSet(T), S \subseteq T \ {e}
  PROVE  /\ IsFiniteSet(S) /\ Cardinality(S) \in Nat /\ Cardinality(T) \in Nat
         /\ Cardinality(S) <= Cardinality(T) - 1
<1>1. IsFiniteSet(T \ {e}) /\ Cardinality(T \ {e}) = Cardinality(T) - 1
  BY FS_RemoveElement
<1>2. IsFiniteSet(S) /\ Cardinality(S) \in Nat /\ Cardinality(S) <= Cardinality(T \ {e})
  BY <1>1, SmallerSet
<1> QED BY <1>1, <1>2, FS_CardinalityType

LEMMA TwoParts ==
  ASSUME NEW S, NEW T, IsFiniteSet(S), IsFiniteSet(T)
  PROVE  /\ Cardinality(S) \in Nat /\ Cardinality(T) \in Nat /\ Cardinality(S \ T) \in Nat
         /\ Cardinality(S) <= Cardinality(T) + Cardinality(S \ T)
<1>1. IsFiniteSet(S \ T) /\ Cardinality(S \ T) \in Nat /\ Cardinality(S) \in Nat
  BY SmallerSet
<1>2. /\ IsFiniteSet(T \cup (S \ T))
      /\ Cardinality(T \cup (S \ T))
            = Cardinality(T) + Cardinality(S \ T) - Cardinality(T \cap (S \ T))
  BY <1>1, FS_Union
<1>3. T \cap (S \ T) = {}
  OBVIOUS
<1>4. Cardinality(T \cap (S \ T)) = 0
  BY <1>3, FS_EmptySet
<1>5. Cardinality(S) <= Cardinality(T \cup (S \ T))
  BY <1>2, SmallerSet
<1> QED BY <1>1, <1>2, <1>4, <1>5, FS_CardinalityType
-----------------------------------------------------------------------------
(* Types *)

Call == [at : CallStates, key : Keys, from : 0 .. now, count : Nat]

LEMMA QuotaTypes ==
  ASSUME FreeTierTypeOK
  PROVE  /\ now \in Nat /\ now <= MaxTime /\ MaxTime \in Nat /\ MaxFailures \in Nat
         /\ call \in [Calls -> Call]
         /\ \A k \in Keys :
               /\ Limit[k] \in Nat /\ Limit[k] > 0 /\ Window[k] \in Nat /\ Window[k] > 1
               /\ unadded[k] \in Nat
               /\ redis[k] \subseteq Entries /\ memory[k] \subseteq Entries
               /\ \A s \in Stores : granted[s][k] \subseteq Entries
         /\ restarts \in Nat /\ failures \in Nat
         /\ Cardinality(Calls) \in Nat
<1>1. Cardinality(Calls) \in Nat
  BY CallAssumption, FS_CardinalityType
<1>2. call \in [Calls -> Call]
  BY DEF FreeTierTypeOK, Call, CallStates, LimiterSteps
<1>3. /\ now \in Nat /\ now <= MaxTime /\ MaxTime \in Nat /\ MaxFailures \in Nat
      /\ restarts \in Nat /\ failures \in Nat
  BY TimeAssumption DEF FreeTierTypeOK
<1>4. ASSUME NEW k \in Keys
      PROVE  /\ Limit[k] \in Nat /\ Limit[k] > 0 /\ Window[k] \in Nat /\ Window[k] > 1
             /\ unadded[k] \in Nat
             /\ redis[k] \subseteq Entries /\ memory[k] \subseteq Entries
             /\ \A s \in Stores : granted[s][k] \subseteq Entries
  <2>1. Limit[k] \in Nat /\ Limit[k] > 0 /\ Window[k] \in Nat /\ Window[k] > 1
    BY LimitAssumption, WindowAssumption
  <2> QED BY <1>3, <2>1 DEF FreeTierTypeOK
<1> QED BY <1>1, <1>2, <1>3, <1>4

(* What a call does does not change the others. *)
CallDoes(c) ==
    \/ Begin(c) \/ Prune(c) \/ Count(c) \/ ReadOldest(c) \/ Add(c)
    \/ TakeFromMemory(c) \/ Pass(c) \/ Answer(c)

LEMMA OneCall ==
  ASSUME FreeTierTypeOK, NEW c \in Calls, CallDoes(c)
  PROVE  \E f \in {call'[c]} : call' = [call EXCEPT ![c] = f]
<1>1. call \in [Calls -> Call]
  BY QuotaTypes
<1>2. CASE Begin(c) \/ Pass(c)
  BY <1>1, <1>2 DEF Begin, Pass, Begins, NoCall
<1>3. CASE Prune(c) \/ ReadOldest(c)
  BY <1>1, <1>3 DEF Prune, ReadOldest, Goes
<1>4. CASE Count(c)
  BY <1>1, <1>4 DEF Count, Goes
<1>5. CASE Add(c)
  BY <1>1, <1>5 DEF Add, Grants, NoCall
<1>6. CASE TakeFromMemory(c)
  BY <1>1, <1>6 DEF TakeFromMemory, Grants, NoCall
<1>7. CASE Answer(c)
  BY <1>1, <1>7 DEF Answer, Ends, NoCall
<1> QED BY <1>2, <1>3, <1>4, <1>5, <1>6, <1>7 DEF CallDoes

LEMMA OthersStay ==
  ASSUME FreeTierTypeOK, NEW c \in Calls, CallDoes(c)
  PROVE  \A d \in Calls : d # c => call'[d] = call[d]
BY OneCall, QuotaTypes

LEMMA OwnCall ==
  ASSUME FreeTierTypeOK, NEW c \in Calls, CallDoes(c), IsFiniteSet(redis[call[c].key])
  PROVE  call'[c] \in Call /\ now' = now
<1>1. call \in [Calls -> Call] /\ call[c] \in Call /\ now \in Nat
  BY QuotaTypes
<1>2. Cardinality(redis[call[c].key]) \in Nat
  BY FS_CardinalityType
<1>3. ASSUME NEW a \in CallStates PROVE [call[c] EXCEPT !.at = a] \in Call
  BY <1>1, <1>3 DEF Call
<1>4. {"count", "refused", "add", "memory", "oldest", "checks", "upstream"} \subseteq CallStates
  BY DEF CallStates, LimiterSteps
<1>5. ASSUME NEW a \in CallStates, NEW k \in Keys, NEW t \in 0 .. now
      PROVE  [at |-> a, key |-> k, from |-> t, count |-> 0] \in Call
  BY <1>5 DEF Call
<1>6. {"ip", "user"} \subseteq Keys /\ {"idle", "prune"} \subseteq CallStates
      /\ 0 \in 0 .. now /\ now \in 0 .. now
  BY <1>1 DEF Keys, CallStates, LimiterSteps
<1>7. CASE Begin(c) \/ Pass(c)
  <2>1. \E k \in {"ip", "user"} : call'[c] = [at |-> "prune", key |-> k, from |-> now, count |-> 0]
    BY <1>1, <1>7 DEF Begin, Pass, Begins, NoCall
  <2> QED BY <1>5, <1>6, <1>7, <2>1 DEF Begin, Pass
<1>8. CASE Prune(c) \/ ReadOldest(c)
  <2>1. \E a \in {"count", "refused", "add"} : call'[c] = [call[c] EXCEPT !.at = a]
    BY <1>1, <1>8 DEF Prune, ReadOldest, Goes
  <2> QED BY <1>3, <1>4, <1>8, <2>1 DEF Prune, ReadOldest
<1>9. CASE Count(c)
  <2> DEFINE n == Cardinality(redis[call[c].key])
             next == IF call[c].key = "user" THEN "oldest"
                     ELSE IF Full(call[c].key, n) THEN "refused" ELSE "add"
  <2>1. call' = [call EXCEPT ![c].count = n, ![c].at = next] \/ Goes(c, "memory")
    BY <1>9 DEF Count
  <2>2. next \in CallStates /\ n \in Nat /\ UNCHANGED now
    BY <1>2, <1>4, <1>9 DEF Count
  <2> HIDE DEF n, next
  <2>3. CASE call' = [call EXCEPT ![c].count = n, ![c].at = next]
    <3>1. call'[c] = [call[c] EXCEPT !.count = n, !.at = next]
      BY <1>1, <2>3
    <3> QED BY <1>1, <2>2, <3>1 DEF Call
  <2>4. CASE Goes(c, "memory")
    <3>1. call'[c] = [call[c] EXCEPT !.at = "memory"]
      BY <1>1, <2>4 DEF Goes
    <3> QED BY <1>3, <1>4, <2>2, <3>1
  <2> QED BY <2>1, <2>3, <2>4
<1>10. ASSUME NEW s, NEW e, Grants(c, s, e) PROVE call'[c] \in Call
  <2>1. \E a \in {"checks", "upstream"} :
           call'[c] = [at |-> a, key |-> "ip", from |-> 0, count |-> 0]
    BY <1>1, <1>10 DEF Grants, NoCall
  <2> QED BY <1>4, <1>5, <1>6, <2>1
<1>11. CASE Add(c)
  BY <1>10, <1>11 DEF Add
<1>12. CASE TakeFromMemory(c)
  <2>1. CASE call' = [call EXCEPT ![c].at = "refused", ![c].from = now]
    BY <1>1, <1>4, <1>6, <1>12, <2>1 DEF TakeFromMemory, Call
  <2>2. CASE \E e : Grants(c, "memory", e)
    BY <1>10, <1>12, <2>2 DEF TakeFromMemory
  <2> QED BY <1>12, <2>1, <2>2 DEF TakeFromMemory
<1>13. CASE Answer(c)
  BY <1>1, <1>5, <1>6, <1>13 DEF Answer, Ends, NoCall
<1> QED BY <1>7, <1>8, <1>9, <1>11, <1>12, <1>13 DEF CallDoes

(* The next entry with a score is not among those there are. *)
LEMMA NextEntry ==
  ASSUME NEW w, IsFiniteSet(w), NEW t
  PROVE  \E n \in Nat : /\ n = Cardinality({f \in w : f[1] = t})
                        /\ NewEntry(w, t) = <<t, n + 1>>
                        /\ NewEntry(w, t)[1] = t /\ NewEntry(w, t)[2] = n + 1
<1> DEFINE n == Cardinality({f \in w : f[1] = t})
<1>1. n \in Nat
  BY SmallerSet
<1>2. NewEntry(w, t) = <<t, n + 1>>
  BY DEF NewEntry
<1> QED BY <1>1, <1>2

LEMMA EntryIsNew ==
  ASSUME Numbered, NEW s \in Stores, NEW k \in Keys, NEW t
  PROVE  NewEntry(granted[s][k], t) \notin granted[s][k]
<1> DEFINE w == granted[s][k]
           e == NewEntry(w, t)
<1>1. IsFiniteSet(w) /\ \A f \in w : f[2] <= Cardinality({g \in w : g[1] = f[1]})
  BY DEF Numbered
<1>2. PICK n \in Nat : n = Cardinality({f \in w : f[1] = t}) /\ e[1] = t /\ e[2] = n + 1
  BY <1>1, NextEntry
<1>3. ASSUME e \in w PROVE FALSE
  <2>1. e[2] <= Cardinality({g \in w : g[1] = t})
    BY <1>1, <1>2, <1>3
  <2> QED BY <1>2, <2>1
<1> QED BY <1>3

(* What becomes of the call whose step it is *)
Keeps(c) == UNCHANGED <<call[c].key, call[c].from>>

LEMMA CallGoes ==
  ASSUME FreeTierTypeOK, NEW c \in Calls, NEW a, Goes(c, a)
  PROVE  call'[c].at = a /\ Keeps(c) /\ call'[c].count = call[c].count
<1>1. call \in [Calls -> Call] /\ call[c] \in Call
  BY QuotaTypes
<1>2. call'[c] = [call[c] EXCEPT !.at = a]
  BY <1>1 DEF Goes
<1> QED BY <1>1, <1>2 DEF Keeps, Call

LEMMA CallStarts ==
  ASSUME FreeTierTypeOK, NEW c \in Calls, Begin(c) \/ Pass(c)
  PROVE  call'[c].at = "prune" /\ call'[c].from = now
<1>1. call \in [Calls -> Call]
  BY QuotaTypes
<1>2. ASSUME NEW k, Begins(c, k) PROVE call'[c].at = "prune" /\ call'[c].from = now
  BY <1>1, <1>2 DEF Begins, NoCall
<1> QED BY <1>2 DEF Begin, Pass

LEMMA CallEnds ==
  ASSUME FreeTierTypeOK, NEW c \in Calls, Answer(c) \/ Add(c)
  PROVE  call'[c].at \in {"idle", "checks", "upstream"}
<1>1. call \in [Calls -> Call]
  BY QuotaTypes
<1>2. ASSUME NEW s, NEW e, Grants(c, s, e) PROVE call'[c].at \in {"checks", "upstream"}
  BY <1>1, <1>2 DEF Grants, NoCall
<1>3. CASE Add(c)
  BY <1>2, <1>3 DEF Add
<1>4. CASE Answer(c)
  BY <1>1, <1>4 DEF Answer, Ends, NoCall
<1> QED BY <1>3, <1>4

LEMMA CallCounts ==
  ASSUME FreeTierTypeOK, NEW c \in Calls, Count(c)
  PROVE  LET count == Cardinality(redis[call[c].key]) IN
         /\ Keeps(c)
         /\ \/ call'[c].at = "memory"
            \/ call'[c].at = "oldest" /\ call'[c].count = count
            \/ call'[c].at = "refused" /\ Full(call[c].key, count)
            \/ call'[c].at = "add" /\ ~Full(call[c].key, count)
<1> DEFINE count == Cardinality(redis[call[c].key])
           next == IF call[c].key = "user" THEN "oldest"
                   ELSE IF Full(call[c].key, count) THEN "refused" ELSE "add"
<1>1. call \in [Calls -> Call] /\ call[c] \in Call
  BY QuotaTypes
<1>2. call' = [call EXCEPT ![c].count = count, ![c].at = next] \/ Goes(c, "memory")
  BY DEF Count
<1>3. \/ next = "oldest"
      \/ next = "refused" /\ Full(call[c].key, count)
      \/ next = "add" /\ ~Full(call[c].key, count)
  OBVIOUS
<1> HIDE DEF count, next
<1>4. CASE call' = [call EXCEPT ![c].count = count, ![c].at = next]
  <2>1. call'[c] = [call[c] EXCEPT !.count = count, !.at = next]
    BY <1>1, <1>4
  <2>2. Keeps(c) /\ call'[c].count = count /\ call'[c].at = next
    BY <1>1, <2>1 DEF Keeps, Call
  <2> QED BY <1>3, <2>2 DEF count
<1> QED BY <1>2, <1>4, CallGoes

LEMMA CallReads ==
  ASSUME FreeTierTypeOK, NEW c \in Calls, ReadOldest(c)
  PROVE  /\ Keeps(c)
         /\ \/ call'[c].at = "refused" /\ Full(call[c].key, call[c].count)
            \/ call'[c].at = "add" /\ ~Full(call[c].key, call[c].count)
<1> DEFINE next == IF Full(call[c].key, call[c].count) THEN "refused" ELSE "add"
<1>1. Goes(c, next)
  BY DEF ReadOldest
<1>2. Keeps(c) /\ call'[c].at = next
  BY <1>1, CallGoes
<1> QED BY <1>2

(* The two ends of a call whose slot comes from the memory. *)
MemoryRefuses(c) ==
    LET k == call[c].key
        left == After(memory[k], now - Window[k])
    IN
    /\ Full(k, Cardinality(left))
    /\ memory' = [memory EXCEPT ![k] = left]
    /\ call'[c] = [call[c] EXCEPT !.at = "refused", !.from = now]
    /\ UNCHANGED granted

MemoryGrants(c) ==
    LET k == call[c].key
        left == After(memory[k], now - Window[k])
        e == NewEntry(granted["memory"][k], now)
    IN
    /\ ~Full(k, Cardinality(left))
    /\ memory' = [memory EXCEPT ![k] = left \cup {e}]
    /\ call'[c].at \in {"checks", "upstream"}
    /\ granted' = [granted EXCEPT !["memory"][k] = @ \cup {e}]

LEMMA MemoryDecides ==
  ASSUME FreeTierTypeOK, NEW c \in Calls, TakeFromMemory(c)
  PROVE  MemoryRefuses(c) \/ MemoryGrants(c)
<1> DEFINE k == call[c].key
           left == After(memory[k], now - Window[k])
           e == NewEntry(granted["memory"][k], now)
<1>1. call \in [Calls -> Call]
  BY QuotaTypes
<1>2. \/ /\ Full(k, Cardinality(left)) /\ memory' = [memory EXCEPT ![k] = left]
         /\ call' = [call EXCEPT ![c].at = "refused", ![c].from = now] /\ UNCHANGED granted
      \/ /\ ~Full(k, Cardinality(left)) /\ memory' = [memory EXCEPT ![k] = left \cup {e}]
         /\ Grants(c, "memory", e)
  BY DEF TakeFromMemory
<1>3. ASSUME Grants(c, "memory", e)
      PROVE  /\ call'[c].at \in {"checks", "upstream"}
             /\ granted' = [granted EXCEPT !["memory"][k] = @ \cup {e}]
  BY <1>1, <1>3 DEF Grants, NoCall
<1>4. ASSUME call' = [call EXCEPT ![c].at = "refused", ![c].from = now]
      PROVE  call'[c] = [call[c] EXCEPT !.at = "refused", !.from = now]
  BY <1>1, <1>4
<1> HIDE DEF left, e, k
<1>5. \/ /\ Full(k, Cardinality(left)) /\ memory' = [memory EXCEPT ![k] = left]
         /\ call'[c] = [call[c] EXCEPT !.at = "refused", !.from = now] /\ UNCHANGED granted
      \/ /\ ~Full(k, Cardinality(left)) /\ memory' = [memory EXCEPT ![k] = left \cup {e}]
         /\ call'[c].at \in {"checks", "upstream"}
         /\ granted' = [granted EXCEPT !["memory"][k] = @ \cup {e}]
  BY <1>2, <1>3, <1>4
<1> QED BY <1>5 DEF left, e, k, MemoryRefuses, MemoryGrants

-----------------------------------------------------------------------------
(* What a step does to one window in Redis, and in memory *)

(* Nothing is granted, and only entries that are over are removed. *)
Forgets(k) ==
    /\ UNCHANGED <<granted["redis"][k], unadded[k]>> /\ now' \in {now, now + 1}
    /\ redis'[k] \subseteq redis[k]
    /\ \A e \in redis[k] \ redis'[k] : e[1] <= now - Window[k]

(* At most one call is admitted, and only when there is room. *)
Admits(k) ==
    \/ Admitted(k)' \subseteq Admitted(k)
    \/ \E c \in Calls : /\ Admitted(k)' \subseteq Admitted(k) \cup {c} /\ c \notin Admitted(k)
                        /\ Cardinality(redis[k]) < Limit[k]
                        /\ UNCHANGED <<now, redis[k]>>

(* A call that was admitted is granted its slot. *)
Fills(k) ==
    \E c \in Admitted(k) :
       LET e == NewEntry(granted["redis"][k], call[c].from) IN
       /\ Admitted(k)' \subseteq Admitted(k) \ {c}
       /\ granted'["redis"][k] = granted["redis"][k] \cup {e}
       /\ now' = now
       /\ \/ redis'[k] = redis[k] \cup {e} /\ UNCHANGED unadded[k]
          \/ UNCHANGED redis[k] /\ unadded'[k] = unadded[k] + 1

RedisStep(k) == (Forgets(k) /\ Admits(k)) \/ Fills(k)

(* A call that goes on to anything but zrange or zadd is not admitted. *)
LEMMA NotAdmitted ==
  ASSUME NEW k \in Keys, NEW c \in Calls, call'[c].at \notin {"oldest", "add"},
         \A d \in Calls : d # c => call'[d] = call[d]
  PROVE  Admitted(k)' \subseteq Admitted(k) \ {c}
BY DEF Admitted

LEMMA RedisStepOfNext ==
  ASSUME FreeTierTypeOK, InTime, FreeTierNext, NEW k \in Keys, IsFiniteSet(redis[k])
  PROVE  RedisStep(k)
<1>1. /\ call \in [Calls -> Call] /\ now \in Nat
      /\ redis \in [Keys -> SUBSET Entries] /\ unadded \in [Keys -> 0 .. MaxFailures]
      /\ granted \in [Stores -> [Keys -> SUBSET Entries]]
  BY QuotaTypes DEF FreeTierTypeOK
<1>2. \A c \in Calls : call[c] \in Call /\ call[c].key \in Keys
                       /\ call[c].from \in Nat /\ call[c].from <= now
  BY <1>1 DEF Call
<1>3. Window[k] \in Nat
  BY QuotaTypes
<1>4. ASSUME UNCHANGED <<redis[k], granted["redis"][k], unadded[k]>>, now' \in {now, now + 1},
             Admitted(k)' \subseteq Admitted(k)
      PROVE  RedisStep(k)
  BY <1>4 DEF RedisStep, Forgets, Admits
<1>5. ASSUME NEW c \in Calls, Begin(c) \/ Pass(c) \/ Answer(c)
      PROVE  RedisStep(k)
  <2>1. call'[c].at \notin {"oldest", "add"}
    BY <1>5, CallStarts, CallEnds
  <2>2. Admitted(k)' \subseteq Admitted(k)
    BY <1>5, <2>1, NotAdmitted, OthersStay DEF CallDoes
  <2>3. UNCHANGED <<redis, granted, unadded, now>>
    BY <1>5 DEF Begin, Pass, Answer
  <2> QED BY <1>4, <2>2, <2>3
<1>6. ASSUME NEW c \in Calls, Prune(c)
      PROVE  RedisStep(k)
  <2>1. call'[c].at = "count"
    BY <1>6, CallGoes DEF Prune
  <2>2. Admitted(k)' \subseteq Admitted(k)
    BY <1>6, <2>1, NotAdmitted, OthersStay DEF CallDoes
  <2>3. UNCHANGED <<granted, unadded, now>>
    BY <1>6 DEF Prune
  <2> DEFINE w == After(redis[call[c].key], call[c].from - Window[call[c].key])
  <2>8. redis' = [redis EXCEPT ![call[c].key] = w] \/ UNCHANGED redis
    BY <1>6 DEF Prune
  <2> HIDE DEF w
  <2>9. \/ redis'[k] = redis[k]
        \/ call[c].key = k /\ redis'[k] = w
    BY <1>1, <2>8
  <2>4. \/ redis'[k] = redis[k]
        \/ call[c].key = k /\ redis'[k] = After(redis[k], call[c].from - Window[k])
    BY <2>9 DEF w
  <2>5. \A e \in redis[k] : e[1] \in Nat
    BY <1>1 DEF Entries
  <2>6. \A e \in redis[k] \ redis'[k] : e[1] <= now - Window[k]
    BY <1>1, <1>2, <1>3, <2>4, <2>5 DEF After
  <2>7. redis'[k] \subseteq redis[k]
    BY <2>4 DEF After
  <2> QED BY <2>2, <2>3, <2>6, <2>7 DEF RedisStep, Forgets, Admits
<1>7. ASSUME NEW c \in Calls, Count(c)
      PROVE  RedisStep(k)
  <2>1. UNCHANGED <<redis, granted, unadded, now>> /\ call[c].at = "count"
    BY <1>7 DEF Count
  <2>2. \A d \in Calls : d # c => call'[d] = call[d]
    BY <1>7, OthersStay DEF CallDoes
  <2>3. c \notin Admitted(k)
    BY <2>1 DEF Admitted
  <2>4. Admitted(k)' \subseteq Admitted(k) \cup {c}
    BY <2>2 DEF Admitted
  <2>5. CASE c \notin Admitted(k)'
    <3>1. Admitted(k)' \subseteq Admitted(k)
      BY <2>4, <2>5
    <3> QED BY <1>4, <2>1, <3>1
  <2>6. CASE c \in Admitted(k)'
    <3>1. \/ call'[c].key = k /\ call'[c].at = "add"
          \/ call'[c].key = k /\ call'[c].at = "oldest" /\ ~Full(k, call'[c].count)
      BY <2>6 DEF Admitted, Full
    <3>2. call'[c].key = call[c].key
      BY <1>7, CallCounts DEF Keeps
    <3>4. ~Full(k, Cardinality(redis[k]))
      BY <1>7, <3>1, <3>2, CallCounts
    <3>5. Cardinality(redis[k]) \in Nat /\ Limit[k] \in Nat
      BY QuotaTypes, FS_CardinalityType
    <3>6. Cardinality(redis[k]) < Limit[k]
      BY <3>4, <3>5 DEF Full
    <3>7. Forgets(k)
      BY <2>1 DEF Forgets
    <3> QED BY <2>1, <2>3, <2>4, <3>6, <3>7 DEF RedisStep, Admits
  <2> QED BY <2>5, <2>6
<1>8. ASSUME NEW c \in Calls, ReadOldest(c)
      PROVE  RedisStep(k)
  <2>1. UNCHANGED <<redis, granted, unadded, now>> /\ call[c].at = "oldest"
    BY <1>8 DEF ReadOldest
  <2>2. \A d \in Calls : d # c => call'[d] = call[d]
    BY <1>8, OthersStay DEF CallDoes
  <2>3. /\ call'[c].key = call[c].key
        /\ \/ call'[c].at = "refused"
           \/ call'[c].at = "add" /\ ~Full(call[c].key, call[c].count)
    BY <1>8, CallReads DEF Keeps
  <2>4. Admitted(k)' \subseteq Admitted(k)
    BY <2>1, <2>2, <2>3 DEF Admitted
  <2> QED BY <1>4, <2>1, <2>4
<1>9. ASSUME NEW c \in Calls, Add(c)
      PROVE  RedisStep(k)
  <2> DEFINE e == NewEntry(granted["redis"][call[c].key], call[c].from)
  <2>1. /\ Grants(c, "redis", e) /\ now' = now /\ call[c].at = "add"
        /\ \/ redis' = [redis EXCEPT ![call[c].key] = @ \cup {e}] /\ UNCHANGED unadded
           \/ UNCHANGED redis /\ unadded' = [unadded EXCEPT ![call[c].key] = @ + 1]
    BY <1>9 DEF Add
  <2>2. call'[c].at \notin {"oldest", "add"}
    BY <1>9, CallEnds
  <2>3. Admitted(k)' \subseteq Admitted(k) \ {c}
    BY <1>9, <2>2, NotAdmitted, OthersStay DEF CallDoes
  <2>4. granted' = [granted EXCEPT !["redis"][call[c].key] = @ \cup {e}]
    BY <2>1 DEF Grants
  <2> HIDE DEF e
  <2>5. CASE call[c].key # k
    <3>1. granted'["redis"][k] = granted["redis"][k] /\ redis'[k] = redis[k] /\ unadded'[k] = unadded[k]
      BY <1>1, <2>1, <2>4, <2>5 DEF Stores
    <3> QED BY <1>4, <2>1, <2>3, <3>1
  <2>6. CASE call[c].key = k
    <3>1. c \in Admitted(k)
      BY <2>1, <2>6 DEF Admitted
    <3>2. granted'["redis"][k] = granted["redis"][k] \cup {e}
      BY <1>1, <2>4, <2>6 DEF Stores
    <3>3. \/ redis'[k] = redis[k] \cup {e} /\ UNCHANGED unadded[k]
          \/ UNCHANGED redis[k] /\ unadded'[k] = unadded[k] + 1
      BY <1>1, <2>1, <2>6
    <3> QED BY <2>1, <2>3, <2>6, <3>1, <3>2, <3>3 DEF RedisStep, Fills, e
  <2> QED BY <2>5, <2>6
<1>10. ASSUME NEW c \in Calls, TakeFromMemory(c)
       PROVE  RedisStep(k)
  <2>1. UNCHANGED <<redis, unadded, now>>
    BY <1>10 DEF TakeFromMemory
  <2>2. CASE MemoryRefuses(c)
    <3>1. UNCHANGED granted["redis"][k] /\ call'[c].at = "refused"
      BY <1>2, <2>2 DEF MemoryRefuses, Call
    <3> QED BY <3>1, <2>1, <1>4, <1>10, NotAdmitted, OthersStay DEF CallDoes
  <2>3. CASE MemoryGrants(c)
    <3>1. call'[c].at \in {"checks", "upstream"}
      BY <2>3 DEF MemoryGrants
    <3>2. \E S : granted' = [granted EXCEPT !["memory"][call[c].key] = S]
      BY <2>3 DEF MemoryGrants
    <3>3. UNCHANGED granted["redis"][k]
      BY <1>1, <1>2, <3>2 DEF Stores
    <3> QED BY <3>1, <3>3, <2>1, <1>4, <1>10, NotAdmitted, OthersStay DEF CallDoes
  <2> QED BY <1>10, <2>2, <2>3, MemoryDecides
<1>11. CASE ReadUsage
  <2>1. UNCHANGED <<granted, unadded, now, call>>
    BY <1>11 DEF ReadUsage
  <2>2. redis'[k] = redis[k] \/ redis'[k] = After(redis[k], now - Window[k])
    BY <1>1, <1>11 DEF ReadUsage
  <2>3. \A e \in redis[k] : e[1] \in Nat
    BY <1>1 DEF Entries
  <2>4. redis'[k] \subseteq redis[k] /\ \A e \in redis[k] \ redis'[k] : e[1] <= now - Window[k]
    BY <1>1, <1>3, <2>2, <2>3 DEF After
  <2>5. Admitted(k)' \subseteq Admitted(k)
    BY <2>1 DEF Admitted
  <2> QED BY <2>1, <2>4, <2>5 DEF RedisStep, Forgets, Admits
<1>12. CASE Restart
  <2>1. Admitted(k)' \subseteq Admitted(k)
    BY <1>12 DEF Restart, Admitted, NoCall
  <2> QED BY <1>4, <1>12, <2>1 DEF Restart
<1>13. CASE Tick
  <2>1. Admitted(k)' \subseteq Admitted(k)
    BY <1>13 DEF Tick, Admitted
  <2> QED BY <1>4, <1>13, <2>1 DEF Tick
<1> QED BY <1>5, <1>6, <1>7, <1>8, <1>9, <1>10, <1>11, <1>12, <1>13 DEF FreeTierNext

(* The same for the memory: entries that are over are removed, a slot is  *)
(* taken when there is room, or all entries are lost.                     *)
Drops(k) ==
    /\ UNCHANGED <<granted["memory"][k], restarts>> /\ now' \in {now, now + 1}
    /\ memory'[k] \subseteq memory[k]
    /\ \A e \in memory[k] \ memory'[k] : e[1] <= now - Window[k]

Takes(k) ==
    LET e == NewEntry(granted["memory"][k], now) IN
    /\ memory'[k] = Recent(memory[k], k) \cup {e}
    /\ granted'["memory"][k] = granted["memory"][k] \cup {e}
    /\ Cardinality(Recent(memory[k], k)) < Limit[k]
    /\ UNCHANGED <<now, restarts>>

Loses(k) ==
    /\ memory'[k] = {} /\ restarts' = restarts + 1
    /\ UNCHANGED <<now, granted["memory"][k]>>

MemoryStep(k) == Drops(k) \/ Takes(k) \/ Loses(k)

LEMMA MemoryStepOfNext ==
  ASSUME FreeTierTypeOK, FreeTierNext, NEW k \in Keys, IsFiniteSet(memory[k])
  PROVE  MemoryStep(k)
<1>1. /\ call \in [Calls -> Call] /\ now \in Nat
      /\ memory \in [Keys -> SUBSET Entries]
      /\ granted \in [Stores -> [Keys -> SUBSET Entries]]
  BY QuotaTypes DEF FreeTierTypeOK
<1>2. \A e \in memory[k] : e[1] \in Nat
  BY <1>1 DEF Entries
<1>3. Window[k] \in Nat /\ Limit[k] \in Nat
  BY QuotaTypes
<1>4. ASSUME UNCHANGED <<memory[k], granted["memory"][k], restarts>>, now' \in {now, now + 1}
      PROVE  MemoryStep(k)
  BY <1>4 DEF MemoryStep, Drops
<1>5. ASSUME memory'[k] = Recent(memory[k], k),
             UNCHANGED <<granted["memory"][k], restarts, now>>
      PROVE  MemoryStep(k)
  <2>1. memory'[k] \subseteq memory[k] /\ \A e \in memory[k] \ memory'[k] : e[1] <= now - Window[k]
    BY <1>1, <1>2, <1>3, <1>5 DEF Recent, After
  <2> QED BY <1>5, <2>1 DEF MemoryStep, Drops
<1>6. ASSUME NEW c \in Calls,
             Begin(c) \/ Prune(c) \/ Count(c) \/ ReadOldest(c) \/ Pass(c) \/ Answer(c)
      PROVE  MemoryStep(k)
  <2>1. UNCHANGED <<memory, granted, restarts, now>>
    BY <1>6 DEF Begin, Prune, Count, ReadOldest, Pass, Answer
  <2> QED BY <1>4, <2>1
<1>7. ASSUME NEW c \in Calls, Add(c)
      PROVE  MemoryStep(k)
  <2>1. UNCHANGED <<memory, restarts, now>> /\ \E e : Grants(c, "redis", e)
    BY <1>7 DEF Add
  <2>2. \E e : granted' = [granted EXCEPT !["redis"][call[c].key] = @ \cup {e}]
    BY <2>1 DEF Grants
  <2>3. UNCHANGED granted["memory"][k]
    BY <1>1, <2>2 DEF Stores
  <2> QED BY <1>4, <2>1, <2>3
<1>8. ASSUME NEW c \in Calls, TakeFromMemory(c)
      PROVE  MemoryStep(k)
  <2> DEFINE j == call[c].key
             left == After(memory[j], now - Window[j])
             e == NewEntry(granted["memory"][j], now)
  <2>1. UNCHANGED <<now, restarts>> /\ j \in Keys
    BY <1>1, <1>8 DEF TakeFromMemory, Call
  <2>2. \/ memory' = [memory EXCEPT ![j] = left] /\ UNCHANGED granted
        \/ /\ ~Full(j, Cardinality(left))
           /\ memory' = [memory EXCEPT ![j] = left \cup {e}]
           /\ granted' = [granted EXCEPT !["memory"][j] = @ \cup {e}]
    <3>1. MemoryRefuses(c) \/ MemoryGrants(c)
      BY <1>8, MemoryDecides
    <3> QED BY <3>1 DEF MemoryRefuses, MemoryGrants
  <2>3. CASE j # k
    <3>1. UNCHANGED <<memory[k], granted["memory"][k]>>
      <4> HIDE DEF left, e, j
      <4> QED BY <1>1, <2>2, <2>3 DEF Stores
    <3> QED BY <1>4, <2>1, <3>1
  <2>4. CASE j = k
    <3>1. left = Recent(memory[k], k)
      BY <2>4 DEF Recent
    <3>2. Cardinality(left) \in Nat
      BY <3>1, SmallerSet DEF Recent, After
    <3>3. ~Full(j, Cardinality(left)) => Cardinality(left) < Limit[k]
      BY <1>3, <2>4, <3>2 DEF Full
    <3>4. \/ memory'[k] = left /\ UNCHANGED granted["memory"][k]
          \/ /\ Cardinality(left) < Limit[k]
             /\ memory'[k] = left \cup {e}
             /\ granted'["memory"][k] = granted["memory"][k] \cup {e}
      <4> HIDE DEF left, e, j
      <4> QED BY <1>1, <2>2, <2>4, <3>3 DEF Stores
    <3> QED BY <1>5, <2>1, <2>4, <3>1, <3>4 DEF MemoryStep, Takes
  <2> QED BY <2>3, <2>4
<1>9. CASE ReadUsage
  <2>1. UNCHANGED <<granted, restarts, now>>
    BY <1>9 DEF ReadUsage
  <2>2. memory'[k] = memory[k] \/ memory'[k] = Recent(memory[k], k)
    BY <1>1, <1>9 DEF ReadUsage, Recent
  <2> QED BY <1>4, <1>5, <2>1, <2>2
<1>10. CASE Restart
  BY <1>10 DEF Restart, Empty, MemoryStep, Loses
<1>11. CASE Tick
  BY <1>4, <1>11 DEF Tick
<1> QED BY <1>6, <1>7, <1>8, <1>9, <1>10, <1>11 DEF FreeTierNext

-----------------------------------------------------------------------------
(* How many entries there are *)

LEMMA RedisBoundNext ==
  ASSUME FreeTierTypeOK, Numbered, NEW k \in Keys, RedisBound(k), RedisStep(k)
  PROVE  RedisBound(k)'
<1> DEFINE G == granted["redis"][k]
           R == redis[k]
           start == now - Window[k]
<1>1. /\ now \in Nat /\ Window[k] \in Nat /\ Limit[k] \in Nat /\ unadded[k] \in Nat
      /\ start \in Int /\ Cardinality(Calls) \in Nat
      /\ \A e \in G : e[1] \in Nat
      /\ R \subseteq G
  BY QuotaTypes DEF Entries, RedisBound, Stores
<1>2. IsFiniteSet(G) /\ IsFiniteSet(R) /\ IsFiniteSet(Recent(R, k)) /\ IsFiniteSet(Recent(G, k) \ R)
  BY <1>1, SmallerSet DEF Numbered, Stores, Recent, After
<1>3. IsFiniteSet(Admitted(k)) /\ Admitted(k) \subseteq Calls
  BY CallAssumption, SmallerSet DEF Admitted
<1>4. /\ Cardinality(Recent(R, k)) + Cardinality(Admitted(k)) <= Limit[k] + (Cardinality(Calls) - 1)
      /\ Cardinality(Recent(G, k) \ R) <= unadded[k]
      /\ Cardinality(Recent(R, k)) \in Nat /\ Cardinality(Admitted(k)) \in Nat
      /\ Cardinality(Recent(G, k) \ R) \in Nat
  BY <1>2, <1>3, FS_CardinalityType DEF RedisBound
<1>5. CASE Forgets(k) /\ Admits(k)
  <2>1. /\ granted'["redis"][k] = G /\ unadded'[k] = unadded[k]
        /\ now' \in {now, now + 1}
        /\ redis'[k] \subseteq R /\ \A e \in R \ redis'[k] : e[1] <= start
    BY <1>5 DEF Forgets
  <2>2. After(redis'[k], now' - Window[k]) \subseteq Recent(R, k)
    BY <1>1, <2>1 DEF Recent, After
  <2>3. After(G, now' - Window[k]) \ redis'[k] \subseteq Recent(G, k) \ R
    BY <1>1, <2>1 DEF Recent, After
  <2>4. /\ Cardinality(After(redis'[k], now' - Window[k])) \in Nat
        /\ Cardinality(After(redis'[k], now' - Window[k])) <= Cardinality(Recent(R, k))
        /\ Cardinality(After(G, now' - Window[k]) \ redis'[k]) <= unadded[k]
    BY <1>1, <1>2, <1>4, <2>2, <2>3, SmallerSet
  <2>5. Cardinality(After(redis'[k], now' - Window[k])) + Cardinality(Admitted(k)')
           <= Limit[k] + (Cardinality(Calls) - 1)
    <3>1. CASE Admitted(k)' \subseteq Admitted(k)
      <4>1. /\ Cardinality(Admitted(k)') \in Nat
            /\ Cardinality(Admitted(k)') <= Cardinality(Admitted(k))
        BY <1>3, <3>1, SmallerSet
      <4> QED BY <1>1, <1>4, <2>4, <4>1
    <3>2. ASSUME NEW c \in Calls, Admitted(k)' \subseteq Admitted(k) \cup {c}, c \notin Admitted(k),
                 Cardinality(R) < Limit[k], UNCHANGED <<now, redis[k]>>
          PROVE  Cardinality(After(redis'[k], now' - Window[k])) + Cardinality(Admitted(k)')
                    <= Limit[k] + (Cardinality(Calls) - 1)
      <4>1. Cardinality(Admitted(k)') \in Nat /\ Cardinality(Admitted(k)') <= Cardinality(Calls)
        <5>1. Admitted(k)' \subseteq Calls
          BY <1>3, <3>2
        <5> QED BY <5>1, CallAssumption, SmallerSet
      <4>2. /\ Cardinality(Recent(R, k)) <= Cardinality(R) /\ Cardinality(R) \in Nat
        BY <1>2, SmallerSet DEF Recent, After
      <4> QED BY <1>1, <1>4, <2>4, <3>2, <4>1, <4>2
    <3> QED BY <1>5, <3>1, <3>2 DEF Admits
  <2>6. redis'[k] \subseteq granted'["redis"][k]
    BY <1>1, <2>1
  <2> QED BY <2>1, <2>4, <2>5, <2>6 DEF RedisBound, Recent
<1>6. CASE Fills(k)
  <2>1. PICK c, e :
           /\ c \in Admitted(k)
           /\ Admitted(k)' \subseteq Admitted(k) \ {c}
           /\ granted'["redis"][k] = G \cup {e} /\ now' = now
           /\ \/ redis'[k] = R \cup {e} /\ unadded'[k] = unadded[k]
              \/ redis'[k] = R /\ unadded'[k] = unadded[k] + 1
    BY <1>6 DEF Fills
  <2>2. Cardinality(Admitted(k)') \in Nat /\ Cardinality(Admitted(k)') <= Cardinality(Admitted(k)) - 1
    BY <1>3, <2>1, OneLess
  <2>3. Recent(redis'[k], k) \subseteq Recent(R, k) \cup {e}
    BY <2>1 DEF Recent, After
  <2>4. /\ Cardinality(Recent(redis'[k], k)) \in Nat
        /\ Cardinality(Recent(redis'[k], k)) <= Cardinality(Recent(R, k)) + 1
    BY <1>2, <2>3, OneMore
  <2>5. Cardinality(Recent(redis'[k], k)) + Cardinality(Admitted(k)')
           <= Limit[k] + (Cardinality(Calls) - 1)
    BY <1>1, <1>4, <2>2, <2>4
  <2>6. Cardinality(Recent(G \cup {e}, k) \ redis'[k]) <= unadded'[k]
    <3>1. CASE redis'[k] = R \cup {e} /\ unadded'[k] = unadded[k]
      <4>1. Recent(G \cup {e}, k) \ redis'[k] \subseteq Recent(G, k) \ R
        BY <3>1 DEF Recent, After
      <4>2. Cardinality(Recent(G \cup {e}, k) \ redis'[k]) <= Cardinality(Recent(G, k) \ R)
        BY <1>2, <4>1, SmallerSet
      <4>3. Cardinality(Recent(G \cup {e}, k) \ redis'[k]) \in Nat
        BY <1>2, <4>1, SmallerSet
      <4> QED BY <1>1, <1>4, <3>1, <4>2, <4>3
    <3>2. CASE redis'[k] = R /\ unadded'[k] = unadded[k] + 1
      <4>1. Recent(G \cup {e}, k) \ redis'[k] \subseteq (Recent(G, k) \ R) \cup {e}
        BY <3>2 DEF Recent, After
      <4>2. Cardinality(Recent(G \cup {e}, k) \ redis'[k]) <= Cardinality(Recent(G, k) \ R) + 1
        BY <1>2, <4>1, OneMore
      <4>3. Cardinality(Recent(G \cup {e}, k) \ redis'[k]) \in Nat
        BY <1>2, <4>1, OneMore
      <4> QED BY <1>1, <1>4, <3>2, <4>2, <4>3
    <3> QED BY <2>1, <3>1, <3>2
  <2>7. redis'[k] \subseteq granted'["redis"][k]
    BY <1>1, <2>1
  <2> QED BY <2>1, <2>5, <2>6, <2>7 DEF RedisBound, Recent
<1> QED BY <1>5, <1>6 DEF RedisStep

LEMMA MemoryBoundNext ==
  ASSUME FreeTierTypeOK, Numbered, NEW k \in Keys, MemoryBound(k), MemoryStep(k)
  PROVE  MemoryBound(k)'
<1> DEFINE G == granted["memory"][k]
           M == memory[k]
           start == now - Window[k]
<1>1. /\ now \in Nat /\ Window[k] \in Nat /\ Limit[k] \in Nat /\ restarts \in Nat /\ start \in Int
      /\ \A e \in G : e[1] \in Nat
      /\ M \subseteq G
  BY QuotaTypes DEF Entries, MemoryBound, Stores
<1>2. IsFiniteSet(G) /\ IsFiniteSet(M) /\ IsFiniteSet(Recent(M, k)) /\ IsFiniteSet(Recent(G, k) \ M)
  BY <1>1, SmallerSet DEF Numbered, Stores, Recent, After
<1>3. /\ Cardinality(M) <= Limit[k] /\ Cardinality(Recent(G, k) \ M) <= Limit[k] * restarts
      /\ Cardinality(M) \in Nat /\ Cardinality(Recent(G, k) \ M) \in Nat
  BY <1>2, FS_CardinalityType DEF MemoryBound
<1>4. Limit[k] * restarts \in Nat /\ Limit[k] * (restarts + 1) = Limit[k] * restarts + Limit[k]
  BY <1>1
<1>5. CASE Drops(k)
  <2>1. /\ granted'["memory"][k] = G /\ restarts' = restarts
        /\ now' \in {now, now + 1}
        /\ memory'[k] \subseteq M /\ \A e \in M \ memory'[k] : e[1] <= start
    BY <1>5 DEF Drops
  <2>2. After(G, now' - Window[k]) \ memory'[k] \subseteq Recent(G, k) \ M
    BY <1>1, <2>1 DEF Recent, After
  <2>3. /\ Cardinality(After(G, now' - Window[k]) \ memory'[k]) \in Nat
        /\ Cardinality(After(G, now' - Window[k]) \ memory'[k]) <= Cardinality(Recent(G, k) \ M)
    BY <1>2, <2>2, SmallerSet
  <2>4. Cardinality(memory'[k]) \in Nat /\ Cardinality(memory'[k]) <= Cardinality(M)
    BY <1>2, <2>1, SmallerSet
  <2>5. /\ Cardinality(memory'[k]) <= Limit[k]
        /\ Cardinality(After(G, now' - Window[k]) \ memory'[k]) <= Limit[k] * restarts
    BY <1>1, <1>3, <1>4, <2>3, <2>4
  <2>6. memory'[k] \subseteq granted'["memory"][k]
    BY <1>1, <2>1
  <2> QED BY <2>1, <2>5, <2>6 DEF MemoryBound, Recent
<1>6. CASE Takes(k)
  <2>1. PICK e :
           /\ memory'[k] = Recent(M, k) \cup {e}
           /\ granted'["memory"][k] = G \cup {e}
           /\ Cardinality(Recent(M, k)) < Limit[k]
           /\ now' = now /\ restarts' = restarts
    BY <1>6 DEF Takes
  <2>2. /\ Cardinality(memory'[k]) \in Nat
        /\ Cardinality(memory'[k]) <= Cardinality(Recent(M, k)) + 1
        /\ Cardinality(Recent(M, k)) \in Nat
    BY <1>2, <2>1, OneMore
  <2>3. Recent(G \cup {e}, k) \ memory'[k] \subseteq Recent(G, k) \ M
    BY <2>1 DEF Recent, After
  <2>4. /\ Cardinality(Recent(G \cup {e}, k) \ memory'[k]) \in Nat
        /\ Cardinality(Recent(G \cup {e}, k) \ memory'[k]) <= Cardinality(Recent(G, k) \ M)
    BY <1>2, <2>3, SmallerSet
  <2>5. /\ Cardinality(memory'[k]) <= Limit[k]
        /\ Cardinality(Recent(G \cup {e}, k) \ memory'[k]) <= Limit[k] * restarts
    BY <1>1, <1>3, <1>4, <2>1, <2>2, <2>4
  <2>6. memory'[k] \subseteq granted'["memory"][k]
    BY <1>1, <2>1 DEF Recent, After
  <2> QED BY <2>1, <2>5, <2>6 DEF MemoryBound, Recent
<1>7. CASE Loses(k)
  <2>1. /\ memory'[k] = {} /\ restarts' = restarts + 1 /\ now' = now
        /\ granted'["memory"][k] = G
    BY <1>7 DEF Loses
  <2>2. IsFiniteSet(Recent(G, k))
    BY <1>2, SmallerSet DEF Recent, After
  <2>3. /\ Cardinality(Recent(G, k)) \in Nat
        /\ Cardinality(Recent(G, k)) <= Cardinality(M) + Cardinality(Recent(G, k) \ M)
    BY <1>2, <2>2, TwoParts
  <2>4. Cardinality(Recent(G, k)) <= Limit[k] * (restarts + 1)
    BY <1>1, <1>3, <1>4, <2>3
  <2>5. Recent(G, k) \ memory'[k] = Recent(G, k)
    BY <2>1
  <2>6. Cardinality(memory'[k]) = 0
    BY <2>1, FS_EmptySet
  <2> QED BY <1>1, <2>1, <2>4, <2>5, <2>6 DEF MemoryBound, Recent
<1> QED BY <1>5, <1>6, <1>7 DEF MemoryStep

-----------------------------------------------------------------------------
(* What is known of every entry and of every call *)

(* A step adds entries of now, or of the second before. *)
LEMMA NewIsRecent ==
  ASSUME InTime, NEW k \in Keys, RedisStep(k), FreeTierTypeOK, Numbered
  PROVE  \A e \in redis'[k] : e \in redis[k] \/ e[1] \in {now - 1, now}
<1>1. CASE Forgets(k)
  BY <1>1 DEF Forgets
<1>2. CASE Fills(k)
  <2>1. PICK c \in Admitted(k) :
           redis'[k] \subseteq redis[k] \cup {NewEntry(granted["redis"][k], call[c].from)}
    BY <1>2 DEF Fills
  <2>2. call[c].from \in {now - 1, now}
    BY DEF Admitted, InTime, LimiterSteps
  <2>3. IsFiniteSet(granted["redis"][k])
    BY DEF Numbered, Stores
  <2>4. NewEntry(granted["redis"][k], call[c].from)[1] \in {now - 1, now}
    BY <2>2, <2>3, NextEntry
  <2> QED BY <2>1, <2>4
<1> QED BY <1>1, <1>2 DEF RedisStep

(* At most one slot is granted in a step; nothing that was granted is forgotten. *)
LEMMA GrantedGrows ==
  ASSUME FreeTierTypeOK, NEW k \in Keys, RedisStep(k), MemoryStep(k), NEW s \in Stores, InTime
  PROVE  \/ UNCHANGED granted[s][k]
         \/ \E t \in 0 .. now : granted'[s][k] = granted[s][k] \cup {NewEntry(granted[s][k], t)}
<1>1. now \in Nat /\ call \in [Calls -> Call]
  BY QuotaTypes
<1>2. CASE s = "redis"
  <2>1. CASE Fills(k)
    <3>1. PICK c \in Admitted(k) :
             granted'["redis"][k] = granted["redis"][k]
                                    \cup {NewEntry(granted["redis"][k], call[c].from)}
      BY <2>1 DEF Fills
    <3>2. call[c].from \in 0 .. now
      BY <1>1 DEF Admitted, Call
    <3> QED BY <1>2, <3>1, <3>2
  <2> QED BY <1>2, <2>1 DEF RedisStep, Forgets
<1>3. CASE s = "memory"
  <2>1. CASE Takes(k)
    <3>1. now \in 0 .. now
      BY <1>1
    <3> QED BY <1>3, <2>1, <3>1 DEF Takes
  <2> QED BY <1>3, <2>1 DEF MemoryStep, Drops, Loses
<1> QED BY <1>2, <1>3 DEF Stores

LEMMA NumberedNext ==
  ASSUME Numbered, FreeTierTypeOK, InTime, \A k \in Keys : RedisStep(k) /\ MemoryStep(k)
  PROVE  Numbered'
<1> SUFFICES ASSUME NEW s \in Stores, NEW k \in Keys
             PROVE  /\ IsFiniteSet(granted'[s][k])
                    /\ \A e \in granted'[s][k] :
                          e[2] <= Cardinality({f \in granted'[s][k] : f[1] = e[1]})
  BY DEF Numbered
<1> DEFINE w == granted[s][k]
           At(v, t) == {f \in v : f[1] = t}
<1>1. IsFiniteSet(w) /\ \A e \in w : e[2] \in Nat /\ e[2] <= Cardinality(At(w, e[1]))
  BY QuotaTypes DEF Numbered, Entries
<1>2. CASE UNCHANGED granted[s][k]
  BY <1>1, <1>2
<1>3. ASSUME NEW t \in 0 .. now, granted'[s][k] = w \cup {NewEntry(w, t)}
      PROVE  /\ IsFiniteSet(granted'[s][k])
             /\ \A e \in granted'[s][k] : e[2] <= Cardinality(At(granted'[s][k], e[1]))
  <2> DEFINE new == NewEntry(w, t)
             v == w \cup {new}
  <2>1. PICK n \in Nat : n = Cardinality(At(w, t)) /\ new[1] = t /\ new[2] = n + 1
    BY <1>1, NextEntry
  <2>2. new \notin w
    BY EntryIsNew
  <2>3. IsFiniteSet(v)
    BY <1>1, FS_AddElement
  <2>4. ASSUME NEW e \in w PROVE e[2] <= Cardinality(At(v, e[1]))
    <3>1. IsFiniteSet(At(v, e[1])) /\ At(w, e[1]) \subseteq At(v, e[1])
      BY <2>3, SmallerSet
    <3>2. /\ Cardinality(At(w, e[1])) \in Nat /\ Cardinality(At(v, e[1])) \in Nat
          /\ Cardinality(At(w, e[1])) <= Cardinality(At(v, e[1]))
      BY <3>1, SmallerSet
    <3> QED BY <1>1, <3>2
  <2>5. new[2] <= Cardinality(At(v, new[1]))
    <3>1. At(v, t) = At(w, t) \cup {new}
      BY <2>1
    <3>2. IsFiniteSet(At(w, t)) /\ new \notin At(w, t)
      BY <1>1, <2>2, SmallerSet
    <3>3. Cardinality(At(v, t)) = Cardinality(At(w, t)) + 1
      BY <3>1, <3>2, FS_AddElement
    <3> QED BY <2>1, <3>3
  <2> QED BY <1>3, <2>3, <2>4, <2>5
<1> QED BY <1>2, <1>3, GrantedGrows

(* What a step does to one call *)
LEMMA CallSteps ==
  ASSUME FreeTierTypeOK, FreeTierNext, NEW c \in Calls
  PROVE  \/ UNCHANGED <<call[c], now>>
         \/ CallDoes(c) /\ UNCHANGED now
         \/ Restart /\ call'[c] = NoCall /\ UNCHANGED now
         \/ Tick /\ UNCHANGED call[c]
<1>1. ASSUME NEW d \in Calls, CallDoes(d) PROVE UNCHANGED now
  BY <1>1 DEF CallDoes, Begin, Prune, Count, ReadOldest, Add, TakeFromMemory, Pass, Answer
<1>2. ASSUME NEW d \in Calls, CallDoes(d)
      PROVE  UNCHANGED <<call[c], now>> \/ (CallDoes(c) /\ UNCHANGED now)
  BY <1>1, <1>2, OthersStay
<1>3. CASE ReadUsage
  BY <1>3 DEF ReadUsage
<1>4. CASE Restart
  BY <1>4 DEF Restart
<1>5. CASE Tick
  BY <1>5 DEF Tick
<1> QED BY <1>2, <1>3, <1>4, <1>5 DEF FreeTierNext, CallDoes

LEMMA InTimeNext ==
  ASSUME FreeTierTypeOK, InTime, FreeTierNext
  PROVE  InTime'
<1> SUFFICES ASSUME NEW c \in Calls, call'[c].at \in LimiterSteps
             PROVE  call'[c].from \in {now' - 1, now'}
  BY DEF InTime
<1>1. call[c].at \in LimiterSteps => call[c].from \in {now - 1, now}
  BY DEF InTime
<1>2. now \in Nat
  BY QuotaTypes
<1>3. CASE UNCHANGED <<call[c], now>>
  BY <1>1, <1>3
<1>4. CASE CallDoes(c) /\ UNCHANGED now
  <2>1. CASE Begin(c) \/ Pass(c)
    BY <1>4, <2>1, CallStarts
  <2>2. CASE Prune(c) \/ Count(c) \/ ReadOldest(c)
    <3>1. call[c].at \in LimiterSteps
      BY <2>2 DEF Prune, Count, ReadOldest, LimiterSteps
    <3>2. Keeps(c)
      BY <2>2, CallGoes, CallCounts, CallReads DEF Prune
    <3> QED BY <1>1, <1>4, <3>1, <3>2 DEF Keeps
  <2>3. CASE Add(c) \/ Answer(c)
    BY <2>3, CallEnds DEF LimiterSteps
  <2>4. CASE TakeFromMemory(c)
    <3>1. call \in [Calls -> Call]
      BY QuotaTypes
    <3>2. CASE MemoryRefuses(c)
      BY <3>1, <3>2 DEF MemoryRefuses, Call, LimiterSteps
    <3>3. CASE MemoryGrants(c)
      BY <3>3 DEF MemoryGrants, LimiterSteps
    <3> QED BY <2>4, <3>2, <3>3, MemoryDecides
  <2> QED BY <1>4, <2>1, <2>2, <2>3, <2>4 DEF CallDoes
<1>5. CASE call'[c] = NoCall
  BY <1>5 DEF NoCall, LimiterSteps
<1>6. CASE Tick /\ UNCHANGED call[c]
  <2>1. call[c].from = now
    BY <1>6 DEF Tick, LimiterSteps
  <2>2. now' = now + 1
    BY <1>6 DEF Tick
  <2> QED BY <1>2, <1>6, <2>1, <2>2
<1> QED BY <1>3, <1>4, <1>5, <1>6, CallSteps

LEMMA SpentNext ==
  ASSUME FreeTierTypeOK, Spent, FreeTierNext
  PROVE  Spent' /\ failures' \in 0 .. MaxFailures
<1>1. /\ failures \in 0 .. MaxFailures /\ MaxFailures \in Nat /\ restarts \in Nat
      /\ restarts <= failures /\ \A k \in Keys : unadded[k] \in Nat /\ unadded[k] <= failures
      /\ unadded \in [Keys -> 0 .. MaxFailures]
  BY QuotaTypes DEF FreeTierTypeOK, Spent
<1>2. ASSUME Fails PROVE failures' = failures + 1 /\ failures' \in 0 .. MaxFailures
  BY <1>1, <1>2 DEF Fails
<1>3. CASE UNCHANGED <<unadded, restarts>> /\ (UNCHANGED failures \/ Fails)
  BY <1>1, <1>2, <1>3 DEF Spent
<1>4. ASSUME NEW c \in Calls, Add(c) PROVE Spent' /\ failures' \in 0 .. MaxFailures
  <2>1. UNCHANGED restarts
    BY <1>4 DEF Add
  <2>2. CASE UNCHANGED <<unadded, failures>>
    BY <1>1, <2>1, <2>2 DEF Spent
  <2>3. CASE Fails /\ unadded' = [unadded EXCEPT ![call[c].key] = @ + 1]
    BY <1>1, <1>2, <2>1, <2>3 DEF Spent
  <2> QED BY <1>4, <2>2, <2>3 DEF Add
<1>5. CASE Restart
  BY <1>1, <1>2, <1>5 DEF Restart, Spent
<1>6. ASSUME NEW c \in Calls, CallDoes(c), ~Add(c)
      PROVE  UNCHANGED <<unadded, restarts>> /\ (UNCHANGED failures \/ Fails)
  BY <1>6 DEF CallDoes, Begin, Prune, Count, ReadOldest, TakeFromMemory, Pass, Answer
<1>7. ReadUsage \/ Tick => UNCHANGED <<unadded, restarts>> /\ (UNCHANGED failures \/ Fails)
  BY DEF ReadUsage, Tick
<1> QED BY <1>3, <1>4, <1>5, <1>6, <1>7 DEF FreeTierNext, CallDoes

LEMMA OneWindow ==
  ASSUME NEW X, NEW Y, X \subseteq Y, NEW v \in [Keys -> SUBSET X], NEW w,
         \/ w = v
         \/ \E k \in Keys, S \in SUBSET X : w = [v EXCEPT ![k] = S]
  PROVE  w \in [Keys -> SUBSET Y]
<1>1. v \in [Keys -> SUBSET Y]
  OBVIOUS
<1> QED BY <1>1

LEMMA QuotaTypesNext ==
  ASSUME FreeTierTypeOK, Numbered, Spent, \A k \in Keys : IsFiniteSet(redis[k]), FreeTierNext
  PROVE  FreeTierTypeOK'
<1>1. /\ now \in Nat /\ MaxTime \in Nat /\ MaxFailures \in Nat /\ now \in 0 .. MaxTime
      /\ redis \in [Keys -> SUBSET Entries] /\ memory \in [Keys -> SUBSET Entries]
      /\ unadded \in [Keys -> 0 .. MaxFailures] /\ granted \in [Stores -> [Keys -> SUBSET Entries]]
      /\ call \in [Calls -> Call] /\ unpruned \subseteq Keys
  BY QuotaTypes DEF FreeTierTypeOK
<1>2. \A c \in Calls : call[c].key \in Keys /\ call[c].from \in 0 .. now
  BY <1>1 DEF Call
<1>3. UNCHANGED now \/ Tick
  BY DEF FreeTierNext, Begin, Prune, Count, ReadOldest, Add, TakeFromMemory, Pass, Answer,
         ReadUsage, Restart
<1>4. now' \in Nat /\ now' \in 0 .. MaxTime /\ now <= now'
  BY <1>1, <1>3 DEF Tick
<1>5. Entries \subseteq Entries' /\ 0 .. now \subseteq 0 .. now'
  BY <1>1, <1>4 DEF Entries
<1>6. ASSUME NEW s \in Stores, NEW k \in Keys, NEW t \in 0 .. now
      PROVE  NewEntry(granted[s][k], t) \in Entries
  <2>1. IsFiniteSet(granted[s][k])
    BY DEF Numbered
  <2>2. PICK n \in Nat : NewEntry(granted[s][k], t) = <<t, n + 1>>
    BY <2>1, NextEntry
  <2> QED BY <2>2 DEF Entries
<1>7. redis' \in [Keys -> SUBSET Entries']
  <2>1. ASSUME NEW c \in Calls, Prune(c)
        PROVE  redis' = redis \/ \E k \in Keys, S \in SUBSET Entries : redis' = [redis EXCEPT ![k] = S]
    <3> DEFINE S == After(redis[call[c].key], call[c].from - Window[call[c].key])
    <3>1. S \in SUBSET Entries
      BY <1>1, <1>2 DEF After
    <3>2. redis' = redis \/ redis' = [redis EXCEPT ![call[c].key] = S]
      BY <2>1 DEF Prune
    <3> HIDE DEF S
    <3> QED BY <1>2, <3>1, <3>2
  <2>2. ASSUME NEW c \in Calls, Add(c)
        PROVE  redis' = redis \/ \E k \in Keys, S \in SUBSET Entries : redis' = [redis EXCEPT ![k] = S]
    <3> DEFINE e == NewEntry(granted["redis"][call[c].key], call[c].from)
               S == redis[call[c].key] \cup {e}
    <3>1. e \in Entries
      BY <1>2, <1>6 DEF Stores
    <3>2. redis' = redis \/ redis' = [redis EXCEPT ![call[c].key] = S]
      BY <2>2 DEF Add
    <3>3. S \in SUBSET Entries
      <4> HIDE DEF e
      <4> QED BY <1>1, <1>2, <3>1
    <3> HIDE DEF S
    <3> QED BY <1>2, <3>2, <3>3
  <2>3. ASSUME ReadUsage
        PROVE  redis' = redis \/ \E k \in Keys, S \in SUBSET Entries : redis' = [redis EXCEPT ![k] = S]
    <3>1. After(redis["user"], now - Window["user"]) \in SUBSET Entries /\ "user" \in Keys
      BY <1>1 DEF After, Keys
    <3> QED BY <2>3, <3>1 DEF ReadUsage
  <2>4. ASSUME NEW c \in Calls, CallDoes(c), ~Prune(c), ~Add(c) PROVE redis' = redis
    BY <2>4 DEF CallDoes, Begin, Count, ReadOldest, TakeFromMemory, Pass, Answer
  <2>5. Restart \/ Tick => redis' = redis
    BY DEF Restart, Tick
  <2>6. redis' = redis \/ \E k \in Keys, S \in SUBSET Entries : redis' = [redis EXCEPT ![k] = S]
    BY <2>1, <2>2, <2>3, <2>4, <2>5 DEF FreeTierNext, CallDoes
  <2> QED BY <1>1, <1>5, <2>6, OneWindow
<1>8. memory' \in [Keys -> SUBSET Entries']
  <2>1. ASSUME NEW c \in Calls, TakeFromMemory(c)
        PROVE  \E k \in Keys, S \in SUBSET Entries : memory' = [memory EXCEPT ![k] = S]
    <3> DEFINE k == call[c].key
               left == After(memory[k], now - Window[k])
               e == NewEntry(granted["memory"][k], now)
    <3>1. left \in SUBSET Entries
      BY <1>1, <1>2 DEF After
    <3>2. e \in Entries
      BY <1>1, <1>2, <1>6 DEF Stores
    <3>3. memory' = [memory EXCEPT ![k] = left] \/ memory' = [memory EXCEPT ![k] = left \cup {e}]
      BY <2>1 DEF TakeFromMemory
    <3> HIDE DEF left, e
    <3> QED BY <1>2, <3>1, <3>2, <3>3
  <2>2. ASSUME ReadUsage
        PROVE  \/ memory' = memory
               \/ \E k \in Keys, S \in SUBSET Entries : memory' = [memory EXCEPT ![k] = S]
    <3>1. After(memory["user"], now - Window["user"]) \in SUBSET Entries /\ "user" \in Keys
      BY <1>1 DEF After, Keys
    <3> QED BY <2>2, <3>1 DEF ReadUsage
  <2>3. ASSUME NEW c \in Calls, CallDoes(c), ~TakeFromMemory(c) PROVE memory' = memory
    BY <2>3 DEF CallDoes, Begin, Prune, Count, ReadOldest, Add, Pass, Answer
  <2>4. CASE Restart
    BY <2>4 DEF Restart, Empty
  <2>5. CASE ~Restart
    <3>1. Tick => memory' = memory
      BY DEF Tick
    <3>2. memory' = memory \/ \E k \in Keys, S \in SUBSET Entries : memory' = [memory EXCEPT ![k] = S]
      BY <2>1, <2>2, <2>3, <2>5, <3>1 DEF FreeTierNext, CallDoes
    <3> QED BY <1>1, <1>5, <3>2, OneWindow
  <2> QED BY <2>4, <2>5
<1>9. granted' \in [Stores -> [Keys -> SUBSET Entries']]
  <2>1. ASSUME NEW c \in Calls, NEW s \in Stores, NEW t \in 0 .. now,
               granted' = [granted EXCEPT ![s][call[c].key] = @ \cup {NewEntry(granted[s][call[c].key], t)}]
        PROVE  granted' \in [Stores -> [Keys -> SUBSET Entries']]
    <3> DEFINE S == granted[s][call[c].key] \cup {NewEntry(granted[s][call[c].key], t)}
    <3>1. S \in SUBSET Entries
      BY <1>1, <1>2, <1>6
    <3>2. granted' = [granted EXCEPT ![s] = [granted[s] EXCEPT ![call[c].key] = S]]
      BY <2>1
    <3> HIDE DEF S
    <3>3. [granted[s] EXCEPT ![call[c].key] = S] \in [Keys -> SUBSET Entries']
      BY <1>1, <1>2, <1>5, <3>1, OneWindow
    <3>4. \A r \in Stores : granted[r] \in [Keys -> SUBSET Entries']
      BY <1>1, <1>5
    <3> QED BY <1>1, <3>2, <3>3, <3>4
  <2>2. ASSUME NEW c \in Calls, Add(c) PROVE granted' \in [Stores -> [Keys -> SUBSET Entries']]
    <3>1. granted' = [granted EXCEPT !["redis"][call[c].key]
                         = @ \cup {NewEntry(granted["redis"][call[c].key], call[c].from)}]
      BY <2>2 DEF Add, Grants
    <3>2. "redis" \in Stores /\ call[c].from \in 0 .. now
      BY <1>2 DEF Stores
    <3> QED BY <2>1, <3>1, <3>2
  <2>3. CASE UNCHANGED granted
    BY <1>1, <1>5, <2>3
  <2>4. ASSUME NEW c \in Calls, TakeFromMemory(c)
        PROVE  granted' \in [Stores -> [Keys -> SUBSET Entries']]
    <3>1. CASE MemoryRefuses(c)
      BY <2>3, <3>1 DEF MemoryRefuses
    <3>2. CASE MemoryGrants(c)
      <4>1. granted' = [granted EXCEPT !["memory"][call[c].key]
                         = @ \cup {NewEntry(granted["memory"][call[c].key], now)}]
        BY <3>2 DEF MemoryGrants
      <4>2. "memory" \in Stores /\ now \in 0 .. now
        BY <1>1 DEF Stores
      <4> QED BY <2>1, <4>1, <4>2
    <3> QED BY <2>4, <3>1, <3>2, MemoryDecides
  <2>5. ASSUME NEW c \in Calls, CallDoes(c), ~Add(c), ~TakeFromMemory(c) PROVE UNCHANGED granted
    BY <2>5 DEF CallDoes, Begin, Prune, Count, ReadOldest, Pass, Answer
  <2>6. ReadUsage \/ Restart \/ Tick => UNCHANGED granted
    BY DEF ReadUsage, Restart, Tick
  <2> QED BY <2>2, <2>3, <2>4, <2>5, <2>6 DEF FreeTierNext, CallDoes
<1>10. call' \in [Calls -> Call']
  <2>1. Call \subseteq Call'
    BY <1>5 DEF Call
  <2>2. ASSUME NEW c \in Calls PROVE call'[c] \in Call'
    <3>1. CASE UNCHANGED call[c]
      BY <1>1, <2>1, <3>1
    <3>2. CASE CallDoes(c)
      BY <1>2, <2>1, <3>2, OwnCall
    <3>3. CASE call'[c] = NoCall
      BY <1>4, <3>3 DEF NoCall, Call, CallStates, LimiterSteps, Keys
    <3> QED BY <3>1, <3>2, <3>3, CallSteps
  <2>3. call' = [c \in Calls |-> call'[c]]
    <3>1. ASSUME NEW c \in Calls, NEW f, call' = [call EXCEPT ![c] = f]
          PROVE  call' = [d \in Calls |-> call'[d]]
      BY <1>1, <3>1
    <3>2. ASSUME NEW c \in Calls, CallDoes(c) PROVE call' = [d \in Calls |-> call'[d]]
      BY <3>1, <3>2, OneCall
    <3>3. ReadUsage \/ Tick => call' = [d \in Calls |-> call'[d]]
      BY <1>1 DEF ReadUsage, Tick
    <3>4. Restart => call' = [d \in Calls |-> call'[d]]
      BY DEF Restart
    <3> QED BY <3>2, <3>3, <3>4 DEF FreeTierNext, CallDoes
  <2>4. \A c \in Calls : call'[c] \in Call'
    BY <2>2
  <2> QED BY <2>3, <2>4
<1>11. /\ Spent' /\ failures' \in 0 .. MaxFailures
       /\ restarts \in Nat /\ \A k \in Keys : unadded[k] \in Nat
  BY SpentNext, QuotaTypes
<1>12. unadded' \in [Keys -> 0 .. MaxFailures]
  <2>1. ASSUME NEW k \in Keys, unadded' = [unadded EXCEPT ![k] = @ + 1]
        PROVE  unadded' \in [Keys -> 0 .. MaxFailures]
    <3>1. unadded'[k] = unadded[k] + 1 /\ unadded'[k] <= failures'
      BY <1>1, <1>11, <2>1 DEF Spent
    <3>2. unadded[k] + 1 \in 0 .. MaxFailures
      BY <1>1, <1>11, <3>1
    <3> QED BY <1>1, <2>1, <3>2
  <2>2. ASSUME NEW c \in Calls, Add(c) PROVE unadded' \in [Keys -> 0 .. MaxFailures]
    <3>1. UNCHANGED unadded \/ unadded' = [unadded EXCEPT ![call[c].key] = @ + 1]
      BY <2>2 DEF Add
    <3> QED BY <1>1, <1>2, <2>1, <3>1
  <2>3. ASSUME NEW c \in Calls, CallDoes(c), ~Add(c) PROVE UNCHANGED unadded
    BY <2>3 DEF CallDoes, Begin, Prune, Count, ReadOldest, TakeFromMemory, Pass, Answer
  <2>4. ReadUsage \/ Restart \/ Tick => UNCHANGED unadded
    BY DEF ReadUsage, Restart, Tick
  <2> QED BY <1>1, <2>2, <2>3, <2>4 DEF FreeTierNext, CallDoes
<1>13. restarts' \in 0 .. MaxFailures
  <2>1. restarts' = restarts \/ restarts' = restarts + 1
    BY DEF FreeTierNext, Begin, Prune, Count, ReadOldest, Add, TakeFromMemory, Pass, Answer,
           ReadUsage, Restart, Tick
  <2>2. restarts' <= failures'
    BY <1>11 DEF Spent
  <2> QED BY <1>1, <1>11, <2>1, <2>2
<1>14. unpruned' \subseteq Keys
  <2>1. ASSUME NEW c \in Calls, Prune(c) PROVE unpruned' \subseteq Keys
    BY <1>1, <1>2, <2>1 DEF Prune
  <2>2. ASSUME NEW c \in Calls, CallDoes(c), ~Prune(c) PROVE UNCHANGED unpruned
    BY <2>2 DEF CallDoes, Begin, Count, ReadOldest, Add, TakeFromMemory, Pass, Answer
  <2>3. ReadUsage \/ Restart \/ Tick => UNCHANGED unpruned
    BY DEF ReadUsage, Restart, Tick
  <2> QED BY <1>1, <2>1, <2>2, <2>3 DEF FreeTierNext, CallDoes
<1> QED BY <1>4, <1>7, <1>8, <1>9, <1>10, <1>11, <1>12, <1>13, <1>14
        DEF FreeTierTypeOK, Call, CallStates, LimiterSteps

-----------------------------------------------------------------------------
(* Who is refused *)

(* The limit was used up within the window before the call. *)
UsedUp(c) ==
    LET k == call[c].key IN
    \E s \in Stores :
       Cardinality(After(granted[s][k], call[c].from - Window[k])) >= Limit[k]

(* What is known of the windows in a step *)
LEMMA WindowsOfNext ==
  ASSUME QuotaInv, FreeTierNext, NEW k \in Keys
  PROVE  /\ RedisStep(k) /\ MemoryStep(k) /\ RedisBound(k)' /\ MemoryBound(k)'
         /\ IsFiniteSet(redis[k]) /\ IsFiniteSet(memory[k])
<1>1. IsFiniteSet(redis[k]) /\ IsFiniteSet(memory[k])
  BY SmallerSet DEF QuotaInv, Numbered, RedisBound, MemoryBound, Stores
<1>2. RedisStep(k) /\ MemoryStep(k)
  BY <1>1, RedisStepOfNext, MemoryStepOfNext DEF QuotaInv
<1> QED BY <1>1, <1>2, RedisBoundNext, MemoryBoundNext DEF QuotaInv

LEMMA PartsOfNext ==
  ASSUME QuotaInv, FreeTierNext
  PROVE  FreeTierTypeOK' /\ Numbered' /\ InTime' /\ Spent'
<1>1. \A k \in Keys : RedisStep(k) /\ MemoryStep(k) /\ IsFiniteSet(redis[k])
  BY WindowsOfNext
<1>2. Numbered'
  BY <1>1, NumberedNext DEF QuotaInv
<1>3. FreeTierTypeOK'
  BY <1>1, QuotaTypesNext DEF QuotaInv
<1> QED BY <1>2, <1>3, InTimeNext, SpentNext DEF QuotaInv

LEMMA GrantedCount ==
  ASSUME QuotaInv, FreeTierNext, NEW k \in Keys, NEW s \in Stores, NEW t
  PROVE  /\ Cardinality(After(granted[s][k], t)) \in Nat
         /\ Cardinality(After(granted'[s][k], t)) \in Nat
         /\ Cardinality(After(granted[s][k], t)) <= Cardinality(After(granted'[s][k], t))
<1>1. granted[s][k] \subseteq granted'[s][k]
  BY WindowsOfNext, GrantedGrows DEF QuotaInv
<1>2. IsFiniteSet(granted'[s][k])
  BY PartsOfNext DEF Numbered
<1>3. IsFiniteSet(After(granted'[s][k], t))
  BY <1>2, SmallerSet DEF After
<1>4. After(granted[s][k], t) \subseteq After(granted'[s][k], t)
  BY <1>1 DEF After
<1> QED BY <1>3, <1>4, SmallerSet

(* What was counted of a window that could be pruned was granted within it. *)
LEMMA CountIsGranted ==
  ASSUME QuotaInv, NEW c \in Calls, call[c].at = "count", call[c].key \notin unpruned
  PROVE  LET k == call[c].key IN
         /\ Cardinality(redis[k]) \in Nat
         /\ Cardinality(After(granted["redis"][k], call[c].from - Window[k])) \in Nat
         /\ Cardinality(redis[k])
               <= Cardinality(After(granted["redis"][k], call[c].from - Window[k]))
<1> DEFINE k == call[c].key
           start == call[c].from - Window[k]
<1>1. k \in Keys
  BY QuotaTypes DEF QuotaInv, Call
<1>2. redis[k] \subseteq granted["redis"][k] /\ IsFiniteSet(granted["redis"][k])
  BY <1>1 DEF QuotaInv, RedisBound, Numbered, Stores
<1>3. \A e \in redis[k] : e[1] > start
  BY DEF QuotaInv, Counted
<1>4. redis[k] \subseteq After(granted["redis"][k], start)
  BY <1>2, <1>3 DEF After
<1>5. IsFiniteSet(After(granted["redis"][k], start))
  BY <1>2, SmallerSet DEF After
<1> QED BY <1>4, <1>5, SmallerSet

LEMMA UsedUpNext ==
  ASSUME QuotaInv, FreeTierNext, NEW c \in Calls,
         call'[c].at = "refused", call'[c].key \notin unpruned'
  PROVE  UsedUp(c)'
<1> DEFINE k == call[c].key
<1>1. /\ call \in [Calls -> Call] /\ k \in Keys /\ call[c].count \in Nat
      /\ Limit[k] \in Nat /\ Window[k] \in Nat /\ now \in Nat
  BY QuotaTypes DEF QuotaInv, Call
<1>2. unpruned \subseteq unpruned'
  BY DEF FreeTierNext, Begin, Prune, Count, ReadOldest, Add, TakeFromMemory, Pass, Answer,
         ReadUsage, Restart, Tick
<1>3. CASE UNCHANGED call[c]
  <2>1. UsedUp(c)
    BY <1>2, <1>3 DEF QuotaInv, RefusedHasUsedUp, UsedUp
  <2>2. PICK s \in Stores :
           Cardinality(After(granted[s][k], call[c].from - Window[k])) >= Limit[k]
    BY <2>1 DEF UsedUp
  <2>3. Cardinality(After(granted'[s][k], call[c].from - Window[k])) >= Limit[k]
    <3>1. /\ Cardinality(After(granted[s][k], call[c].from - Window[k])) \in Nat
          /\ Cardinality(After(granted'[s][k], call[c].from - Window[k])) \in Nat
          /\ Cardinality(After(granted[s][k], call[c].from - Window[k]))
                <= Cardinality(After(granted'[s][k], call[c].from - Window[k]))
      BY <1>1, GrantedCount
    <3> QED BY <1>1, <2>2, <3>1
  <2> QED BY <1>3, <2>3 DEF UsedUp
<1>4. ASSUME NEW s \in Stores, Keeps(c), k \notin unpruned,
             Limit[k] <= Cardinality(After(granted[s][k], call[c].from - Window[k]))
      PROVE  UsedUp(c)'
  <2>1. Cardinality(After(granted'[s][k], call[c].from - Window[k])) >= Limit[k]
    <3>1. /\ Cardinality(After(granted[s][k], call[c].from - Window[k])) \in Nat
          /\ Cardinality(After(granted'[s][k], call[c].from - Window[k])) \in Nat
          /\ Cardinality(After(granted[s][k], call[c].from - Window[k]))
                <= Cardinality(After(granted'[s][k], call[c].from - Window[k]))
      BY <1>1, GrantedCount
    <3> QED BY <1>1, <1>4, <3>1
  <2> QED BY <1>4, <2>1 DEF UsedUp, Keeps
<1>5. CASE Count(c)
  <2>1. Keeps(c) /\ Full(k, Cardinality(redis[k])) /\ k \notin unpruned /\ call[c].at = "count"
    <3>1. FreeTierTypeOK
      BY DEF QuotaInv
    <3>2. Keeps(c) /\ Full(k, Cardinality(redis[k]))
      BY <1>5, <3>1, CallCounts
    <3> QED BY <1>2, <1>5, <3>2 DEF Keeps, Count
  <2>2. Limit[k] <= Cardinality(After(granted["redis"][k], call[c].from - Window[k]))
    BY <1>1, <2>1, CountIsGranted DEF Full
  <2> QED BY <1>4, <2>1, <2>2 DEF Stores
<1>6. CASE ReadOldest(c)
  <2>1. Keeps(c) /\ Full(k, call[c].count) /\ k \notin unpruned /\ call[c].at = "oldest"
    <3>1. FreeTierTypeOK
      BY DEF QuotaInv
    <3>2. Keeps(c) /\ Full(k, call[c].count)
      BY <1>6, <3>1, CallReads
    <3> QED BY <1>2, <1>6, <3>2 DEF Keeps, ReadOldest
  <2>2. call[c].count <= Cardinality(After(granted["redis"][k], call[c].from - Window[k]))
    BY <2>1 DEF QuotaInv, Counted
  <2>3. Cardinality(After(granted["redis"][k], call[c].from - Window[k])) \in Nat
    BY <1>1, GrantedCount DEF Stores
  <2>4. Limit[k] <= Cardinality(After(granted["redis"][k], call[c].from - Window[k]))
    BY <1>1, <2>1, <2>2, <2>3 DEF Full
  <2> QED BY <1>4, <2>1, <2>4 DEF Stores
<1>7. CASE TakeFromMemory(c)
  <2>1. MemoryRefuses(c)
    BY <1>7, MemoryDecides DEF QuotaInv, MemoryGrants
  <2> DEFINE left == After(memory[k], now - Window[k])
  <2>2. call'[c].key = k /\ call'[c].from = now /\ Full(k, Cardinality(left)) /\ UNCHANGED granted
    BY <1>1, <2>1 DEF MemoryRefuses, Call
  <2>3. memory[k] \subseteq granted["memory"][k]
    BY <1>1 DEF QuotaInv, MemoryBound
  <2>4. left \subseteq After(granted["memory"][k], now - Window[k])
    BY <2>3 DEF After
  <2>5. IsFiniteSet(After(granted["memory"][k], now - Window[k]))
    BY <1>1, SmallerSet DEF QuotaInv, Numbered, Stores, After
  <2>6. Cardinality(left) \in Nat
        /\ Cardinality(After(granted["memory"][k], now - Window[k])) \in Nat
        /\ Cardinality(left) <= Cardinality(After(granted["memory"][k], now - Window[k]))
    BY <2>4, <2>5, SmallerSet
  <2>7. Cardinality(After(granted["memory"][k], now - Window[k])) >= Limit[k]
    BY <1>1, <2>2, <2>6 DEF Full
  <2> QED BY <2>2, <2>7 DEF UsedUp, Stores
<1>8. CASE Begin(c) \/ Pass(c) \/ Prune(c) \/ Add(c) \/ Answer(c)
  BY <1>8, CallStarts, CallEnds, CallGoes DEF QuotaInv, Prune
<1>9. CASE call'[c] = NoCall
  BY <1>9 DEF NoCall
<1> QED BY <1>3, <1>5, <1>6, <1>7, <1>8, <1>9, CallSteps DEF QuotaInv, CallDoes

LEMMA CountedNext ==
  ASSUME QuotaInv, FreeTierNext, NEW c \in Calls
  PROVE  Counted(c)'
<1> DEFINE k == call[c].key
           start == call[c].from - Window[k]
<1>1. /\ call \in [Calls -> Call] /\ k \in Keys /\ call[c].from \in 0 .. now /\ now \in Nat
      /\ Window[k] \in Nat /\ Window[k] > 1
      /\ FreeTierTypeOK
  BY QuotaTypes DEF QuotaInv, Call
<1>2. unpruned \subseteq unpruned'
  BY DEF FreeTierNext, Begin, Prune, Count, ReadOldest, Add, TakeFromMemory, Pass, Answer,
         ReadUsage, Restart, Tick
<1>3. CASE UNCHANGED call[c]
  <2> SUFFICES ASSUME k \notin unpruned
               PROVE  /\ call[c].at = "count" => \A e \in redis'[k] : e[1] > start
                      /\ call[c].at = "oldest" =>
                            call[c].count <= Cardinality(After(granted'["redis"][k], start))
    BY <1>2, <1>3 DEF Counted
  <2>1. ASSUME call[c].at = "count", NEW e \in redis'[k] PROVE e[1] > start
    <3>1. e \in redis[k] \/ e[1] \in {now - 1, now}
      BY <1>1, WindowsOfNext, NewIsRecent DEF QuotaInv
    <3>2. e \in redis[k] => e[1] > start
      BY <2>1 DEF QuotaInv, Counted
    <3> QED BY <1>1, <3>1, <3>2
  <2>2. ASSUME call[c].at = "oldest"
        PROVE  call[c].count <= Cardinality(After(granted'["redis"][k], start))
    <3>1. call[c].count <= Cardinality(After(granted["redis"][k], start))
      BY <2>2 DEF QuotaInv, Counted
    <3>2. /\ Cardinality(After(granted["redis"][k], start)) \in Nat
          /\ Cardinality(After(granted'["redis"][k], start)) \in Nat
          /\ Cardinality(After(granted["redis"][k], start))
                <= Cardinality(After(granted'["redis"][k], start))
      BY <1>1, GrantedCount DEF Stores
    <3>3. call[c].count \in Nat
      BY <1>1 DEF Call
    <3> QED BY <3>1, <3>2, <3>3
  <2> QED BY <2>1, <2>2
<1>4. CASE Prune(c)
  <2>1. Keeps(c) /\ call'[c].at = "count"
    BY <1>1, <1>4, CallGoes DEF Prune
  <2>2. k \notin unpruned' => redis' = [redis EXCEPT ![k] = After(redis[k], start)]
    BY <1>4 DEF Prune
  <2>3. k \notin unpruned' => redis'[k] = After(redis[k], start)
    BY <1>1, <2>2 DEF FreeTierTypeOK
  <2>4. k \notin unpruned' => \A e \in redis'[k] : e[1] > start
    BY <2>3 DEF After
  <2> QED BY <2>1, <2>4 DEF Counted, Keeps
<1>5. CASE Count(c)
  <2>1. Keeps(c) /\ call'[c].at # "count"
        /\ (call'[c].at = "oldest" => call'[c].count = Cardinality(redis[k]))
    BY <1>1, <1>5, CallCounts
  <2>2. call[c].at = "count" /\ UNCHANGED <<granted, unpruned>>
    BY <1>5 DEF Count
  <2>3. k \notin unpruned => Cardinality(redis[k]) <= Cardinality(After(granted["redis"][k], start))
    BY <2>2, CountIsGranted
  <2> QED BY <2>1, <2>2, <2>3 DEF Counted, Keeps
<1>6. CASE call'[c].at \notin {"count", "oldest"}
  BY <1>6 DEF Counted
<1>7. ReadOldest(c) => call'[c].at \notin {"count", "oldest"}
  BY <1>1, CallReads
<1>8. Begin(c) \/ Pass(c) \/ Add(c) \/ Answer(c) => call'[c].at \notin {"count", "oldest"}
  BY <1>1, CallStarts, CallEnds
<1>9. TakeFromMemory(c) => call'[c].at \notin {"count", "oldest"}
  <2>1. MemoryRefuses(c) => call'[c].at = "refused"
    BY <1>1 DEF MemoryRefuses, Call
  <2>2. MemoryGrants(c) => call'[c].at \in {"checks", "upstream"}
    BY DEF MemoryGrants
  <2> QED BY <1>1, <2>1, <2>2, MemoryDecides
<1>10. call'[c] = NoCall => call'[c].at \notin {"count", "oldest"}
  BY DEF NoCall
<1> QED BY <1>1, <1>3, <1>4, <1>5, <1>6, <1>7, <1>8, <1>9, <1>10, CallSteps DEF CallDoes

-----------------------------------------------------------------------------
LEMMA QuotaInvInit == FreeTierInit => QuotaInv
<1> SUFFICES ASSUME FreeTierInit PROVE QuotaInv
  OBVIOUS
<1>1. /\ now = 0 /\ unpruned = {} /\ restarts = 0 /\ failures = 0
      /\ \A k \in Keys : redis[k] = {} /\ memory[k] = {} /\ unadded[k] = 0
      /\ \A s \in Stores, k \in Keys : granted[s][k] = {}
      /\ \A c \in Calls : call[c] = NoCall
  BY DEF FreeTierInit, Empty
<1>2. FreeTierTypeOK
  BY TimeAssumption DEF FreeTierTypeOK, FreeTierInit, Empty, Entries, NoCall, Keys, Stores
<1>3. Numbered
  BY <1>1, FS_EmptySet DEF Numbered
<1>4. \A c \in Calls : call[c].at = "idle"
  BY <1>1 DEF NoCall
<1>5. InTime /\ Spent /\ RefusedHasUsedUp /\ \A c \in Calls : Counted(c)
  BY <1>1, <1>4 DEF InTime, LimiterSteps, Spent, RefusedHasUsedUp, Counted
<1>6. ASSUME NEW k \in Keys PROVE RedisBound(k) /\ MemoryBound(k)
  <2>1. Limit[k] \in Nat /\ Limit[k] > 0 /\ Cardinality(Calls) \in Nat
    BY <1>2, QuotaTypes
  <2>2. /\ Recent(redis[k], k) = {} /\ Recent(granted["redis"][k], k) \ redis[k] = {}
        /\ Recent(granted["memory"][k], k) \ memory[k] = {}
    BY <1>1 DEF Recent, After, Stores
  <2>3. Admitted(k) = {}
    BY <1>4 DEF Admitted
  <2>4. Limit[k] * restarts = 0
    BY <1>1, <2>1
  <2>5. /\ Cardinality(Recent(redis[k], k)) = 0 /\ Cardinality(Admitted(k)) = 0
        /\ Cardinality(Recent(granted["redis"][k], k) \ redis[k]) = 0
        /\ Cardinality(Recent(granted["memory"][k], k) \ memory[k]) = 0
        /\ Cardinality(memory[k]) = 0
    BY <1>1, <2>2, <2>3, FS_EmptySet
  <2>6. RedisBound(k)
    BY <1>1, <2>1, <2>5 DEF RedisBound
  <2>7. MemoryBound(k)
    BY <1>1, <2>1, <2>4, <2>5 DEF MemoryBound
  <2> QED BY <2>6, <2>7
<1> QED BY <1>2, <1>3, <1>5, <1>6 DEF QuotaInv

LEMMA QuotaInvNext == QuotaInv /\ [FreeTierNext]_freeTierVars => QuotaInv'
<1>1. ASSUME QuotaInv, FreeTierNext PROVE QuotaInv'
  <2>1. \A k \in Keys : RedisBound(k)' /\ MemoryBound(k)'
    BY <1>1, WindowsOfNext
  <2>2. \A c \in Calls : Counted(c)'
    BY <1>1, CountedNext
  <2>3. RefusedHasUsedUp'
    BY <1>1, UsedUpNext DEF RefusedHasUsedUp, UsedUp
  <2>4. FreeTierTypeOK' /\ Numbered' /\ InTime' /\ Spent'
    BY <1>1, PartsOfNext
  <2> QED BY <2>1, <2>2, <2>3, <2>4 DEF QuotaInv
<1>2. ASSUME QuotaInv, UNCHANGED freeTierVars PROVE QuotaInv'
  <2> USE <1>2 DEF freeTierVars
  <2>1. FreeTierTypeOK'
    BY DEF QuotaInv, FreeTierTypeOK, Entries
  <2>2. Numbered' /\ InTime' /\ Spent'
    BY DEF QuotaInv, Numbered, InTime, Spent
  <2>3. \A k \in Keys : Recent(redis[k], k)' = Recent(redis[k], k) /\ Admitted(k)' = Admitted(k)
    BY DEF Recent, Admitted
  <2>4. \A k \in Keys : RedisBound(k)' /\ MemoryBound(k)'
    BY <2>3 DEF QuotaInv, RedisBound, MemoryBound, Recent
  <2>5. RefusedHasUsedUp' /\ \A c \in Calls : Counted(c)'
    BY DEF QuotaInv, RefusedHasUsedUp, Counted
  <2> QED BY <2>1, <2>2, <2>4, <2>5 DEF QuotaInv
<1> QED BY <1>1, <1>2

LEMMA QuotaInvAlways == FreeTierSpec => []QuotaInv
BY QuotaInvInit, QuotaInvNext, PTL DEF FreeTierSpec

(* The clock, the windows, the calls and the histories have their types, and no  *)
(* window holds an entry from the future (freeTierLimiter.ts).                   *)
THEOREM QuotaTypesCorrect == FreeTierSpec => []FreeTierTypeOK
<1>1. QuotaInv => FreeTierTypeOK
  BY DEF QuotaInv
<1> QED BY <1>1, QuotaInvAlways, PTL

(* For any limits, any windows of more than a second and any number of calls at  *)
(* a time: the slots granted within a window exceed its limit at most by the     *)
(* other calls in progress and the insertions that failed; those of the memory   *)
(* are at most a limit for each start of the API (checkAndIncrement).            *)
THEOREM QuotaSafety == FreeTierSpec => []QuotaIsBounded
<1>1. QuotaInv => QuotaIsBounded
  <2> SUFFICES ASSUME QuotaInv, NEW k \in Keys
               PROVE  /\ Cardinality(Recent(granted["redis"][k], k))
                            <= Limit[k] + (Cardinality(Calls) - 1) + unadded[k]
                      /\ Cardinality(Recent(granted["memory"][k], k)) <= Limit[k] * (1 + restarts)
    BY DEF QuotaIsBounded, Recent
  <2>1. /\ RedisBound(k) /\ MemoryBound(k)
        /\ Limit[k] \in Nat /\ unadded[k] \in Nat /\ restarts \in Nat /\ Cardinality(Calls) \in Nat
        /\ Limit[k] * restarts \in Nat /\ Limit[k] * (1 + restarts) = Limit[k] + Limit[k] * restarts
    BY QuotaTypes DEF QuotaInv
  <2>2. \A s \in Stores : IsFiniteSet(Recent(granted[s][k], k))
    BY SmallerSet DEF QuotaInv, Numbered, Recent, After
  <2>3. IsFiniteSet(redis[k]) /\ IsFiniteSet(memory[k]) /\ IsFiniteSet(Recent(redis[k], k))
    BY <2>1, SmallerSet DEF QuotaInv, Numbered, RedisBound, MemoryBound, Recent, After, Stores
  <2>4. Cardinality(Recent(granted["redis"][k], k))
           <= Limit[k] + (Cardinality(Calls) - 1) + unadded[k]
    <3> DEFINE G == Recent(granted["redis"][k], k)
    <3>1. IsFiniteSet(G) /\ G \ Recent(redis[k], k) = G \ redis[k]
      BY <2>2 DEF Recent, After, Stores
    <3>2. /\ Cardinality(G) \in Nat /\ Cardinality(Recent(redis[k], k)) \in Nat
          /\ Cardinality(G \ redis[k]) \in Nat
          /\ Cardinality(G) <= Cardinality(Recent(redis[k], k)) + Cardinality(G \ redis[k])
      BY <2>3, <3>1, TwoParts
    <3>3. Cardinality(Admitted(k)) \in Nat
      BY CallAssumption, SmallerSet DEF Admitted
    <3> QED BY <2>1, <3>2, <3>3 DEF RedisBound
  <2>5. Cardinality(Recent(granted["memory"][k], k)) <= Limit[k] * (1 + restarts)
    <3> DEFINE G == Recent(granted["memory"][k], k)
    <3>1. /\ Cardinality(G) \in Nat /\ Cardinality(memory[k]) \in Nat
          /\ Cardinality(G \ memory[k]) \in Nat
          /\ Cardinality(G) <= Cardinality(memory[k]) + Cardinality(G \ memory[k])
      BY <2>2, <2>3, TwoParts DEF Stores
    <3> QED BY <2>1, <3>1 DEF MemoryBound
  <2> QED BY <2>4, <2>5
<1> QED BY <1>1, QuotaInvAlways, PTL

(* Whoever is refused used up the limit within the window before the call, by    *)
(* slots of the store that refused, unless the window could not be pruned        *)
(* (checkAndIncrement, checkIpRateLimit).                                        *)
THEOREM RefusalSafety == FreeTierSpec => []RefusedHasUsedUp
<1>1. QuotaInv => RefusedHasUsedUp
  BY DEF QuotaInv
<1> QED BY <1>1, QuotaInvAlways, PTL
=============================================================================
