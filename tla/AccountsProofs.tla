--------------------------- MODULE AccountsProofs ---------------------------
(***************************************************************************)
(* Accounts, for any number of requests, sign-ups, customers, payments and *)
(* failures: who is granted synchronisation has an active account, active  *)
(* accounts stay, rows belong to who paid, and an account that was         *)
(* activated has its entitlement or an event that will bring it.           *)
(***************************************************************************)
EXTENDS Accounts, TLAPS

CheckoutSteps == {"find customer", "create customer", "put customer", "read customer", "open checkout"}
StoreSteps == {"put subscription", "read subscription", "put entitlement"}
EventSteps == {"find user", "find subscriber", "activate", "respond"} \cup StoreSteps
CleanUpSteps == {"drop customer", "drop subscriptions", "drop entitlement", "drop user"}
Steps == {"idle"} \cup CheckoutSteps \cup EventSteps \cup CleanUpSteps

Request == [at : Steps, user : 0 .. MaxSignups, payer : Nat, customer : Nat,
            event : Events \cup {NoEvent}, ids : SUBSET UserIds]
Payment == [user : UserIds, customer : Nat]
SubscriptionRow == [user : 0 .. MaxSignups, status : Statuses \cup {"none"}]

\* Type invariant.
AccountsTypeOK ==
    /\ users \in [UserIds -> {"none", "pending", "overdue", "active"}]
    /\ customers \in [UserIds -> Nat]
    /\ subscriptions \in [SubscriptionIds -> SubscriptionRow]
    /\ entitlements \in [UserIds -> Statuses \cup {"none"}]
    /\ requests \in [Requests -> Request]
    /\ paying \in Seq(Payment) /\ Len(paying) <= MaxSubscriptions /\ checkouts \subseteq Payment
    /\ unacknowledged \subseteq Events /\ issued \in Seq(Nat)
    /\ signups \in 0 .. MaxSignups /\ person \in [UserIds -> Nat]
    /\ overtaken \subseteq UserIds /\ failures \in Nat

(***************************************************************************)
(* Ids: rows and requests are about accounts that have been created, and   *)
(* what is gone has no rows.                                               *)
(***************************************************************************)
Signed == 1 .. signups
AboutUser == CheckoutSteps \cup {"activate", "respond"} \cup StoreSteps

IdsOfAccounts ==
    /\ \A u \in Signed : person[u] = u
    /\ \A u \in UserIds : u > signups => users[u] = "none"
    /\ \A u \in UserIds : users[u] = "none" => entitlements[u] = "none" /\ customers[u] = 0
    /\ \A s \in SubscriptionIds : subscriptions[s].user <= signups

IdsOfPayments ==
    /\ \A i \in DOMAIN paying : paying[i].user \in Signed
    /\ \A k \in checkouts : k.user \in Signed

(***************************************************************************)
(* Who a customer was created for.                                         *)
(***************************************************************************)
Owns(u, c) == c \in DOMAIN issued /\ issued[c] = person[u]

PaymentsBelong ==
    /\ \A i \in DOMAIN paying : Owns(paying[i].user, paying[i].customer)
    /\ \A k \in checkouts : Owns(k.user, k.customer)
    /\ \A e \in unacknowledged : e.sub \in DOMAIN paying

RowsBelong ==
    /\ \A u \in UserIds : customers[u] # 0 => Owns(u, customers[u])
    /\ \A s \in SubscriptionIds : subscriptions[s].user # 0 =>
          s \in DOMAIN paying /\ Owns(subscriptions[s].user, paying[s].customer)

CarriesEvent(q) == q.event.sub \in DOMAIN paying /\ q.customer = paying[q.event.sub].customer

(***************************************************************************)
(* A request works for a user who signed up, with a customer of theirs;    *)
(* from "activate" on it has an event.                                     *)
(***************************************************************************)
Early == {"find customer", "create customer"}

RequestOK(q) ==
    /\ q.at \in AboutUser => q.user \in Signed
    /\ q.at \in Early => q.payer = person[q.user] /\ q.event = NoEvent
    /\ q.at \in AboutUser \ Early => Owns(q.user, q.customer)
    /\ q.event # NoEvent => CarriesEvent(q)
    /\ q.at \in EventSteps => q.event # NoEvent
    /\ q.at \in StoreSteps => q.event.says # "linked"
    /\ q.at = "activate" => q.event.says = "active"
    /\ q.at \in CleanUpSteps => q.user \in q.ids

RequestsOK == \A r \in Requests : RequestOK(requests[r])

(***************************************************************************)
(* Activation comes first.                                                 *)
(***************************************************************************)
ActivatedBefore ==
    \A r \in Requests :
       requests[r].at \in StoreSteps /\ requests[r].event.says = "active" =>
          users[requests[r].user] \in {"active", "none"}

(***************************************************************************)
(* An event that reports a payment stays until nothing needs it any more.  *)
(***************************************************************************)
Settled(u) ==
    \/ users[u] = "none"
    \/ u \in overtaken
    \/ users[u] = "active" /\ entitlements[u] # "none"

HeldAreUnpaid ==
    \A r \in Requests : \A u \in requests[r].ids : users[u] = "active" => u \in overtaken

EventsAreKept ==
    \A r \in Requests :
       LET e == requests[r].event IN
       e.says = "active" =>
          /\ e \in unacknowledged \/ Settled(paying[e.sub].user)
          /\ requests[r].at = "respond" => Settled(paying[e.sub].user)

Inv ==
    /\ AccountsTypeOK
    /\ IdsOfAccounts /\ IdsOfPayments
    /\ PaymentsBelong /\ RowsBelong /\ RequestsOK
    /\ ActivatedBefore /\ GrantedAccountsAreActive
    /\ HeldAreUnpaid /\ EventsAreKept /\ ActiveIsGrantedOrRetried

-----------------------------------------------------------------------------
(* Requests *)

LEMMA IdsInRange == 0 \in 0 .. MaxSignups /\ \A u \in UserIds : u \in 0 .. MaxSignups
BY AccountsAssumption DEF UserIds

LEMMA IdleType ==
    /\ Idle \in Request
    /\ Idle.at = "idle" /\ Idle.user = 0 /\ Idle.event = NoEvent /\ Idle.ids = {}
BY IdsInRange DEF Idle, Request, Steps

LEMMA WantsFacts ==
    ASSUME NEW u \in UserIds, NEW who \in Nat
    PROVE  /\ Wants(u, who) \in Request
           /\ Wants(u, who).at = "find customer" /\ Wants(u, who).user = u /\ Wants(u, who).payer = who
           /\ Wants(u, who).event = NoEvent /\ Wants(u, who).ids = {}
<1>1. u \in 0 .. MaxSignups
    BY IdsInRange
<1>2. Wants(u, who) \in Request
    BY <1>1, IdleType DEF Wants, Request, Steps, CheckoutSteps
<1> QED  BY <1>1, <1>2, IdleType DEF Wants, Request

LEMMA EndsFacts ==
    ASSUME NEW r \in Requests, requests \in [Requests -> Request], Ends(r)
    PROVE  /\ requests' \in [Requests -> Request]
           /\ requests'[r] = Idle
           /\ \A q \in Requests \ {r} : requests'[q] = requests[q]
BY IdleType DEF Ends

LEMMA MovesFacts ==
    ASSUME NEW r \in Requests, requests \in [Requests -> Request], NEW step \in Steps, Moves(r, step)
    PROVE  /\ requests' \in [Requests -> Request]
           /\ requests'[r].at = step
           /\ requests'[r].user = requests[r].user
           /\ requests'[r].payer = requests[r].payer
           /\ requests'[r].customer = requests[r].customer
           /\ requests'[r].event = requests[r].event
           /\ requests'[r].ids = requests[r].ids
           /\ \A q \in Requests \ {r} : requests'[q] = requests[q]
BY DEF Moves, Request

LEMMA DeliverFacts ==
    ASSUME Inv, NEW r \in Requests, NEW e \in Events, Deliver(r, e)
    PROVE  /\ e.sub \in DOMAIN paying
           /\ requests' \in [Requests -> Request]
           /\ requests'[r].at = IF e.named THEN "put customer" ELSE "find user"
           /\ e.named => requests'[r].user = paying[e.sub].user
           /\ requests'[r].customer = paying[e.sub].customer
           /\ requests'[r].event = e /\ requests'[r].ids = {}
           /\ \A q \in Requests \ {r} : requests'[q] = requests[q]
<1>1. e.sub \in DOMAIN paying /\ e \in Events \cup {NoEvent}
    BY DEF Inv, PaymentsBelong, Deliver
<1>2. paying[e.sub] \in Payment
    BY <1>1 DEF Inv, AccountsTypeOK
<1> DEFINE step == IF e.named THEN "put customer" ELSE "find user"
           u == IF e.named THEN paying[e.sub].user ELSE 0
           c == paying[e.sub].customer
           q == [Idle EXCEPT !.at = step, !.event = e, !.user = u, !.customer = c]
<1>3. requests' = [requests EXCEPT ![r] = q]
    BY DEF Deliver
<1>4. step \in Steps /\ u \in 0 .. MaxSignups /\ c \in Nat
    BY <1>2, IdsInRange DEF Steps, CheckoutSteps, EventSteps, Payment
<1>5. e.named => u = paying[e.sub].user
    OBVIOUS
<1> HIDE DEF step, u, c
<1>6. q \in Request /\ q.at = step /\ q.user = u /\ q.customer = c /\ q.event = e /\ q.ids = {}
    BY <1>1, <1>4, IdleType DEF Request
<1> HIDE DEF q
<1>7. /\ requests' \in [Requests -> Request] /\ requests'[r] = q
      /\ \A p \in Requests \ {r} : requests'[p] = requests[p]
    BY <1>3, <1>6 DEF Inv, AccountsTypeOK
<1> QED  BY <1>1, <1>5, <1>6, <1>7 DEF step, c

LEMMA ResolvedFacts ==
    ASSUME Inv, NEW r \in Requests, NEW u \in UserIds,
           requests' = [requests EXCEPT ![r].at = "put customer", ![r].user = u]
    PROVE  /\ requests' \in [Requests -> Request]
           /\ requests'[r].at = "put customer"
           /\ requests'[r].user = u
           /\ requests'[r].customer = requests[r].customer
           /\ requests'[r].event = requests[r].event
           /\ requests'[r].ids = requests[r].ids
           /\ \A q \in Requests \ {r} : requests'[q] = requests[q]
<1>1. u \in 0 .. MaxSignups /\ requests \in [Requests -> Request]
    BY IdsInRange DEF Inv, AccountsTypeOK
<1> QED  BY <1>1 DEF Request, Steps, CheckoutSteps

LEMMA GoesOnFacts ==
    ASSUME NEW r \in Requests, requests \in [Requests -> Request], NEW ids \in SUBSET UserIds,
           GoesOnWith(r, ids)
    PROVE  /\ requests' \in [Requests -> Request]
           /\ requests'[r].ids = ids
           /\ requests'[r].event = NoEvent
           /\ \/ requests'[r].at = "idle"
              \/ requests'[r].at = "drop customer" /\ requests'[r].user \in ids
           /\ \A q \in Requests \ {r} : requests'[q] = requests[q]
<1>1. CASE ids = {} /\ Ends(r)
    BY <1>1, EndsFacts DEF Idle
<1>2. ASSUME NEW u \in ids, requests' = [requests EXCEPT ![r] =
                  [Idle EXCEPT !.at = "drop customer", !.user = u, !.ids = ids]]
      PROVE  /\ requests' \in [Requests -> Request]
             /\ requests'[r].ids = ids
             /\ requests'[r].event = NoEvent
             /\ requests'[r].at = "drop customer" /\ requests'[r].user \in ids
             /\ \A q \in Requests \ {r} : requests'[q] = requests[q]
    <2> DEFINE q == [Idle EXCEPT !.at = "drop customer", !.user = u, !.ids = ids]
    <2>1. u \in 0 .. MaxSignups
        BY IdsInRange
    <2>2. q \in Request /\ q.at = "drop customer" /\ q.user = u /\ q.ids = ids /\ q.event = NoEvent
        BY <2>1, IdleType DEF Request, Steps, CleanUpSteps
    <2> HIDE DEF q
    <2>3. /\ requests' \in [Requests -> Request] /\ requests'[r] = q
          /\ \A p \in Requests \ {r} : requests'[p] = requests[p]
        <3>1. requests' = [requests EXCEPT ![r] = q]
            BY <1>2 DEF q
        <3> QED  BY <2>2, <3>1
    <2> QED  BY <2>2, <2>3
<1> QED  BY <1>1, <1>2 DEF GoesOnWith

LEMMA FoundFacts ==
    ASSUME NEW r \in Requests, requests \in [Requests -> Request], NEW c \in Nat,
           NEW step \in Steps, requests' = [requests EXCEPT ![r].at = step, ![r].customer = c]
    PROVE  /\ requests' \in [Requests -> Request]
           /\ requests'[r].at = step
           /\ requests'[r].user = requests[r].user
           /\ requests'[r].payer = requests[r].payer
           /\ requests'[r].customer = c
           /\ requests'[r].event = requests[r].event
           /\ requests'[r].ids = requests[r].ids
           /\ \A q \in Requests \ {r} : requests'[q] = requests[q]
BY DEF Request

LEMMA AppendFacts ==
    ASSUME NEW S, NEW s \in Seq(S), NEW x \in S
    PROVE  /\ Append(s, x) \in Seq(S) /\ Len(s) \in Nat /\ Len(Append(s, x)) = Len(s) + 1
           /\ Len(s) + 1 \in DOMAIN Append(s, x) /\ Append(s, x)[Len(s) + 1] = x
           /\ \A i \in DOMAIN Append(s, x) : i \in DOMAIN s \/ i = Len(s) + 1
           /\ \A i \in DOMAIN s : i # Len(s) + 1 /\ i \in DOMAIN Append(s, x) /\ Append(s, x)[i] = s[i]
OBVIOUS

LEMMA StepsNamed ==
    /\ CheckoutSteps \subseteq Steps /\ EventSteps \subseteq Steps /\ CleanUpSteps \subseteq Steps
    /\ {"create customer", "open checkout", "put customer", "read customer", "find subscriber",
        "respond", "activate", "put subscription", "read subscription", "put entitlement",
        "drop subscriptions", "drop entitlement", "drop user"} \subseteq Steps
BY DEF Steps, CheckoutSteps, EventSteps, StoreSteps, CleanUpSteps

LEMMA WithCustomerType == \A r : WithCustomer(r) \in {"open checkout", "respond", "activate", "put subscription"}
BY DEF WithCustomer

LEMMA WithCustomerFacts ==
    ASSUME NEW r, WithCustomer(r) # "open checkout"
    PROVE  /\ requests[r].event # NoEvent
           /\ WithCustomer(r) = "respond" => requests[r].event.says = "linked"
           /\ WithCustomer(r) = "activate" => requests[r].event.says = "active"
           /\ WithCustomer(r) = "put subscription" => requests[r].event.says \notin {"linked", "active"}
<1> DEFINE e == requests[r].event
<1>1. CASE e = NoEvent
    BY <1>1 DEF WithCustomer, NoEvent
<1>2. CASE e # NoEvent /\ e.says = "linked"
    BY <1>2 DEF WithCustomer
<1>3. CASE e # NoEvent /\ e.says = "active"
    BY <1>3 DEF WithCustomer
<1>4. CASE e # NoEvent /\ e.says \notin {"linked", "active"}
    BY <1>4 DEF WithCustomer
<1> QED  BY <1>1, <1>2, <1>3, <1>4

\* Requests work for accounts that exist or existed.
LEMMA WorkedFor ==
    ASSUME Inv, NEW r \in Requests
    PROVE  /\ Signed \subseteq UserIds
           /\ requests[r].at \in AboutUser => requests[r].user \in Signed
           /\ requests[r].at \in AboutUser => requests[r].user \in UserIds
<1>1. signups \in 0 .. MaxSignups
    BY DEF Inv, AccountsTypeOK
<1>2. Signed \subseteq UserIds
    BY <1>1, AccountsAssumption DEF Signed, UserIds
<1> QED  BY <1>2 DEF Inv, RequestsOK, RequestOK

LEMMA AboutUserSteps ==
    {"find customer", "create customer", "put customer", "read customer", "open checkout",
     "activate", "respond", "put subscription", "read subscription", "put entitlement"} = AboutUser
BY DEF AboutUser, CheckoutSteps, StoreSteps

-----------------------------------------------------------------------------
(* Types *)

LEMMA TypeInit == AccountsInit => AccountsTypeOK
<1> SUFFICES ASSUME AccountsInit  PROVE AccountsTypeOK
    OBVIOUS
<1>1. NoRow \in SubscriptionRow
    BY IdsInRange DEF NoRow, SubscriptionRow
<1> QED  BY AccountsAssumption, IdleType, <1>1 DEF AccountsInit, AccountsTypeOK, UserIds

LEMMA TypeCheckout ==
    ASSUME Inv, NEW r \in Requests, Checkout(r)
    PROVE  AccountsTypeOK'
<1> USE DEF Inv
<1>1. CASE SignUp(r)
    <2>1. NextId \in UserIds /\ signups + 1 \in 0 .. MaxSignups
        BY <1>1, AccountsAssumption DEF SignUp, AccountsTypeOK, NextId, UserIds
    <2>2. Wants(NextId, signups + 1) \in Request
        <3>1. signups + 1 \in Nat
            BY <2>1, AccountsAssumption
        <3> HIDE DEF Inv
        <3> QED  BY <2>1, <3>1, WantsFacts
    <2> QED  BY <1>1, <2>1, <2>2 DEF SignUp, AccountsTypeOK, provider
<1>2. CASE StartCheckout(r)
    <2>1. PICK u \in UserIds : requests' = [requests EXCEPT ![r] = Wants(u, person[u])]
        BY <1>2 DEF StartCheckout
    <2>2. Wants(u, person[u]) \in Request
        BY WantsFacts DEF AccountsTypeOK
    <2> QED  BY <1>2, <2>1, <2>2 DEF StartCheckout, AccountsTypeOK, tables, provider, history
<1>3. CASE FindCustomer(r)
    <2>1. requests[r].user \in UserIds
        BY <1>3, WorkedFor, AboutUserSteps DEF FindCustomer, At
    <2>2. requests' \in [Requests -> Request]
        BY <1>3, <2>1, MovesFacts, FoundFacts, StepsNamed DEF FindCustomer, AccountsTypeOK
    <2> QED  BY <1>3, <2>2 DEF FindCustomer, AccountsTypeOK, tables, provider, history
<1>4. CASE CreateCustomer(r)
    <2>1. CASE Len(issued) < MaxCustomers
        <3>1. requests[r].payer \in Nat /\ Len(issued) + 1 \in Nat /\ requests \in [Requests -> Request]
            BY DEF AccountsTypeOK, Request
        <3>2. requests' \in [Requests -> Request]
            BY <1>4, <2>1, <3>1, FoundFacts, StepsNamed DEF CreateCustomer
        <3>3. issued' \in Seq(Nat)
            <4>1. issued \in Seq(Nat) /\ issued' = Append(issued, requests[r].payer)
                BY <1>4, <2>1 DEF CreateCustomer, AccountsTypeOK
            <4> QED  BY <3>1, <4>1
        <3> QED  BY <1>4, <2>1, <3>2, <3>3 DEF CreateCustomer, AccountsTypeOK, tables, history
    <2>2. CASE ~ (Len(issued) < MaxCustomers)
        BY <1>4, <2>2, EndsFacts DEF CreateCustomer, Rejects, AccountsTypeOK, tables, provider, history
    <2> QED  BY <2>1, <2>2
<1>5. CASE OpenCheckout(r)
    <2>1. [user |-> requests[r].user, customer |-> requests[r].customer] \in Payment
        BY <1>5, WorkedFor, AboutUserSteps DEF OpenCheckout, At, AccountsTypeOK, Payment, Request
    <2> QED  BY <1>5, <2>1, EndsFacts DEF OpenCheckout, AccountsTypeOK, tables, history
<1> QED  BY <1>1, <1>2, <1>3, <1>4, <1>5 DEF Checkout

LEMMA TypeWebhook ==
    ASSUME Inv, NEW r \in Requests, Webhook(r)
    PROVE  AccountsTypeOK'
<1> USE DEF Inv
<1>0. requests \in [Requests -> Request] /\ requests[r].user \in 0 .. MaxSignups
      /\ requests[r].customer \in Nat /\ requests[r].event \in Events \cup {NoEvent}
    BY DEF AccountsTypeOK, Request
<1>1. CASE Rejects(r) /\ UNCHANGED history
    BY <1>0, <1>1, EndsFacts DEF Rejects, AccountsTypeOK, tables, provider, history
<1>2. ASSUME NEW u \in UserIds, requests' = [requests EXCEPT ![r].at = "put customer", ![r].user = u],
             UNCHANGED <<tables, provider, history>>
      PROVE  AccountsTypeOK'
    BY <1>2, ResolvedFacts DEF AccountsTypeOK, tables, provider, history
<1>3. ASSUME NEW step \in Steps, Moves(r, step), UNCHANGED <<tables, provider, history>>
      PROVE  AccountsTypeOK'
    BY <1>0, <1>3, MovesFacts DEF AccountsTypeOK, tables, provider, history
<1>4. CASE FindByCustomer(r)
    BY <1>2, <1>3, <1>4, StepsNamed DEF FindByCustomer, Resolves, Customers
<1>5. CASE FindBySubscription(r)
    <2>1. requests[r].event.sub \in SubscriptionIds
        BY <1>0, <1>5 DEF FindBySubscription, At, RequestsOK, RequestOK, EventSteps, Events
    <2>2. Subscriber(requests[r].event.sub) \subseteq UserIds
        BY <2>1, AccountsAssumption DEF Subscriber, AccountsTypeOK, SubscriptionRow, UserIds
    <2> QED  BY <1>1, <1>2, <1>5, <2>2 DEF FindBySubscription, Resolves
<1>6. CASE PutCustomer(r)
    <2>1. CASE Moves(r, "read customer")
        BY <1>0, <1>1, <1>6, <2>1, MovesFacts, StepsNamed
        DEF PutCustomer, AccountsTypeOK, provider, history
    <2> QED  BY <1>1, <1>6, <2>1 DEF PutCustomer
<1>7. CASE ReadCustomer(r)
    BY <1>1, <1>3, <1>7, WithCustomerType, StepsNamed DEF ReadCustomer
<1>8. CASE Activate(r)
    <2>1. requests[r].user \in UserIds
        BY <1>8, WorkedFor, AboutUserSteps DEF Activate, At
    <2>2. requests' \in [Requests -> Request]
        BY <1>0, <1>8, MovesFacts, StepsNamed DEF Activate
    <2> QED  BY <1>8, <2>1, <2>2 DEF Activate, Activated, AccountsTypeOK, provider
<1>9. CASE PutSubscription(r)
    <2>1. requests[r].event.says \in Statuses
        BY <1>0, <1>9 DEF PutSubscription, At, RequestsOK, RequestOK, EventSteps, StoreSteps, Events
    <2>2. CASE Moves(r, "read subscription")
        <3>1. [user |-> requests[r].user, status |-> requests[r].event.says] \in SubscriptionRow
            BY <1>0, <2>1 DEF SubscriptionRow
        <3>2. requests' \in [Requests -> Request]
            BY <1>0, <2>2, MovesFacts, StepsNamed
        <3> QED  BY <1>1, <1>9, <3>1, <3>2 DEF PutSubscription, AccountsTypeOK, provider, history
    <2> QED  BY <1>1, <1>9, <2>2 DEF PutSubscription
<1>10. CASE ReadSubscription(r)
    BY <1>1, <1>3, <1>10, StepsNamed DEF ReadSubscription
<1>11. CASE PutEntitlement(r)
    <2>1. requests[r].event.says \in Statuses
        BY <1>0, <1>11 DEF PutEntitlement, At, RequestsOK, RequestOK, EventSteps, StoreSteps, Events
    <2>2. CASE Moves(r, "respond")
        <3>1. requests' \in [Requests -> Request]
            BY <1>0, <2>2, MovesFacts, StepsNamed
        <3> QED  BY <1>1, <1>11, <2>1, <3>1 DEF PutEntitlement, AccountsTypeOK, provider, history
    <2> QED  BY <1>1, <1>11, <2>2 DEF PutEntitlement
<1>12. CASE Respond(r)
    BY <1>0, <1>12, EndsFacts DEF Respond, AccountsTypeOK, tables, history
<1> QED  BY <1>4, <1>5, <1>6, <1>7, <1>8, <1>9, <1>10, <1>11, <1>12 DEF Webhook

LEMMA TypeCleanUp ==
    ASSUME Inv, NEW r \in Requests, CleanUp(r) \/ Fail(r)
    PROVE  AccountsTypeOK'
<1> USE DEF Inv
<1>0. requests \in [Requests -> Request] /\ requests[r].ids \subseteq UserIds
    BY DEF AccountsTypeOK, Request
<1>1. NoRow \in SubscriptionRow
    BY IdsInRange DEF NoRow, SubscriptionRow
<1>2. \A u : Without(u, subscriptions) \in [SubscriptionIds -> SubscriptionRow]
    BY <1>1 DEF Without, AccountsTypeOK
<1>3. CASE StartCleanUp(r)
    BY <1>0, <1>3, GoesOnFacts DEF StartCleanUp, Overdue, AccountsTypeOK, tables, provider, history
<1>4. CASE DropCustomer(r)
    BY <1>0, <1>4, MovesFacts, StepsNamed DEF DropCustomer, AccountsTypeOK, provider, history
<1>5. CASE DropSubscriptions(r)
    BY <1>0, <1>2, <1>5, MovesFacts, StepsNamed DEF DropSubscriptions, AccountsTypeOK, provider, history
<1>6. CASE DropEntitlement(r)
    BY <1>0, <1>6, MovesFacts, StepsNamed DEF DropEntitlement, AccountsTypeOK, provider, history
<1>7. CASE DropUser(r)
    <2>1. requests' \in [Requests -> Request]
        BY <1>0, <1>7, GoesOnFacts DEF DropUser
    <2>2. CASE Unpaid(requests[r].user)
        <3>1. /\ users' = [users EXCEPT ![requests[r].user] = "none"]
              /\ customers' = [customers EXCEPT ![requests[r].user] = 0]
              /\ subscriptions' = Without(requests[r].user, subscriptions)
              /\ entitlements' = [entitlements EXCEPT ![requests[r].user] = "none"]
            BY <1>7, <2>2 DEF DropUser
        <3> QED  BY <1>2, <1>7, <2>1, <3>1 DEF DropUser, AccountsTypeOK, provider, history
    <2>3. CASE ~ Unpaid(requests[r].user)
        BY <1>7, <2>1, <2>3 DEF DropUser, AccountsTypeOK, tables, provider, history
    <2> QED  BY <2>2, <2>3
<1>8. CASE Fail(r)
    BY <1>0, <1>8, EndsFacts DEF Fail, Rejects, AccountsTypeOK, tables, provider
<1> QED  BY <1>3, <1>4, <1>5, <1>6, <1>7, <1>8 DEF CleanUp

LEMMA TypeProvider ==
    ASSUME Inv, Expire \/ Pay \/ Notify
    PROVE  AccountsTypeOK'
<1> USE DEF Inv
<1>1. CASE Expire
    BY <1>1 DEF Expire, AccountsTypeOK, provider, history
<1>2. CASE Pay
    <2>1. PICK k \in checkouts :
              /\ paying' = Append(paying, k)
              /\ checkouts' = IF Len(paying') = MaxSubscriptions THEN {} ELSE checkouts \ {k}
              /\ unacknowledged' = unacknowledged \cup
                    {[sub |-> Len(paying) + 1, says |-> "linked", named |-> TRUE],
                     [sub |-> Len(paying) + 1, says |-> "active", named |-> TRUE]}
        BY <1>2 DEF Pay
    <2>2. Len(paying) + 1 \in SubscriptionIds
        BY <1>2, AccountsAssumption DEF Pay, AccountsTypeOK, SubscriptionIds
    <2>3. /\ paying' \in Seq(Payment) /\ checkouts' \subseteq Payment
          /\ Len(paying') <= MaxSubscriptions
        <3>1. paying \in Seq(Payment) /\ k \in Payment /\ checkouts \subseteq Payment
              /\ Len(paying) < MaxSubscriptions /\ Len(paying) \in Nat
            BY <1>2 DEF Pay, AccountsTypeOK
        <3>2. paying' \in Seq(Payment) /\ Len(paying') = Len(paying) + 1
            BY <2>1, <3>1
        <3> QED  BY <2>1, <3>1, <3>2, AccountsAssumption
    <2>4. /\ [sub |-> Len(paying) + 1, says |-> "linked", named |-> TRUE] \in Events
          /\ [sub |-> Len(paying) + 1, says |-> "active", named |-> TRUE] \in Events
        BY <2>2 DEF Events, Statuses
    <2>5. unacknowledged' \subseteq Events
        BY <2>1, <2>4 DEF AccountsTypeOK
    <2> QED  BY <1>2, <2>3, <2>5 DEF Pay, AccountsTypeOK, tables, history
<1>3. CASE Notify
    <2>1. PICK s \in DOMAIN paying, n \in Notices :
              unacknowledged' = unacknowledged \cup {[sub |-> s, says |-> n[1], named |-> n[2]]}
        BY <1>3 DEF Notify
    <2>2. s \in SubscriptionIds
        <3>1. paying \in Seq(Payment) /\ Len(paying) <= MaxSubscriptions
            BY DEF AccountsTypeOK
        <3>2. s \in 1 .. Len(paying) /\ Len(paying) \in Nat
            BY <3>1
        <3> QED  BY <3>1, <3>2, AccountsAssumption DEF SubscriptionIds
    <2>3. n[1] \in {"linked"} \cup Statuses /\ n[2] \in BOOLEAN
        BY AccountsAssumption DEF Statuses
    <2>4. unacknowledged' \subseteq Events
        BY <2>1, <2>2, <2>3 DEF AccountsTypeOK, Events
    <2> QED  BY <1>3, <2>4 DEF Notify, AccountsTypeOK, tables, history
<1> QED  BY <1>1, <1>2, <1>3

LEMMA TypeDeliver ==
    ASSUME Inv, NEW r \in Requests, NEW e \in Events, Deliver(r, e)
    PROVE  AccountsTypeOK'
BY DeliverFacts DEF Inv, Deliver, AccountsTypeOK, tables, provider, history

LEMMA TypeStep == Inv /\ [AccountsNext]_vars => AccountsTypeOK'
<1>1. Inv /\ UNCHANGED vars => AccountsTypeOK'
    BY DEF Inv, AccountsTypeOK, vars, tables, provider, history
<1> QED  BY <1>1, TypeCheckout, TypeWebhook, TypeCleanUp, TypeProvider, TypeDeliver DEF AccountsNext

-----------------------------------------------------------------------------
(* What never changes back *)

Grown ==
    /\ signups' \in Nat /\ signups <= signups'
    /\ \A u \in Signed : person'[u] = person[u]
    /\ \A c \in DOMAIN issued : c \in DOMAIN issued' /\ issued'[c] = issued[c]
    /\ \A i \in DOMAIN paying : i \in DOMAIN paying' /\ paying'[i] = paying[i]
    /\ \A u \in Signed : users[u] = "active" => users'[u] = "active"
    /\ \A u \in Signed : users[u] = "none" => users'[u] = "none"
    /\ overtaken \subseteq overtaken'

SameAccounts == UNCHANGED <<signups, person>>
SameProvider == UNCHANGED <<issued, paying>>

LEMMA SameGrows ==
    ASSUME Inv, SameAccounts, SameProvider, UNCHANGED <<users, overtaken>>
    PROVE  Grown
BY AccountsAssumption DEF Inv, AccountsTypeOK, SameAccounts, SameProvider, Grown

LEMMA StepGrows == Inv /\ [AccountsNext]_vars => Grown
<1> SUFFICES ASSUME Inv, [AccountsNext]_vars  PROVE Grown
    OBVIOUS
<1>0. signups \in Nat /\ Signed \subseteq UserIds /\ users \in [UserIds -> {"none", "pending", "overdue", "active"}]
      /\ person \in [UserIds -> Nat] /\ issued \in Seq(Nat) /\ paying \in Seq(Payment)
    BY WorkedFor, AccountsAssumption DEF Inv, AccountsTypeOK, Signed, UserIds
<1>1. CASE UNCHANGED vars
    BY <1>1, SameGrows DEF vars, tables, provider, history, SameAccounts, SameProvider
<1>2. ASSUME NEW r \in Requests, Checkout(r)  PROVE Grown
    <2>1. CASE SignUp(r)
        <3>1. /\ users' = [users EXCEPT ![NextId] = "pending"] /\ signups' = signups + 1
              /\ person' = [person EXCEPT ![NextId] = signups + 1] /\ NextId \notin Signed
              /\ UNCHANGED <<issued, paying, overtaken>>
            BY <2>1, <1>0 DEF SignUp, NextId, Signed, provider
        <3> QED  BY <1>0, <3>1 DEF Grown, Signed
    <2>2. CASE CreateCustomer(r)
        <3>1. CASE Rejects(r)
            BY <2>2, <3>1, SameGrows DEF CreateCustomer, Rejects, tables, provider, history, SameAccounts, SameProvider
        <3>2. CASE issued' = Append(issued, requests[r].payer)
            <4>1. \A c \in DOMAIN issued : c \in DOMAIN issued' /\ issued'[c] = issued[c]
                <5>1. requests[r].payer \in Nat
                    BY DEF Inv, AccountsTypeOK, Request
                <5> QED  BY <1>0, <3>2, <5>1
            <4>2. UNCHANGED <<users, signups, person, paying, overtaken>>
                BY <2>2 DEF CreateCustomer, Rejects, tables, provider, history
            <4> QED  BY <1>0, <4>1, <4>2 DEF Grown
        <3> QED  BY <2>2, <3>1, <3>2 DEF CreateCustomer
    <2> QED  BY <1>2, <2>1, <2>2, SameGrows
             DEF Checkout, StartCheckout, FindCustomer, OpenCheckout, tables, provider, history, SameAccounts, SameProvider
<1>3. ASSUME NEW r \in Requests, Webhook(r)  PROVE Grown
    <2>1. CASE Activate(r)
        <3>1. /\ users' = [users EXCEPT ![requests[r].user] = Activated(requests[r].user)]
              /\ UNCHANGED <<signups, person, issued, paying>> /\ overtaken \subseteq overtaken'
            BY <2>1 DEF Activate, provider
        <3>2. \A u \in Signed : (users[u] = "active" => users'[u] = "active")
                            /\ (users[u] = "none" => users'[u] = "none")
            BY <1>0, <3>1 DEF Activated, Exists
        <3>3. \A c \in DOMAIN issued : c \in DOMAIN issued' /\ issued'[c] = issued[c]
            BY <3>1
        <3>4. \A i \in DOMAIN paying : i \in DOMAIN paying' /\ paying'[i] = paying[i]
            BY <3>1
        <3>5. signups' \in Nat /\ signups <= signups' /\ person' = person
            BY <1>0, <3>1
        <3>6. overtaken \subseteq overtaken'
            BY <3>1
        <3>7. \A u \in Signed : person'[u] = person[u] /\ (users[u] = "active" => users'[u] = "active")
            BY <3>2, <3>5
        <3>8. \A u \in Signed : users[u] = "none" => users'[u] = "none"
            BY <3>2
        <3> QED  BY <3>3, <3>4, <3>5, <3>6, <3>7, <3>8 DEF Grown
    <2> QED  BY <1>3, <2>1, SameGrows
             DEF Webhook, FindByCustomer, FindBySubscription, Resolves, PutCustomer, ReadCustomer, PutSubscription,
                 ReadSubscription, PutEntitlement, Respond, Rejects, tables, provider, history, SameAccounts, SameProvider
<1>4. ASSUME NEW r \in Requests, CleanUp(r)  PROVE Grown
    <2>1. CASE DropUser(r) /\ Unpaid(requests[r].user)
        <3>1. /\ users' = [users EXCEPT ![requests[r].user] = "none"]
              /\ UNCHANGED <<signups, person, issued, paying, overtaken>>
            BY <2>1 DEF DropUser, provider, history
        <3>2. \A u \in Signed : (users[u] = "active" => users'[u] = "active")
                            /\ (users[u] = "none" => users'[u] = "none")
            BY <1>0, <2>1, <3>1 DEF Unpaid
        <3>3. \A c \in DOMAIN issued : c \in DOMAIN issued' /\ issued'[c] = issued[c]
            BY <3>1
        <3>4. \A i \in DOMAIN paying : i \in DOMAIN paying' /\ paying'[i] = paying[i]
            BY <3>1
        <3>5. signups' \in Nat /\ signups <= signups' /\ UNCHANGED <<person, overtaken>>
            BY <1>0, <3>1
        <3>7. \A u \in Signed : person'[u] = person[u] /\ (users[u] = "active" => users'[u] = "active")
            BY <3>2, <3>5
        <3>8. \A u \in Signed : users[u] = "none" => users'[u] = "none"
            BY <3>2
        <3> QED  BY <3>3, <3>4, <3>5, <3>7, <3>8 DEF Grown
    <2> QED  BY <1>4, <2>1, SameGrows
             DEF CleanUp, StartCleanUp, DropCustomer, DropSubscriptions, DropEntitlement, DropUser, tables, provider,
                 history, SameAccounts, SameProvider
<1>5. ASSUME NEW r \in Requests, Fail(r)  PROVE Grown
    BY <1>5, SameGrows DEF Fail, Rejects, tables, provider, SameAccounts, SameProvider
<1>6. CASE Expire
    BY <1>0, <1>6 DEF Expire, provider, history, Grown
<1>7. CASE Pay
    <2>1. PICK k \in checkouts : paying' = Append(paying, k)
        BY <1>7 DEF Pay
    <2>2. \A i \in DOMAIN paying : i \in DOMAIN paying' /\ paying'[i] = paying[i]
        <3>1. k \in Payment
            BY DEF Inv, AccountsTypeOK
        <3> QED  BY <1>0, <2>1, <3>1
    <2> QED  BY <1>0, <1>7, <2>2 DEF Pay, tables, history, Grown
<1>8. CASE Notify
    BY <1>8, SameGrows DEF Notify, tables, history, SameAccounts, SameProvider
<1>9. ASSUME NEW r \in Requests, NEW e \in Events, Deliver(r, e)  PROVE Grown
    BY <1>9, SameGrows DEF Deliver, tables, provider, history, SameAccounts, SameProvider
<1> QED  BY <1>1, <1>2, <1>3, <1>4, <1>5, <1>6, <1>7, <1>8, <1>9 DEF AccountsNext

-----------------------------------------------------------------------------
(* Requests work for their user *)

LEMMA SignedStays == Inv /\ Grown => Signed \subseteq Signed' /\ Signed \subseteq UserIds
<1> SUFFICES ASSUME Inv, Grown  PROVE Signed \subseteq Signed' /\ Signed \subseteq UserIds
    OBVIOUS
<1>1. signups \in Nat /\ signups <= MaxSignups /\ signups' \in Nat /\ signups <= signups'
    BY AccountsAssumption DEF Inv, AccountsTypeOK, Grown
<1> QED  BY <1>1, AccountsAssumption DEF Signed, UserIds

LEMMA OwnsStays ==
    ASSUME Inv, Grown
    PROVE  /\ \A u \in Signed : \A c : Owns(u, c) => Owns(u, c)'
           /\ \A i \in DOMAIN paying : i \in DOMAIN paying' /\ paying'[i] = paying[i]
           /\ \A u \in Signed : person'[u] = person[u]
BY DEF Inv, Grown, Owns

LEMMA IdleOK ==
    ASSUME NEW q \in Requests, requests'[q].at = "idle", requests'[q].event = NoEvent
    PROVE  RequestOK(requests[q])'
BY DEF RequestOK, AboutUser, CheckoutSteps, EventSteps, StoreSteps, CleanUpSteps, Early

\* A request that goes on with what it has is right if its next step is.
LEMMA GoesOnOK ==
    ASSUME Inv, Grown, NEW q \in Requests,
           requests'[q].user = requests[q].user, requests'[q].payer = requests[q].payer,
           requests'[q].customer = requests[q].customer, requests'[q].event = requests[q].event,
           requests'[q].ids = requests[q].ids,
           requests'[q].at \in AboutUser => requests[q].at \in AboutUser,
           requests'[q].at \in Early => requests[q].at \in Early,
           requests'[q].at \in AboutUser \ Early => requests[q].at \notin Early,
           requests'[q].at \in EventSteps => requests[q].event # NoEvent,
           requests'[q].at \in StoreSteps => requests[q].event.says # "linked",
           requests'[q].at = "activate" => requests[q].event.says = "active",
           requests'[q].at \in CleanUpSteps => requests[q].at \in CleanUpSteps
    PROVE  RequestOK(requests[q])'
<1> DEFINE o == requests[q]
           n == requests'[q]
<1>0. Early \subseteq AboutUser
    BY DEF Early, AboutUser, CheckoutSteps
<1>1. RequestOK(o)
    BY DEF Inv, RequestsOK
<1>2. n.at \in AboutUser => o.user \in Signed /\ n.user \in Signed'
    BY <1>1, SignedStays DEF RequestOK
<1>3. n.at \in Early => n.payer = person'[n.user] /\ n.event = NoEvent
    BY <1>0, <1>1, <1>2, OwnsStays DEF RequestOK, Early
<1>4. n.at \in AboutUser \ Early => n.customer \in DOMAIN issued' /\ issued'[n.customer] = person'[n.user]
    BY <1>1, <1>2 DEF RequestOK, Early, Owns, Grown
<1>5. n.event # NoEvent => n.event.sub \in DOMAIN paying' /\ n.customer = paying'[n.event.sub].customer
    BY <1>1 DEF RequestOK, CarriesEvent, Grown
<1>6. n.at \in CleanUpSteps => n.user \in n.ids
    BY <1>1 DEF RequestOK
<1> QED  BY <1>2, <1>3, <1>4, <1>5, <1>6 DEF RequestOK, Early, Owns, CarriesEvent

LEMMA OthersOK ==
    ASSUME Inv, Grown, NEW q \in Requests, requests'[q] = requests[q]
    PROVE  RequestOK(requests[q])'
<1>1. RequestOK(requests[q])
    BY DEF Inv, RequestsOK
<1>2. requests'[q].at \in AboutUser \ Early => requests[q].at \notin Early
    OBVIOUS
<1> QED  BY <1>1, <1>2, GoesOnOK DEF RequestOK

\* A request that has begun, when only the step changes.
LEMMA MovesOK ==
    ASSUME Inv, Grown, NEW r \in Requests, NEW step \in Steps, Moves(r, step),
           step \in AboutUser => requests[r].at \in AboutUser,
           step \in Early => requests[r].at \in Early,
           step \in AboutUser \ Early => requests[r].at \notin Early,
           step \in EventSteps => requests[r].event # NoEvent,
           step \in StoreSteps => requests[r].event.says # "linked",
           step = "activate" => requests[r].event.says = "active",
           step \in CleanUpSteps => requests[r].at \in CleanUpSteps
    PROVE  RequestsOK'
<1>1. requests \in [Requests -> Request]
    BY DEF Inv, AccountsTypeOK
<1>2. RequestOK(requests[r])'
    BY <1>1, MovesFacts, GoesOnOK
<1>3. \A q \in Requests \ {r} : RequestOK(requests[q])'
    BY <1>1, MovesFacts, OthersOK
<1> QED  BY <1>2, <1>3 DEF RequestsOK

LEMMA EndsOK ==
    ASSUME Inv, Grown, NEW r \in Requests, Ends(r)
    PROVE  RequestsOK'
<1>1. requests \in [Requests -> Request]
    BY DEF Inv, AccountsTypeOK
<1>2. RequestOK(requests[r])'
    BY <1>1, EndsFacts, IdleType, IdleOK
<1>3. \A q \in Requests \ {r} : RequestOK(requests[q])'
    BY <1>1, EndsFacts, OthersOK
<1> QED  BY <1>2, <1>3 DEF RequestsOK

LEMMA OnlyOneChanges ==
    ASSUME Inv, Grown, NEW r \in Requests, RequestOK(requests[r])',
           \A q \in Requests \ {r} : requests'[q] = requests[q]
    PROVE  RequestsOK'
BY OthersOK DEF RequestsOK

LEMMA StepsApart ==
    /\ AboutUser \cap CleanUpSteps = {} /\ EventSteps \cap CleanUpSteps = {}
    /\ Early = {"find customer", "create customer"} /\ Early \subseteq AboutUser
    /\ Early \cap EventSteps = {} /\ "put customer" \notin EventSteps /\ "put customer" \in AboutUser
    /\ "open checkout" \notin EventSteps /\ "read customer" \notin EventSteps
    /\ {"activate", "respond"} \cap StoreSteps = {} /\ StoreSteps \subseteq EventSteps
    /\ {"find user", "find subscriber"} \cap (AboutUser \cup StoreSteps \cup CleanUpSteps) = {}
    /\ {"find user", "find subscriber", "activate", "respond"} \subseteq EventSteps
    /\ {"drop customer", "drop subscriptions", "drop entitlement", "drop user"} = CleanUpSteps
    /\ {"put subscription", "read subscription", "put entitlement"} = StoreSteps
    /\ {"put customer", "open checkout", "read customer"} \cap (StoreSteps \cup CleanUpSteps) = {}
BY DEF AboutUser, CheckoutSteps, EventSteps, StoreSteps, CleanUpSteps, Early

LEMMA PutCustomerStep ==
    /\ "put customer" \in AboutUser /\ "put customer" \notin Early
    /\ "put customer" \notin EventSteps /\ "put customer" \notin StoreSteps /\ "put customer" \notin CleanUpSteps
    /\ "open checkout" \in AboutUser /\ "open checkout" \notin Early
    /\ "open checkout" \notin EventSteps /\ "open checkout" \notin StoreSteps /\ "open checkout" \notin CleanUpSteps
BY DEF AboutUser, CheckoutSteps, EventSteps, StoreSteps, CleanUpSteps, Early

LEMMA UsersSigned ==
    ASSUME Inv, NEW u \in UserIds, users[u] # "none"
    PROVE  u \in Signed
<1>1. u \in Nat /\ u >= 1 /\ ~ (u > signups) /\ signups \in Nat
    BY AccountsAssumption DEF Inv, IdsOfAccounts, UserIds, AccountsTypeOK
<1> QED  BY <1>1 DEF Signed

\* Customers of rows were created for the user of the row.
LEMMA RowOwner ==
    ASSUME Inv, NEW u \in UserIds, customers[u] # 0
    PROVE  u \in Signed /\ Owns(u, customers[u])
BY UsersSigned DEF Inv, IdsOfAccounts, RowsBelong

LEMMA WantsOK ==
    ASSUME Inv, Grown, NEW r \in Requests, NEW w, w.at = "find customer", w.event = NoEvent,
           requests' = [requests EXCEPT ![r] = w], w.user \in Signed', person'[w.user] = w.payer
    PROVE  RequestsOK'
<1>1. requests'[r] = w /\ \A q \in Requests \ {r} : requests'[q] = requests[q]
    BY DEF Inv, AccountsTypeOK
<1>2. RequestOK(requests[r])'
    <2>1. "find customer" \in Early /\ "find customer" \notin EventSteps
          /\ "find customer" \notin StoreSteps /\ "find customer" \notin CleanUpSteps
        BY DEF EventSteps, StoreSteps, CleanUpSteps, Early
    <2> QED  BY <1>1, <2>1 DEF RequestOK
<1> QED  BY <1>1, <1>2, OnlyOneChanges

LEMMA RequestsCheckout ==
    ASSUME Inv, Grown, NEW r \in Requests, Checkout(r)
    PROVE  RequestsOK'
<1>0. requests \in [Requests -> Request] /\ RequestOK(requests[r])
    BY DEF Inv, AccountsTypeOK, RequestsOK
<1>1. CASE SignUp(r)
    <2>1. NextId \in UserIds /\ NextId \in Signed' /\ signups + 1 \in Nat /\ person'[NextId] = signups + 1
        BY <1>1, AccountsAssumption DEF SignUp, Inv, AccountsTypeOK, NextId, UserIds, Signed
    <2>2. requests' = [requests EXCEPT ![r] = Wants(NextId, signups + 1)]
        BY <1>1 DEF SignUp
    <2> DEFINE w == Wants(NextId, signups + 1)
    <2>3. w.at = "find customer" /\ w.event = NoEvent /\ w.user = NextId /\ w.payer = signups + 1
        BY DEF Wants, Idle
    <2> HIDE DEF w
    <2> QED  BY <2>1, <2>2, <2>3, WantsOK DEF w
<1>2. CASE StartCheckout(r)
    <2>1. PICK u \in UserIds : users[u] \in {"pending", "active"} /\ requests' = [requests EXCEPT ![r] = Wants(u, person[u])]
        BY <1>2 DEF StartCheckout
    <2>2. u \in Signed' /\ person[u] \in Nat /\ person'[u] = person[u]
        BY <2>1, UsersSigned, SignedStays, OwnsStays DEF Inv, AccountsTypeOK
    <2> DEFINE w == Wants(u, person[u])
    <2>3. w.at = "find customer" /\ w.event = NoEvent /\ w.user = u /\ w.payer = person[u]
        BY DEF Wants, Idle
    <2>4. requests' = [requests EXCEPT ![r] = w]
        BY <2>1
    <2> HIDE DEF w
    <2> QED  BY <2>2, <2>3, <2>4, WantsOK
<1>3. CASE FindCustomer(r)
    <2>1. CASE Moves(r, "create customer")
        BY <1>3, <2>1, MovesOK, StepsApart, StepsNamed DEF FindCustomer, At
    <2>2. CASE customers[requests[r].user] # 0
        <3> DEFINE c == customers[requests[r].user]
        <3>1. requests[r].user \in UserIds /\ requests[r].user \in Signed
            BY <1>3, WorkedFor, AboutUserSteps DEF FindCustomer, At
        <3>2. c \in Nat /\ Owns(requests[r].user, c)
            BY <2>2, <3>1, RowOwner DEF Inv, AccountsTypeOK
        <3>3. requests' = [requests EXCEPT ![r].at = "open checkout", ![r].customer = c]
            BY <1>3, <2>2 DEF FindCustomer
        <3> HIDE DEF c
        <3>4. /\ requests'[r].at = "open checkout" /\ requests'[r].user = requests[r].user
              /\ requests'[r].customer = c /\ requests'[r].event = requests[r].event
              /\ \A q \in Requests \ {r} : requests'[q] = requests[q]
            BY <1>0, <3>3 DEF Request
        <3>5. /\ requests[r].user \in Signed' /\ c \in DOMAIN issued'
              /\ issued'[c] = person'[requests[r].user]
            BY <3>1, <3>2, SignedStays DEF Owns, Grown
        <3>6. requests'[r].event = NoEvent
            BY <1>0, <1>3, <3>4, StepsApart DEF FindCustomer, At, RequestOK
        <3>7. RequestOK(requests[r])'
            BY <3>4, <3>5, <3>6, PutCustomerStep DEF RequestOK, Owns
        <3> QED  BY <3>4, <3>7, OnlyOneChanges
    <2> QED  BY <1>3, <2>1, <2>2 DEF FindCustomer
<1>4. CASE CreateCustomer(r)
    <2>1. CASE Rejects(r)
        BY <2>1, EndsOK DEF Rejects
    <2>2. CASE /\ issued' = Append(issued, requests[r].payer)
               /\ requests' = [requests EXCEPT ![r].at = "put customer", ![r].customer = Len(issued) + 1]
        <3>1. requests[r].user \in Signed /\ requests[r].payer = person[requests[r].user] /\ requests[r].event = NoEvent
            BY <1>0, <1>4, StepsApart DEF CreateCustomer, At, RequestOK
        <3>2. issued \in Seq(Nat) /\ requests[r].payer \in Nat /\ Len(issued) + 1 \in Nat
            BY <1>0 DEF Inv, AccountsTypeOK, Request
        <3>3. Len(issued) + 1 \in DOMAIN issued' /\ issued'[Len(issued) + 1] = requests[r].payer
            BY <2>2, <3>2, AppendFacts
        <3>4. /\ requests'[r].at = "put customer" /\ requests'[r].user = requests[r].user
              /\ requests'[r].customer = Len(issued) + 1 /\ requests'[r].event = requests[r].event
              /\ \A q \in Requests \ {r} : requests'[q] = requests[q]
            <4>1. "put customer" \in Steps
                BY StepsNamed
            <4> QED  BY <1>0, <2>2, <3>2, <4>1 DEF Request
        <3>5. requests[r].user \in Signed' /\ person'[requests[r].user] = person[requests[r].user]
            BY <3>1, SignedStays, OwnsStays
        <3>6. RequestOK(requests[r])'
            BY <3>1, <3>3, <3>4, <3>5, PutCustomerStep DEF RequestOK, Owns
        <3> QED  BY <3>4, <3>6, OnlyOneChanges
    <2> QED  BY <1>4, <2>1, <2>2 DEF CreateCustomer
<1>5. CASE OpenCheckout(r)
    BY <1>5, EndsOK DEF OpenCheckout
<1> QED  BY <1>1, <1>2, <1>3, <1>4, <1>5 DEF Checkout

LEMMA RequestsResolved ==
    ASSUME Inv, Grown, NEW r \in Requests, NEW u \in Signed, Owns(u, requests[r].customer),
           requests[r].event # NoEvent,
           requests' = [requests EXCEPT ![r].at = "put customer", ![r].user = u]
    PROVE  RequestsOK'
<1>1. u \in UserIds /\ RequestOK(requests[r])
    BY SignedStays DEF Inv, RequestsOK
<1>2. /\ requests'[r].at = "put customer" /\ requests'[r].user = u
      /\ requests'[r].customer = requests[r].customer /\ requests'[r].event = requests[r].event
      /\ \A q \in Requests \ {r} : requests'[q] = requests[q]
    BY <1>1, ResolvedFacts
<1>3. u \in Signed' /\ person'[u] = person[u]
    BY SignedStays, OwnsStays
<1>4. /\ requests'[r].customer \in DOMAIN issued' /\ issued'[requests'[r].customer] = person'[u]
      /\ requests'[r].event.sub \in DOMAIN paying'
      /\ requests'[r].customer = paying'[requests'[r].event.sub].customer
    <2>1. /\ requests[r].customer \in DOMAIN issued' /\ issued'[requests[r].customer] = person'[u]
        BY <1>3 DEF Owns, Grown
    <2>2. /\ requests[r].event.sub \in DOMAIN paying'
          /\ requests[r].customer = paying'[requests[r].event.sub].customer
        BY <1>1 DEF RequestOK, CarriesEvent, Grown
    <2> QED  BY <1>2, <2>1, <2>2
<1>5. RequestOK(requests[r])'
    BY <1>2, <1>3, <1>4, PutCustomerStep DEF RequestOK, Owns, CarriesEvent
<1> QED  BY <1>2, <1>5, OnlyOneChanges

LEMMA RequestsWebhook ==
    ASSUME Inv, Grown, NEW r \in Requests, Webhook(r)
    PROVE  RequestsOK'
<1>0. requests \in [Requests -> Request] /\ RequestOK(requests[r])
    BY DEF Inv, AccountsTypeOK, RequestsOK
<1>1. CASE Ends(r)
    BY <1>1, EndsOK
<1>2. CASE FindByCustomer(r)
    <2>1. requests[r].event # NoEvent /\ CarriesEvent(requests[r])
        BY <1>0, <1>2, StepsApart DEF FindByCustomer, At, RequestOK
    <2>2. requests[r].customer \in DOMAIN issued /\ requests[r].customer # 0
        <3>1. requests[r].customer \in DOMAIN issued
            BY <2>1 DEF CarriesEvent, Inv, PaymentsBelong, Owns
        <3>2. issued \in Seq(Nat)
            BY DEF Inv, AccountsTypeOK
        <3> QED  BY <3>1, <3>2
    <2>3. CASE Moves(r, "find subscriber")
        BY <1>2, <2>1, <2>3, MovesOK, StepsNamed, StepsApart DEF FindByCustomer, At
    <2>4. ASSUME NEW u \in Customers(requests[r].customer),
                 requests' = [requests EXCEPT ![r].at = "put customer", ![r].user = u]
          PROVE  RequestsOK'
        <3>1. u \in UserIds /\ customers[u] = requests[r].customer
            BY DEF Customers
        <3>2. u \in Signed /\ Owns(u, requests[r].customer)
            BY <2>2, <3>1, RowOwner
        <3> QED  BY <2>1, <2>4, <3>2, RequestsResolved
    <2> QED  BY <1>2, <2>3, <2>4 DEF FindByCustomer, Resolves
<1>3. CASE FindBySubscription(r)
    <2>1. requests[r].event # NoEvent /\ CarriesEvent(requests[r])
        BY <1>0, <1>3, StepsApart DEF FindBySubscription, At, RequestOK
    <2>2. CASE Rejects(r)
        BY <1>1, <2>2 DEF Rejects
    <2>3. ASSUME NEW u \in Subscriber(requests[r].event.sub),
                 requests' = [requests EXCEPT ![r].at = "put customer", ![r].user = u]
          PROVE  RequestsOK'
        <3> DEFINE s == requests[r].event.sub
        <3>1. s \in SubscriptionIds
            BY <1>0, <2>1 DEF Request, Events
        <3>2. u = subscriptions[s].user /\ u # 0
            BY DEF Subscriber
        <3>3. u \in Signed
            <4>1. u \in 0 .. MaxSignups /\ u <= signups /\ signups \in Nat
                BY <3>1, <3>2, AccountsAssumption DEF Inv, AccountsTypeOK, SubscriptionRow, IdsOfAccounts
            <4> QED  BY <3>2, <4>1, AccountsAssumption DEF Signed
        <3>4. Owns(u, requests[r].customer)
            BY <2>1, <3>1, <3>2 DEF Inv, RowsBelong, CarriesEvent
        <3> QED  BY <2>1, <2>3, <3>3, <3>4, RequestsResolved
    <2> QED  BY <1>3, <2>2, <2>3 DEF FindBySubscription, Resolves
<1>4. CASE PutCustomer(r)
    <2>1. CASE Moves(r, "read customer")
        BY <1>4, <2>1, MovesOK, StepsNamed, StepsApart, AboutUserSteps DEF PutCustomer, At
    <2> QED  BY <1>1, <1>4, <2>1 DEF PutCustomer, Rejects
<1>5. CASE ReadCustomer(r)
    <2>1. CASE Moves(r, WithCustomer(r))
        <3>1. WithCustomer(r) \in {"open checkout", "respond", "activate", "put subscription"}
            BY WithCustomerType
        <3>2. WithCustomer(r) \in Steps /\ WithCustomer(r) \in AboutUser \ Early /\ WithCustomer(r) \notin CleanUpSteps
            BY <3>1, StepsNamed, AboutUserSteps, StepsApart
        <3>3. /\ WithCustomer(r) \in EventSteps => requests[r].event # NoEvent
              /\ WithCustomer(r) \in StoreSteps => requests[r].event.says # "linked"
              /\ WithCustomer(r) = "activate" => requests[r].event.says = "active"
            BY <3>1, StepsApart, WithCustomerFacts
        <3>4. requests[r].at \in AboutUser /\ requests[r].at \notin Early
            BY <1>5, AboutUserSteps, StepsApart DEF ReadCustomer, At
        <3> QED  BY <2>1, <3>2, <3>3, <3>4, MovesOK
    <2> QED  BY <1>1, <1>5, <2>1 DEF ReadCustomer, Rejects
<1>6. CASE Activate(r)
    <2>1. /\ requests[r].event # NoEvent /\ requests[r].event.says = "active"
          /\ requests[r].at \in AboutUser \ Early
        BY <1>0, <1>6, StepsApart, AboutUserSteps DEF Activate, At, RequestOK
    <2> QED  BY <1>6, <2>1, MovesOK, StepsNamed, StepsApart DEF Activate
<1>7. ASSUME NEW step \in {"read subscription", "put entitlement", "respond"}, Moves(r, step),
             requests[r].at \in StoreSteps
      PROVE  RequestsOK'
    <2>1. /\ requests[r].event # NoEvent /\ requests[r].event.says # "linked"
          /\ requests[r].at \in AboutUser \ Early
        BY <1>0, <1>7, StepsApart, AboutUserSteps DEF RequestOK
    <2>2. step \in Steps /\ step \in AboutUser \ Early /\ step # "activate" /\ step \notin CleanUpSteps
        BY StepsNamed, StepsApart, AboutUserSteps
    <2> QED  BY <1>7, <2>1, <2>2, MovesOK
<1>8. CASE PutSubscription(r)
    BY <1>1, <1>7, <1>8, StepsApart DEF PutSubscription, Rejects, At
<1>9. CASE ReadSubscription(r)
    BY <1>1, <1>7, <1>9, StepsApart DEF ReadSubscription, Rejects, At
<1>10. CASE PutEntitlement(r)
    BY <1>1, <1>7, <1>10, StepsApart DEF PutEntitlement, Rejects, At
<1>11. CASE Respond(r)
    BY <1>1, <1>11 DEF Respond
<1> QED  BY <1>2, <1>3, <1>4, <1>5, <1>6, <1>8, <1>9, <1>10, <1>11 DEF Webhook

LEMMA RequestsGoOn ==
    ASSUME Inv, Grown, NEW r \in Requests, NEW ids \in SUBSET UserIds, GoesOnWith(r, ids)
    PROVE  RequestsOK'
<1>1. requests \in [Requests -> Request]
    BY DEF Inv, AccountsTypeOK
<1>2. /\ requests'[r].ids = ids /\ requests'[r].event = NoEvent
      /\ \/ requests'[r].at = "idle"
         \/ requests'[r].at = "drop customer" /\ requests'[r].user \in ids
      /\ \A q \in Requests \ {r} : requests'[q] = requests[q]
    BY <1>1, GoesOnFacts
<1>3. CASE requests'[r].at = "idle"
    BY <1>2, <1>3, IdleOK, OnlyOneChanges
<1>4. CASE requests'[r].at = "drop customer" /\ requests'[r].user \in ids
    <2>1. "drop customer" \notin AboutUser /\ "drop customer" \notin EventSteps
          /\ "drop customer" \notin StoreSteps /\ "drop customer" \notin Early
        BY DEF AboutUser, CheckoutSteps, EventSteps, StoreSteps, Early
    <2>2. RequestOK(requests[r])'
        BY <1>2, <1>4, <2>1 DEF RequestOK
    <2> QED  BY <1>2, <2>2, OnlyOneChanges
<1> QED  BY <1>2, <1>3, <1>4

LEMMA RequestsCleanUp ==
    ASSUME Inv, Grown, NEW r \in Requests, CleanUp(r)
    PROVE  RequestsOK'
<1>0. requests[r].ids \subseteq UserIds /\ Overdue \subseteq UserIds
    BY DEF Inv, AccountsTypeOK, Request, Overdue
<1>1. ASSUME NEW step \in {"drop subscriptions", "drop entitlement", "drop user"}, Moves(r, step),
             requests[r].at \in CleanUpSteps
      PROVE  RequestsOK'
    <2>1. step \in Steps /\ step \notin AboutUser /\ step \notin EventSteps /\ step \notin StoreSteps
          /\ step \notin Early /\ step # "activate"
        BY DEF Steps, AboutUser, CheckoutSteps, EventSteps, StoreSteps, CleanUpSteps, Early
    <2> QED  BY <1>1, <2>1, MovesOK
<1>2. CASE StartCleanUp(r)
    BY <1>0, <1>2, RequestsGoOn DEF StartCleanUp
<1>3. CASE DropCustomer(r)
    BY <1>1, <1>3, StepsApart DEF DropCustomer, At
<1>4. CASE DropSubscriptions(r)
    BY <1>1, <1>4, StepsApart DEF DropSubscriptions, At
<1>5. CASE DropEntitlement(r)
    BY <1>1, <1>5, StepsApart DEF DropEntitlement, At
<1>6. CASE DropUser(r)
    BY <1>0, <1>6, RequestsGoOn DEF DropUser
<1> QED  BY <1>2, <1>3, <1>4, <1>5, <1>6 DEF CleanUp

LEMMA RequestsDeliver ==
    ASSUME Inv, Grown, NEW r \in Requests, NEW e \in Events, Deliver(r, e)
    PROVE  RequestsOK'
<1>1. /\ e.sub \in DOMAIN paying
      /\ requests'[r].at = IF e.named THEN "put customer" ELSE "find user"
      /\ e.named => requests'[r].user = paying[e.sub].user
      /\ requests'[r].customer = paying[e.sub].customer
      /\ requests'[r].event = e
      /\ \A q \in Requests \ {r} : requests'[q] = requests[q]
    BY DeliverFacts
<1>2. paying[e.sub].user \in Signed /\ Owns(paying[e.sub].user, paying[e.sub].customer)
    BY <1>1 DEF Inv, IdsOfPayments, PaymentsBelong
<1>3. e # NoEvent
    BY DEF Events, NoEvent, Statuses
<1>4. e.sub \in DOMAIN paying' /\ paying'[e.sub] = paying[e.sub]
    BY <1>1 DEF Grown
<1>5. paying[e.sub].user \in Signed' /\ Owns(paying[e.sub].user, paying[e.sub].customer)'
    <2>1. UNCHANGED <<paying, issued, person, signups>>
        BY DEF Deliver, provider, history
    <2> QED  BY <1>2, <2>1 DEF Owns, Signed
<1>6. CASE e.named
    <2>1. requests'[r].at = "put customer" /\ requests'[r].user = paying[e.sub].user
        BY <1>1, <1>6
    <2>2. Owns(requests[r].user, requests[r].customer)'
        BY <1>1, <1>5, <2>1, UNCHANGED paying DEF Owns, Deliver, provider
    <2>3. CarriesEvent(requests[r])'
        BY <1>1, <1>4 DEF CarriesEvent
    <2>4. RequestOK(requests[r])'
        BY <1>1, <1>5, <2>1, <2>2, <2>3, PutCustomerStep DEF RequestOK
    <2> QED  BY <1>1, <2>4, OnlyOneChanges
<1>7. CASE ~ e.named
    <2>1. requests'[r].at = "find user"
        BY <1>1, <1>7
    <2>2. "find user" \notin AboutUser /\ "find user" \notin StoreSteps /\ "find user" \notin CleanUpSteps
          /\ "find user" \notin Early
        BY DEF AboutUser, CheckoutSteps, StoreSteps, CleanUpSteps, Early
    <2>3. CarriesEvent(requests[r])'
        BY <1>1, <1>4 DEF CarriesEvent
    <2>4. RequestOK(requests[r])'
        BY <1>1, <1>3, <2>1, <2>2, <2>3 DEF RequestOK
    <2> QED  BY <1>1, <2>4, OnlyOneChanges
<1> QED  BY <1>6, <1>7

LEMMA RequestsStep == Inv /\ [AccountsNext]_vars => RequestsOK'
<1> SUFFICES ASSUME Inv, [AccountsNext]_vars  PROVE RequestsOK'
    OBVIOUS
<1>0. Grown
    BY StepGrows
<1>1. CASE UNCHANGED requests
    BY <1>0, <1>1, OthersOK DEF RequestsOK
<1>2. ASSUME NEW r \in Requests, Checkout(r) \/ Webhook(r) \/ CleanUp(r) \/ Fail(r)
      PROVE  RequestsOK'
    BY <1>0, <1>2, RequestsCheckout, RequestsWebhook, RequestsCleanUp, EndsOK DEF Fail, Rejects
<1>3. ASSUME NEW r \in Requests, NEW e \in Events, Deliver(r, e)
      PROVE  RequestsOK'
    BY <1>0, <1>3, RequestsDeliver
<1> QED  BY <1>1, <1>2, <1>3 DEF AccountsNext, Expire, Pay, Notify, vars

-----------------------------------------------------------------------------
(* What the steps do to the tables *)

LEMMA TableSteps ==
    ASSUME Inv, [AccountsNext]_vars
    PROVE  \/ UNCHANGED <<tables, signups, person>>
           \/ Expire
           \/ \E r \in Requests :
                 \/ SignUp(r) \/ Activate(r)
                 \/ PutCustomer(r) /\ Moves(r, "read customer")
                 \/ PutSubscription(r) /\ Moves(r, "read subscription")
                 \/ PutEntitlement(r) /\ Moves(r, "respond")
                 \/ DropCustomer(r) \/ DropSubscriptions(r) \/ DropEntitlement(r)
                 \/ DropUser(r) /\ Unpaid(requests[r].user)
<1>1. ASSUME NEW r \in Requests, Checkout(r)
      PROVE  SignUp(r) \/ UNCHANGED <<tables, signups, person>>
    BY <1>1 DEF Checkout, StartCheckout, FindCustomer, CreateCustomer, OpenCheckout, Rejects, tables, history
<1>2. ASSUME NEW r \in Requests, Webhook(r)
      PROVE  \/ Activate(r) \/ UNCHANGED <<tables, signups, person>>
             \/ PutCustomer(r) /\ Moves(r, "read customer")
             \/ PutSubscription(r) /\ Moves(r, "read subscription")
             \/ PutEntitlement(r) /\ Moves(r, "respond")
    BY <1>2 DEF Webhook, FindByCustomer, FindBySubscription, Resolves, PutCustomer, ReadCustomer,
                PutSubscription, ReadSubscription, PutEntitlement, Respond, Rejects, tables, history
<1>3. ASSUME NEW r \in Requests, CleanUp(r)
      PROVE  \/ DropCustomer(r) \/ DropSubscriptions(r) \/ DropEntitlement(r)
             \/ DropUser(r) /\ Unpaid(requests[r].user)
             \/ UNCHANGED <<tables, signups, person>>
    BY <1>3 DEF CleanUp, StartCleanUp, DropUser, tables, history
<1>4. ASSUME NEW r \in Requests, Fail(r)  PROVE UNCHANGED <<tables, signups, person>>
    BY <1>4 DEF Fail, Rejects
<1>5. ASSUME NEW r \in Requests, NEW e \in Events, Deliver(r, e)  PROVE UNCHANGED <<tables, signups, person>>
    BY <1>5 DEF Deliver, history
<1>6. Pay \/ Notify => UNCHANGED <<tables, signups, person>>
    BY DEF Pay, Notify, history
<1>7. UNCHANGED vars => UNCHANGED <<tables, signups, person>>
    BY DEF vars, history
<1> QED  BY <1>1, <1>2, <1>3, <1>4, <1>5, <1>6, <1>7 DEF AccountsNext

LEMMA SignUpFacts ==
    ASSUME Inv, NEW r \in Requests, SignUp(r)
    PROVE  /\ NextId \in UserIds /\ NextId = signups + 1 /\ signups' = NextId /\ signups \in Nat
           /\ NextId \in Nat /\ NextId \notin Signed /\ users[NextId] = "none"
           /\ users' = [users EXCEPT ![NextId] = "pending"]
           /\ person' = [person EXCEPT ![NextId] = NextId]
           /\ UNCHANGED <<customers, subscriptions, entitlements, issued, paying, checkouts,
                          unacknowledged, overtaken>>
<1>1. NextId \in UserIds /\ NextId = signups + 1 /\ signups \in Nat /\ NextId > signups
    BY AccountsAssumption DEF SignUp, Inv, AccountsTypeOK, NextId, UserIds
<1> QED  BY <1>1 DEF SignUp, Inv, IdsOfAccounts, Signed, provider

LEMMA IdsOfAccountsStep == Inv /\ [AccountsNext]_vars => IdsOfAccounts'
<1> SUFFICES ASSUME Inv, [AccountsNext]_vars  PROVE IdsOfAccounts'
    OBVIOUS
<1>0. /\ users \in [UserIds -> {"none", "pending", "overdue", "active"}] /\ customers \in [UserIds -> Nat]
      /\ entitlements \in [UserIds -> Statuses \cup {"none"}] /\ person \in [UserIds -> Nat]
      /\ signups \in Nat /\ IdsOfAccounts /\ subscriptions \in [SubscriptionIds -> SubscriptionRow]
    BY AccountsAssumption DEF Inv, AccountsTypeOK
<1>1. CASE UNCHANGED <<tables, signups, person>>
    BY <1>0, <1>1 DEF tables, IdsOfAccounts, Signed
<1>2. CASE Expire
    <2>1. UNCHANGED <<customers, subscriptions, entitlements, signups, person>>
        BY <1>2 DEF Expire, history
    <2>2. \A u \in UserIds : users'[u] = "none" <=> users[u] = "none"
        BY <1>0, <1>2 DEF Expire
    <2> QED  BY <1>0, <2>1, <2>2 DEF IdsOfAccounts, Signed
<1>3. ASSUME NEW r \in Requests, SignUp(r)  PROVE IdsOfAccounts'
    <2>1. \A u \in Signed' : person'[u] = u
        <3>1. TAKE u \in Signed'
        <3>2. CASE u = NextId
            BY <1>0, <1>3, <3>2, SignUpFacts
        <3>3. CASE u # NextId
            <4>1. u \in Signed
                BY <1>3, <3>1, <3>3, SignUpFacts DEF Signed
            <4> QED  BY <1>0, <1>3, <3>3, <4>1, SignUpFacts, SignedStays, StepGrows DEF IdsOfAccounts
        <3> QED  BY <3>2, <3>3
    <2>2. \A u \in UserIds : u > signups' => users'[u] = "none"
        <3>1. ASSUME NEW u \in UserIds, u > signups'  PROVE users'[u] = "none"
            <4>1. u \in Nat /\ u > signups /\ u # NextId
                BY <1>0, <1>3, <3>1, SignUpFacts DEF UserIds
            <4> QED  BY <1>0, <1>3, <4>1, SignUpFacts DEF IdsOfAccounts
        <3> QED  BY <3>1
    <2>3. \A u \in UserIds : users'[u] = "none" => entitlements'[u] = "none" /\ customers'[u] = 0
        BY <1>0, <1>3, SignUpFacts DEF IdsOfAccounts
    <2>4. \A s \in SubscriptionIds : subscriptions'[s].user <= signups'
        <3>1. TAKE s \in SubscriptionIds
        <3>2. subscriptions[s].user \in Nat /\ subscriptions[s].user <= signups
            BY <1>0, AccountsAssumption DEF IdsOfAccounts, SubscriptionRow
        <3> QED  BY <1>0, <1>3, <3>2, SignUpFacts
    <2> QED  BY <2>1, <2>2, <2>3, <2>4 DEF IdsOfAccounts
<1>4. ASSUME NEW r \in Requests, Activate(r)  PROVE IdsOfAccounts'
    <2>1. UNCHANGED <<customers, subscriptions, entitlements, signups, person>>
        BY <1>4 DEF Activate
    <2>2. \A u \in UserIds : users'[u] = "none" <=> users[u] = "none"
        BY <1>0, <1>4 DEF Activate, Activated, Exists
    <2> QED  BY <1>0, <2>1, <2>2 DEF IdsOfAccounts, Signed
<1>5. ASSUME NEW r \in Requests, PutCustomer(r), Moves(r, "read customer")  PROVE IdsOfAccounts'
    <2>1. \/ UNCHANGED tables
          \/ /\ customers' = [customers EXCEPT ![requests[r].user] = requests[r].customer]
             /\ users[requests[r].user] # "none" /\ UNCHANGED <<users, subscriptions, entitlements>>
        BY <1>5 DEF PutCustomer, Exists, Rejects
    <2>2. UNCHANGED <<signups, person>>
        BY <1>5 DEF PutCustomer, history
    <2> QED  BY <1>0, <1>1, <2>1, <2>2 DEF IdsOfAccounts, Signed
<1>6. ASSUME NEW r \in Requests, PutSubscription(r)  PROVE IdsOfAccounts'
    <2>1. \/ UNCHANGED tables
          \/ /\ subscriptions' = [subscriptions EXCEPT ![requests[r].event.sub] =
                      [user |-> requests[r].user, status |-> requests[r].event.says]]
             /\ UNCHANGED <<users, customers, entitlements>>
        BY <1>6 DEF PutSubscription, Rejects
    <2>2. UNCHANGED <<signups, person>>
        BY <1>6 DEF PutSubscription, history
    <2>3. requests[r].user <= signups
        <3>1. requests[r].user \in Signed
            BY <1>6, WorkedFor, AboutUserSteps DEF PutSubscription, At
        <3> QED  BY <1>0, <3>1 DEF Signed
    <2> QED  BY <1>0, <1>1, <2>1, <2>2, <2>3 DEF IdsOfAccounts, Signed
<1>7. ASSUME NEW r \in Requests, PutEntitlement(r)  PROVE IdsOfAccounts'
    <2>1. \/ UNCHANGED tables
          \/ /\ entitlements' = [entitlements EXCEPT ![requests[r].user] = requests[r].event.says]
             /\ users[requests[r].user] # "none" /\ UNCHANGED <<users, subscriptions, customers>>
        BY <1>7 DEF PutEntitlement, Exists, Rejects
    <2>2. UNCHANGED <<signups, person>>
        BY <1>7 DEF PutEntitlement, history
    <2> QED  BY <1>0, <1>1, <2>1, <2>2 DEF IdsOfAccounts, Signed
<1>8. ASSUME NEW u, subscriptions' = Without(u, subscriptions)
      PROVE  \A s \in SubscriptionIds : subscriptions'[s].user <= signups
    BY <1>0, <1>8 DEF Without, NoRow, IdsOfAccounts
<1>9. ASSUME NEW r \in Requests, DropCustomer(r) \/ DropEntitlement(r)  PROVE IdsOfAccounts'
    <2>1. CASE DropCustomer(r)
        <3>1. /\ customers' = [customers EXCEPT ![requests[r].user] = 0]
              /\ UNCHANGED <<users, subscriptions, entitlements, signups, person>>
            BY <2>1 DEF DropCustomer, history
        <3> QED  BY <1>0, <3>1 DEF IdsOfAccounts, Signed
    <2>2. CASE DropEntitlement(r)
        <3>1. /\ entitlements' = [entitlements EXCEPT ![requests[r].user] = "none"]
              /\ UNCHANGED <<users, subscriptions, customers, signups, person>>
            BY <2>2 DEF DropEntitlement, history
        <3> QED  BY <1>0, <3>1 DEF IdsOfAccounts, Signed
    <2> QED  BY <1>9, <2>1, <2>2
<1>10. ASSUME NEW r \in Requests, DropSubscriptions(r)  PROVE IdsOfAccounts'
    <2>1. /\ UNCHANGED <<users, customers, entitlements, signups, person>>
          /\ subscriptions' = Without(requests[r].user, subscriptions)
        BY <1>10 DEF DropSubscriptions, history
    <2> QED  BY <1>0, <1>8, <2>1 DEF IdsOfAccounts, Signed
<1>11. ASSUME NEW r \in Requests, DropUser(r), Unpaid(requests[r].user)  PROVE IdsOfAccounts'
    <2>1. /\ users' = [users EXCEPT ![requests[r].user] = "none"]
          /\ customers' = [customers EXCEPT ![requests[r].user] = 0]
          /\ subscriptions' = Without(requests[r].user, subscriptions)
          /\ entitlements' = [entitlements EXCEPT ![requests[r].user] = "none"]
          /\ UNCHANGED <<signups, person>>
        BY <1>11 DEF DropUser, history
    <2> QED  BY <1>0, <1>8, <2>1 DEF IdsOfAccounts, Signed
<1> QED  BY <1>1, <1>2, <1>3, <1>4, <1>5, <1>6, <1>7, <1>9, <1>10, <1>11, TableSteps

-----------------------------------------------------------------------------
(* Rows and payments belong to who paid *)

LEMMA PaymentSteps ==
    ASSUME Inv, [AccountsNext]_vars
    PROVE  \/ UNCHANGED <<paying, checkouts, unacknowledged>>
           \/ Pay \/ Notify
           \/ \E r \in Requests : OpenCheckout(r) \/ Respond(r)
<1>1. ASSUME NEW r \in Requests, Checkout(r)
      PROVE  OpenCheckout(r) \/ UNCHANGED <<paying, checkouts, unacknowledged>>
    BY <1>1 DEF Checkout, SignUp, StartCheckout, FindCustomer, CreateCustomer, Rejects, provider
<1>2. ASSUME NEW r \in Requests, Webhook(r)
      PROVE  Respond(r) \/ UNCHANGED <<paying, checkouts, unacknowledged>>
    BY <1>2 DEF Webhook, FindByCustomer, FindBySubscription, Resolves, PutCustomer, ReadCustomer, Activate,
                PutSubscription, ReadSubscription, PutEntitlement, Rejects, provider
<1>3. ASSUME NEW r \in Requests, CleanUp(r)  PROVE UNCHANGED <<paying, checkouts, unacknowledged>>
    BY <1>3 DEF CleanUp, StartCleanUp, DropCustomer, DropSubscriptions, DropEntitlement, DropUser, provider
<1>4. ASSUME NEW r \in Requests, Fail(r)  PROVE UNCHANGED <<paying, checkouts, unacknowledged>>
    BY <1>4 DEF Fail, Rejects, provider
<1>5. ASSUME NEW r \in Requests, NEW e \in Events, Deliver(r, e)
      PROVE  UNCHANGED <<paying, checkouts, unacknowledged>>
    BY <1>5 DEF Deliver, provider
<1>6. UNCHANGED vars \/ Expire => UNCHANGED <<paying, checkouts, unacknowledged>>
    BY DEF vars, Expire, provider
<1> QED  BY <1>1, <1>2, <1>3, <1>4, <1>5, <1>6 DEF AccountsNext

LEMMA PayFacts ==
    ASSUME Inv, Pay
    PROVE  \E k \in checkouts :
              /\ DOMAIN paying' = DOMAIN paying \cup {Len(paying) + 1}
              /\ paying'[Len(paying) + 1] = k
              /\ \A i \in DOMAIN paying : paying'[i] = paying[i]
              /\ checkouts' \subseteq checkouts
              /\ \A e \in unacknowledged' : e \in unacknowledged \/ e.sub = Len(paying) + 1
              /\ unacknowledged \subseteq unacknowledged'
<1>1. PICK k \in checkouts :
          /\ paying' = Append(paying, k)
          /\ checkouts' = IF Len(paying') = MaxSubscriptions THEN {} ELSE checkouts \ {k}
          /\ unacknowledged' = unacknowledged \cup
                {[sub |-> Len(paying) + 1, says |-> "linked", named |-> TRUE],
                 [sub |-> Len(paying) + 1, says |-> "active", named |-> TRUE]}
    BY DEF Pay
<1>2. paying \in Seq(Payment) /\ k \in Payment
    BY DEF Inv, AccountsTypeOK
<1>3. /\ DOMAIN paying' = DOMAIN paying \cup {Len(paying) + 1}
      /\ paying'[Len(paying) + 1] = k
      /\ \A i \in DOMAIN paying : paying'[i] = paying[i]
    BY <1>1, <1>2, AppendFacts
<1>4. \A e \in unacknowledged' : e \in unacknowledged \/ e.sub = Len(paying) + 1
    BY <1>1
<1>5. checkouts' \subseteq checkouts /\ unacknowledged \subseteq unacknowledged'
    BY <1>1
<1> QED  BY <1>3, <1>4, <1>5

OwnsNext(u, c) == c \in DOMAIN issued' /\ issued'[c] = person'[u]

LEMMA OwnsNextFacts ==
    ASSUME Inv, Grown
    PROVE  \A u \in Signed : \A c : Owns(u, c) => OwnsNext(u, c)
BY DEF Grown, Owns, OwnsNext

LEMMA IdsOfPaymentsStep == Inv /\ [AccountsNext]_vars => IdsOfPayments' /\ PaymentsBelong'
<1> SUFFICES ASSUME Inv, [AccountsNext]_vars  PROVE IdsOfPayments' /\ PaymentsBelong'
    OBVIOUS
<1>0. Grown /\ Signed \subseteq Signed'
    BY StepGrows, SignedStays
<1>1. \A u \in Signed : \A c : Owns(u, c) => OwnsNext(u, c)
    BY <1>0, OwnsNextFacts
<1>2. /\ \A i \in DOMAIN paying : paying[i].user \in Signed /\ Owns(paying[i].user, paying[i].customer)
      /\ \A k \in checkouts : k.user \in Signed /\ Owns(k.user, k.customer)
      /\ \A e \in unacknowledged : e.sub \in DOMAIN paying
    BY DEF Inv, IdsOfPayments, PaymentsBelong
<1>3. /\ \A i \in DOMAIN paying : paying[i].user \in Signed' /\ OwnsNext(paying[i].user, paying[i].customer)
      /\ \A k \in checkouts : k.user \in Signed' /\ OwnsNext(k.user, k.customer)
    BY <1>0, <1>1, <1>2
<1>4. SUFFICES /\ \A i \in DOMAIN paying' : paying'[i].user \in Signed'
                                       /\ OwnsNext(paying'[i].user, paying'[i].customer)
               /\ \A k \in checkouts' : k.user \in Signed' /\ OwnsNext(k.user, k.customer)
               /\ \A e \in unacknowledged' : e.sub \in DOMAIN paying'
    BY DEF IdsOfPayments, PaymentsBelong, Owns, OwnsNext
<1>5. CASE UNCHANGED <<paying, checkouts, unacknowledged>>
    BY <1>2, <1>3, <1>5
<1>6. CASE Pay
    BY <1>2, <1>3, <1>6, PayFacts
<1>7. CASE Notify
    <2>1. UNCHANGED <<paying, checkouts>>
        BY <1>7 DEF Notify
    <2>2. \A e \in unacknowledged' : e \in unacknowledged \/ e.sub \in DOMAIN paying
        BY <1>7 DEF Notify
    <2> QED  BY <1>2, <1>3, <2>1, <2>2
<1>8. ASSUME NEW r \in Requests, OpenCheckout(r)
      PROVE  /\ UNCHANGED <<paying, unacknowledged>>
             /\ \A k \in checkouts' : k.user \in Signed' /\ OwnsNext(k.user, k.customer)
    <2>1. RequestOK(requests[r]) /\ requests[r].at \in AboutUser \ Early
        BY <1>8, PutCustomerStep DEF Inv, RequestsOK, OpenCheckout, At
    <2>2. requests[r].user \in Signed /\ Owns(requests[r].user, requests[r].customer)
        BY <2>1 DEF RequestOK
    <2>3. requests[r].user \in Signed' /\ OwnsNext(requests[r].user, requests[r].customer)
        BY <1>0, <1>1, <2>2
    <2>4. checkouts' \subseteq checkouts \cup {[user |-> requests[r].user, customer |-> requests[r].customer]}
        BY <1>8 DEF OpenCheckout
    <2> DEFINE k0 == [user |-> requests[r].user, customer |-> requests[r].customer]
    <2>5. k0.user = requests[r].user /\ k0.customer = requests[r].customer
        OBVIOUS
    <2> HIDE DEF k0
    <2>6. \A k \in checkouts' : k.user \in Signed' /\ OwnsNext(k.user, k.customer)
        <3>1. \A k \in checkouts' : k \in checkouts \/ k = k0
            BY <2>4 DEF k0
        <3> QED  BY <1>3, <2>3, <2>5, <3>1
    <2> QED  BY <1>8, <2>6 DEF OpenCheckout
<1>9. ASSUME NEW r \in Requests, Respond(r)
      PROVE  UNCHANGED <<paying, checkouts>> /\ unacknowledged' \subseteq unacknowledged
    BY <1>9 DEF Respond
<1> QED  BY <1>2, <1>3, <1>5, <1>6, <1>7, <1>8, <1>9, PaymentSteps

LEMMA RowsBelongStep == Inv /\ [AccountsNext]_vars => RowsBelong'
<1> SUFFICES ASSUME Inv, [AccountsNext]_vars  PROVE RowsBelong'
    OBVIOUS
<1>0. Grown
    BY StepGrows
<1>1. /\ users \in [UserIds -> {"none", "pending", "overdue", "active"}] /\ customers \in [UserIds -> Nat]
      /\ subscriptions \in [SubscriptionIds -> SubscriptionRow] /\ signups \in Nat
    BY AccountsAssumption DEF Inv, AccountsTypeOK
<1>2. \A u \in UserIds : customers[u] # 0 => OwnsNext(u, customers[u])
    BY <1>0, RowOwner, OwnsNextFacts
<1>3. ASSUME NEW s \in SubscriptionIds, subscriptions[s].user # 0
      PROVE  s \in DOMAIN paying' /\ OwnsNext(subscriptions[s].user, paying'[s].customer)
    <2>1. s \in DOMAIN paying /\ Owns(subscriptions[s].user, paying[s].customer)
        BY <1>3 DEF Inv, RowsBelong
    <2>2. subscriptions[s].user \in Signed
        <3>1. subscriptions[s].user \in Nat /\ subscriptions[s].user <= signups
            BY <1>1, AccountsAssumption DEF SubscriptionRow, Inv, IdsOfAccounts
        <3> QED  BY <1>1, <1>3, <3>1 DEF Signed
    <2>3. s \in DOMAIN paying' /\ paying'[s] = paying[s]
        BY <1>0, <2>1 DEF Grown
    <2> QED  BY <1>0, <2>1, <2>2, <2>3, OwnsNextFacts
<1>4. SUFFICES /\ \A u \in UserIds : customers'[u] # 0 => OwnsNext(u, customers'[u])
               /\ \A s \in SubscriptionIds : subscriptions'[s].user # 0 =>
                     s \in DOMAIN paying' /\ OwnsNext(subscriptions'[s].user, paying'[s].customer)
    BY DEF RowsBelong, Owns, OwnsNext
<1>5. CASE UNCHANGED <<customers, subscriptions>>
    BY <1>2, <1>3, <1>5
<1>6. ASSUME NEW u, subscriptions' = Without(u, subscriptions)
      PROVE  \A s \in SubscriptionIds : subscriptions'[s].user # 0 => subscriptions'[s] = subscriptions[s]
    BY <1>6 DEF Without, NoRow
<1>7. ASSUME NEW r \in Requests, PutCustomer(r), Moves(r, "read customer")
      PROVE  /\ UNCHANGED subscriptions
             /\ \A u \in UserIds : customers'[u] # 0 => OwnsNext(u, customers'[u])
    <2>1. RequestOK(requests[r]) /\ requests[r].at \in AboutUser \ Early
        BY <1>7, PutCustomerStep DEF Inv, RequestsOK, PutCustomer, At
    <2>2. OwnsNext(requests[r].user, requests[r].customer)
        BY <1>0, <2>1, OwnsNextFacts DEF RequestOK
    <2>3. \/ UNCHANGED customers
          \/ customers' = [customers EXCEPT ![requests[r].user] = requests[r].customer]
        BY <1>7 DEF PutCustomer, Rejects, tables
    <2>4. UNCHANGED subscriptions
        BY <1>7 DEF PutCustomer, Rejects, tables
    <2> QED  BY <1>1, <1>2, <2>2, <2>3, <2>4
<1>8. ASSUME NEW r \in Requests, PutSubscription(r), Moves(r, "read subscription")
      PROVE  /\ UNCHANGED customers
             /\ \A s \in SubscriptionIds : subscriptions'[s].user # 0 =>
                   s \in DOMAIN paying' /\ OwnsNext(subscriptions'[s].user, paying'[s].customer)
    <2>1. RequestOK(requests[r]) /\ requests[r].at \in AboutUser \ Early /\ requests[r].at \in EventSteps
        <3>1. "put subscription" \in AboutUser \ Early /\ "put subscription" \in EventSteps
            BY DEF AboutUser, Early, EventSteps, StoreSteps, CheckoutSteps
        <3> QED  BY <1>8, <3>1 DEF Inv, RequestsOK, PutSubscription, At
    <2> DEFINE s0 == requests[r].event.sub
               row == [user |-> requests[r].user, status |-> requests[r].event.says]
    <2>2. OwnsNext(requests[r].user, requests[r].customer)
        BY <1>0, <2>1, OwnsNextFacts DEF RequestOK
    <2>3. s0 \in DOMAIN paying' /\ paying'[s0].customer = requests[r].customer
        BY <1>0, <2>1 DEF RequestOK, CarriesEvent, Grown
    <2>4. \/ UNCHANGED subscriptions
          \/ subscriptions' = [subscriptions EXCEPT ![s0] = row]
        BY <1>8 DEF PutSubscription, Rejects, tables
    <2>5. UNCHANGED customers
        BY <1>8 DEF PutSubscription, Rejects, tables
    <2>6. row.user = requests[r].user
        OBVIOUS
    <2> HIDE DEF s0, row
    <2>7. ASSUME NEW s \in SubscriptionIds, subscriptions'[s].user # 0
          PROVE  s \in DOMAIN paying' /\ OwnsNext(subscriptions'[s].user, paying'[s].customer)
        <3>1. CASE subscriptions'[s] = subscriptions[s]
            BY <1>3, <2>7, <3>1
        <3>2. CASE subscriptions'[s] # subscriptions[s]
            <4>1. s = s0 /\ subscriptions'[s] = row
                BY <1>1, <2>4, <3>2
            <4> QED  BY <2>2, <2>3, <2>6, <4>1
        <3> QED  BY <3>1, <3>2
    <2> QED  BY <2>5, <2>7
<1>9. ASSUME NEW r \in Requests, DropCustomer(r) \/ DropSubscriptions(r) \/ DropEntitlement(r)
                                 \/ (DropUser(r) /\ Unpaid(requests[r].user))
      PROVE  /\ \A u \in UserIds : customers'[u] # 0 => customers'[u] = customers[u]
             /\ \A s \in SubscriptionIds : subscriptions'[s].user # 0 => subscriptions'[s] = subscriptions[s]
    <2>1. \/ UNCHANGED customers
          \/ customers' = [customers EXCEPT ![requests[r].user] = 0]
        BY <1>9 DEF DropCustomer, DropSubscriptions, DropEntitlement, DropUser
    <2>2. \/ UNCHANGED subscriptions
          \/ subscriptions' = Without(requests[r].user, subscriptions)
        BY <1>9 DEF DropCustomer, DropSubscriptions, DropEntitlement, DropUser
    <2>3. \A u \in UserIds : customers'[u] # 0 => customers'[u] = customers[u]
        BY <1>1, <2>1
    <2> QED  BY <1>6, <2>2, <2>3
<1>10. ASSUME NEW r \in Requests, SignUp(r) \/ Activate(r) \/ PutEntitlement(r)
       PROVE  UNCHANGED <<customers, subscriptions>>
    BY <1>10 DEF SignUp, Activate, PutEntitlement, Rejects, tables
<1>11. ASSUME NEW r \in Requests, DropCustomer(r) \/ DropSubscriptions(r) \/ DropEntitlement(r)
                                  \/ (DropUser(r) /\ Unpaid(requests[r].user))
       PROVE  /\ \A u \in UserIds : customers'[u] # 0 => OwnsNext(u, customers'[u])
              /\ \A s \in SubscriptionIds : subscriptions'[s].user # 0 =>
                    s \in DOMAIN paying' /\ OwnsNext(subscriptions'[s].user, paying'[s].customer)
    <2>1. \A s \in SubscriptionIds : subscriptions'[s].user # 0 =>
             s \in DOMAIN paying' /\ OwnsNext(subscriptions'[s].user, paying'[s].customer)
        BY <1>3, <1>9, <1>11
    <2>2. \A u \in UserIds : customers'[u] # 0 => OwnsNext(u, customers'[u])
        BY <1>2, <1>9, <1>11
    <2> QED  BY <2>1, <2>2
<1>12. Expire => UNCHANGED <<customers, subscriptions>>
    BY DEF Expire
<1>13. UNCHANGED tables => UNCHANGED <<customers, subscriptions>>
    BY DEF tables
<1>14. ASSUME NEW r \in Requests, PutCustomer(r), Moves(r, "read customer")
       PROVE  \A s \in SubscriptionIds : subscriptions'[s].user # 0 =>
                    s \in DOMAIN paying' /\ OwnsNext(subscriptions'[s].user, paying'[s].customer)
    BY <1>3, <1>7, <1>14
<1>15. ASSUME NEW r \in Requests, PutSubscription(r), Moves(r, "read subscription")
       PROVE  \A u \in UserIds : customers'[u] # 0 => OwnsNext(u, customers'[u])
    BY <1>2, <1>8, <1>15
<1> QED  BY <1>5, <1>7, <1>8, <1>10, <1>11, <1>12, <1>13, <1>14, <1>15, TableSteps

-----------------------------------------------------------------------------
(* How a request goes on *)

LEMMA RequestSteps ==
    ASSUME Inv, [AccountsNext]_vars, NEW q \in Requests
    PROVE  \/ requests'[q] = requests[q]
           \/ /\ requests'[q].event = NoEvent /\ requests'[q].at \notin StoreSteps
              /\ requests'[q].ids \subseteq requests[q].ids \cup Overdue
           \/ /\ requests'[q].event \in unacknowledged /\ UNCHANGED unacknowledged
              /\ requests'[q].ids = {} /\ requests'[q].at \in {"put customer", "find user"}
           \/ /\ requests'[q].event = requests[q].event /\ requests'[q].ids = requests[q].ids
              /\ \/ requests'[q].at \notin StoreSteps \cup {"respond"}
                 \/ requests'[q].at = "respond" /\ requests[q].event.says = "linked"
                 \/ PutEntitlement(q) /\ Moves(q, "respond")
                 \/ requests'[q].at \in StoreSteps /\ requests[q].event.says # "active"
                 \/ Activate(q)
                 \/ /\ requests'[q].at \in StoreSteps /\ requests[q].at \in StoreSteps
                    /\ requests'[q].user = requests[q].user
<1> DEFINE Goal ==
           \/ requests'[q] = requests[q]
           \/ /\ requests'[q].event = NoEvent /\ requests'[q].at \notin StoreSteps
              /\ requests'[q].ids \subseteq requests[q].ids \cup Overdue
           \/ /\ requests'[q].event \in unacknowledged /\ UNCHANGED unacknowledged
              /\ requests'[q].ids = {} /\ requests'[q].at \in {"put customer", "find user"}
           \/ /\ requests'[q].event = requests[q].event /\ requests'[q].ids = requests[q].ids
              /\ \/ requests'[q].at \notin StoreSteps \cup {"respond"}
                 \/ requests'[q].at = "respond" /\ requests[q].event.says = "linked"
                 \/ PutEntitlement(q) /\ Moves(q, "respond")
                 \/ requests'[q].at \in StoreSteps /\ requests[q].event.says # "active"
                 \/ Activate(q)
                 \/ /\ requests'[q].at \in StoreSteps /\ requests[q].at \in StoreSteps
                    /\ requests'[q].user = requests[q].user
<1>0. requests \in [Requests -> Request] /\ Overdue \subseteq UserIds
    BY DEF Inv, AccountsTypeOK, Overdue
<1>q. SUFFICES Goal
    OBVIOUS
<1>1. ASSUME NEW r \in Requests, \A p \in Requests \ {r} : requests'[p] = requests[p], r # q  PROVE Goal
    BY <1>1
<1>2. ASSUME NEW r \in Requests, Ends(r)  PROVE Goal
    <2>1. requests'[r].event = NoEvent /\ requests'[r].at = "idle" /\ requests'[r].ids = {}
        BY <1>0, <1>2, EndsFacts, IdleType
    <2>2. "idle" \notin StoreSteps
        BY DEF StoreSteps
    <2> QED  BY <1>0, <1>1, <1>2, <2>1, <2>2, EndsFacts
<1>3. ASSUME NEW r \in Requests, NEW step \in Steps, Moves(r, step), step \notin StoreSteps \cup {"respond"}
      PROVE  Goal
    BY <1>0, <1>1, <1>3, MovesFacts
<1>4. ASSUME NEW r \in Requests, NEW ids \in SUBSET UserIds, GoesOnWith(r, ids),
             ids \subseteq requests[r].ids \cup Overdue
      PROVE  Goal
    <2>1. {"idle", "drop customer"} \cap StoreSteps = {}
        BY DEF StoreSteps
    <2>2. /\ requests'[r].ids = ids /\ requests'[r].event = NoEvent
          /\ requests'[r].at \in {"idle", "drop customer"}
          /\ \A p \in Requests \ {r} : requests'[p] = requests[p]
        BY <1>0, <1>4, GoesOnFacts
    <2> QED  BY <1>1, <1>4, <2>1, <2>2
<1>5. ASSUME NEW r \in Requests, Checkout(r)  PROVE Goal
    <2>1. ASSUME NEW w, w.at = "find customer", w.event = NoEvent, w.ids = {},
                 requests' = [requests EXCEPT ![r] = w]
          PROVE  Goal
        <3>1. "find customer" \notin StoreSteps
            BY DEF StoreSteps
        <3> QED  BY <1>0, <1>1, <2>1, <3>1
    <2>2. CASE SignUp(r)
        <3> DEFINE w == Wants(NextId, signups + 1)
        <3>1. w.at = "find customer" /\ w.event = NoEvent /\ w.ids = {}
            BY DEF Wants, Idle
        <3>2. requests' = [requests EXCEPT ![r] = w]
            BY <2>2 DEF SignUp
        <3> HIDE DEF w
        <3> QED  BY <2>1, <3>1, <3>2
    <2>3. CASE StartCheckout(r)
        <3>1. PICK u \in UserIds : requests' = [requests EXCEPT ![r] = Wants(u, person[u])]
            BY <2>3 DEF StartCheckout
        <3> DEFINE w == Wants(u, person[u])
        <3>2. w.at = "find customer" /\ w.event = NoEvent /\ w.ids = {}
            BY DEF Wants, Idle
        <3>3. requests' = [requests EXCEPT ![r] = w]
            BY <3>1
        <3> HIDE DEF w
        <3> QED  BY <2>1, <3>2, <3>3
    <2>4. ASSUME NEW step \in {"open checkout", "put customer"}, NEW c \in Nat,
                 requests' = [requests EXCEPT ![r].at = step, ![r].customer = c]
          PROVE  Goal
        <3>1. step \in Steps /\ step \notin StoreSteps \cup {"respond"}
            BY StepsNamed DEF StoreSteps
        <3> QED  BY <1>0, <1>1, <2>4, <3>1, FoundFacts
    <2>5. CASE FindCustomer(r)
        <3>1. "create customer" \in Steps /\ "create customer" \notin StoreSteps \cup {"respond"}
            BY StepsNamed DEF StoreSteps
        <3>2. customers[requests[r].user] \in Nat
            BY <2>5, WorkedFor, AboutUserSteps DEF FindCustomer, At, Inv, AccountsTypeOK
        <3> QED  BY <1>3, <2>4, <2>5, <3>1, <3>2 DEF FindCustomer
    <2>6. CASE CreateCustomer(r)
        <3>1. Len(issued) + 1 \in Nat
            BY DEF Inv, AccountsTypeOK
        <3> QED  BY <1>2, <2>4, <2>6, <3>1 DEF CreateCustomer, Rejects
    <2>7. CASE OpenCheckout(r)
        BY <1>2, <2>7 DEF OpenCheckout
    <2> QED  BY <1>5, <2>2, <2>3, <2>5, <2>6, <2>7 DEF Checkout
<1>6. ASSUME NEW r \in Requests, Webhook(r)  PROVE Goal
    <2>1. ASSUME NEW u \in UserIds, requests' = [requests EXCEPT ![r].at = "put customer", ![r].user = u]
          PROVE  Goal
        <3>1. "put customer" \notin StoreSteps \cup {"respond"}
            BY DEF StoreSteps
        <3> QED  BY <1>1, <2>1, <3>1, ResolvedFacts
    <2>2. CASE FindByCustomer(r)
        <3>1. "find subscriber" \in Steps /\ "find subscriber" \notin StoreSteps \cup {"respond"}
            BY StepsNamed DEF StoreSteps
        <3> QED  BY <1>3, <2>1, <2>2, <3>1 DEF FindByCustomer, Resolves, Customers
    <2>3. CASE FindBySubscription(r)
        <3>1. RequestOK(requests[r]) /\ requests[r].at \in EventSteps
            BY <2>3, StepsApart DEF FindBySubscription, At, Inv, RequestsOK
        <3>2. requests[r].event.sub \in SubscriptionIds
            BY <1>0, <3>1 DEF RequestOK, Request, Events
        <3>3. Subscriber(requests[r].event.sub) \subseteq UserIds
            BY <3>2, AccountsAssumption DEF Subscriber, Inv, AccountsTypeOK, SubscriptionRow, UserIds
        <3> QED  BY <1>2, <2>1, <2>3, <3>3 DEF FindBySubscription, Resolves, Rejects
    <2>4. CASE PutCustomer(r)
        <3>1. "read customer" \in Steps /\ "read customer" \notin StoreSteps \cup {"respond"}
            BY StepsNamed DEF StoreSteps
        <3> QED  BY <1>2, <1>3, <2>4, <3>1 DEF PutCustomer, Rejects
    <2>5. CASE ReadCustomer(r) /\ Moves(r, WithCustomer(r))
        <3> DEFINE step == WithCustomer(r)
        <3>1. step \in Steps /\ step \in {"open checkout", "respond", "activate", "put subscription"}
            BY WithCustomerType, StepsNamed
        <3>2. /\ step = "respond" => requests[r].event.says = "linked"
              /\ step = "put subscription" => requests[r].event.says # "active"
            BY <3>1, WithCustomerFacts
        <3>3. /\ requests'[r].at = step /\ requests'[r].event = requests[r].event /\ requests'[r].ids = requests[r].ids
              /\ \A p \in Requests \ {r} : requests'[p] = requests[p]
            BY <1>0, <2>5, <3>1, MovesFacts
        <3>4. {"open checkout", "activate"} \cap (StoreSteps \cup {"respond"}) = {} /\ "put subscription" \in StoreSteps
            BY DEF StoreSteps
        <3> HIDE DEF step
        <3> QED  BY <1>1, <3>1, <3>2, <3>3, <3>4
    <2>6. CASE ReadCustomer(r) /\ Ends(r)
        BY <1>2, <2>6
    <2>7. CASE Activate(r)
        <3>1. "put subscription" \in Steps
            BY StepsNamed
        <3> QED  BY <1>0, <1>1, <2>7, <3>1, MovesFacts DEF Activate
    <2>8. ASSUME NEW step \in StoreSteps, Moves(r, step), requests[r].at \in StoreSteps  PROVE Goal
        <3>1. step \in Steps
            BY StepsNamed, StepsApart
        <3> QED  BY <1>0, <1>1, <2>8, <3>1, MovesFacts
    <2>9. CASE PutSubscription(r)
        BY <1>2, <2>8, <2>9, StepsApart DEF PutSubscription, At, Rejects
    <2>10. CASE ReadSubscription(r)
        BY <1>2, <2>8, <2>10, StepsApart DEF ReadSubscription, At, Rejects
    <2>11. CASE PutEntitlement(r) /\ Moves(r, "respond")
        <3>1. "respond" \in Steps
            BY StepsNamed
        <3> QED  BY <1>0, <1>1, <2>11, <3>1, MovesFacts
    <2>12. CASE PutEntitlement(r) /\ Ends(r)
        BY <1>2, <2>12
    <2>13. CASE Respond(r)
        BY <1>2, <2>13 DEF Respond
    <2>14. ReadCustomer(r) => Moves(r, WithCustomer(r)) \/ Ends(r)
        BY DEF ReadCustomer, Rejects
    <2>15. PutEntitlement(r) => Moves(r, "respond") \/ Ends(r)
        BY DEF PutEntitlement, Rejects
    <2> QED  BY <1>6, <2>2, <2>3, <2>4, <2>5, <2>6, <2>7, <2>9, <2>10, <2>11, <2>12, <2>13, <2>14, <2>15 DEF Webhook
<1>7. ASSUME NEW r \in Requests, CleanUp(r)  PROVE Goal
    <2>0. requests[r].ids \subseteq UserIds
        BY <1>0 DEF Request
    <2>1. ASSUME NEW step \in {"drop subscriptions", "drop entitlement", "drop user"}, Moves(r, step)  PROVE Goal
        <3>1. step \in Steps /\ step \notin StoreSteps \cup {"respond"}
            BY StepsNamed DEF StoreSteps
        <3> QED  BY <1>3, <2>1, <3>1
    <2>2. CASE StartCleanUp(r)
        BY <1>0, <1>4, <2>2 DEF StartCleanUp
    <2>3. CASE DropUser(r)
        BY <1>4, <2>0, <2>3 DEF DropUser
    <2> QED  BY <1>7, <2>1, <2>2, <2>3 DEF CleanUp, DropCustomer, DropSubscriptions, DropEntitlement
<1>8. ASSUME NEW r \in Requests, Fail(r)  PROVE Goal
    BY <1>2, <1>8 DEF Fail, Rejects
<1>9. ASSUME NEW r \in Requests, NEW e \in Events, Deliver(r, e)  PROVE Goal
    <2>1. e \in unacknowledged /\ UNCHANGED unacknowledged
        BY <1>9 DEF Deliver, provider
    <2>2. /\ requests'[r].at \in {"put customer", "find user"}
          /\ requests'[r].event = e /\ requests'[r].ids = {}
          /\ \A p \in Requests \ {r} : requests'[p] = requests[p]
        BY <1>9, DeliverFacts
    <2> QED  BY <1>1, <2>1, <2>2
<1>10. UNCHANGED requests => Goal
    OBVIOUS
<1> HIDE DEF Goal
<1> QED  BY <1>5, <1>6, <1>7, <1>8, <1>9, <1>10 DEF AccountsNext, Expire, Pay, Notify, vars

-----------------------------------------------------------------------------
(* Granted accounts are active *)

LEMMA GrantedStep == Inv /\ [AccountsNext]_vars => GrantedAccountsAreActive'
<1> SUFFICES ASSUME Inv, [AccountsNext]_vars  PROVE GrantedAccountsAreActive'
    OBVIOUS
<1>0. /\ users \in [UserIds -> {"none", "pending", "overdue", "active"}]
      /\ entitlements \in [UserIds -> Statuses \cup {"none"}]
      /\ \A u \in UserIds : entitlements[u] = "active" => users[u] = "active"
    BY DEF Inv, AccountsTypeOK, GrantedAccountsAreActive
<1>1. CASE UNCHANGED <<tables, signups, person>>
    BY <1>0, <1>1 DEF tables, GrantedAccountsAreActive
<1>2. CASE Expire
    BY <1>0, <1>2 DEF Expire, GrantedAccountsAreActive
<1>3. ASSUME NEW r \in Requests, SignUp(r)  PROVE GrantedAccountsAreActive'
    BY <1>0, <1>3, SignUpFacts DEF GrantedAccountsAreActive
<1>4. ASSUME NEW r \in Requests, Activate(r)  PROVE GrantedAccountsAreActive'
    BY <1>0, <1>4 DEF Activate, Activated, Exists, GrantedAccountsAreActive
<1>5. ASSUME NEW r \in Requests, PutEntitlement(r), Moves(r, "respond")  PROVE GrantedAccountsAreActive'
    <2>1. \/ UNCHANGED tables
          \/ /\ entitlements' = [entitlements EXCEPT ![requests[r].user] = requests[r].event.says]
             /\ users[requests[r].user] # "none" /\ UNCHANGED users
        BY <1>5 DEF PutEntitlement, Exists, Rejects
    <2>2. requests[r].at \in StoreSteps
        BY <1>5, StepsApart DEF PutEntitlement, At
    <2>3. requests[r].event.says = "active" => users[requests[r].user] \in {"active", "none"}
        BY <2>2 DEF Inv, ActivatedBefore
    <2> QED  BY <1>0, <2>1, <2>3 DEF tables, GrantedAccountsAreActive
<1>6. ASSUME NEW r \in Requests, DropUser(r), Unpaid(requests[r].user)  PROVE GrantedAccountsAreActive'
    <2>1. /\ users' = [users EXCEPT ![requests[r].user] = "none"]
          /\ entitlements' = [entitlements EXCEPT ![requests[r].user] = "none"]
        BY <1>6 DEF DropUser
    <2> QED  BY <1>0, <2>1 DEF GrantedAccountsAreActive
<1>7. ASSUME NEW r \in Requests, DropEntitlement(r)  PROVE GrantedAccountsAreActive'
    BY <1>0, <1>7 DEF DropEntitlement, GrantedAccountsAreActive
<1>8. ASSUME NEW r \in Requests, \/ PutCustomer(r) \/ PutSubscription(r) \/ DropCustomer(r) \/ DropSubscriptions(r)
      PROVE  UNCHANGED <<users, entitlements>>
    BY <1>8 DEF PutCustomer, PutSubscription, DropCustomer, DropSubscriptions, Rejects, tables
<1>9. UNCHANGED <<users, entitlements>> => GrantedAccountsAreActive'
    BY <1>0 DEF GrantedAccountsAreActive
<1> QED  BY <1>1, <1>2, <1>3, <1>4, <1>5, <1>6, <1>7, <1>8, <1>9, TableSteps

\* A request that stores an active subscription has activated its user.
LEMMA ActivatedBeforeStep == Inv /\ [AccountsNext]_vars => ActivatedBefore'
<1> SUFFICES ASSUME Inv, [AccountsNext]_vars, NEW q \in Requests,
                    requests'[q].at \in StoreSteps, requests'[q].event.says = "active"
             PROVE  users'[requests'[q].user] \in {"active", "none"}
    BY DEF ActivatedBefore
<1>0. /\ Grown /\ Signed \subseteq UserIds /\ requests \in [Requests -> Request]
      /\ users \in [UserIds -> {"none", "pending", "overdue", "active"}]
    BY StepGrows, WorkedFor DEF Inv, AccountsTypeOK
<1>1. ASSUME requests[q].at \in StoreSteps, requests[q].event.says = "active",
             requests'[q].user = requests[q].user
      PROVE  users'[requests'[q].user] \in {"active", "none"}
    <2>1. requests[q].user \in Signed
        BY <1>1, StepsApart, AboutUserSteps, WorkedFor
    <2>2. users[requests[q].user] \in {"active", "none"}
        BY <1>1 DEF Inv, ActivatedBefore
    <2> QED  BY <1>0, <1>1, <2>1, <2>2 DEF Grown
<1>2. ASSUME Activate(q)  PROVE users'[requests'[q].user] \in {"active", "none"}
    <2>1. requests[q].user \in UserIds
        BY <1>2, WorkedFor, AboutUserSteps DEF Activate, At
    <2>2. requests'[q].user = requests[q].user
        BY <1>0, <1>2, MovesFacts, StepsNamed DEF Activate
    <2> QED  BY <1>0, <1>2, <2>1, <2>2 DEF Activate, Activated
<1>3. NoEvent.says # "active" /\ {"put customer", "find user", "respond"} \cap StoreSteps = {}
    BY DEF NoEvent, StoreSteps
<1>4. PutEntitlement(q) /\ Moves(q, "respond") => requests'[q].at = "respond"
    BY <1>0, MovesFacts, StepsNamed
<1> QED  BY <1>1, <1>2, <1>3, <1>4, RequestSteps

-----------------------------------------------------------------------------
(* The events of payments *)

SettledNext(u) ==
    \/ users'[u] = "none"
    \/ u \in overtaken'
    \/ users'[u] = "active" /\ entitlements'[u] # "none"

\* The clean-up takes the entitlement of an active account only when the account
\* was activated behind its back.
LEMMA EntitlementStays ==
    ASSUME Inv, [AccountsNext]_vars, NEW u \in Signed, users[u] = "active", u \notin overtaken,
           entitlements[u] # "none"
    PROVE  entitlements'[u] # "none"
<1>0. /\ entitlements \in [UserIds -> Statuses \cup {"none"}] /\ u \in UserIds
      /\ \A r \in Requests : u \notin requests[r].ids
    BY SignedStays, StepGrows DEF Inv, AccountsTypeOK, HeldAreUnpaid
<1>1. ASSUME NEW r \in Requests, DropEntitlement(r)  PROVE entitlements'[u] = entitlements[u]
    <2>1. requests[r].user \in requests[r].ids
        BY <1>1, StepsApart DEF DropEntitlement, At, Inv, RequestsOK, RequestOK
    <2> QED  BY <1>0, <1>1, <2>1 DEF DropEntitlement
<1>2. ASSUME NEW r \in Requests, DropUser(r), Unpaid(requests[r].user)  PROVE entitlements'[u] = entitlements[u]
    <2>1. requests[r].user \in requests[r].ids
        BY <1>2, StepsApart DEF DropUser, At, Inv, RequestsOK, RequestOK
    <2> QED  BY <1>0, <1>2, <2>1 DEF DropUser
<1>3. ASSUME NEW r \in Requests, PutEntitlement(r), Moves(r, "respond")  PROVE entitlements'[u] # "none"
    <2>1. \/ UNCHANGED tables
          \/ entitlements' = [entitlements EXCEPT ![requests[r].user] = requests[r].event.says]
        BY <1>3 DEF PutEntitlement, Rejects
    <2>2. requests[r].event.says # "none"
        <3>1. requests[r].event \in Events \cup {NoEvent}
            BY DEF Inv, AccountsTypeOK, Request
        <3> QED  BY <3>1 DEF Events, NoEvent, Statuses
    <2> QED  BY <1>0, <2>1, <2>2 DEF tables
<1>4. ASSUME NEW r \in Requests, \/ SignUp(r) \/ Activate(r) \/ PutCustomer(r) \/ PutSubscription(r)
                                 \/ DropCustomer(r) \/ DropSubscriptions(r)
      PROVE  UNCHANGED entitlements
    BY <1>4 DEF SignUp, Activate, PutCustomer, PutSubscription, DropCustomer, DropSubscriptions, Rejects, tables
<1>5. Expire \/ UNCHANGED <<tables, signups, person>> => UNCHANGED entitlements
    BY DEF Expire, tables
<1> QED  BY <1>1, <1>2, <1>3, <1>4, <1>5, TableSteps

LEMMA SettledStays ==
    ASSUME Inv, [AccountsNext]_vars, NEW u \in Signed, Settled(u)
    PROVE  SettledNext(u)
BY StepGrows, EntitlementStays DEF Settled, SettledNext, Grown

LEMMA HeldAreUnpaidStep == Inv /\ [AccountsNext]_vars => HeldAreUnpaid'
<1> SUFFICES ASSUME Inv, [AccountsNext]_vars, NEW q \in Requests, NEW u \in requests'[q].ids, users'[u] = "active"
             PROVE  u \in overtaken'
    BY DEF HeldAreUnpaid
<1>0. /\ Grown /\ users \in [UserIds -> {"none", "pending", "overdue", "active"}]
      /\ requests[q].ids \subseteq UserIds /\ HeldAreUnpaid
    BY StepGrows DEF Inv, AccountsTypeOK, Request
<1>1. u \in requests[q].ids \/ u \in Overdue
    BY RequestSteps
<1>2. u \in UserIds
    BY <1>0, <1>1 DEF Overdue
<1>3. CASE users[u] = "active"
    <2>1. u \in requests[q].ids
        BY <1>1, <1>3 DEF Overdue
    <2> QED  BY <1>0, <1>3, <2>1 DEF HeldAreUnpaid, Grown
<1>4. CASE users[u] # "active"
    <2>1. ASSUME NEW r \in Requests, Activate(r)  PROVE u \in overtaken'
        <3>1. u = requests[r].user /\ overtaken' = overtaken \cup ({u} \cap HeldByCleanUp)
            BY <1>0, <1>2, <1>4, <2>1 DEF Activate
        <3>3. u \in requests[q].ids
            <4>1. requests'[r].ids = requests[r].ids /\ \A p \in Requests \ {r} : requests'[p] = requests[p]
                BY <2>1, MovesFacts, StepsNamed DEF Activate, Inv, AccountsTypeOK
            <4> QED  BY <4>1
        <3> QED  BY <3>1, <3>3 DEF HeldByCleanUp
    <2>2. ASSUME NEW r \in Requests, SignUp(r)  PROVE users'[u] # "active"
        BY <1>0, <1>2, <1>4, <2>2, SignUpFacts
    <2>3. ASSUME NEW r \in Requests, DropUser(r), Unpaid(requests[r].user)  PROVE users'[u] # "active"
        BY <1>0, <1>2, <1>4, <2>3 DEF DropUser
    <2>4. Expire => users'[u] # "active"
        BY <1>0, <1>2, <1>4 DEF Expire
    <2>5. ASSUME NEW r \in Requests, \/ PutEntitlement(r) \/ PutCustomer(r) \/ PutSubscription(r)
                                     \/ DropCustomer(r) \/ DropSubscriptions(r) \/ DropEntitlement(r)
          PROVE  UNCHANGED users
        BY <2>5 DEF PutEntitlement, PutCustomer, PutSubscription, DropCustomer, DropSubscriptions,
                    DropEntitlement, Rejects, tables
    <2>6. UNCHANGED <<tables, signups, person>> => UNCHANGED users
        BY DEF tables
    <2> QED  BY <1>4, <2>1, <2>2, <2>3, <2>4, <2>5, <2>6, TableSteps
<1> QED  BY <1>3, <1>4

\* The user of an event is the one its request works for.
LEMMA EventUser ==
    ASSUME Inv, NEW q \in Requests, requests[q].at \in AboutUser \ Early, requests[q].event # NoEvent
    PROVE  /\ requests[q].event.sub \in DOMAIN paying
           /\ paying[requests[q].event.sub].user = requests[q].user
           /\ requests[q].user \in Signed
<1>1. RequestOK(requests[q])
    BY DEF Inv, RequestsOK
<1>2. /\ requests[q].user \in Signed /\ Owns(requests[q].user, requests[q].customer)
      /\ CarriesEvent(requests[q])
    BY <1>1 DEF RequestOK
<1>3. /\ paying[requests[q].event.sub].user \in Signed
      /\ Owns(paying[requests[q].event.sub].user, requests[q].customer)
    BY <1>2 DEF Inv, IdsOfPayments, PaymentsBelong, CarriesEvent
<1>4. \A u \in Signed : person[u] = u
    BY DEF Inv, IdsOfAccounts
<1> QED  BY <1>2, <1>3, <1>4 DEF Owns, CarriesEvent

\* An event that reports a payment is acknowledged when nothing needs it any more.
LEMMA AcknowledgedIsSettled ==
    ASSUME Inv, [AccountsNext]_vars, NEW e \in unacknowledged, e.says = "active", e \notin unacknowledged'
    PROVE  Settled(paying[e.sub].user)
<1>1. ASSUME NEW r \in Requests, Respond(r)  PROVE Settled(paying[e.sub].user)
    <2>1. e = requests[r].event /\ requests[r].at = "respond"
        BY <1>1 DEF Respond, At
    <2> QED  BY <2>1 DEF Inv, EventsAreKept
<1>2. Pay => unacknowledged \subseteq unacknowledged'
    BY PayFacts
<1>3. Notify => unacknowledged \subseteq unacknowledged'
    BY DEF Notify
<1>4. ASSUME NEW r \in Requests, OpenCheckout(r)  PROVE UNCHANGED unacknowledged
    BY <1>4 DEF OpenCheckout
<1> QED  BY <1>1, <1>2, <1>3, <1>4, PaymentSteps

LEMMA EventsAreKeptStep == Inv /\ [AccountsNext]_vars => EventsAreKept'
<1> SUFFICES ASSUME Inv, [AccountsNext]_vars, NEW q \in Requests, requests'[q].event.says = "active"
               PROVE  LET e == requests'[q].event IN
                      /\ e \in unacknowledged' \/ SettledNext(paying'[e.sub].user)
                      /\ requests'[q].at = "respond" => SettledNext(paying'[e.sub].user)
    BY DEF EventsAreKept, Settled, SettledNext
<1>0. Grown /\ requests \in [Requests -> Request]
    BY StepGrows DEF Inv, AccountsTypeOK
<1> DEFINE e == requests'[q].event
<1>2. NoEvent.says # "active"
    BY DEF NoEvent
<1>3. e # NoEvent
    BY <1>2
<1>4. e \in unacknowledged \/ e = requests[q].event
    BY <1>2, RequestSteps
<1>5. e.sub \in DOMAIN paying
    BY <1>3, <1>4 DEF Inv, PaymentsBelong, RequestsOK, RequestOK, CarriesEvent
<1>6. paying[e.sub].user \in Signed /\ paying'[e.sub] = paying[e.sub]
    BY <1>0, <1>5 DEF Inv, IdsOfPayments, Grown
<1>7. e \in unacknowledged \/ Settled(paying[e.sub].user)
    BY <1>4 DEF Inv, EventsAreKept
<1>8. Settled(paying[e.sub].user) => SettledNext(paying'[e.sub].user)
    BY <1>6, SettledStays
<1>9. e \in unacknowledged' \/ SettledNext(paying'[e.sub].user)
    BY <1>7, <1>8, AcknowledgedIsSettled
<1>10. ASSUME requests'[q].at = "respond"  PROVE SettledNext(paying'[e.sub].user)
    <2>1. "respond" \notin StoreSteps /\ "respond" \notin {"put customer", "find user"}
          /\ "respond" # "put subscription"
        BY DEF StoreSteps
    <2>2. CASE requests'[q] = requests[q]
        <3>1. Settled(paying[e.sub].user)
            BY <1>10, <2>2 DEF Inv, EventsAreKept
        <3> QED  BY <1>8, <3>1
    <2>3. CASE PutEntitlement(q) /\ Moves(q, "respond")
        <3>1. /\ requests'[q].event = requests[q].event
              /\ requests[q].at = "put entitlement"
            BY <1>0, <2>3, MovesFacts, StepsNamed DEF PutEntitlement, At
        <3>2. requests[q].at \in AboutUser \ Early /\ requests[q].at \in StoreSteps
            BY <3>1 DEF AboutUser, CheckoutSteps, StoreSteps, Early
        <3>3. paying[e.sub].user = requests[q].user /\ requests[q].user \in Signed
            BY <1>3, <3>1, <3>2, EventUser
        <3>4. users[requests[q].user] \in {"active", "none"}
            BY <3>1, <3>2 DEF Inv, ActivatedBefore
        <3>5. \/ UNCHANGED tables /\ requests' = [requests EXCEPT ![q] = Idle]
              \/ /\ entitlements' = [entitlements EXCEPT ![requests[q].user] = requests[q].event.says]
                 /\ users[requests[q].user] # "none" /\ UNCHANGED users
            BY <2>3 DEF PutEntitlement, Exists, Rejects, Ends
        <3>6. CASE requests' = [requests EXCEPT ![q] = Idle]
            BY <1>0, <1>3, <3>6, IdleType
        <3>7. CASE /\ entitlements' = [entitlements EXCEPT ![requests[q].user] = requests[q].event.says]
                   /\ users[requests[q].user] # "none" /\ UNCHANGED users
            <4>1. users'[requests[q].user] = "active"
                BY <3>4, <3>7
            <4>2. entitlements'[requests[q].user] = "active"
                BY <3>1, <3>3, <3>7, SignedStays, <1>0 DEF Inv, AccountsTypeOK
            <4> QED  BY <1>6, <3>3, <4>1, <4>2 DEF SettledNext
        <3> QED  BY <3>5, <3>6, <3>7
    <2>4. CASE Activate(q)
        <3>1. requests'[q].at = "put subscription"
            BY <1>0, <2>4, MovesFacts, StepsNamed DEF Activate
        <3> QED  BY <1>10, <3>1
    <2> QED  BY <1>2, <1>10, <2>1, <2>2, <2>3, <2>4, RequestSteps
<1> QED  BY <1>9, <1>10

LEMMA ActiveIsGrantedOrRetriedStep == Inv /\ [AccountsNext]_vars => ActiveIsGrantedOrRetried'
<1> SUFFICES ASSUME Inv, [AccountsNext]_vars, NEW u \in UserIds, u \notin overtaken',
                      users'[u] = "active", entitlements'[u] = "none"
               PROVE  \E e \in unacknowledged' : e.says = "active" /\ paying'[e.sub].user = u
    BY DEF ActiveIsGrantedOrRetried
<1>0. Grown /\ users \in [UserIds -> {"none", "pending", "overdue", "active"}] /\ u \notin overtaken
    BY StepGrows DEF Inv, AccountsTypeOK, Grown
<1>2. ASSUME NEW e \in unacknowledged, e.says = "active", paying[e.sub].user = u, ~ Settled(u)
      PROVE  \E d \in unacknowledged' : d.says = "active" /\ paying'[d.sub].user = u
    <2>1. e \in unacknowledged'
        BY <1>2, AcknowledgedIsSettled
    <2>2. e.sub \in DOMAIN paying /\ paying'[e.sub] = paying[e.sub]
        BY <1>0 DEF Inv, PaymentsBelong, Grown
    <2> QED  BY <1>2, <2>1, <2>2
<1>3. CASE users[u] = "active"
    <2>1. u \in Signed
        BY <1>3, UsersSigned
    <2>2. entitlements[u] = "none"
        BY <1>0, <1>3, <2>1, EntitlementStays
    <2>3. PICK e \in unacknowledged : e.says = "active" /\ paying[e.sub].user = u
        BY <1>0, <1>3, <2>2 DEF Inv, ActiveIsGrantedOrRetried
    <2>4. ~ Settled(u)
        BY <1>0, <1>3, <2>2 DEF Settled
    <2> QED  BY <1>2, <2>3, <2>4
<1>4. CASE users[u] # "active"
    <2>1. ASSUME NEW r \in Requests, Activate(r)
          PROVE  \E e \in unacknowledged' : e.says = "active" /\ paying'[e.sub].user = u
        <3>1. u = requests[r].user /\ users[u] # "none"
            BY <1>0, <1>4, <2>1 DEF Activate, Activated, Exists
        <3>2. requests[r].at \in AboutUser \ Early /\ requests[r].at \in EventSteps /\ requests[r].at = "activate"
            BY <2>1 DEF Activate, At, AboutUser, CheckoutSteps, Early, EventSteps
        <3>3. requests[r].event # NoEvent /\ requests[r].event.says = "active"
            BY <3>2 DEF Inv, RequestsOK, RequestOK
        <3>4. paying[requests[r].event.sub].user = u
            BY <3>1, <3>2, <3>3, EventUser
        <3>5. ~ Settled(u)
            BY <1>0, <1>4, <3>1 DEF Settled
        <3>6. requests[r].event \in unacknowledged
            BY <3>3, <3>4, <3>5 DEF Inv, EventsAreKept
        <3> QED  BY <1>2, <3>3, <3>4, <3>5, <3>6
    <2>2. ASSUME NEW r \in Requests, SignUp(r)  PROVE users'[u] # "active"
        BY <1>0, <1>4, <2>2, SignUpFacts
    <2>3. ASSUME NEW r \in Requests, DropUser(r), Unpaid(requests[r].user)  PROVE users'[u] # "active"
        BY <1>0, <1>4, <2>3 DEF DropUser
    <2>4. Expire => users'[u] # "active"
        BY <1>0, <1>4 DEF Expire
    <2>5. ASSUME NEW r \in Requests, \/ PutEntitlement(r) \/ PutCustomer(r) \/ PutSubscription(r)
                                     \/ DropCustomer(r) \/ DropSubscriptions(r) \/ DropEntitlement(r)
          PROVE  UNCHANGED users
        BY <2>5 DEF PutEntitlement, PutCustomer, PutSubscription, DropCustomer, DropSubscriptions,
                    DropEntitlement, Rejects, tables
    <2>6. UNCHANGED <<tables, signups, person>> => UNCHANGED users
        BY DEF tables
    <2> QED  BY <1>4, <2>1, <2>2, <2>3, <2>4, <2>5, <2>6, TableSteps
<1> QED  BY <1>3, <1>4

-----------------------------------------------------------------------------
(* The theorems *)

LEMMA InvInit == AccountsInit => Inv
<1> SUFFICES ASSUME AccountsInit  PROVE Inv
    OBVIOUS
<1>1. AccountsTypeOK
    BY TypeInit
<1>2. \A r \in Requests : requests[r].at = "idle" /\ requests[r].event = NoEvent /\ requests[r].ids = {}
    BY IdleType DEF AccountsInit
<1>3. IdsOfAccounts
    BY AccountsAssumption DEF AccountsInit, IdsOfAccounts, Signed, NoRow
<1>4. IdsOfPayments /\ PaymentsBelong /\ RowsBelong
    BY DEF AccountsInit, IdsOfPayments, PaymentsBelong, RowsBelong, NoRow
<1>5. RequestsOK /\ ActivatedBefore
    BY <1>2 DEF RequestsOK, RequestOK, ActivatedBefore, AboutUser, CheckoutSteps, Early, EventSteps,
                StoreSteps, CleanUpSteps
<1>6. HeldAreUnpaid /\ EventsAreKept
    BY <1>2 DEF HeldAreUnpaid, EventsAreKept, NoEvent
<1>7. GrantedAccountsAreActive /\ ActiveIsGrantedOrRetried
    BY DEF AccountsInit, GrantedAccountsAreActive, ActiveIsGrantedOrRetried
<1> QED  BY <1>1, <1>3, <1>4, <1>5, <1>6, <1>7 DEF Inv

LEMMA InvStep == Inv /\ [AccountsNext]_vars => Inv'
BY TypeStep, IdsOfAccountsStep, IdsOfPaymentsStep, RowsBelongStep, RequestsStep, ActivatedBeforeStep,
   GrantedStep, HeldAreUnpaidStep, EventsAreKeptStep, ActiveIsGrantedOrRetriedStep DEF Inv

\* The inductive invariant of the accounts holds.
THEOREM InvHolds == AccountsSpec => []Inv
BY InvInit, InvStep, PTL DEF AccountsSpec

\* Type correctness of the tables, the requests and the provider.
THEOREM TypeHolds == AccountsSpec => []AccountsTypeOK
<1>1. Inv => AccountsTypeOK
    BY DEF Inv
<1> QED  BY <1>1, InvHolds, PTL

\* Whatever events, failures and clean-ups interleave, an entitlement that grants
\* synchronisation belongs to an active account (service.go:241 activates first).
THEOREM GrantedAreActiveHolds == AccountsSpec => []GrantedAccountsAreActive
<1>1. Inv => GrantedAccountsAreActive
    BY DEF Inv
<1> QED  BY <1>1, InvHolds, PTL

\* Billing rows are about payments of the person who created the account: ids are
\* never given twice, so late events of deleted accounts hit nobody else.
THEOREM RowsBelongHolds == AccountsSpec => []RowsBelongToPayers
<1>1. Inv => RowsBelongToPayers
    BY DEF Inv, RowsBelong, RowsBelongToPayers, Owns
<1> QED  BY <1>1, InvHolds, PTL

\* An event of a payment is acknowledged only when its account is gone, granted, or
\* was activated while a clean-up held it: nobody stays active without entitlement
\* and without a further delivery.
THEOREM GrantedOrRetriedHolds == AccountsSpec => []ActiveIsGrantedOrRetried
<1>1. Inv => ActiveIsGrantedOrRetried
    BY DEF Inv
<1> QED  BY <1>1, InvHolds, PTL

\* No step deletes or deactivates an account that is active: the clean-up's DELETE
\* asks again whether the account is unpaid (identity.go:325).
THEOREM ActiveAccountsAlwaysStay == AccountsSpec => ActiveAccountsStay
<1>1. ASSUME Inv, [AccountsNext]_vars
      PROVE  [\A u \in UserIds : users[u] = "active" => users'[u] = "active"]_vars
    BY <1>1, StepGrows, UsersSigned DEF Grown
<1> QED  BY <1>1, InvHolds, PTL DEF AccountsSpec, ActiveAccountsStay
=============================================================================
