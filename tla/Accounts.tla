------------------------------- MODULE Accounts -------------------------------
(***************************************************************************)
(* Accounts of the cloud deployment: sign-ups that wait for a payment      *)
(* (internal/store/identity.go, internal/auth/manager.go), the checkout    *)
(* and the provider's webhooks (internal/billing/service.go), and the      *)
(* clean-up of sign-ups that were never paid.  The handlers run            *)
(* concurrently, and each of their SQL statements is a transaction of its  *)
(* own: between two of them anything may happen, and any of them may be    *)
(* the last one of its request.                                            *)
(*                                                                         *)
(* The provider delivers an event until it is acknowledged, in any order,  *)
(* and may deliver it again after that.                                    *)
(***************************************************************************)
EXTENDS Naturals, Sequences, FiniteSets

CONSTANTS
    Requests,          \* requests the server may be working on at once
    MaxSignups,        \* bound: accounts ever created
    MaxAccounts,       \* bound: accounts at the same time
    MaxCustomers,      \* bound: customers created at the provider
    MaxSubscriptions,  \* bound: checkouts that end in a subscription
    MaxFailures,       \* bound: statements and calls that fail
    Notices            \* kinds of later events, as <<status, has a user id>>

ASSUME AccountsAssumption ==
    /\ MaxSignups \in Nat /\ MaxAccounts \in Nat /\ MaxCustomers \in Nat
    /\ MaxSubscriptions \in Nat /\ MaxFailures \in Nat
    /\ Notices \subseteq {"active", "lapsed"} \X BOOLEAN

UserIds == 1 .. MaxSignups
SubscriptionIds == 1 .. MaxSubscriptions

VARIABLES
    users,          \* users[u]: "none", "pending", "overdue" (checkout_expires_at
                    \* has passed) or "active"
    customers,      \* customers[u]: provider_customer_id of u's row, 0 without one
    subscriptions,  \* subscriptions[s]: [user, status], user 0 without a row
    entitlements,   \* entitlements[u]: status, "none" without a row
    requests,       \* what each request of the server does next
    paying,         \* provider: subscriptions, each with user id and customer
    checkouts,      \* provider: open checkout sessions
    unacknowledged, \* provider: events to deliver
    issued,         \* provider: customers created so far, by the person behind them
    signups,        \* how many accounts have been created
    person,         \* history: person[u] is the sign-up that got the id u
    overtaken,      \* history: accounts activated while a clean-up held their id
    failures

tables == <<users, customers, subscriptions, entitlements>>
provider == <<paying, checkouts, unacknowledged, issued>>
history == <<signups, person, overtaken, failures>>
vars == <<tables, requests, provider, history>>

Statuses == {"active", "lapsed"}

\* What a webhook says of a subscription: checkout.session.completed links the
\* customer, the others carry a status; named ones have the user id in their
\* metadata (ParseWebhook).
Events == [sub : SubscriptionIds, says : {"linked"} \cup Statuses, named : BOOLEAN]

NoRow == [user |-> 0, status |-> "none"]
NoEvent == [sub |-> 0, says |-> "nothing", named |-> TRUE]

Idle == [at |-> "idle", user |-> 0, payer |-> 0, customer |-> 0, event |-> NoEvent, ids |-> {}]

AccountsInit ==
    /\ users = [u \in UserIds |-> "none"]
    /\ customers = [u \in UserIds |-> 0]
    /\ subscriptions = [s \in SubscriptionIds |-> NoRow]
    /\ entitlements = [u \in UserIds |-> "none"]
    /\ requests = [r \in Requests |-> Idle]
    /\ paying = <<>> /\ checkouts = {} /\ unacknowledged = {} /\ issued = <<>>
    /\ signups = 0 /\ person = [u \in UserIds |-> 0] /\ overtaken = {} /\ failures = 0

Exists(u) == users[u] # "none"

At(r, step) == requests[r].at = step
Moves(r, step) == requests' = [requests EXCEPT ![r].at = step]
Ends(r) == requests' = [requests EXCEPT ![r] = Idle]

\* Broken variant: the provider is told that a failed event was processed.
RejectsQuietly(r) ==
    /\ Ends(r)
    /\ unacknowledged' = unacknowledged \ {requests[r].event}
    /\ UNCHANGED <<tables, paying, checkouts, issued>>

\* The handler answers with an error; the provider keeps the event.
Rejects(r) == Ends(r) /\ UNCHANGED <<tables, provider>>

-----------------------------------------------------------------------------
(***************************************************************************)
(* Sign-up and checkout.                                                   *)
(***************************************************************************)
\* Broken variant: the id of a deleted account is used again.
FreeId == CHOOSE u \in UserIds : ~Exists(u) /\ \A v \in UserIds : v < u => Exists(v)

\* users.id is AUTOINCREMENT.
NextId == signups + 1

Wants(u, who) == [Idle EXCEPT !.at = "find customer", !.user = u, !.payer = who]

\* CreateProvisionalUser; the request goes on to the checkout.
SignUp(r) ==
    /\ At(r, "idle") /\ signups < MaxSignups
    /\ Cardinality({u \in UserIds : Exists(u)}) < MaxAccounts
    /\ signups' = signups + 1
    /\ users' = [users EXCEPT ![NextId] = "pending"]
    /\ person' = [person EXCEPT ![NextId] = signups + 1]
    /\ requests' = [requests EXCEPT ![r] = Wants(NextId, signups + 1)]
    /\ UNCHANGED <<customers, subscriptions, entitlements, provider, overtaken, failures>>

\* Somebody signed in asks for a checkout; an overdue account cannot sign in.
StartCheckout(r) ==
    /\ At(r, "idle") /\ Len(paying) < MaxSubscriptions
    /\ \E u \in UserIds :
          /\ users[u] \in {"pending", "active"}
          /\ requests' = [requests EXCEPT ![r] = Wants(u, person[u])]
    /\ UNCHANGED <<tables, provider, history>>

\* ensureProviderCustomer, one statement or call at a time.
FindCustomer(r) ==
    LET found == customers[requests[r].user] IN
    /\ At(r, "find customer")
    /\ IF found = 0 THEN Moves(r, "create customer")
       ELSE requests' = [requests EXCEPT ![r].at = "open checkout", ![r].customer = found]
    /\ UNCHANGED <<tables, provider, history>>

\* The provider refuses when the bound is reached.
CreateCustomer(r) ==
    /\ At(r, "create customer")
    /\ IF Len(issued) < MaxCustomers
       THEN /\ issued' = Append(issued, requests[r].payer)
            /\ requests' = [requests EXCEPT ![r].at = "put customer",
                                           ![r].customer = Len(issued) + 1]
            /\ UNCHANGED <<tables, paying, checkouts, unacknowledged>>
       ELSE Rejects(r)
    /\ UNCHANGED history

OpenCheckout(r) ==
    /\ At(r, "open checkout")
    /\ checkouts' = IF Len(paying) = MaxSubscriptions THEN {}
          ELSE checkouts \cup {[user |-> requests[r].user, customer |-> requests[r].customer]}
    /\ Ends(r)
    /\ UNCHANGED <<tables, paying, unacknowledged, issued, history>>

-----------------------------------------------------------------------------
(***************************************************************************)
(* Webhooks.                                                               *)
(***************************************************************************)
\* A named event says who its user is.
Deliver(r, e) ==
    /\ At(r, "idle") /\ e \in unacknowledged
    /\ requests' = [requests EXCEPT ![r] =
          [Idle EXCEPT !.at = IF e.named THEN "put customer" ELSE "find user", !.event = e,
                       !.user = IF e.named THEN paying[e.sub].user ELSE 0,
                       !.customer = paying[e.sub].customer]]
    /\ UNCHANGED <<tables, provider, history>>

\* resolveUserID without a user id: first the user of the customer, then the one
\* of the subscription.
Customers(c) == {u \in UserIds : customers[u] = c}
Subscriber(s) == {subscriptions[s].user} \ {0}

Resolves(r, found) ==
    \E u \in found :
       /\ requests' = [requests EXCEPT ![r].at = "put customer", ![r].user = u]
       /\ UNCHANGED <<tables, provider>>

FindByCustomer(r) ==
    /\ At(r, "find user")
    /\ \/ Resolves(r, Customers(requests[r].customer))
       \/ /\ Customers(requests[r].customer) = {}
          /\ Moves(r, "find subscriber")
          /\ UNCHANGED <<tables, provider>>
    /\ UNCHANGED history

FindBySubscription(r) ==
    LET found == Subscriber(requests[r].event.sub) IN
    /\ At(r, "find subscriber")
    /\ Resolves(r, found) \/ (found = {} /\ Rejects(r))
    /\ UNCHANGED history

\* PutBillingCustomer: foreign key and UNIQUE(provider, provider_customer_id).
PutCustomer(r) ==
    LET u == requests[r].user
        c == requests[r].customer IN
    /\ At(r, "put customer")
    /\ IF Exists(u) /\ \A v \in UserIds \ {u} : customers[v] # c
       THEN /\ customers' = [customers EXCEPT ![u] = c]
            /\ Moves(r, "read customer")
            /\ UNCHANGED <<users, subscriptions, entitlements, provider>>
       ELSE Rejects(r)
    /\ UNCHANGED history

\* Broken variant: the account is activated when everything else is stored.
StoredBeforeActivated(r) ==
    CASE requests[r].event = NoEvent -> "open checkout"
      [] requests[r].event.says = "linked" -> "respond"
      [] OTHER -> "put subscription"

\* applyCustomerLinked and applySubscriptionStateChanged have the row; what is next?
WithCustomer(r) ==
    CASE requests[r].event = NoEvent -> "open checkout"
      [] requests[r].event.says = "linked" -> "respond"
      [] requests[r].event.says = "active" -> "activate"
      [] OTHER -> "put subscription"

\* PutBillingCustomer reads its row back.
ReadCustomer(r) ==
    /\ At(r, "read customer")
    /\ IF customers[requests[r].user] = 0 THEN Rejects(r)
       ELSE Moves(r, WithCustomer(r)) /\ UNCHANGED <<tables, provider>>
    /\ UNCHANGED history

\* Ids a clean-up has selected and not finished with
HeldByCleanUp == UNION {requests[r].ids : r \in Requests}

\* Broken variant: a payment after checkout_expires_at comes too late.
ActivatedInTime(u) == IF users[u] = "pending" THEN "active" ELSE users[u]

Activated(u) == IF Exists(u) THEN "active" ELSE "none"

\* ActivateUser
Activate(r) ==
    LET u == requests[r].user IN
    /\ At(r, "activate")
    /\ users' = [users EXCEPT ![u] = Activated(u)]
    /\ overtaken' = overtaken \cup ({u} \cap HeldByCleanUp)
    /\ Moves(r, "put subscription")
    /\ UNCHANGED <<customers, subscriptions, entitlements, provider, signups, person, failures>>

PutSubscription(r) ==
    LET u == requests[r].user
        e == requests[r].event IN
    /\ At(r, "put subscription")
    /\ IF Exists(u)
       THEN /\ subscriptions' = [subscriptions EXCEPT ![e.sub] = [user |-> u, status |-> e.says]]
            /\ Moves(r, "read subscription")
            /\ UNCHANGED <<users, customers, entitlements, provider>>
       ELSE Rejects(r)
    /\ UNCHANGED history

ReadSubscription(r) ==
    /\ At(r, "read subscription")
    /\ IF subscriptions[requests[r].event.sub] = NoRow THEN Rejects(r)
       ELSE Moves(r, "put entitlement") /\ UNCHANGED <<tables, provider>>
    /\ UNCHANGED history

PutEntitlement(r) ==
    LET u == requests[r].user IN
    /\ At(r, "put entitlement")
    /\ IF Exists(u)
       THEN /\ entitlements' = [entitlements EXCEPT ![u] = requests[r].event.says]
            /\ Moves(r, "respond")
            /\ UNCHANGED <<users, customers, subscriptions, provider>>
       ELSE Rejects(r)
    /\ UNCHANGED history

Respond(r) ==
    /\ At(r, "respond")
    /\ unacknowledged' = unacknowledged \ {requests[r].event}
    /\ Ends(r)
    /\ UNCHANGED <<tables, paying, checkouts, issued, history>>

-----------------------------------------------------------------------------
(***************************************************************************)
(* DeleteExpiredProvisionalUsers: a query, then five statements per id.    *)
(***************************************************************************)
Overdue == {u \in UserIds : users[u] = "overdue"}

\* The ids that are left, in any order: the query has no ORDER BY.
GoesOnWith(r, ids) ==
    \/ ids = {} /\ Ends(r)
    \/ \E u \in ids : requests' = [requests EXCEPT ![r] =
          [Idle EXCEPT !.at = "drop customer", !.user = u, !.ids = ids]]

StartCleanUp(r) ==
    /\ At(r, "idle") /\ GoesOnWith(r, Overdue)
    /\ UNCHANGED <<tables, provider, history>>

Without(u, rows) ==
    [s \in SubscriptionIds |-> IF rows[s].user = u THEN NoRow ELSE rows[s]]

DropCustomer(r) ==
    /\ At(r, "drop customer")
    /\ customers' = [customers EXCEPT ![requests[r].user] = 0]
    /\ Moves(r, "drop subscriptions")
    /\ UNCHANGED <<users, subscriptions, entitlements, provider, history>>

DropSubscriptions(r) ==
    /\ At(r, "drop subscriptions")
    /\ subscriptions' = Without(requests[r].user, subscriptions)
    /\ Moves(r, "drop entitlement")
    /\ UNCHANGED <<users, customers, entitlements, provider, history>>

DropEntitlement(r) ==
    /\ At(r, "drop entitlement")
    /\ entitlements' = [entitlements EXCEPT ![requests[r].user] = "none"]
    /\ Moves(r, "drop user")
    /\ UNCHANGED <<users, customers, subscriptions, provider, history>>

\* Broken variant: the statement trusts the earlier query.
SelectedAsUnpaid(u) == Exists(u)

\* AND account_status = 'checkout_pending'
Unpaid(u) == users[u] \in {"pending", "overdue"}

\* The rows of a deleted account go with it (ON DELETE CASCADE).
DropUser(r) ==
    LET u == requests[r].user IN
    /\ At(r, "drop user")
    /\ IF Unpaid(u)
       THEN /\ users' = [users EXCEPT ![u] = "none"]
            /\ customers' = [customers EXCEPT ![u] = 0]
            /\ subscriptions' = Without(u, subscriptions)
            /\ entitlements' = [entitlements EXCEPT ![u] = "none"]
       ELSE UNCHANGED tables
    /\ GoesOnWith(r, requests[r].ids \ {u})
    /\ UNCHANGED <<provider, history>>

-----------------------------------------------------------------------------
(***************************************************************************)
(* Failures, time and the provider.                                        *)
(***************************************************************************)
\* A statement or a call fails, the answer is lost, or the server stops.
Fail(r) ==
    /\ ~At(r, "idle") /\ failures < MaxFailures
    /\ Rejects(r)
    /\ failures' = failures + 1
    /\ UNCHANGED <<signups, person, overtaken>>

\* The 24 hours of a sign-up are over.
Expire ==
    /\ \E u \in UserIds : users[u] = "pending" /\ users' = [users EXCEPT ![u] = "overdue"]
    /\ UNCHANGED <<customers, subscriptions, entitlements, requests, provider, history>>

\* A checkout session ends with a payment.
Pay ==
    /\ Len(paying) < MaxSubscriptions
    /\ \E k \in checkouts :
          /\ paying' = Append(paying, k)
          /\ checkouts' = IF Len(paying') = MaxSubscriptions THEN {} ELSE checkouts \ {k}
          /\ unacknowledged' = unacknowledged \cup
                {[sub |-> Len(paying) + 1, says |-> "linked", named |-> TRUE],
                 [sub |-> Len(paying) + 1, says |-> "active", named |-> TRUE]}
    /\ UNCHANGED <<tables, requests, issued, history>>

\* A later event of a subscription, or one that was acknowledged comes again.
Notify ==
    /\ \E s \in DOMAIN paying, n \in Notices :
          unacknowledged' = unacknowledged \cup {[sub |-> s, says |-> n[1], named |-> n[2]]}
    /\ UNCHANGED <<tables, requests, paying, checkouts, issued, history>>

-----------------------------------------------------------------------------
Checkout(r) == SignUp(r) \/ StartCheckout(r) \/ FindCustomer(r) \/ CreateCustomer(r) \/ OpenCheckout(r)

Webhook(r) ==
    \/ FindByCustomer(r) \/ FindBySubscription(r) \/ PutCustomer(r) \/ ReadCustomer(r)
    \/ Activate(r) \/ PutSubscription(r) \/ ReadSubscription(r) \/ PutEntitlement(r) \/ Respond(r)

CleanUp(r) ==
    StartCleanUp(r) \/ DropCustomer(r) \/ DropSubscriptions(r) \/ DropEntitlement(r) \/ DropUser(r)

AccountsNext ==
    \/ \E r \in Requests : Checkout(r) \/ Webhook(r) \/ CleanUp(r) \/ Fail(r)
    \/ \E r \in Requests, e \in Events : Deliver(r, e)
    \/ Expire \/ Pay \/ Notify

Proceeds(r) == (Checkout(r) \/ Webhook(r) \/ CleanUp(r)) /\ ~At(r, "idle")

\* A request that has begun goes on, and the provider delivers again and again
\* the event that reports a payment.
Fairness ==
    /\ \A r \in Requests : WF_vars(Proceeds(r))
    /\ \A s \in SubscriptionIds :
          SF_vars(\E r \in Requests : Deliver(r, [sub |-> s, says |-> "active", named |-> TRUE]))

AccountsSpec == AccountsInit /\ [][AccountsNext]_vars /\ Fairness

-----------------------------------------------------------------------------
(***************************************************************************)
(* Properties                                                              *)
(***************************************************************************)
\* Synchronisation is granted to paid accounts only: syncUsableForUser looks at
\* the entitlement alone, reading at the account as well (api.go:851, 857).
GrantedAccountsAreActive ==
    \A u \in UserIds : entitlements[u] = "active" => users[u] = "active"

\* The clean-up never deletes an account that has been paid for, however late in
\* its work the payment arrives (identity.go:325).
ActiveAccountsStay ==
    [][\A u \in UserIds : users[u] = "active" => users'[u] = "active"]_vars

\* What the tables say of an account comes from payments of the person who
\* created it, although events come late, for deleted accounts or without a
\* user id.
RowsBelongToPayers ==
    /\ \A u \in UserIds : customers[u] # 0 => issued[customers[u]] = person[u]
    /\ \A s \in SubscriptionIds :
          subscriptions[s].user # 0 =>
             issued[paying[s].customer] = person[subscriptions[s].user]

\* An account that was activated has its entitlement, or the provider still has
\* the event that gives it one, whatever failed in between (service.go:241).
\* A clean-up that held the account while it was activated is left out.
ActiveIsGrantedOrRetried ==
    \A u \in UserIds \ overtaken :
       users[u] = "active" /\ entitlements[u] = "none" =>
          \E e \in unacknowledged : e.says = "active" /\ paying[e.sub].user = u

\* Who has paid gets an active account in the end, unless the clean-up came first.
PaidAccountsActivate ==
    \A s \in SubscriptionIds :
       s <= Len(paying) /\ [sub |-> s, says |-> "active", named |-> TRUE] \in unacknowledged
          ~> s <= Len(paying) /\ users[paying[s].user] \in {"active", "none"}
=============================================================================
