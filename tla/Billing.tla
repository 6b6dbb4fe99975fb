------------------------------- MODULE Billing -------------------------------
(***************************************************************************)
(* How an order becomes an invoice and a paid invoice becomes an           *)
(* entitlement: internal/billing, the payment handlers of                  *)
(* internal/api/public.go, the payments table of internal/store/store.go   *)
(* and the names of internal/store/nip05.go.                               *)
(*                                                                         *)
(* The actors run concurrently, one database statement or one question to  *)
(* the lightning backend at a time:                                        *)
(*   - Requests: HTTP requests in CreateOrder;                             *)
(*   - Workers:  HTTP requests in Settle (webhook, invoice status), and    *)
(*               Poller, the goroutine of Poll;                            *)
(*   - the payer, the clock, the operator and a restart.                   *)
(* SQLite serialises writing transactions, so each is one action.          *)
(*                                                                         *)
(* Prices, memos and the domain list are left out: only an order's shape   *)
(* decides what it may buy.  Time is in units of which InvoiceTTL make the *)
(* hour an invoice lives.                                                  *)
(***************************************************************************)
EXTENDS Nip05Names, Functions

CONSTANTS
  GroupIds, NoGroup, NewGroup,   \* ids groups get, no group, a group to be created
  Names, NoName,                 \* names on sale, and the order that buys none
  Hashes, NoHash,                \* payment hashes of invoices
  Requests,                      \* requests that may be placing an order
  Workers, Poller,               \* requests that may be settling, and the poll loop
  Backends,                      \* payment backends the operator may configure
  Orders,                        \* the orders buyers place
  InvoiceTTL,                    \* how long a pending invoice stays checkable
  PeriodTime, IncludedMB,        \* what one subscription period buys
  NameTime,                      \* what one NIP-05 term buys
  MaxTime,                       \* bound: the clock stops here
  Outages,                       \* BOOLEAN: the backend may fail, change, or we restart
  Meddling,                      \* BOOLEAN: an admin edits names, deletes accounts and groups
  Punctual                       \* BOOLEAN: a poll completes within every unit of time

Targets == Pubkeys \cup GroupIds      \* what periods and megabytes go to
Settlers == Workers \cup {Poller}

\* An account or a group, as far as billing reads and writes it.
Pot == [exists: BOOLEAN, expires: Nat, quota: Nat, permanent: BOOLEAN]
NoPot == [exists |-> FALSE, expires |-> 0, quota |-> 0, permanent |-> FALSE]

\* Order, after maxPeriods and maxExtraMB have bounded it.
Order == [name: Names \cup {NoName}, nameTerms: Nat, nameForever: BOOLEAN,
          group: GroupIds \cup {NoGroup, NewGroup},
          periods: Nat, extraMB: Nat, lifetimeMB: Nat]

\* PaymentMeta: what settling the invoice grants.
PaymentMeta == [name: Names \cup {NoName}, nameDays: Nat, nameForever: BOOLEAN,
                group: GroupIds \cup {NoGroup, NewGroup}, admission: BOOLEAN,
                days: Nat, mb: Nat, permanent: BOOLEAN]
NoMeta == [name |-> NoName, nameDays |-> 0, nameForever |-> FALSE, group |-> NoGroup,
           admission |-> FALSE, days |-> 0, mb |-> 0, permanent |-> FALSE]

\* What is recorded names the group, a new one by the id it was given.
RecordedMeta == {m \in PaymentMeta : m.group # NewGroup}

Payment == [status : {"none", "pending", "paid", "expired"},
            pubkey : Pubkeys \cup {Nobody}, meta: RecordedMeta, created: Nat]
NoPayment == [status |-> "none", pubkey |-> Nobody, meta |-> NoMeta, created |-> 0]

CheckoutRequest == [at: {"idle", "quoted", "reserved", "invoiced"},
                    pubkey: Pubkeys \cup {Nobody}, meta: PaymentMeta,
                    hash: Hashes \cup {NoHash}]
IdleRequest == [at |-> "idle", pubkey |-> Nobody, meta |-> NoMeta, hash |-> NoHash]

Settling == [at: {"idle", "panel", "ask", "grant"}, hash: Hashes \cup {NoHash}]
IdleWorker == [at |-> "idle", hash |-> NoHash]

ASSUME BillingAssumption ==
    /\ Orders \subseteq Order
    /\ {InvoiceTTL, PeriodTime, NameTime, IncludedMB, MaxTime} \subseteq Nat
    /\ InvoiceTTL > 0 /\ PeriodTime > 0   \* period_days is at least 1 (admin.go:301)
    /\ {Outages, Meddling, Punctual} \subseteq BOOLEAN
    /\ NoName \notin Names /\ NoHash \notin Hashes /\ Poller \notin Workers
    /\ NoGroup # NewGroup /\ {NoGroup, NewGroup} \cap GroupIds = {}
    /\ Pubkeys \cap GroupIds = {} /\ Nobody \notin GroupIds

VARIABLES
  now,       \* time.Now()
  payments,  \* the payments table
  pots,      \* accounts and groups
  owner,     \* the owner a group was created for; ids are never used twice
  names,     \* nip05_names
  backend,   \* the backend the settings select, what Provider() returns
  issued,    \* external: the invoices each backend made
  settled,   \* external: the invoices the lightning network has paid
  requests,  \* CreateOrder calls in progress
  workers,   \* Settle calls in progress
  poll,      \* the poll loop: its place and the invoices left in its list
  polled,    \* with Punctual: a poll completed in this unit of time
  meddled    \* history: accounts an admin deleted, names one handed out or took away

tables  == <<payments, pots, owner, names>>
outside == <<backend, issued, settled>>
vars == <<now, tables, outside, requests, workers, poll, polled, meddled>>

----------------------------------------------------------------------------
(* Quote.                                                                  *)

ForAccess(o) == o.periods > 0 \/ o.extraMB > 0 \/ o.lifetimeMB > 0
SubscriptionParts(o) == o.periods > 0 \/ o.extraMB > 0

\* ErrMixedPlans, ErrNameTaken and ErrNothingOrdered of an empty order.
SoundOrder(buyer, o) ==
    /\ ~(o.lifetimeMB > 0 /\ SubscriptionParts(o))
    /\ o.name # NoName => /\ o.nameForever \/ o.nameTerms > 0
                          /\ Nip05Available(names[o.name], buyer, now)
    /\ o.name # NoName \/ ForAccess(o)

\* quoteGroup: only the owner pays into an existing group.
GroupQuote(buyer, o) ==
    /\ ForAccess(o)
    /\ o.group \in GroupIds => /\ pots[o.group].exists
                               /\ owner[o.group] = buyer
                               /\ ~(pots[o.group].permanent /\ SubscriptionParts(o))

\* A mutation of AccountQuote: storage alone opens an account.
AccountQuoteWithoutPlan(buyer, o) ==
    pots[buyer].exists => ~(pots[buyer].permanent /\ SubscriptionParts(o))

\* ErrPlanRequired for a new account, ErrAlreadyPermanent for a lifetime one.
AccountQuote(buyer, o) ==
    IF pots[buyer].exists
    THEN ~(pots[buyer].permanent /\ SubscriptionParts(o))
    ELSE o.periods > 0 \/ o.lifetimeMB > 0

Quotable(buyer, o) ==
    /\ SoundOrder(buyer, o)
    /\ o.group # NoGroup => GroupQuote(buyer, o)
    /\ o.group = NoGroup /\ ForAccess(o) => AccountQuote(buyer, o)

Quoted(buyer, o) ==
    [name        |-> o.name,
     nameDays    |-> IF o.nameForever THEN 0 ELSE NameTime * o.nameTerms,
     nameForever |-> o.nameForever,
     group       |-> o.group,
     admission   |-> o.group = NoGroup /\ ForAccess(o) /\ ~pots[buyer].exists,
     days        |-> PeriodTime * o.periods,
     mb          |-> IncludedMB * o.periods + o.extraMB + o.lifetimeMB,
     permanent   |-> o.lifetimeMB > 0]

----------------------------------------------------------------------------
(* CreateOrder: quote, reserve the name, create the group and the invoice, *)
(* record the payment.  Each part commits on its own.                      *)

Quote(r, buyer, o) ==
    /\ requests[r].at = "idle"
    /\ Quotable(buyer, o)
    /\ requests' = [requests EXCEPT ![r] = [at |-> "quoted", pubkey |-> buyer,
                                            meta |-> Quoted(buyer, o), hash |-> NoHash]]
    /\ UNCHANGED <<now, tables, outside, workers, poll, polled, meddled>>

\* ReserveNip05, when the order is for a name.
Reserve(r) ==
    LET q == requests[r] IN
    /\ q.at = "quoted"
    /\ IF q.meta.name = NoName
       THEN /\ requests' = [requests EXCEPT ![r].at = "reserved"]
            /\ UNCHANGED names
       ELSE /\ CanReserve(names[q.meta.name], q.pubkey, now)
            /\ requests' = [requests EXCEPT ![r].at = "reserved"]
            /\ names' = [names EXCEPT ![q.meta.name] =
                             Reserved(@, q.pubkey, now + InvoiceTTL)]
    /\ UNCHANGED <<now, payments, pots, owner, outside, workers, poll, polled, meddled>>

\* ErrNameTaken of a lost race, or the backend cannot be built.
CheckoutRefused(r) ==
    LET q == requests[r] IN
    /\ q.at = "quoted"
    /\ Outages \/ (q.meta.name # NoName /\ ~CanReserve(names[q.meta.name], q.pubkey, now))
    /\ requests' = [requests EXCEPT ![r] = IdleRequest]
    /\ UNCHANGED <<now, tables, outside, workers, poll, polled, meddled>>

\* CreateGroup, when the order is for a new one: it has nothing bought yet.
GroupCreated(g, buyer) ==
    /\ owner[g] = Nobody
    /\ owner' = [owner EXCEPT ![g] = buyer]
    /\ pots'  = [pots EXCEPT ![g] = [NoPot EXCEPT !.exists = TRUE]]

\* meta.GroupID = group.ID
BilledTo(m, g) == [m EXCEPT !.group = g]

\* CreateGroup and CreateInvoice, both fine.  (The backend was looked up before
\* the name was reserved: a switch in between is one right after the invoice.)
OpenInvoice(r) ==
    LET q == requests[r] IN
    /\ q.at = "reserved"
    /\ \E h \in Hashes :
          /\ \A b \in Backends : h \notin issued[b]
          /\ issued' = [issued EXCEPT ![backend] = @ \cup {h}]
          /\ \/ /\ q.meta.group # NewGroup
                /\ requests' = [requests EXCEPT ![r].at = "invoiced", ![r].hash = h]
                /\ UNCHANGED <<owner, pots>>
             \/ \E g \in GroupIds :
                   /\ q.meta.group = NewGroup
                   /\ GroupCreated(g, q.pubkey)
                   /\ requests' = [requests EXCEPT ![r].at = "invoiced", ![r].hash = h,
                                                   ![r].meta = BilledTo(@, g)]
    /\ UNCHANGED <<now, payments, names, backend, settled, workers, poll, polled, meddled>>

\* releaseNip05
NameReleased(q) ==
    IF q.meta.name = NoName
    THEN UNCHANGED names
    ELSE names' = [names EXCEPT ![q.meta.name] = Released(@, q.pubkey)]

\* CreateGroup or CreateInvoice fails, or CreatePayment after the invoice was
\* made.  The reservation is given back; a group that was created stays.
CheckoutFails(r) ==
    LET q == requests[r] IN
    /\ Outages
    /\ q.at \in {"reserved", "invoiced"}
    /\ NameReleased(q)
    /\ \/ UNCHANGED <<owner, pots>>
       \/ \E g \in GroupIds : q.meta.group = NewGroup /\ GroupCreated(g, q.pubkey)
    /\ requests' = [requests EXCEPT ![r] = IdleRequest]
    /\ UNCHANGED <<now, payments, outside, workers, poll, polled, meddled>>

\* CreatePayment: from here on the buyer knows the invoice.
RecordPayment(r) ==
    LET q == requests[r] IN
    /\ q.at = "invoiced"
    /\ payments' = [payments EXCEPT ![q.hash] =
                        [status |-> "pending", pubkey |-> q.pubkey,
                         meta |-> q.meta, created |-> now]]
    /\ requests' = [requests EXCEPT ![r] = IdleRequest]
    /\ UNCHANGED <<now, pots, owner, names, outside, workers, poll, polled, meddled>>

----------------------------------------------------------------------------
(* Settle: read the row, ask the backend, grant.                           *)

Idle(w) == workers' = [workers EXCEPT ![w] = IdleWorker]

\* PaymentByHash of Settle: a row that is already paid needs nothing more.
ReadPayment(w, h) ==
    /\ payments[h].status # "none"
    /\ IF payments[h].status = "paid"
       THEN Idle(w)
       ELSE workers' = [workers EXCEPT ![w] = [at |-> "ask", hash |-> h]]

\* handleWebhook: any invoice, whatever its status.
Webhook(w, h) ==
    /\ workers[w].at = "idle"
    /\ payments[h].status # "paid"
    /\ ReadPayment(w, h)
    /\ UNCHANGED <<now, tables, outside, requests, poll, polled, meddled>>

\* handleInvoice asks only about a row it reads as pending...
InvoiceStatus(w, h) ==
    /\ workers[w].at = "idle"
    /\ payments[h].status = "pending"
    /\ workers' = [workers EXCEPT ![w] = [at |-> "panel", hash |-> h]]
    /\ UNCHANGED <<now, tables, outside, requests, poll, polled, meddled>>

\* ... and Settle then reads the row again.
InvoiceSettle(w) ==
    /\ workers[w].at = "panel"
    /\ ReadPayment(w, workers[w].hash)
    /\ UNCHANGED <<now, tables, outside, requests, poll, polled, meddled>>

\* A mutation of IsPaid: an issued invoice counts as paid.
IsIssued(h) == h \in issued[backend]

\* What IsPaid answers: a backend knows the invoices it made itself.
IsPaid(h) == h \in issued[backend] /\ h \in settled

\* Provider().IsPaid answers yes...
AskPaid(w) ==
    /\ workers[w].at = "ask"
    /\ IsPaid(workers[w].hash)
    /\ workers' = [workers EXCEPT ![w].at = "grant"]
    /\ UNCHANGED <<now, tables, outside, requests, poll, polled, meddled>>

\* ... or no, or the question fails.
AskUnpaid(w) ==
    /\ workers[w].at = "ask"
    /\ Outages \/ ~IsPaid(workers[w].hash)
    /\ Idle(w)
    /\ UNCHANGED <<now, tables, outside, requests, poll, polled, meddled>>

\* A mutation of Settleable: the flip forgets its WHERE status != 'paid'.
AlwaysSettleable(status) == TRUE

\* The row is flipped by whoever finds it not paid yet, an expired one too.
Settleable(status) == status # "paid"

PotOf(p) == IF p.meta.group # NoGroup THEN p.meta.group ELSE p.pubkey

\* A mutation of OpensAccount: any order of one's own opens the account.
AlwaysOpensAccount(m) == m.group = NoGroup

\* Everything but a bare name purchase opens the buyer's account.
OpensAccount(m) ==
    m.group = NoGroup /\ (m.admission \/ m.days > 0 \/ m.mb > 0 \/ m.permanent)

\* A mutation of Renewed: the term runs from now, what was left of it is lost.
RenewedFromNow(pot, days) ==
    IF days = 0 \/ pot.permanent THEN pot.expires ELSE now + days

\* A mutation of Renewed: a lifetime pot is given a term like any other.
RenewedAlways(pot, days) ==
    IF days = 0 THEN pot.expires ELSE Maximum(pot.expires, now) + days

\* max(expires_at, now) + days, for a pot that still has a term.
Renewed(pot, days) ==
    IF days = 0 \/ pot.permanent THEN pot.expires ELSE Maximum(pot.expires, now) + days

\* The pot after the three updates of grant: term, then quota, then plan.
Entitled(pot, m) ==
    [exists    |-> TRUE,
     expires   |-> IF m.permanent THEN 0 ELSE Renewed(pot, m.days),
     quota     |-> pot.quota + m.mb,
     permanent |-> pot.permanent \/ m.permanent]

PotGranted(p) ==
    IF pots[PotOf(p)].exists \/ OpensAccount(p.meta)
    THEN pots' = [pots EXCEPT ![PotOf(p)] = Entitled(@, p.meta)]
    ELSE UNCHANGED pots       \* no row to update: a bare name, a deleted group

\* A name that is no longer the buyer's is only logged as not granted.
NameGranted(p) ==
    LET m == p.meta IN
    IF m.name # NoName /\ names[m.name].pubkey = p.pubkey
    THEN names' = [names EXCEPT ![m.name] = Granted(@, m.nameDays, m.nameForever, now)]
    ELSE UNCHANGED names

\* grant: one transaction flips the row and applies what was bought.
Grant(w) ==
    LET h == workers[w].hash IN
    /\ workers[w].at = "grant"
    /\ Settleable(payments[h].status)
    /\ payments' = [payments EXCEPT ![h].status = "paid"]
    /\ PotGranted(payments[h])
    /\ NameGranted(payments[h])
    /\ Idle(w)
    /\ UNCHANGED <<now, owner, outside, requests, poll, polled, meddled>>

\* Somebody else already settled it, or a statement fails: all is rolled back.
GrantRolledBack(w) ==
    /\ workers[w].at = "grant"
    /\ Outages \/ ~Settleable(payments[workers[w].hash].status)
    /\ Idle(w)
    /\ UNCHANGED <<now, tables, outside, requests, poll, polled, meddled>>

----------------------------------------------------------------------------
(* pollOnce: settle what is pending, write off what is stale, purge names. *)

\* A mutation of Checkable: the age is not subtracted from the clock.
CheckableUnaged(p) == p.status = "pending" /\ now < p.created

\* A mutation of Stale: the write-off forgets to look at the status.
StaleWhateverStatus(p) == p.status # "none" /\ now >= p.created + InvoiceTTL

\* PendingPayments lists the checkable rows, ExpireStalePayments the stale ones.
Checkable(p) == p.status = "pending" /\ now < p.created + InvoiceTTL
Stale(p)     == p.status = "pending" /\ now >= p.created + InvoiceTTL

PollList ==
    /\ poll.at = "sleep"
    /\ poll' = [at |-> "settle", todo |-> {h \in Hashes : Checkable(payments[h])}]
    /\ UNCHANGED <<now, tables, outside, requests, workers, polled, meddled>>

\* The list is worked off one by one, in the order of created_at; here in any.
PollSettle(h) ==
    /\ poll.at = "settle" /\ h \in poll.todo
    /\ workers[Poller].at = "idle"
    /\ ReadPayment(Poller, h)
    /\ poll' = [poll EXCEPT !.todo = @ \ {h}]
    /\ UNCHANGED <<now, tables, outside, requests, polled, meddled>>

ExpireStalePayments ==
    /\ poll.at = "settle" /\ poll.todo = {}
    /\ workers[Poller].at = "idle"
    /\ payments' = [h \in Hashes |-> IF Stale(payments[h])
                                     THEN [payments[h] EXCEPT !.status = "expired"]
                                     ELSE payments[h]]
    /\ poll' = [poll EXCEPT !.at = "purge"]
    /\ UNCHANGED <<now, pots, owner, names, outside, requests, workers, polled, meddled>>

PurgeNip05Names ==
    /\ poll.at = "purge"
    /\ names' = [n \in Names |-> Purged(names[n], now)]
    /\ poll' = [poll EXCEPT !.at = "sleep"]
    /\ polled' = Punctual
    /\ UNCHANGED <<now, payments, pots, owner, outside, requests, workers, meddled>>

----------------------------------------------------------------------------
(* Around them: the payer, the clock, the operator, a restart.             *)

\* external: the buyer pays an invoice that was shown to them.
Pay(h) ==
    /\ payments[h].status # "none" /\ h \notin settled
    /\ settled' = settled \cup {h}
    /\ UNCHANGED <<now, tables, backend, issued, requests, workers, poll, polled, meddled>>

\* With Punctual, the 30 second loop keeps up: a unit of time does not end
\* before a poll that began in it has completed.
Tick ==
    /\ now < MaxTime
    /\ Punctual => polled /\ poll.at = "sleep"
    /\ now' = now + 1
    /\ polled' = FALSE
    /\ UNCHANGED <<tables, outside, requests, workers, poll, meddled>>

\* handleSaveSettings selects another backend; Resolver.Provider follows.
SwitchBackend(b) ==
    /\ Outages /\ b # backend
    /\ backend' = b
    /\ UNCHANGED <<now, tables, issued, settled, requests, workers, poll, polled, meddled>>

\* store.DeleteGroup, from the admin panel.
DeleteGroup(g) ==
    /\ Meddling /\ pots[g].exists
    /\ pots' = [pots EXCEPT ![g] = NoPot]
    /\ UNCHANGED <<now, payments, owner, names, outside, requests, workers, poll, polled, meddled>>

\* handleDeleteAccount; bound: an admin touches an account or a name once.
DeleteAccount(k) ==
    /\ Meddling /\ pots[k].exists /\ k \notin meddled
    /\ pots' = [pots EXCEPT ![k] = NoPot]
    /\ meddled' = meddled \cup {k}
    /\ UNCHANGED <<now, payments, owner, names, outside, requests, workers, poll, polled>>

\* handleSaveNip05Name
SaveNip05Name(n, pubkey, permanent) ==
    /\ Meddling /\ n \notin meddled
    /\ names' = [names EXCEPT ![n] = Saved(pubkey, now + NameTime, permanent)]
    /\ meddled' = meddled \cup {n}
    /\ UNCHANGED <<now, payments, pots, owner, outside, requests, workers, poll, polled>>

\* handleDeleteNip05Name
DeleteNip05Name(n) ==
    /\ Meddling /\ n \notin meddled
    /\ names' = [names EXCEPT ![n] = FreeName]
    /\ meddled' = meddled \cup {n}
    /\ UNCHANGED <<now, payments, pots, owner, outside, requests, workers, poll, polled>>

\* The process stops and starts again: only the database survives.
Restart ==
    /\ Outages
    /\ \/ \E r \in Requests : requests[r] # IdleRequest
       \/ \E w \in Settlers : workers[w] # IdleWorker
       \/ poll.at # "sleep"
    /\ requests' = [r \in Requests |-> IdleRequest]
    /\ workers' = [w \in Settlers |-> IdleWorker]
    /\ poll' = [at |-> "sleep", todo |-> {}]
    /\ UNCHANGED <<now, tables, outside, polled, meddled>>

----------------------------------------------------------------------------
Init ==
    /\ now = 0
    /\ payments = [h \in Hashes |-> NoPayment]
    /\ pots = [t \in Targets |-> NoPot]
    /\ owner = [g \in GroupIds |-> Nobody]
    /\ names = [n \in Names |-> FreeName]
    /\ backend \in Backends
    /\ issued = [b \in Backends |-> {}]
    /\ settled = {}
    /\ requests = [r \in Requests |-> IdleRequest]
    /\ workers = [w \in Settlers |-> IdleWorker]
    /\ poll = [at |-> "sleep", todo |-> {}]
    /\ polled = FALSE
    /\ meddled = {}

Checkout == \E r \in Requests :
    \/ \E buyer \in Pubkeys, o \in Orders : Quote(r, buyer, o)
    \/ Reserve(r) \/ CheckoutRefused(r) \/ OpenInvoice(r) \/ CheckoutFails(r) \/ RecordPayment(r)

Settle(w) == AskPaid(w) \/ AskUnpaid(w) \/ Grant(w) \/ GrantRolledBack(w)

Arrival == \E w \in Workers :
    \/ \E h \in Hashes : Webhook(w, h) \/ InvoiceStatus(w, h)
    \/ InvoiceSettle(w)

PollLoop == PollList \/ (\E h \in Hashes : PollSettle(h)) \/ ExpireStalePayments
            \/ PurgeNip05Names

Environment ==
    \/ Tick \/ Restart
    \/ \E h \in Hashes : Pay(h)
    \/ \E b \in Backends : SwitchBackend(b)
    \/ \E g \in GroupIds : DeleteGroup(g)
    \/ \E k \in Pubkeys : DeleteAccount(k)
    \/ \E n \in Names : \/ DeleteNip05Name(n)
                        \/ \E k \in Pubkeys, f \in BOOLEAN : SaveNip05Name(n, k, f)

Next == Checkout \/ Arrival \/ (\E w \in Settlers : Settle(w)) \/ PollLoop \/ Environment

Spec == Init /\ [][Next]_vars

\* The poll loop is a goroutine that is always scheduled and the backend always
\* answers it; nobody has to order, to pay, or to call a webhook.
FairSpec == Spec /\ WF_vars(PollLoop) /\ WF_vars(Settle(Poller))

----------------------------------------------------------------------------
(* Properties.                                                             *)

TypeOK ==
    /\ now \in Nat
    /\ payments \in [Hashes -> Payment]
    /\ pots \in [Targets -> Pot]
    /\ owner \in [GroupIds -> Pubkeys \cup {Nobody}]
    /\ names \in [Names -> Nip05Name]
    /\ backend \in Backends
    /\ issued \in [Backends -> SUBSET Hashes]
    /\ settled \in SUBSET Hashes
    /\ requests \in [Requests -> CheckoutRequest]
    /\ workers \in [Settlers -> Settling]
    /\ poll \in [at: {"sleep", "settle", "purge"}, todo: SUBSET Hashes]
    /\ polled \in BOOLEAN
    /\ meddled \in SUBSET (Names \cup Pubkeys)

\* Nothing is granted that was not paid for: every row marked paid is an invoice
\* the network settled, whatever the interleaving of webhook, panel and poller
\* and whichever backend was asked.
PaidIsSettled == \A h \in Hashes : payments[h].status = "paid" => h \in settled

PaidFor(t)  == {h \in Hashes : payments[h].status = "paid" /\ PotOf(payments[h]) = t}
PaidMB(t)   == SumFunctionOnSet([h \in Hashes |-> payments[h].meta.mb], PaidFor(t))
PaidDays(t) == SumFunctionOnSet([h \in Hashes |-> payments[h].meta.days], PaidFor(t))

\* The quota of every account and group is the sum of what was paid into it: no
\* invoice is credited twice, to somebody else or in part ("a payment can never
\* be credited twice", billing.go:370).  An account an admin deleted starts anew.
QuotaIsLedger ==
    \A t \in Targets \ meddled : pots[t].exists =>
        pots[t].quota = PaidMB(t)

\* Renewals accumulate: a pot that expires at all does so no earlier than all the
\* terms paid into it add up to, in whatever order they were settled.
TermCoversPaidDays ==
    \A t \in Targets \ meddled : pots[t].exists /\ ~pots[t].permanent =>
        pots[t].expires >= PaidDays(t)

\* "storage alone buys nothing without a plan behind it" (billing.go:152): an
\* account with storage has a term or the lifetime plan, unless an admin deleted it
\* while a storage order was out.
AccountStorageHasAPlan ==
    \A k \in Pubkeys \ meddled : pots[k].quota > 0 => pots[k].permanent \/ pots[k].expires > 0

\* "Buying a name does not create an account row, so the admission fee is still
\* owed" (README.md:406): whoever has an account has paid admission.
AccountsAreAdmitted ==
    \A k \in Pubkeys : pots[k].exists =>
        \E h \in PaidFor(k) : payments[h].meta.admission

\* A settled payment stays settled: the poller's write-off, which runs beside
\* webhooks, never turns a paid row into an expired one.
PaidIsFinal ==
    [][\A h \in Hashes : payments[h].status = "paid" => payments'[h].status = "paid"]_payments

\* What was bought outright is never given a term again, even by a subscription
\* invoice that was ordered before and settles after the lifetime one.
LifetimeIsKept ==
    [][\A t \in Targets : pots[t].permanent /\ pots'[t].exists =>
          pots'[t].permanent /\ pots'[t].expires = 0]_pots

\* A name that resolves, or that somebody is paying for, changes hands only by an
\* admin: no other buyer's order and no purge takes it, and its owner's own orders
\* never shorten it.  Its owner's failed checkout may give back what is not paid.
HeldNameIsKept ==
    [][\A n \in Names : LET old == names[n]
                             new == names'[n] IN
          Held(old, now) /\ n \notin meddled' \ meddled =>
              \/ new.pubkey = old.pubkey /\ new.expires >= old.expires
                 /\ (old.permanent => new.permanent)
              \/ new = FreeName /\ ~Live(old, now)
                 /\ \E r \in Requests : /\ requests[r].pubkey = old.pubkey
                                         /\ requests[r].meta.name = n
                                         /\ requests'[r] = IdleRequest]_names

\* What a row is to the ledger: one written off as expired is still due.
BillOf(p) == IF p.status = "none" THEN "none"
             ELSE IF p.status = "paid" THEN "credited" ELSE "due"

\* Every behaviour is one of the abstract ledger: an invoice is credited once, in
\* one step, whole, after it was paid.
Ledger == INSTANCE InvoiceLedger WITH
    bills <- [h \in Hashes |-> BillOf(payments[h])],
    paid  <- settled,
    quota <- [t \in Targets |-> pots[t].quota]
LedgerSpec == Ledger!Spec

\* A payment made while at least one more whole unit of the hour is left is
\* credited by the poll loop alone, with no webhook and no page open.
EarlyPaymentIsCredited ==
    \A h \in Hashes :
        (h \in settled /\ payments[h].status = "pending" /\
            now + 1 < payments[h].created + InvoiceTTL)
        ~> payments[h].status = "paid"

\* What README.md:540 says of the poll loop, here of a payment made while the
\* invoice is within its hour: "the poller catches the payment within 30 seconds".
PollerCatchesPayment ==
    \A h \in Hashes :
        (h \in settled /\ Checkable(payments[h])) ~> payments[h].status = "paid"

\* What billing.go:398 says: the name was reserved for this buyer, so granting it
\* "can only miss if an admin took the name away in the meantime".
NameMissedOnlyByAdmin ==
    [][\A h \in Hashes : LET m == payments[h].meta IN
          /\ payments[h].status # "paid" /\ payments'[h].status = "paid"
          /\ m.name # NoName
          => \/ names'[m.name].pubkey = payments[h].pubkey
             \/ m.name \in meddled]_payments
===============================================================================
