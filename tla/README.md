# nostrel, specified

TLA+ models of nostrel, a paid Nostr relay in Go: what a payment buys, what an
event costs, what is deleted and stays deleted. The modules are translated from
the code under `internal/`; line numbers below refer to the repository.

## The system

One process, one SQLite database, many goroutines. Nothing but the database
survives a restart. HTTP handlers (panel, payments, media) and websocket handlers
(the relay protocol) run concurrently; **each websocket message gets a goroutine
of its own** (`relaycore/handlers.go:152`). SQLite serialises writing
transactions, but a handler is a sequence of separate statements and calls, so
another handler may run between any two of them. That is where the hard behaviour is.

| Component | State it keeps | Operations | What makes it correct |
|---|---|---|---|
| Billing (`internal/billing`) | `payments`, `accounts`, `groups` | quote, order, settle, poll | a paid invoice is credited once, whole, and never lost |
| Payment backends (`internal/payments`) | the backend selected in the settings, one connection to the wallet's relay | create invoice, is it paid | only what the network settled is paid; an answer is told to the call that asked |
| NIP-05 names (`store/nip05.go`) | `nip05_names` | reserve, release, grant, purge | a held name changes hands only by an admin |
| Usage (`store/store.go`, `store/groups.go`) | `usage_events`, `used_bytes`, `group_members` | add, remove, reconcile, recompute | counters are the sum of the rows, rows are the stored events |
| Event write path (`relaycore/adding.go`, `relay/policy.go`, `relay/sponsored.go`) | `event` | gate, store, replace, charge | nothing is stored unpaid, quota overshoot is bounded |
| Deletion, bans, vanish (`relaycore/deleting.go`, `relay/management.go`, `relay/vanish.go`) | `event`, `moderation`, `vanished` | delete, ban, forget, expire | what was removed stays out |
| Accounts and invites (`store/invites.go`, `relay/nip43.go`, `api/admin.go`) | `accounts`, `invites` | claim, grant, edit, ban | no edit is lost, no code is over-used |
| Files (`internal/blobs`, `relaycore/blossom`) | `blobs`, bytes on disk or S3, index events | keep, charge, delete, forget | bytes live while somebody owns them, owners pay once |
| Subscriptions (`relaycore/listener.go`) | `rl.clients`, `rl.listeners` | REQ, CLOSE, notify, disconnect | nobody misses an event, no listener leaks |
| Expiration (`relaycore/expiration.go`) | a heap | scan, track, sweep | an expired event is eventually gone |
| Membership (`relay/nip43.go`) | published list, dirty flag | publish, watch | the list converges to the accounts |
| Settings (`store/store.go:508`) | one JSON row | read, edit, write back | no edit is lost |

Billing writes the accounts and groups that the event gate reads; the event path
writes the usage that the gate compares with the quota; bans, deletions, requests to
vanish and the expiration sweep remove events while other goroutines are writing
them. `PROJECT.json` lists what can go wrong at each line (`hazards`).

## The plan

1. `Billing`, with `Nip05Names` for the name rows and `InvoiceLedger` as the abstract
   promise; proofs in `BillingProofs`. Done.
2. `EventUsage`: the life of an event and its bill; proofs in `EventUsageProofs`. Done.
3. `Blobs`: several owners of one file; proofs in `BlobsProofs`. Done.
4. `Listeners`: subscriptions and the broadcast, with `Subscribers` as the abstract promise;
   proofs in `ListenersProofs`. Done.
5. `Accounts`: whoever is let in without paying, and who edits accounts; `Membership`
   composes it with the published list; proofs in `AccountsProofs`. Done.
6. `Expiration`: the heap and the sweep; proofs in the last part
   of `EventUsageProofs`. Done.
7. `Settings`: one row, many editors, and the storage that follows it; proofs in
   `SettingsProofs`. Done.
8. `NWC`: the wallet connection, shown to be the `Provider` that `Billing` takes for
   granted; proofs in `NWCProofs`. Done.

9. `Sums`: what the sum of a function over a finite set obeys; with it the theorems about
   quotas, terms and counters. Done.

What is left: group edits by an admin; the rate limiter; a set of owners as the abstract
promise of `Blobs`.

## Billing

`Billing.tla` follows `billing.go`, `poller.go` and the payment handlers of
`api/public.go`, one action per database statement or question to the backend:

| Code | Actions |
|---|---|
| `CreateOrder` | `Quote`, `Reserve` or `CheckoutRefused`, `OpenInvoice` (group and invoice), `RecordPayment`; `CheckoutFails` at each point where the code gives the name back |
| `Settle` from `handleWebhook`, `handleInvoice` | `Webhook`; `InvoiceStatus`, `InvoiceSettle` |
| `IsPaid`, `grant` | `AskPaid`, `AskUnpaid`; `Grant`, `GrantRolledBack` |
| `pollOnce` | `PollList`, `PollSettle`, `ExpireStalePayments`, `PurgeNip05Names` |
| admin panel | `SwitchBackend`, `DeleteGroup`, `DeleteAccount`, `SaveNip05Name`, `DeleteNip05Name` |
| outside | `Pay`, `Tick`, `Restart` |

`requests` holds the locals of each `CreateOrder` in progress, `workers` those of each
`Settle`, `poll` the place of the poll loop and the rest of its list. `Nip05Names.tla`
holds the SQL statements on one row of `nip05_names` as operators. Accounts and groups
are both `pots`, since `grant` updates them by the same statements. Prices, memos,
domains and premium tiers are left out; an order that costs nothing is refused by the
code, and every order in the configurations costs something.

`InvoiceLedger.tla` is the promise of `billing.go:333-336` and `370-372`: none, due,
credited; credited once, after it was paid, one pot at most gaining. `LedgerSpec` states that
`Billing` implements it, with `BillOf` mapping rows (an expired row is still due:
`grant` accepts it).

## Event usage

`EventUsage.tla` follows one EVENT message through `handlers.go`, `deleting.go`,
`adding.go`, `policy.go` and the accounting in the store:

| Code | Actions |
|---|---|
| EVENT envelope | `Receive` |
| `handleDeleteRequest` | `SeekTarget`, `EraseTarget`, `RefundTarget` |
| `handleNormal` | `Gate` (`rejectEvent`), `CheckDeleted`, `StoreRegular`, `StoreReplaceable` |
| `chargeUsage` | `ChoosePot`, `Bill`, `Reconcile`; `Vanish` for kind 62 |
| `banEvent`, `checkExpiredEvents` | `BanEvent` or `Expire`, then `FindEvent`, `EraseEvent`, `RefundEvent` |
| the clock, operators | `Lapse`; `AllowEvent`, `Suspend`, `OpenAccount`, `DeleteAccount`, `ChangeGroup`, `DeleteGroup`, `Unvanish` |
| a stop | `Restart` |

Two history variables say where the code is known to be weaker than its promise, so that
the properties hold everywhere else. `raced` collects the events two handlers had in hand
at the same moment, or one while the author's request to vanish was carried out or while
the author became a stranger or ceased to be one, or that a restart left between storing
and billing: their steps are not serialised by anything. With `Faults` a query may fail, and
three of the questions a handler asks count an error as a no: whether the event is banned
(`ModHas`), whether there is a deletion of it (`adding.go:42`), and what a deletion is to delete
(`deleting.go`). An event that gets through or stays for that reason is in `raced` too; the
other queries refuse when they fail.
`drifted` collects the pots whose counter the code does not maintain: an account or group
that was deleted, a group somebody left, a pot billed while it did not exist. `MaxSize` is the
largest event the relay reads (`MaxMessageSize`, `relaycore/relay.go:45`).

`expired` are the events whose NIP-40 time has passed, stored or not (`Lapse`; `Outdated` before
the relay started, for no gate looks at the tag). The sweep takes
them from the table up to an hour later; until then `queryEvents` hides them, from the look for
deletions as well (`Deletions`): a kind 5 that has itself expired keeps nothing out.

## Files

`Blobs.tla` follows the handlers that add a file to somebody's account or take it away,
one action per statement on the database or operation on the storage:

| Code | Actions |
|---|---|
| `PUT /upload` (`blossom/handlers.go:53`) | `Upload`, `Look`, `KeepClaim`, `Charge`, `Write` or `WriteFails`: index first, bytes last |
| NIP-96 upload, `PUT /mirror` | `UploadNIP96`, `Write` or `WriteFails`, `Look`, `KeepClaim`, `Charge`: bytes first |
| `handleDelete` | `Delete`, `CheckOwned`, `DropClaim`, `Refund`, `CheckShared`, `Remove` |
| `handleNIP96Delete` | `DeleteNIP96`, `Remove`, `CheckOwned`, `DropClaim`, `Refund` |
| `Index.Purge` (an admin) | `Purge`, `PurgeClaim`, `Refund`, `Remove` |
| `vanish`, `Index.Forget` | `Vanish`, `ListClaims`, then for each file `NextFile`, `DropClaim`, `Refund`, `CheckShared`, `Remove` |
| a storage that does not answer, kind 5 or a ban on an index event, a stop | `RemoveFails`, `Erase`, `Restart` |
| a client that goes away | `Disconnect`: the request's context ends, and the next query or write of the event table fails |

`claims` are the index events (kind 24242), one per owner and hash; `payer` is the usage
row of a hash, which `AddUsage` writes once and never rewrites; `files` holds the names
on the storage, a hash with an extension; `requests` the locals of each handler at work.
`disturbed` is a history: the hashes that two handlers had in hand at once, whose handler was
cut short by a restart, an outage or a client that went away, that were stored under a second
extension, or that lost an index event as an event (kind 5, a ban, a request to vanish) where that
tears their books (`Torn`): the last claim on stored bytes, or the payer's last one. Nothing
serialises or repairs these, so the properties speak of every other file, and a file somebody else
still claims and pays for must come through a request to vanish unharmed. A client that goes away
does more than end a handler (`Misled`): a query that is cut off may yield no event and no error, so
a file counts as new, as unclaimed, or as claimed by nobody, and the handler goes on from there; the
usage rows are written without a context. Left out: group quotas and `used_bytes` (the
subject of `EventUsage`), authorization headers, downloads and lists, a switch of the storage
backend, and a database that fails for another reason.

## Listeners

`Listeners.tla` follows `listener.go` and the handlers that call it. What is shared is two
descriptions of the same listeners: `clients` (`rl.clients`, the specs of each connected
socket, each with an index) and `slots` with `len` (`rl.listeners`, one slice for all).

| Code | Actions |
|---|---|
| `HandleWebsocket`, a new connection | `Connect` |
| REQ, `handleRequest`, `addListener` | `Req`; for each filter `RefuseFilter`, or `AddListener` and `Fill`, or `AddNothing` when the socket has gone |
| CLOSE, `removeListenerId` | `Close`, then for each spec from the last `SkipSpec`, or `RemoveSpec` and `Shrink`; `Unlock` |
| `kill`, `removeClientAndListeners` | `Kill`, then `RemoveSpec` and `Shrink` from the first; `Unlock` |
| `notifyListeners` | `Broadcast`, `LoadLength`, then for each slot `Match` and `Send`; `Finish`; `Crash` when the slot was never written |

The mutex is `holder`; `handlers` holds the locals of each goroutine that subscribes or
unsubscribes, `casts` those of each broadcast. The broadcast takes no lock, which by the
rules of Go is a data race: the model lets it see the memory between any two stores of the
removal and the append (the new array, the length, the element), load array and length
at different moments, and read a slot in two halves (id and filter first, socket last).
Stores seen in another order than they were made are left out. `owed` is a
history: the listeners registered when the broadcast began that it must still reach. It
forgives those removed meanwhile and those a removal moved to a slot already passed:
the code does miss these, although `broadcasting.go:7` speaks of all listeners. The model
also has, and no property forbids, a CLOSE that overtakes its REQ (each message has its
goroutine) and a REQ whose second filter is refused while the first keeps listening.

`Subscribers.tla` is what a client may expect of all this, without indexes, slots or a mutex:
`subscribed` counts how often each listener is registered, `asks` what each goroutine was asked
to do and has still to do. A REQ adds one for each filter until one is refused or the socket
is gone, a CLOSE and the end of a connection take away their own, one by one, and end when
none is left, and nothing else changes the count. `SubscribersSpec` states that `Listeners`
implements it: a listener is registered as often as a slot in use and not about to be given up
or written (`1 .. Settled`) holds it, so the swap that overwrites a removed listener is the step
that unsubscribes it, and the rest of the removal is a stutter. So is every step of a broadcast.

## Accounts and the member list

`Accounts.tla` follows every handler that lets somebody in without an order, or edits an
account: one action per statement, for what is read in one and written in another is
where edits meet.

| Code | Actions |
|---|---|
| `handleJoin` (kind 28934) | `Look`, `Claim`, `Ensure`, `Update`, `Answer` |
| `handleClaimInvite` (the panel) | `Claim`, `Ensure`, `Update` |
| `handleLeave` (kind 28936) | `LeaveLook`, `Update`, `Answer` |
| `allowPubKey`, `banPubKey` (NIP-86) | `Ensure`, `Update` |
| `handleSaveAccount`, `handleDeleteAccount` (the form) | `Ensure`, `Update`, `SetPermanent`; `DeleteAccount` |
| `CreateInvite` by an admin or by `inviteEvents`, `DeleteInvite` | `CreateInvite`, `DeleteInvite` |
| a paid `grant`, the clock, a stop | `Pay`, `Tick`, `Restart` |

`Claim` and `Pay` are transactions and so one step each. `at` says where each request
stands, `read` what it has read and will write back. `UpdateAccount` writes absolute values
(`store.go:600`): an edit between another handler's read and write is undone. `disturbed`, a
history, collects the accounts to which that has happened, or whose handler a restart cut
short between its statements; the properties speak of all others. An admin's form carries
absolute values by intention and is excused by `HandWrites`. `ReadmissionIsSpent` needs no such
exception: whoever was banned or left comes back by the admin, who fills in the form or allows the
pubkey, or for a code whose grant they did not have, lost edits and stops included. It does not
say that a ban holds against a join under way: one that is written between the join's
`EnsureAccount` and `UpdateAccount` is undone (`BansAreSeen`, `MCMembershipBanUndone.cfg`).

`Membership.tla` composes this with `WatchMembership`: `dirty` is the channel of one signal,
`watcher` the goroutine (`TakeSignal`, `ReadMembers`, `SaveList`), `Announce` is `Answer`
with its signal, `RestartList` publishes the list before anybody is served, as `main.go`
does. Only joins and leaves signal, when they are done. A stranger who joins is on the accounts
from `EnsureAccount` on, before the grant and the signal (`nip43.go:239`): that is the join's doing
and part of what its signal is for (`Signals`), so `StaleIsPending` holds the join to it while it
has still to update (`WillAsk`). Whoever comes or goes otherwise (a claim in the panel, a payment,
a comp, a ban, the form, a term that ends) is in `unsignalled` until
the list is next read, and the properties speak of everybody else.

## Expiration

`Expiration.tla` follows `relaycore/expiration.go`. The table (`stored`, which `EventTable`
declares for `EventUsage` and `Expiration`) and the heap (`heap`, entries per event) are told
apart, because nothing keeps them together.

| Code | Actions |
|---|---|
| `handleNormal`, `trackEvent` | `Admit` (whose look for a deletion may miss one: it failed, or the deletion has expired), `Store`, `Track` |
| `handleDeleteRequest`, `removeEvent` | `Find`, `EraseFound` or `EraseFails`, `Untrack`, `Record` |
| a ban, NIP-62, a newer version | `Evict`: the heap is not told |
| `initialScan` | `Scan`, `ScanFails` |
| `checkExpiredEvents` | `Begin`, `Pop`, `Fetch`, `Drop`, `SweepFails`, `Rest` |
| the clock, a stop | `Tick`, `RestartSweep` |

`missed` is a history of what the code gives up: events the scan's answer leaves out
(the store returns its newest `QueryLimit` events), whose lookup or deletion failed after
the entry was popped, or whose entry `removeEvent` took in place of an older one of the
same id. Everything else must be known to the manager, and must go.

## Settings

`Settings.tla` follows the row of `store.go:508-533` and those who read it, edit it and
write it back whole: NIP-86 (`changeKindPolicy`, `grantAdmin`, `revokeAdmin`,
`changeSetting`) and the panel's form, each as `Check`, `Read`, `Save` or `Refuse`; a form goes
on with `Reload` and `Install` or `InstallFails` of the storage backend (`blobs.go:43`). A backend
that does not start with the process leaves it without media storage (`NoStorage`, `Started`:
`main.go:79-97`), and then no form goes on to `Reload` until the next start (`admin.go:189`).
Of the fields, those are modelled that a call edits by itself (kinds, admins), that the
row may leave out (`relays`: empty is not stored and reads as the default), that
something follows (`backend`, `secret`), and one that stands for all the others (`name`).

Two calls that overlap lose an edit, and the code makes no promise there. The
histories say exactly when: `since` collects the topics written since a call's read, and
when that call saves they are `lost` until somebody decides about them again. The lightning
backend follows the same row; `Billing` has it.

## The wallet connection

`Provider.tla` states what `payments.Provider` promises and `Billing` relies on: an invoice
handed out was made for the call that asked, an invoice is called paid only if it is, and
unpaid only if it was not yet when the question was asked; any call may fail, and may
leave an invoice behind. `NWC.tla` follows `payments/nwc.go`, where that promise rests on one
connection to a relay that all calls share.

| Code | Actions |
|---|---|
| `call` | `Begin`, `Subscribe`, `Publish`, `Accepted`, `Receive`; `SubscribeFails`, `PublishFails`, `GiveUp` |
| `conn`, under the mutex | `Lock`, then `Reuse`, `Dial` or `DialFails` |
| `reset`, under the mutex | `Reset` |
| the context's timer, the relay, the wallet, the network | `Expire`, `Drop`, `Act`, `Settle` |

`at` says where each call stands, `via` which connection it holds; the mutex (`lock`)
guards looking a connection up, not using it, so a call may lose its connection to another's
`Reset` between any two steps. `pending` are requests sent and not acted on: the wallet may
act at once, before the relay's OK, or after the caller has gone. A reply reaches who is
subscribed and connected at that moment and nobody later, since its kind is ephemeral.
`BackendSpec` maps the calls that have begun to `asked`; the other variables are the same.
What the relay, the wallet and the client library do is not in the repository and is
modelled as `nwc.go` uses it. Connections of a provider that the settings have replaced are
another matter: `Resolver.Provider` drops such a provider without closing anything.

## Runs

Bounds are the constants of the `.cfg` files; the modules name each of them.

| Run | Question | Shows |
|---|---|---|
| `billing_access` | Is a payment for relay access credited once and whole? | Holds, and the ledger is implemented. One buyer, one group, two invoices, a webhook worker beside the poll loop, failures, restarts and deletions: two invoices are the least in which renewals, a plan change and a double credit can happen. |
| `billing_names` | Can a held name be taken? | No. Two buyers, one name, two checkouts at once, two backends, an admin. |
| `billing_polled` | Does the poll loop suffice without webhooks? | Yes, for a payment made while a whole unit of the hour is left; a name purchase opens no account. |
| `event_ledger` | Do counters, rows and events agree? | Counters are the sum of the rows in every interleaving of two writers, the sweep, group changes and restarts; at rest, events and rows agree; the quota is overshot by one event per other goroutine at most. |
| `event_erasure` | Does what was deleted, banned or forgotten stay out? | Yes, unless the event was in another handler's hands at that moment or a query that asks about it fails, and for as long as the deletion has not itself expired. The deletion may expire, be swept, be forgotten with its author, or be sent again. |
| `blobs` | Do bytes, claims and charges agree? | A file on the storage is claimed by somebody, the one who pays for a file owns it, and no handler but a NIP-96 DELETE takes away bytes that somebody still claims, as far as nobody tore the file's books (`disturbed`). One file is enough, because every statement names one hash; two users, two handlers at once, two extensions, an admin, outages, restarts, clients that go away, and claims deleted as events. |
| `blobs_vanish` | "this user's share of the quota is refunded" (README.md:160) | Violated: `Store.Vanish` deletes the index events with all other events before `Forget` lists them, so the bytes and the charge stay. |
| `listeners` | Do the map and the slice stay in step, does each client get and lose its own listeners, and does a broadcast reach everybody? | Yes: between two removals every spec has its listener and every listener its spec; the slice implements `Subscribers`; a connection that ended and a subscription that was closed leave nothing; a broadcast reaches all that stayed in front of it. Three listeners are the least with which a removal moves a listener that is neither removed nor the only other one, and there may be four; capacity 1 makes the array grow twice. Two REQs of one or two filters, one per goroutine, leave a third goroutine to close or disconnect between any two filters, so listeners are added before, between and after removals. |
| `membership` | Are codes, grants, bans and the published list right whatever order requests run in? | Yes, for every account no two handlers had in hand at once; who comes back after a ban, even for those. Two people and a code with one seat are the least with which a seat is fought over; each way in and out but NIP-86's is asked for once, two at a time, with stops anywhere. The term the form gives ends within the horizon, the others outlive it. |
| `settings` | Does what was asked last hold, and does the storage follow? | Yes, but where a stale call wrote over it, and where no storage came up with the process. Two kinds, because the allow list empties with the last of them; calls on the same kind and on different ones, a form that shows a masked secret, one that decides about all kinds and admins at once, one the relay refuses, two calls at once. |
| `expiration` | Is every expired event swept? | Yes, but for those in `missed`. One event that expires is enough, since the heap keeps entries apart by id; it is published twice, which is the least with which an entry is taken for another's, beside a note that fills the scan's answer of one. |
| `nwc` | Does the wallet connection keep what `Provider` promises, and does every call end? | Yes, whatever drops, fails, expires or is reset. Two calls, one that makes an invoice and one that asks about another, are the least that can hear each other's replies, wait for each other's mutex and close each other's connection; two dials let a call hold an old connection beside the new one. |

Invoices, writers, requests, sockets and handlers are interchangeable where the properties
are not about liveness, and those runs use symmetry. `billing_polled`, `membership`,
`expiration` and `nwc` check liveness and use none; `settings` names its calls and has none to
use. The type invariants are proved, and no run repeats them.

Some configurations are kept beside these: `MCBillingLatePayment`,
`MCBillingNameMissed`, `MCEventSponsored`, `MCEventVanish`, `MCMembershipWebClaim`,
`MCMembershipBanUndone`, `MCSettingsNoMedia` and `MCExpirationScan` each show one of the disagreements below, as a violated property; `MCMembershipComps` is
`membership` with NIP-86's comps and bans and codes minted on request, and holds.

**Fairness.** `FairSpec` assumes weak fairness of the poll loop and of its own `Settle`
calls: `main.go:102` starts that goroutine and nothing blocks it, and the run has a backend
that answers (`Outages = FALSE`). Nobody is obliged to order, to pay or to call a webhook.
In `billing_polled`, with `Punctual`, a unit of time does not end before a poll has
completed in it: the loop runs every 30 seconds and the hour is far longer; without that
bound no statement about the hour could hold.
`membership` assumes weak fairness of the watcher, a goroutine that `main.go` starts and
nothing stops, and of the handlers that have begun, all together (`Proceed`): some statement of
one of them is executed as long as there is one, since they wait for nobody and take no
context that could end; each has a handful of statements, so all of them end. `expiration` assumes weak fairness of the manager, whose ticker fires every hour, and
strong fairness of `Track`: the handler waits for the heap's mutex, which the manager
takes and releases again and again. Nobody is obliged to send a request, and a backend may
fail for ever. `nwc` assumes weak fairness of a call's own steps and of its timer, and
strong fairness of taking the mutex, for a Go mutex hands itself to a goroutine that has
waited long. Nothing is expected of the relay and the wallet: no dial need succeed and no
reply need come. All other runs check safety only.

## What is proved

`BillingProofs.tla`, for every value of the constants allowed by `NobodyAssumption` and
`BillingAssumption`:

- `TypeCorrect`, `NothingUnpaidIsGranted`, `PaidStaysPaid`, `LifetimeStays`,
  `BillingImplementsLedger`, `HeldNameStays`;
- `QuotaIsWhatWasPaid` (`QuotaIsLedger`), `TermsAddUp` (`TermCoversPaidDays`),
  `StorageHasAPlan` (`AccountStorageHasAPlan`), `AdmissionIsPaid` (`AccountsAreAdmitted`).

The first six rest on one inductive invariant `IInv`. Types alone do not suffice: `PaidIsSettled`
needs that a worker about to grant holds an invoice that was settled (`WorkerInv`),
and that a worker or the poll list only ever holds recorded invoices (`PollInv`); the ledger
needs that a recorded invoice exists at a backend and names a real group (`RequestInv`,
`PaymentInv`), or an invoice could be billed twice; `LifetimeStays` needs that a lifetime pot
has no term (`PotInv`); `HeldNameStays` needs that a row without a holder has no term
and no reservation (`NameInv`). Each action has its lemma, `NextInv` collects them,
`Invariance` closes the induction, and the action properties and the refinement are shown
step by step from `IInv`.

The other four rest on `LedgerInv` beside it. `OrderInv` says what an order may carry: storage
is quoted with a plan or for an account, admission with everything that opens an account; it
holds of every request and every recorded payment, so of whatever settles later. `AccountInv`
is the two facts about accounts, with the plan stated of every account and not only of one that
has storage. `SumInv` is the two sums, of finitely many payments, and that an account which does
not exist was paid nothing but names: so the account that a grant opens starts the sum. Only
a grant changes a sum, by one payment that was not in it. That a subscription
brings a term needs `PeriodTime > 0`: `period_days` is at least 1 (`api/admin.go:301`).

`Sums.tla` is what those proofs, and the ones about usage and invites, need of
`SumFunctionOnSet`: its equation (`SumEquation`), that the order of the elements does not
matter (`SumTakes`), what an element more or less does (`SumAdds`, `SumGains`), and bounds
(`SumLess`, `SumOfPart`, `SumBounded`). A sum is a recursion over the set, and the library's
induction cannot be applied by these provers; but that a nonempty set of subsets of a finite set
has a smallest member is a fact without operator parameters (`SmallestSubset`), and does the
work of induction: the set of the subsets a lemma is false of has no smallest member. The models
write their sums with `SumFunctionOnSet` for that reason.

`EventUsageProofs.tla`, for every value of the constants allowed by `UsageAssumption`:
`TypeCorrect` (`TypeOK`), `CountersStayRows` (`CountersAreRows`), `OvershootStaysBounded`
(`OvershootIsBounded`), `BansStay` (`BannedStaysOut`), `ForgettingStays`
(`ForgottenStaysForgotten`), `DeletionsStay` (`DeletedStaysOut`) and `BillsBalance`
(`EveryEventIsBilled`). An event that is not raced is in the hands of one handler at most
(`Exclusive`), so what that handler found out stays true until
it acts: past the gate the event is neither banned nor forgotten (`Gated`), past the look for
deletions no deletion of it is stored that has not expired (`Checked`; what has expired stays
so, `Aging`), and a deletion or an erasure past its first
hook has left nothing of its target (`Deleting`, `Erasing`). `Entering`, `Banning` and
`Forgetting` say what a step may add to each table, and the theorems about what stays out follow.
`BillsBalance` needs `Balanced`: an event stored and not billed is on its handler's way to the
bill (`Owing`), one billed and gone is on its way to the refund or to a reconciliation
(`Owed`), and what is about to be billed is there (`Present`). An event that was raced is
excepted throughout, as it is in the properties: there the code does fail.

The counters of the pots have an invariant of their own, `CountInv`: an undrifted pot's counter is
the sum of the sizes of the rows billed to it, one that does not exist has no such row (`Exact`),
and a row that a group pays for, stored or about to be, names the group its author is in, or one
that has drifted (`Sides`): so a refund reaches the pot that was billed. `Adding`, `Removing` and
`Recounting` say what one row more, one row less and a recount from the rows do to it.

`OvershootIsBounded` is not inductive: when the next writer passes the gate, what matters is not
only what has been spent but what those who passed before it will spend. `OvershootInv` bounds
the sum of both: what is used, and the sizes of what every writer past the gate has in hand for
that account (`Debts`), is within the quota and one event of `MaxSize` for each writer but one
(`Within`). The last to pass found room for its own event, and the others are one event each.
Before an account exists nothing it will pay for can be past the gate, but a message that its
recipient pays for (`Unready`). The proof found the limit of the property: a message's author
without an account, whose message its recipient is to pay for, may be given an account after the
gate, and pays then what the recipient was checked for. That raced event is excepted in the
property now, for its author as for its recipient.

In its last part the module is about `Expiration`, which works on the same event table
(`EventTable`): `SweepTypes` and `NothingIsOverlooked` (`ExpiringIsKnown`), which is inductive
beside the types.

`BlobsProofs.tla`, for every value of the constants allowed by `BlobsAssumption`:
`TypeCorrect`, `OwnersPay` (`PayersAreOwners`), `NoOrphans` (`FilesAreClaimed`) and
`BytesStay` (`ClaimedBytesStay`). The inductive invariant `IInv` adds three facts to the
types: a handler's fields fit what it is doing (`Shape`); two handlers never have an
undisturbed file in hand (`Exclusive`), which lets an action be judged by the one handler
that takes it; and for each undisturbed file, what that handler knows and still has to
settle (`Sound`): claims without bytes or bytes without a claim exist only while it is
about to write or remove them, a charge without an owner only while it is about to refund.
Each action has its lemma: `StepSound` for the file in hand, `FrameSound` for the others, and
`SparedSound` for a file that loses a claim as an event and is not torn by it. A client that goes
away disturbs the file its handler has in hand, which may then do anything a handler does (`Shape`).

`ListenersProofs.tla`, for every value of the constants allowed by `ListenersAssumption`:
`TypeCorrect`, `MapAndSliceAgree` (`IndexesAgree`), `NothingIsLeft` (`GoneAreForgotten`),
`ClosedStaysNowhere` (`ClosedIsGone`), `BroadcastsReach` (`BroadcastReachesAll`) and
`ListenersImplementSubscribers` (`SubscribersSpec`). In the
middle of a removal the map and the slice do disagree, so the inductive invariant `IInv`
says by how much: who holds the mutex is the one in the middle of something (`LockInv`) and
its fields fit that (`Shape`); a CLOSE has left nothing of its subscription behind it and
a disconnect has every spec from where it stands still to do (`WalkInv`); map and slice
agree on all but the slot to be given up or to be written (`Agree`); and a socket that
is not connected has no specs (`LinkInv`). What each step does to that agreement is
stated apart from the program: `AgreementAdds`, `AgreementDrops`, `AgreementMarks`,
`AgreementMoves`, `AgreementEnds`. For the broadcast, `CastInv` adds that every listener
still owed lies ahead of it in the array it reads, shared or left behind by an append;
`AheadRemoved`, `AheadDetached` and `AheadKept` say why a removal, a growing array and
an added listener keep it there. The refinement counts the slots that
hold a listener: an added one counts once more (`CountAdds`) and one overwritten once less
(`CountSwaps`); the one a removal overwrites is the one its spec names (`RemovalUnsubscribes`,
from `Agree`), and a CLOSE or a disconnect that lets go of the mutex has none left
(`NobodyIsLeft`, from `WalkInv`). `ReqInv` adds that only a REQ is ever about to write a slot.

`AccountsProofs.tla`, for every value of the constants allowed by `AccountsAssumption`:
`CodesAreNotOverIssued` (`NeverOverIssued`), `QuotaIsTheLedger` (`QuotaIsLedger`),
`OnlyTheFormTakes` (`NothingIsTaken`) and `ReadmissionCosts` (`ReadmissionIsSpent`). `Placed` adds to the types which kinds of request
come to which place. The count of a code's users needs `Seats`: a code not yet made has no
use, or making it would reset a count. `OnlyTheFormTakes` rests on `HeldIsCurrent`:
what a handler holds is the account as it is, unless the account is disturbed; so a write of
absolute values takes nothing, because it computes them from the present ones. For the quota
that is the first half: a grant adds to the quota as it is. The second is `QuotaInv`: whoever is
about to grant a use has that use, and nobody else is about to grant the same one (`OneSpends`),
so an update adds one code to the granted, and to the quota what that code brings; a comp or a
payment ends as it is added (`Roles`); an account made anew brings nothing (`Missing`). A restart
between a use and its grant disturbs the account. `ReadmissionCosts` uses only that part of it which
needs no undisturbed account: by `OneSpends` an invite's update adds a code that was not
among the granted (`GrantSpends`), and a payment or a leave makes nobody active (`StepReadmits`).

In the same module, about `Membership`: `ListImplementsAccounts`, which carries those theorems over,
`ListTypes`, and `JoinsReachTheList` (`StaleIsPending`). That is inductive only beside
`ReadIsPending`: what the watcher has read and not saved yet is wrong about nobody without
a signal behind it, or a handler that has still to give one (`WillAsk`). A step either puts whom it
let in or out on record, or leaves a handler that will ask, or changes nothing about them
(`Spoken`, `OneSpeaks`); for a join's `EnsureAccount` that is the join itself, about to update (`JoinFresh`).

`SettingsProofs.tla`, from `SettingsAssumption`: `SettingsTypes`, `LastCallsHold` (`EditsStick`),
`OtherKindsStay` (`KindsApart`) and `TheBackendFollows` (`BackendFollows`). All rest on what a
call has read being as good as the settings outside of what was written since:
`ReadSettles` (every topic as it was last settled), `ReadSees` (everything, if nothing was
written), `ReadStorage`. `Settles` strengthens `Shows` to the two lists themselves: that a
kind is allowed does not survive the next edit of the lists, that it is on one of them does.
`ReloadStorage` and `Overlap` follow a form from its save to the installation; `NothingReloads`
says that without media storage no form gets that far, so nothing brings it back before a restart.

`NWCProofs.tla`, from `NWCAssumption`: `NWCTypes`, `NothingLeaks` (`NoConnectionIsLeaked`),
`RepliesReach` (`RepliesAreHeard`) and `NWCImplementsProvider` (`BackendSpec`). The invariant
adds to the types the order of a call's steps (`Listens`: subscribed from before it publishes
until it returns; `Ordered`: no request, reply or answer before its time) and that what a call
has heard is honest (`Heard`). Honesty must last from the wallet's answer to the caller's
return, while invoices are made and paid: `HonestStays` says why it does. `Answering`,
`Making`, `Asking` and `Stuttering` then map the steps.

Every invariant and every action property of the passing runs is proved. Only model-checked are
the liveness properties (`EarlyPaymentIsCredited`, `SignalledIsListed`, `ExpiredIsReclaimed`,
`EntriesDrain`, `CallsEnd`): leads-to under fairness needs ENABLED, which is out of the prover's
reach.

## Where the code and its words differ

Those with a property are in `PROJECT.json` under `findings`. Besides:

- `nwcTimeout` does not bound the wait for the mutex: a call may sit through the dials of all
  that came before it (`nwc.go:199`). It ends nevertheless.
- The panel's claim sends no notice and has no list published, though it "ends up in exactly
  the same place" (`api/invites.go:13`); the same holds for paid grants, comps, bans, the
  form, and a term that ends. Nothing publishes the list periodically.
- The published list names 100 members at most (`store.go:552` against `nip43.go:40`), and
  leaves out a lifetime account to which the form gave a term that has ended, although
  it may write.
- "You are already a member" answers an account that has expired, or that a crash between
  `EnsureAccount` and `UpdateAccount` left empty; in the second case the code's use is burned,
  as it is when the account is deleted between the two.
- A ban that is written between a join's `EnsureAccount` and its `UpdateAccount` (`nip43.go:239`,
  `252`) is undone: the join sets the status to active whatever it has become.
- The look for deletions of a new event (`adding.go:36`) asks the relay's own query, which hides
  what has expired: a kind 5 with an expiration that has passed, swept or not, lets its target in
  again. It passes over a query that fails (`adding.go:42`), as `ModHas` does: an error lets a
  deleted or banned event in.
- Where the storage backend does not start with the process, no form brings it up: `main.go:84`
  forgets it and `admin.go:189` then skips the reload ("pick up a changed storage backend without
  a restart", `admin.go:188`).
- The handlers of files take a query that was cut off for an empty one: a client that goes away
  during a Blossom DELETE, after its claim was dropped, may have bytes removed that others claim
  (`handlers.go:375`), and one that goes away during an upload may be billed for a claim that was
  not saved (`eventstorewrapper.go:37`).
- `expires_at = 0` is never; an invite, a comp or an order gives such an account a term.
- A crash in `banPubKey`, between its two statements, leaves a stranger with an active account.
- Two saves of the form interleave: the account of one, the lifetime flag of the other.
- Emptying `nip46_relays` stores nothing, and reads as the default (`store.go:164`).
- Taking the last kind off the allow list opens every kind that is not disallowed.
- `Reload` reads the settings before it takes the lock: of two, the older may win.

## Not modelled

Group edits by an admin, the rate limiter (`policies/helpers.go`), `recompute-usage`; blocked
names, domains and premium tiers; signatures, sessions and encodings; encryption and encodings of
NWC, the wire protocols of LNbits and S3, and their settings; roles and notices of NIP-43; search, NIP-11,
negentropy and the panel, which only read. In `EventUsage`: deletion by address,
zap receipts and badge awards (billed like messages, but never to the author), the policies
on kind, time and proof of work, the broadcast of what was stored, and writes that fail. In
`Accounts` and `Membership`: statements that fail, but for an account that is gone. In `Expiration`:
usage, which goes with the row. In `Settings`: the validation of each field by itself.
