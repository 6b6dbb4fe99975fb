------------------------------ MODULE EventUsage ------------------------------
(***************************************************************************)
(* What becomes of an event: the gate, the store, the bill, and everything *)
(* that takes it out again.  internal/relaycore (adding.go, deleting.go,   *)
(* expiration.go), internal/relay (policy.go, sponsored.go, vanish.go, the *)
(* bans of management.go) and the usage accounting of internal/store.      *)
(*                                                                         *)
(* Every websocket message is handled by a goroutine of its own, and the   *)
(* steps of one are separate calls to the database: Writers are such       *)
(* goroutines, Erasers are the moderators' requests and the expiration     *)
(* sweep.  Each step is one action; a transaction is one step.             *)
(*                                                                         *)
(* The reads of one gate, or of one bill, count as one step: what changes  *)
(* between them could as well change right after.                          *)
(*                                                                         *)
(* Left out: signatures, sizes in bytes, the panel's policies on kinds,    *)
(* proof of work and timestamps (they refuse events, they keep no state),  *)
(* deletion by address, and uploaded files.  Of the queries that fail,     *)
(* those are modelled that decide what gets in (Faults); a write that      *)
(* fails is not.                                                           *)
(***************************************************************************)
EXTENDS EventTable, Integers, FiniteSets, Functions

CONSTANTS
  Pubkeys, Nobody,          \* authors and recipients
  GroupIds, NoGroup,        \* groups that share storage
  NoEvent,
  EventOf,                  \* what each event says
  MaxSize,                  \* no event is larger: a socket reads messages up to a limit
  Quota,                    \* what each account and group may store
  Accounts, GroupOf,        \* who has an account, and whose group, at first
  Writers, Erasers,         \* goroutines for EVENT messages, for bans and expiry
  Bannable, Expiring,       \* bound: events a moderator bans, events that expire
  Outdated,                 \* bound: those of them that expired before the relay started
  Suspended,                \* bound: pots that are banned or expire and come back
  Leavers, Joiners,         \* bound: accounts and groups deleted, who changes groups
  Unvanished,               \* bound: whom an admin lets back in
  Crashes                   \* BOOLEAN: the process may stop at any point

Pots == Pubkeys \cup GroupIds

\* Kinds billed to the recipient when the author is a stranger.  (Zap receipts and
\* badge awards never look at the author; they are left out.)
Sponsored == {"message"}

Event == [author: Pubkeys, kind: {"note", "replaceable", "delete", "vanish", "message"},
          created: Nat \ {0}, size: 0 .. MaxSize,
          of: Events \cup {NoEvent},       \* the e tag of a deletion
          to: Pubkeys \cup {Nobody}]       \* the p tag of a message

\* Account and Group, as far as a write reads and bills them; open unless it is
\* banned or its subscription has expired.
Pot == [exists: BOOLEAN, open: BOOLEAN, used: Nat]
NoPot    == [exists |-> FALSE, open |-> FALSE, used |-> 0]
FreshPot == [exists |-> TRUE, open |-> TRUE, used |-> 0]

\* A row of usage_events: who pays for the event, out of which group if any.
Row == [pubkey: Pubkeys \cup {Nobody}, group: GroupIds \cup {NoGroup}]
NoRow == [pubkey |-> Nobody, group |-> NoGroup]

WriteInHand == [at: {"idle", "seek", "erase", "refund", "gate", "check", "store", "charge",
                     "bill", "reconcile"},
                event: Events \cup {NoEvent}, row: Row]
NoWrite == [at |-> "idle", event |-> NoEvent, row |-> NoRow]

Erasure == [at: {"idle", "find", "erase", "refund"}, event: Events \cup {NoEvent}]
NoErasure == [at |-> "idle", event |-> NoEvent]

ASSUME UsageAssumption ==
    /\ MaxSize \in Nat /\ EventOf \in [Events -> Event]
    /\ IsFiniteSet(Writers) /\ Writers # {}
    /\ Quota \in [Pots -> Nat]
    /\ GroupOf \in [Pubkeys -> GroupIds \cup {NoGroup}]
    /\ Accounts \subseteq Pubkeys /\ Joiners \subseteq Pubkeys /\ Leavers \subseteq Pots
    /\ Unvanished \subseteq Pubkeys /\ Suspended \subseteq Pots
    /\ Bannable \subseteq Events /\ Outdated \subseteq Expiring /\ Expiring \subseteq Events
    /\ Pubkeys \cap GroupIds = {} /\ NoGroup \notin GroupIds /\ Nobody \notin Pubkeys
    /\ NoEvent \notin Events /\ Crashes \in BOOLEAN /\ Faults \in BOOLEAN /\ Writers \cap Erasers = {}
    /\ \A e \in Events : EventOf[e].kind = "message" => EventOf[e].to \in Pubkeys
    /\ \A e \in Events : EventOf[e].kind # "delete" => EventOf[e].of = NoEvent
    /\ \A e \in Events : EventOf[e].of # e      \* an id is the hash of its event
    \* bound: two versions of one event never share a timestamp
    /\ \A e, f \in Events : EventOf[e].kind = "replaceable" /\ EventOf[f].kind = "replaceable"
                            /\ EventOf[e].author = EventOf[f].author
                            /\ EventOf[e].created = EventOf[f].created => e = f

VARIABLES
  banned,    \* moderation rows of type banned_event
  vanished,  \* the cutoff of every pubkey that asked to be forgotten, or 0
  rows,      \* usage_events
  pots,      \* accounts and groups, their used_bytes among it
  member,    \* group_members
  writers, erasers,
  expired,   \* events whose NIP-40 expiration has passed, swept or not
  raced,     \* history: events two handlers worked on at once, a crash cut short, or a
             \* failed query let through
  drifted    \* history: accounts deleted, groups somebody left, pots billed while absent

tables == <<stored, banned, vanished, rows, pots, member, expired>>
vars == <<tables, writers, erasers, raced, drifted>>

Author(e)  == EventOf[e].author
Kind(e)    == EventOf[e].kind
Created(e) == EventOf[e].created
Size(e)    == EventOf[e].size

----------------------------------------------------------------------------
(* Who pays.                                                               *)

\* A mutation of Affords: the write itself is not counted.
AffordsBefore(pot, size) ==
    pots[pot].exists /\ pots[pot].open /\ pots[pot].used <= Quota[pot]

\* Account.CanWrite, Group.CanSpend
Affords(pot, size) ==
    pots[pot].exists /\ pots[pot].open /\ pots[pot].used + size <= Quota[pot]

\* The relay knows the pubkey, through an account or a group.
Known(k) == pots[k].exists \/ member[k] # NoGroup

\* Allowance.CanWrite: the personal account first, the group second.
CanWrite(k, size) == Affords(k, size) \/ (member[k] # NoGroup /\ Affords(member[k], size))

\* Relay.payer and billedPubkey: the first of the candidates that is known.
BilledPubkey(e) ==
    IF Kind(e) \in Sponsored /\ ~Known(Author(e)) /\ Known(EventOf[e].to)
    THEN EventOf[e].to ELSE Author(e)

\* Allowance.payer: once stored somebody is billed, over budget or not.
Payer(k, size) ==
    IF Affords(k, size) THEN NoGroup
    ELSE IF member[k] # NoGroup /\ (Affords(member[k], size) \/ ~pots[k].exists)
         THEN member[k]
         ELSE NoGroup

\* Somebody pays for it; a request to vanish skips the paywall.
Paid(e) ==
    Kind(e) # "vanish" => Known(BilledPubkey(e)) /\ CanWrite(BilledPubkey(e), Size(e))

\* A mutation of Passes: the gate does not look at bans.
PassesBanned(e) == Created(e) > vanished[Author(e)] /\ Paid(e)

\* A mutation of Passes: the gate does not look at requests to vanish.
PassesForgotten(e) == e \notin banned /\ Paid(e)

\* rejectEvent lets the event through.
Passes(e) == e \notin banned /\ Created(e) > vanished[Author(e)] /\ Paid(e)

\* The same, where the look for a ban fails: ModHas answers no.  (The look for a request
\* to vanish refuses what is dated no later than now when it fails; all others refuse.)
PassesUnseen(e) == e \in banned /\ Created(e) > vanished[Author(e)] /\ Paid(e)

----------------------------------------------------------------------------
(* The usage rows and the counters built from them.                        *)

PaidFrom(row) == IF row.group # NoGroup THEN row.group ELSE row.pubkey

\* Sum of what is billed to a pot.
Billed(rs, pot) ==
    SumFunctionOnSet([e \in Events |-> Size(e)],
                     {e \in Events : rs[e] # NoRow /\ PaidFrom(rs[e]) = pot})

\* AddUsage's transaction; a pot that does not exist is not updated.
UsageAdded(e, row) ==
    IF rows[e] # NoRow
    THEN UNCHANGED <<rows, pots>>
    ELSE /\ rows' = [rows EXCEPT ![e] = row]
         /\ pots' = [p \in Pots |-> IF p = PaidFrom(row) /\ pots[p].exists
                                    THEN [pots[p] EXCEPT !.used = @ + Size(e)]
                                    ELSE pots[p]]

\* max(0, used - size)
Less(used, size) == IF used >= size THEN used - size ELSE 0

\* A mutation of RefundedPot: the refund goes to the person, whoever paid.
RefundedPerson(row) == row.pubkey

\* The row says which pot paid, and that one is refunded.
RefundedPot(row) == PaidFrom(row)

\* RemoveUsage
UsageRemoved(e) ==
    IF rows[e] = NoRow
    THEN UNCHANGED <<rows, pots>>
    ELSE /\ rows' = [rows EXCEPT ![e] = NoRow]
         /\ pots' = [p \in Pots |-> IF p = RefundedPot(rows[e]) /\ pots[p].exists
                                    THEN [pots[p] EXCEPT !.used = Less(@, Size(e))]
                                    ELSE pots[p]]

\* recomputeUsage: the counters of a pubkey and of the group it is in now.
Recomputed(rs, k) ==
    pots' = [p \in Pots |-> IF p \in {k, member[k]} /\ pots[p].exists
                            THEN [pots[p] EXCEPT !.used = Billed(rs, p)]
                            ELSE pots[p]]

\* A mutation of Pruned: nothing is pruned, the old version stays billed.
PrunedNothing(k, events) == rows

\* The DELETE of ReconcileUsage and Vanish: rows a pubkey pays for, of events
\* that are not its own stored ones.
Pruned(k, events) ==
    [e \in Events |-> IF rows[e].pubkey = k /\ ~(e \in events /\ Author(e) = k)
                      THEN NoRow ELSE rows[e]]

----------------------------------------------------------------------------
(* History: the events a handler has in hand, those it is caught with.      *)

\* A deletion is busy with its target too.
Holds(w, e) == writers[w].event = e
               \/ (writers[w].event # NoEvent /\ EventOf[writers[w].event].of = e)

Holders(e) == {w \in Writers : Holds(w, e)} \cup {m \in Erasers : erasers[m].event = e}

\* Two handlers have the event at once, or one has it while its author's request
\* to vanish is carried out, or a message while its author becomes a stranger, or
\* no longer is one: their steps may overtake each other.
Overtaken(e) ==
    \/ \E p, q \in Holders(e)' : p # q
    \/ /\ \/ vanished[Author(e)] < Created(e) /\ Created(e) <= vanished'[Author(e)]
          \/ Kind(e) = "message" /\ Known(Author(e)) # Known(Author(e))'
       /\ Holders(e)' # {}

Tallied == raced' = raced \cup {e \in Events \ raced : Overtaken(e)}

----------------------------------------------------------------------------
(* A goroutine handling one EVENT message.                                 *)

At(w, place) == writers' = [writers EXCEPT ![w].at = place]
Done(w)      == writers' = [writers EXCEPT ![w] = NoWrite]

\* A deletion is carried out before the deletion itself is gated.
Receive(w, e) ==
    /\ writers[w].at = "idle"
    /\ writers' = [writers EXCEPT ![w] = [NoWrite EXCEPT !.event = e,
                       !.at = IF Kind(e) = "delete" THEN "seek" ELSE "gate"]]
    /\ UNCHANGED <<tables, erasers, drifted>>
    /\ Tallied

\* handleDeleteRequest looks its target up; somebody else's event refuses it. A query
\* that fails found nothing: the deletion goes on, and its target stays.
SeekTarget(w) ==
    LET d == writers[w].event
        e == EventOf[d].of IN
    /\ writers[w].at = "seek"
    /\ \/ e \notin stored /\ At(w, "gate")
       \/ e \in stored /\ Author(e) = Author(d) /\ At(w, "erase")
       \/ e \in stored /\ Author(e) # Author(d) /\ Done(w)
       \/ Faults /\ At(w, "gate")
    /\ raced' = IF e \in stored /\ writers'[w].at = "gate" THEN raced \cup {e} ELSE raced
    /\ UNCHANGED <<tables, erasers, drifted>>

\* A mutation of Erased: the deletion is accepted but nothing is deleted.
KeptAnyway(e) == stored

\* The first DeleteEvent hook: the row of the event table.
Erased(e) == stored \ {e}

EraseTarget(w) ==
    /\ writers[w].at = "erase"
    /\ stored' = Erased(EventOf[writers[w].event].of)
    /\ At(w, "refund")
    /\ UNCHANGED <<banned, vanished, rows, pots, member, expired, erasers, drifted, raced>>

\* The second hook: releaseUsage.
RefundTarget(w) ==
    /\ writers[w].at = "refund"
    /\ UsageRemoved(EventOf[writers[w].event].of)
    /\ At(w, "gate")
    /\ UNCHANGED <<stored, banned, vanished, member, expired, erasers, drifted, raced>>

Gate(w) ==
    /\ writers[w].at = "gate"
    /\ \/ Passes(writers[w].event) /\ At(w, "check") /\ UNCHANGED raced
       \/ ~Passes(writers[w].event) /\ Done(w) /\ UNCHANGED raced
       \/ /\ Faults /\ PassesUnseen(writers[w].event)
          /\ At(w, "check")
          /\ raced' = raced \cup {writers[w].event}
       \/ Faults /\ Done(w) /\ UNCHANGED raced
    /\ UNCHANGED <<tables, erasers, drifted>>

\* The stored deletions of an event, whoever wrote them, that queryEvents shows: it hides
\* what has expired, though the sweep may take an hour to come.
Deletions(e) == {d \in stored \ expired : Kind(d) = "delete" /\ EventOf[d].of = e}

\* handleNormal: a deletion keeps its target out. A query that fails is passed over.
CheckDeleted(w) ==
    LET e == writers[w].event IN
    /\ writers[w].at = "check"
    /\ \/ Deletions(e) = {} /\ At(w, "store") /\ UNCHANGED raced
       \/ Deletions(e) # {} /\ Done(w) /\ UNCHANGED raced
       \/ Faults /\ Deletions(e) # {} /\ At(w, "store") /\ raced' = raced \cup {e}
    /\ UNCHANGED <<tables, erasers, drifted>>

\* The stored versions of a replaceable event.
Versions(e) == {f \in stored : Kind(f) = "replaceable" /\ Author(f) = Author(e)}

\* SaveEvent: a duplicate is acknowledged and goes no further.
StoreRegular(w) ==
    LET e == writers[w].event IN
    /\ writers[w].at = "store" /\ Kind(e) # "replaceable"
    /\ IF e \in stored
       THEN Done(w) /\ UNCHANGED stored
       ELSE At(w, "charge") /\ stored' = stored \cup {e}
    /\ UNCHANGED <<banned, vanished, rows, pots, member, expired, erasers, drifted, raced>>

\* ReplaceEvent (external: eventstore) keeps the newest version, and says nothing
\* of an older one it did not keep.
StoreReplaceable(w) ==
    LET e == writers[w].event IN
    /\ writers[w].at = "store" /\ Kind(e) = "replaceable"
    /\ stored' = IF \E f \in Versions(e) : Created(f) >= Created(e)
                 THEN stored ELSE (stored \ Versions(e)) \cup {e}
    /\ At(w, "charge")
    /\ UNCHANGED <<banned, vanished, rows, pots, member, expired, erasers, drifted, raced>>

\* chargeUsage: who pays, and out of which pot, is read first...
ChoosePot(w) ==
    LET e == writers[w].event
        k == BilledPubkey(e) IN
    /\ writers[w].at = "charge" /\ Kind(e) # "vanish"
    /\ writers' = [writers EXCEPT ![w] =
                       [at |-> "bill", event |-> e, row |-> [pubkey |-> k, group |-> Payer(k, Size(e))]]]
    /\ UNCHANGED <<tables, erasers, drifted, raced>>

\* ... and billed in a transaction of its own.
Bill(w) ==
    LET e == writers[w].event IN
    /\ writers[w].at = "bill"
    /\ UsageAdded(e, writers[w].row)
    /\ IF Kind(e) = "replaceable" THEN At(w, "reconcile") ELSE Done(w)
    /\ drifted' = IF pots[PaidFrom(writers[w].row)].exists \/ rows[e] # NoRow
                  THEN drifted ELSE drifted \cup {PaidFrom(writers[w].row)}
    /\ UNCHANGED <<stored, banned, vanished, member, expired, erasers, raced>>

\* ReconcileUsage, after a replaceable event.
Reconcile(w) ==
    LET k == writers[w].row.pubkey
        rs == Pruned(k, stored) IN
    /\ writers[w].at = "reconcile"
    /\ rows' = rs
    /\ Recomputed(rs, k)
    /\ Done(w)
    /\ UNCHANGED <<stored, banned, vanished, member, expired, erasers, drifted, raced>>

\* Relay.vanish: store.Vanish is one transaction.
Vanish(w) ==
    LET v == writers[w].event
        k == Author(v)
        left == {e \in stored : ~(Author(e) = k /\ Created(e) <= Created(v))}
        rs == Pruned(k, left) IN
    /\ writers[w].at = "charge" /\ Kind(v) = "vanish"
    /\ vanished' = [vanished EXCEPT ![k] = IF @ > Created(v) THEN @ ELSE Created(v)]
    /\ stored' = left
    /\ rows' = rs
    /\ Recomputed(rs, k)
    /\ Done(w)
    /\ UNCHANGED <<banned, member, expired, erasers, drifted>>
    /\ Tallied

----------------------------------------------------------------------------
(* Bans and expiration.                                                    *)

\* The time an event's expiration tag names passes, be the event stored or not. (One that
\* has expired already is taken in all the same: no gate looks at the tag.)
Lapse(e) ==
    /\ e \in Expiring \ expired
    /\ expired' = expired \cup {e}
    /\ UNCHANGED <<stored, banned, vanished, rows, pots, member, writers, erasers, drifted, raced>>

\* banEvent records the ban first...
BanEvent(m, e) ==
    /\ erasers[m].at = "idle" /\ e \in Bannable
    /\ banned' = banned \cup {e}
    /\ erasers' = [erasers EXCEPT ![m] = [at |-> "find", event |-> e]]
    /\ UNCHANGED <<stored, vanished, rows, pots, member, expired, writers, drifted>>
    /\ Tallied

\* ... as the sweep pops an expired event, and each then looks the event up.
Expire(m, e) ==
    /\ erasers[m].at = "idle"
    /\ e \in expired \cap stored
    /\ erasers' = [erasers EXCEPT ![m] = [at |-> "find", event |-> e]]
    /\ UNCHANGED <<tables, writers, drifted>>
    /\ Tallied

FindEvent(m) ==
    /\ erasers[m].at = "find"
    /\ erasers' = [erasers EXCEPT ![m] = IF erasers[m].event \in stored
                                         THEN [@ EXCEPT !.at = "erase"] ELSE NoErasure]
    /\ UNCHANGED <<tables, writers, drifted, raced>>

EraseEvent(m) ==
    /\ erasers[m].at = "erase"
    /\ stored' = Erased(erasers[m].event)
    /\ erasers' = [erasers EXCEPT ![m].at = "refund"]
    /\ UNCHANGED <<banned, vanished, rows, pots, member, expired, writers, drifted, raced>>

RefundEvent(m) ==
    /\ erasers[m].at = "refund"
    /\ UsageRemoved(erasers[m].event)
    /\ erasers' = [erasers EXCEPT ![m] = NoErasure]
    /\ UNCHANGED <<stored, banned, vanished, member, expired, writers, drifted, raced>>

AllowEvent(e) ==
    /\ e \in banned
    /\ banned' = banned \ {e}
    /\ UNCHANGED <<stored, vanished, rows, pots, member, expired, writers, erasers, drifted, raced>>

----------------------------------------------------------------------------
(* Accounts and groups change underneath.                                  *)

\* A ban, a subscription that ends, a renewal.
Suspend(p) ==
    /\ p \in Suspended /\ pots[p].exists
    /\ pots' = [pots EXCEPT ![p].open = ~@]
    /\ UNCHANGED <<stored, banned, vanished, rows, member, expired, writers, erasers, drifted, raced>>

\* EnsureAccount and a grant: a fresh row has used nothing.
OpenAccount(k) ==
    /\ ~pots[k].exists
    /\ pots' = [pots EXCEPT ![k] = FreshPot]
    /\ UNCHANGED <<stored, banned, vanished, rows, member, expired, writers, erasers, drifted>>
    /\ Tallied

DeleteAccount(k) ==
    /\ k \in Leavers /\ pots[k].exists
    /\ pots' = [pots EXCEPT ![k] = NoPot]
    /\ drifted' = drifted \cup {k}
    /\ UNCHANGED <<stored, banned, vanished, rows, member, expired, writers, erasers>>
    /\ Tallied

\* AddMember, RemoveMember: the rows stay with the group that was left.
ChangeGroup(k, g) ==
    /\ k \in Joiners /\ g # member[k]
    /\ g # NoGroup => pots[g].exists
    /\ member' = [member EXCEPT ![k] = g]
    /\ drifted' = drifted \cup ({member[k]} \ {NoGroup})
    /\ UNCHANGED <<stored, banned, vanished, rows, pots, expired, writers, erasers>>
    /\ Tallied

\* DeleteGroup: the members are on their own again.
DeleteGroup(g) ==
    /\ g \in Leavers /\ pots[g].exists
    /\ pots' = [pots EXCEPT ![g] = NoPot]
    /\ member' = [k \in Pubkeys |-> IF member[k] = g THEN NoGroup ELSE member[k]]
    /\ drifted' = drifted \cup {g}
    /\ UNCHANGED <<stored, banned, vanished, rows, expired, writers, erasers>>
    /\ Tallied

\* store.Unvanish, which an admin needs to undo a mistake.
Unvanish(k) ==
    /\ k \in Unvanished /\ vanished[k] # 0
    /\ vanished' = [vanished EXCEPT ![k] = 0]
    /\ UNCHANGED <<stored, banned, rows, pots, member, expired, writers, erasers, drifted>>
    /\ Tallied

\* The process stops and starts again.  What was in hand, and what was stored and
\* not billed yet or erased and not refunded, stays that way.
Restart ==
    /\ Crashes
    /\ \/ \E w \in Writers : writers[w] # NoWrite
       \/ \E m \in Erasers : erasers[m] # NoErasure
    /\ writers' = [w \in Writers |-> NoWrite]
    /\ erasers' = [m \in Erasers |-> NoErasure]
    /\ raced' = raced \cup
          {e \in Events \ raced : (e \in stored) # (rows[e] # NoRow) \/ Holders(e) # {}}
    /\ UNCHANGED <<tables, drifted>>

----------------------------------------------------------------------------
Init ==
    /\ stored = {} /\ banned = {} /\ expired = Outdated
    /\ vanished = [k \in Pubkeys |-> 0]
    /\ rows = [e \in Events |-> NoRow]
    /\ pots = [p \in Pots |-> IF p \in Accounts \cup GroupIds THEN FreshPot ELSE NoPot]
    /\ member = GroupOf
    /\ writers = [w \in Writers |-> NoWrite]
    /\ erasers = [m \in Erasers |-> NoErasure]
    /\ raced = {} /\ drifted = {}

Write(w) ==
    \/ \E e \in Events : Receive(w, e)
    \/ SeekTarget(w) \/ EraseTarget(w) \/ RefundTarget(w)
    \/ Gate(w) \/ CheckDeleted(w) \/ StoreRegular(w) \/ StoreReplaceable(w)
    \/ ChoosePot(w) \/ Bill(w) \/ Reconcile(w) \/ Vanish(w)

Erase(m) ==
    \/ \E e \in Events : BanEvent(m, e) \/ Expire(m, e)
    \/ FindEvent(m) \/ EraseEvent(m) \/ RefundEvent(m)

Operator ==
    \/ \E e \in Events : AllowEvent(e) \/ Lapse(e)
    \/ \E p \in Pots : Suspend(p)
    \/ \E k \in Pubkeys : \/ OpenAccount(k) \/ DeleteAccount(k) \/ Unvanish(k)
                           \/ \E g \in GroupIds \cup {NoGroup} : ChangeGroup(k, g)
    \/ \E g \in GroupIds : DeleteGroup(g)

Next == (\E w \in Writers : Write(w)) \/ (\E m \in Erasers : Erase(m)) \/ Operator \/ Restart

Spec == Init /\ [][Next]_vars

----------------------------------------------------------------------------
(* Properties.                                                             *)

TypeOK ==
    /\ stored \in SUBSET Events /\ banned \in SUBSET Events /\ expired \in SUBSET Events
    /\ vanished \in [Pubkeys -> Nat]
    /\ rows \in [Events -> Row]
    /\ pots \in [Pots -> Pot]
    /\ member \in [Pubkeys -> GroupIds \cup {NoGroup}]
    /\ writers \in [Writers -> WriteInHand]
    /\ erasers \in [Erasers -> Erasure]
    /\ raced \in SUBSET Events /\ drifted \in SUBSET Pots

\* used_bytes is the sum of the usage rows billed to the pot, whatever was billed,
\* refunded, superseded or forgotten at once; only deleting an account or group,
\* leaving a group, or billing an account that is gone makes them differ.
CountersAreRows ==
    \A p \in Pots \ drifted : pots[p].exists => pots[p].used = Billed(rows, p)

\* When nobody is at work, what is stored is billed and what is gone was refunded
\* ("Deleting gives it back, and replacing a replaceable event cleans up the old
\* row", README.md:330), for every event its author pays for that no two handlers
\* worked on at once and no crash cut short.
EveryEventIsBilled ==
    (\A w \in Writers : writers[w] = NoWrite) /\ (\A m \in Erasers : erasers[m] = NoErasure) =>
        \A e \in Events \ raced : Kind(e) \notin {"message", "vanish"} =>
            ((e \in stored) <=> (rows[e] # NoRow))

\* banEvent "both blocks the id from coming back and deletes the copy we hold"
\* (management.go:128): once the ban is carried out the event is gone and stays
\* gone, unless it was being written or deleted at that very moment, or the look for
\* the ban fails when it is sent again: ModHas answers no then.
BannedStaysOut ==
    \A e \in banned \cap stored :
        e \in raced \/ \E m \in Erasers : erasers[m].event = e

\* "Nothing the author already asked us to forget may come back" (policy.go:34),
\* by any sequence of sends, replacements, deletions and restarts, unless it was in
\* hand while its author vanished.
ForgottenStaysForgotten ==
    \A e \in stored \ raced : Created(e) > vanished[Author(e)]

\* An event and a deletion of it that has not expired are never both stored, whoever
\* sent them in which order and however often, unless the two were handled at once or a
\* query of theirs failed.  (A deletion may carry an expiration of its own, and once that
\* has passed its target is let in again, before the deletion itself is swept.)
DeletedStaysOut ==
    \A d \in stored \ expired, e \in stored :
        Kind(d) = "delete" /\ EventOf[d].of = e => e \in raced

\* The gate checks a quota the bill spends later: each other goroutine in flight can
\* overshoot a personal account by one event, never more.  (Not so for somebody in a
\* group, whose account pays once the group that let the write through is full; nor
\* where the author of a message became a stranger after the gate, or no longer was
\* one: the recipient, or the author, pays what the other was checked for.)
OvershootIsBounded ==
    \A k \in Pubkeys \ (drifted \cup Joiners) :
        /\ GroupOf[k] = NoGroup
        /\ \A e \in raced : EventOf[e].to # k /\ (Kind(e) = "message" => Author(e) # k)
        => pots[k].used <= Quota[k] + (Cardinality(Writers) - 1) * MaxSize

\* What store.go:769 says: "ReconcileUsage drops usage rows for events of this
\* pubkey that are no longer in the event table".
ReconcileDropsOnlyGoneEvents ==
    [][\A w \in Writers : writers[w].at = "reconcile" /\ writers'[w].at = "idle" =>
          \A e \in stored : rows[e] # NoRow => rows'[e] # NoRow]_vars

\* What vanish.go:49 says: it "runs after the event is saved so the request itself
\* survives as the record of what was asked and when".
VanishRequestSurvives ==
    [][\A w \in Writers : LET v == writers[w].event IN
          writers[w].at = "charge" /\ Kind(v) = "vanish" /\ writers'[w].at = "idle"
          /\ v \in stored => v \in stored']_vars

===============================================================================
