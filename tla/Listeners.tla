------------------------------- MODULE Listeners -------------------------------
(***************************************************************************)
(* Live subscriptions: internal/relaycore/listener.go with the REQ, CLOSE, *)
(* connect and kill code of handlers.go, handleRequest and notifyListeners.*)
(*                                                                         *)
(* Two structures describe the same listeners: rl.clients, a map from each *)
(* connected socket to its specs, and rl.listeners, one slice for all, with *)
(* every spec holding an index into the slice.  Both change under a mutex.  *)
(* notifyListeners reads the slice without it, so writing the slice takes   *)
(* several steps here, the stores the compiled code makes, and a broadcast  *)
(* reads the memory it finds at each step of its own.                       *)
(*                                                                         *)
(* Left out: stored events and EOSE, the context of a REQ, PreventBroadcast *)
(* (no hook is installed), subrelays (there are none), stores seen in other *)
(* orders than they were made.                                              *)
(***************************************************************************)
EXTENDS Naturals, Sequences, FiniteSets

CONSTANTS
  Sockets, NoSocket,
  Ids, NoId,       \* subscription ids, chosen by the clients
  Events,
  Handlers, None,  \* goroutines of REQ and CLOSE messages and of kill; nobody
  Casters,         \* goroutines that broadcast
  Capacity,        \* slots made at the start
  Subscriptions,   \* bound: the REQs clients may send, an id and its filters each
  MaxListeners,    \* bound: listeners at once
  MaxReqs          \* bound: REQs in all

\* A filter is the set of events it matches.
Filter   == SUBSET Events
Listener == [ws: Sockets, id: Ids, filter: Filter]
\* A slot nobody wrote: a zero filter matches everything, and its socket is nil.
Unwritten == [ws |-> NoSocket, id |-> NoId, filter |-> Events]
Slot      == Listener \cup {Unwritten}
\* The index of a spec counts from 1; 0 stands for the -1 of the code.
Spec0     == [id: Ids, index: Nat]

ASSUME ListenersAssumption ==
    /\ Events # {}
    /\ NoSocket \notin Sockets /\ NoId \notin Ids /\ None \notin Handlers
    /\ Capacity \in Nat \ {0} /\ MaxListeners \in Nat /\ MaxReqs \in Nat
    /\ \A sub \in Subscriptions :
          sub.id \in Ids /\ sub.filters \in Seq(SUBSET Events) /\ sub.filters # <<>>

VARIABLES
  link,      \* a socket is fresh, open with an entry in rl.clients, or gone from it
  clients,   \* the specs of each
  slots,     \* the array behind rl.listeners
  len,       \* the length of rl.listeners
  holder,    \* who holds clientsMutex
  handlers,
  casts,     \* the calls of notifyListeners
  asked      \* REQs so far

vars == <<link, clients, slots, len, holder, handlers, casts, asked>>

Handler == [what: {"none", "req", "close", "kill"},
            at: {"idle", "add", "fill", "walk", "shrink"},
            ws: Sockets \cup {NoSocket}, id: Ids \cup {NoId},
            filters: Seq(Filter), s: Nat]
Idle == [what |-> "none", at |-> "idle", ws |-> NoSocket, id |-> NoId,
         filters |-> <<>>, s |-> 0]

\* A broadcast: the array it reads if that is no longer the current one, the length it
\* found, where it stands, what it read of the slot, and, as history, the listeners it
\* has still to reach.
Cast == [at: {"idle", "length", "read", "send"}, event: Events, detached: BOOLEAN,
         old: Seq(Slot), n: Nat, i: Nat \ {0}, id: Ids \cup {NoId}, filter: Filter,
         owed: SUBSET Listener]
AnyEvent == CHOOSE e \in Events : TRUE
NoCast == [at |-> "idle", event |-> AnyEvent, detached |-> FALSE, old |-> <<>>, n |-> 0,
           i |-> 1, id |-> NoId, filter |-> {}, owed |-> {}]

\* A mutation of Connected: whoever was once connected.
WasConnected(ws) == link[ws] # "fresh"

\* rl.clients has an entry for the socket.
Connected(ws) == link[ws] = "open"

Goes(h, place) == handlers' = [handlers EXCEPT ![h].at = place]
Ends(h)        == handlers' = [handlers EXCEPT ![h] = Idle]

----------------------------------------------------------------------------
(* Connections and REQ.                                                    *)

Connect(ws) ==
    /\ link[ws] = "fresh" /\ holder = None
    /\ link' = [link EXCEPT ![ws] = "open"]
    /\ UNCHANGED <<clients, slots, len, holder, handlers, casts, asked>>

Req(h, ws, sub) ==
    /\ handlers[h] = Idle /\ link[ws] = "open" /\ asked < MaxReqs
    /\ asked' = asked + 1
    /\ handlers' = [handlers EXCEPT ![h] =
          [Idle EXCEPT !.what = "req", !.at = "add", !.ws = ws, !.id = sub.id,
                       !.filters = sub.filters]]
    /\ UNCHANGED <<link, clients, slots, len, holder, casts>>

\* handleRequest refuses the filter in turn, and with it those after it.
RefuseFilter(h) ==
    /\ handlers[h].at = "add"
    /\ Ends(h)
    /\ UNCHANGED <<link, clients, slots, len, holder, casts, asked>>

NextFilter(h) ==
    LET me == handlers[h] IN
    handlers' = [handlers EXCEPT
        ![h] = IF Len(me.filters) = 1 THEN Idle
               ELSE [me EXCEPT !.at = "add", !.filters = Tail(me.filters)]]

\* addListener appends to both.  An append stores the new array if it needs one, then
\* the new length, and the element last.
Grows == len = Len(slots)

AddListener(h) ==
    LET ws == handlers[h].ws IN
    /\ handlers[h].at = "add" /\ holder = None /\ Connected(ws)
    /\ len < MaxListeners
    /\ clients' = [clients EXCEPT ![ws] = Append(@, [id |-> handlers[h].id, index |-> len + 1])]
    /\ slots' = IF Grows THEN slots \o [i \in 1 .. len |-> Unwritten] ELSE slots
    /\ casts' = [b \in Casters |->
                    IF Grows /\ casts[b].at # "idle" /\ ~casts[b].detached
                    THEN [casts[b] EXCEPT !.detached = TRUE, !.old = slots] ELSE casts[b]]
    /\ len' = len + 1
    /\ holder' = h
    /\ Goes(h, "fill")
    /\ UNCHANGED <<link, asked>>

Fill(h) ==
    LET me == handlers[h] IN
    /\ me.at = "fill"
    /\ slots' = [slots EXCEPT ![len] =
                    [ws |-> me.ws, id |-> me.id, filter |-> Head(me.filters)]]
    /\ holder' = None
    /\ NextFilter(h)
    /\ UNCHANGED <<link, clients, len, casts, asked>>

\* The client disconnected very rapidly.
AddNothing(h) ==
    /\ handlers[h].at = "add" /\ holder = None /\ ~Connected(handlers[h].ws)
    /\ NextFilter(h)
    /\ UNCHANGED <<link, clients, slots, len, holder, casts, asked>>

----------------------------------------------------------------------------
(* Removal: removeListenerId walks the specs of a socket downward and      *)
(* deletes those of one id, removeClientAndListeners walks them upward and  *)
(* deletes all; either way the last listener takes the place of the one    *)
(* removed, and the spec of the moved one must be told.                    *)

\* A mutation of Upward: every walk goes up.
AlwaysUpward(what) == TRUE

Upward(what) == what = "kill"

Walk(h, what, ws, id) ==
    /\ handlers[h] = Idle /\ holder = None /\ Connected(ws)
    /\ holder' = h
    /\ handlers' = [handlers EXCEPT ![h] = [Idle EXCEPT
          !.what = what, !.at = "walk", !.ws = ws, !.id = id,
          !.s = IF Upward(what) THEN 1 ELSE Len(clients[ws])]]
    /\ UNCHANGED <<link, clients, slots, len, casts, asked>>

Close(h, ws, id) == Walk(h, "close", ws, id)

\* The goroutine that reads the socket and the one that pings it both end so; whichever
\* comes second finds no entry.
Kill(h, ws) == Walk(h, "kill", ws, NoId)

\* What rl.clients is once the spec in hand is dropped or marked.
SpecDropped(me) ==
    LET specs == clients[me.ws] IN
    [clients EXCEPT ![me.ws] =
        SubSeq([specs EXCEPT ![me.s] = specs[Len(specs)]], 1, Len(specs) - 1)]
SpecMarked(me) == [clients EXCEPT ![me.ws][me.s].index = 0]

\* slices.IndexFunc: the first spec with this index.
IndexOf(specs, index) ==
    CHOOSE p \in DOMAIN specs :
        specs[p].index = index /\ \A q \in 1 .. p - 1 : specs[q].index # index

\* A mutation of Repointed: the spec keeps the index it had.
NotRepointed(specs, from, to) == specs

Repointed(specs, from, to) == [specs EXCEPT ![IndexOf(specs, from)].index = to]

\* A broadcast will not meet a listener that is gone, nor one moved to a slot it has
\* read, nor one moved while the array it holds, but not yet the length, is an old one.
Forgiven(c, removed, moved, to) ==
    {removed} \cup (IF \/ c.detached /\ c.at = "length"
                       \/ ~c.detached /\ (to < c.i \/ (to = c.i /\ c.at = "send"))
                    THEN {moved} ELSE {})

RemoveSpec(h) ==
    LET me    == handlers[h]
        spec  == clients[me.ws][me.s]
        moved == slots[len]
        rest  == IF me.what = "close" THEN SpecDropped(me) ELSE SpecMarked(me)
    IN
    /\ me.at = "walk" /\ me.s \in DOMAIN clients[me.ws]
    /\ me.what = "close" => spec.id = me.id
    /\ \/ /\ spec.index # len
          /\ slots' = [slots EXCEPT ![spec.index] = moved]
          /\ clients' = [rest EXCEPT ![moved.ws] = Repointed(@, len, spec.index)]
       \/ /\ spec.index = len
          /\ clients' = IF me.what = "close" THEN rest ELSE clients
          /\ UNCHANGED slots
    /\ casts' = [b \in Casters |->
          [casts[b] EXCEPT !.owed = @ \ Forgiven(casts[b], slots[spec.index], moved, spec.index)]]
    /\ Goes(h, "shrink")
    /\ UNCHANGED <<link, len, holder, asked>>

\* A mutation of Step: every walk goes on downward.
StepDown(me) == me.s - 1

Step(me) == IF Upward(me.what) THEN me.s + 1 ELSE me.s - 1

Shrink(h) ==
    /\ handlers[h].at = "shrink"
    /\ len' = len - 1
    /\ handlers' = [handlers EXCEPT ![h].at = "walk", ![h].s = Step(handlers[h])]
    /\ UNCHANGED <<link, clients, slots, holder, casts, asked>>

SkipSpec(h) ==
    LET me == handlers[h] IN
    /\ me.at = "walk" /\ me.what = "close" /\ me.s \in DOMAIN clients[me.ws]
    /\ clients[me.ws][me.s].id # me.id
    /\ handlers' = [handlers EXCEPT ![h].s = Step(me)]
    /\ UNCHANGED <<link, clients, slots, len, holder, casts, asked>>

\* The walk is over; a killed socket loses its entry in rl.clients.
Unlock(h) ==
    LET me == handlers[h] IN
    /\ me.at = "walk" /\ me.s \notin DOMAIN clients[me.ws]
    /\ IF me.what = "kill"
       THEN /\ link' = [link EXCEPT ![me.ws] = "gone"]
            /\ clients' = [clients EXCEPT ![me.ws] = <<>>]
       ELSE UNCHANGED <<link, clients>>
    /\ holder' = None
    /\ Ends(h)
    /\ UNCHANGED <<slots, len, casts, asked>>

----------------------------------------------------------------------------
(* notifyListeners, which takes no lock.                                   *)

\* The last slot is one to be written, or one to be given up.
Unsettled  == \E h \in Handlers : handlers[h].at \in {"fill", "shrink"}
Settled    == IF Unsettled THEN len - 1 ELSE len
Registered == {slots[i] : i \in 1 .. Settled}

SlotAt(c) ==
    LET array == IF c.detached THEN c.old ELSE slots IN
    IF c.i <= Len(array) THEN array[c.i] ELSE Unwritten

Broadcast(b, e) ==
    /\ casts[b].at = "idle"
    /\ casts' = [casts EXCEPT ![b] = [NoCast EXCEPT !.at = "length", !.event = e,
                    !.owed = {l \in Registered : e \in l.filter}]]
    /\ UNCHANGED <<link, clients, slots, len, holder, handlers, asked>>

LoadLength(b) ==
    /\ casts[b].at = "length"
    /\ casts' = [casts EXCEPT ![b].at = "read", ![b].n = len, ![b].i = 1]
    /\ UNCHANGED <<link, clients, slots, len, holder, handlers, asked>>

\* A mutation of Match: a listener that does not want the event ends the loop.
MatchOrStop(b) ==
    LET c == casts[b]  l == SlotAt(c) IN
    /\ c.at = "read" /\ c.i <= c.n
    /\ casts' = [casts EXCEPT ![b] =
          IF c.event \in l.filter
          THEN [c EXCEPT !.at = "send", !.id = l.id, !.filter = l.filter]
          ELSE [c EXCEPT !.i = c.n + 1]]
    /\ UNCHANGED <<link, clients, slots, len, holder, handlers, asked>>

\* A slot is copied in two parts: id and filter, then the socket.
Match(b) ==
    LET c == casts[b]  l == SlotAt(c) IN
    /\ c.at = "read" /\ c.i <= c.n
    /\ casts' = [casts EXCEPT ![b] =
          IF c.event \in l.filter
          THEN [c EXCEPT !.at = "send", !.id = l.id, !.filter = l.filter]
          ELSE [c EXCEPT !.i = c.i + 1]]
    /\ UNCHANGED <<link, clients, slots, len, holder, handlers, asked>>

Send(b) ==
    LET c == casts[b]  ws == SlotAt(c).ws IN
    /\ c.at = "send" /\ ws # NoSocket
    /\ casts' = [casts EXCEPT ![b] =
          [c EXCEPT !.at = "read", !.i = c.i + 1, !.id = NoId, !.filter = {},
                    !.owed = @ \ {[ws |-> ws, id |-> c.id, filter |-> c.filter]}]]
    /\ UNCHANGED <<link, clients, slots, len, holder, handlers, asked>>

Finish(b) ==
    /\ casts[b].at = "read" /\ casts[b].i > casts[b].n
    /\ casts' = [casts EXCEPT ![b] = NoCast]
    /\ UNCHANGED <<link, clients, slots, len, holder, handlers, asked>>

Init ==
    /\ link = [ws \in Sockets |-> "fresh"]
    /\ clients = [ws \in Sockets |-> <<>>]
    /\ slots = [i \in 1 .. Capacity |-> Unwritten] /\ len = 0
    /\ holder = None
    /\ handlers = [h \in Handlers |-> Idle]
    /\ casts = [b \in Casters |-> NoCast] /\ asked = 0

\* A nil socket: the panic ends the process, and all this is memory.
Crash(b) ==
    /\ casts[b].at = "send" /\ SlotAt(casts[b]).ws = NoSocket
    /\ link' = [ws \in Sockets |-> "fresh"]
    /\ clients' = [ws \in Sockets |-> <<>>]
    /\ slots' = [i \in 1 .. Capacity |-> Unwritten] /\ len' = 0
    /\ holder' = None
    /\ handlers' = [h \in Handlers |-> Idle]
    /\ casts' = [c \in Casters |-> NoCast] /\ UNCHANGED asked

Subscribing(h) ==
    \/ \E ws \in Sockets, sub \in Subscriptions : Req(h, ws, sub)
    \/ RefuseFilter(h) \/ AddListener(h) \/ Fill(h) \/ AddNothing(h)

Unsubscribing(h) ==
    \/ \E ws \in Sockets : Kill(h, ws) \/ \E id \in Ids : Close(h, ws, id)
    \/ RemoveSpec(h) \/ Shrink(h) \/ SkipSpec(h) \/ Unlock(h)

Notifying(b) ==
    \/ \E e \in Events : Broadcast(b, e)
    \/ LoadLength(b) \/ Match(b) \/ Send(b) \/ Finish(b) \/ Crash(b)

Next == \/ \E ws \in Sockets : Connect(ws)
        \/ \E h \in Handlers : Subscribing(h) \/ Unsubscribing(h)
        \/ \E b \in Casters : Notifying(b)

Spec == Init /\ [][Next]_vars

----------------------------------------------------------------------------
(* Properties.                                                             *)

TypeOK ==
    /\ link \in [Sockets -> {"fresh", "open", "gone"}]
    /\ clients \in [Sockets -> Seq(Spec0)]
    /\ slots \in Seq(Slot) /\ len \in 0 .. Len(slots)
    /\ holder \in Handlers \cup {None}
    /\ handlers \in [Handlers -> Handler]
    /\ casts \in [Casters -> Cast] /\ asked \in Nat

\* The specs kill has not deleted yet.
Live(ws) == {p \in DOMAIN clients[ws] :
                \A h \in Handlers : handlers[h].at \in {"walk", "shrink"}
                    /\ handlers[h].what = "kill" /\ handlers[h].ws = ws => p >= handlers[h].s}

\* Between two removals or additions, the map and the slice describe the same
\* listeners: every spec points at a listener of its socket and id, no two at the same
\* one, and every listener has a spec, or the next swap-delete would take a listener of
\* somebody else away, or panic for want of a spec to update.
IndexesAgree ==
    ~Unsettled =>
        /\ \A ws \in Sockets : \A p \in Live(ws) :
              LET spec == clients[ws][p] IN
              /\ spec.index \in 1 .. len
              /\ slots[spec.index].ws = ws /\ slots[spec.index].id = spec.id
              /\ \A q \in Live(ws) : clients[ws][q].index = spec.index => p = q
        /\ \A i \in 1 .. len : \E p \in Live(slots[i].ws) : clients[slots[i].ws][p].index = i

\* A connection that is gone leaves nothing behind, however its REQs, its CLOSEs and the
\* two goroutines that end it interleave: addListener after the end adds nothing.
GoneAreForgotten ==
    \A ws \in Sockets :
        link[ws] = "gone" => clients[ws] = <<>> /\ \A l \in Registered : l.ws # ws

\* A CLOSE that is carried out removes every listener of that subscription, though
\* deleting one of them moves others of the same socket in both structures.
ClosedIsGone ==
    [][\A h \in Handlers : handlers[h].at = "walk" /\ handlers[h].what = "close"
             /\ holder' = None /\ link' = link =>
          \A i \in 1 .. len : <<slots[i].ws, slots[i].id>> # <<handlers[h].ws, handlers[h].id>>]_vars

\* "emits an event to all listeners whose filters' match" (broadcasting.go:7), those that
\* were registered when it began and stayed, though listeners come and go and the array
\* is replaced meanwhile; but a listener that a removal moved to a slot the broadcast had
\* already read is not among them.
BroadcastReachesAll ==
    \A b \in Casters : casts[b].at = "read" /\ casts[b].i > casts[b].n => casts[b].owed = {}

\* What the indices are for: a REQ, a CLOSE and the end of a connection do to the listeners
\* what Subscribers says of them, though each removal moves the listener of somebody else.
Asked(me)     == [what |-> me.what, ws |-> me.ws, id |-> me.id, filters |-> me.filters]
Asks          == [h \in Handlers |-> Asked(handlers[h])]
Registrations == [l \in Listener |-> Cardinality({i \in 1 .. Settled : slots[i] = l})]

Promise == INSTANCE Subscribers WITH asks <- Asks, subscribed <- Registrations

SubscribersSpec == Promise!Spec
===============================================================================
