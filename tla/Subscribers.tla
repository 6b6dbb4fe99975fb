------------------------------ MODULE Subscribers ------------------------------
(***************************************************************************)
(* What clients may expect of their subscriptions: a REQ adds one listener *)
(* for each of its filters, until one is refused; a CLOSE takes all those  *)
(* of its id away and the end of a connection all of its own, one by one;  *)
(* and nobody's listener is taken by anybody else.                         *)
(*                                                                         *)
(* A listener is known by its socket, id and filter here, whatever array   *)
(* it lies in; module Listeners implements this.                           *)
(***************************************************************************)
EXTENDS Naturals, Sequences

CONSTANTS Sockets, NoSocket, Ids, NoId, Events, Handlers, Subscriptions

VARIABLES
  link,        \* a socket is fresh, open or gone
  asks,        \* what each handler was asked to do, and the filters it has still to add
  subscribed   \* how many times each listener is registered

subscribers == <<link, asks, subscribed>>

Listener == [ws: Sockets, id: Ids, filter: SUBSET Events]

Nothing        == [what |-> "none", ws |-> NoSocket, id |-> NoId, filters |-> <<>>]
AskReq(ws, s)    == [what |-> "req", ws |-> ws, id |-> s.id, filters |-> s.filters]
AskClose(ws, id) == [what |-> "close", ws |-> ws, id |-> id, filters |-> <<>>]
AskKill(ws)      == [what |-> "kill", ws |-> ws, id |-> NoId, filters |-> <<>>]

Init ==
    /\ link = [ws \in Sockets |-> "fresh"]
    /\ asks = [h \in Handlers |-> Nothing]
    /\ subscribed = [l \in Listener |-> 0]

Connect(ws) ==
    /\ link[ws] = "fresh"
    /\ link' = [link EXCEPT ![ws] = "open"]
    /\ UNCHANGED <<asks, subscribed>>

Ask(h, ask) ==
    /\ asks[h] = Nothing /\ link[ask.ws] = "open"
    /\ asks' = [asks EXCEPT ![h] = ask]
    /\ UNCHANGED <<link, subscribed>>

\* One filter is done with.
After(ask) == IF Len(ask.filters) = 1 THEN Nothing ELSE [ask EXCEPT !.filters = Tail(ask.filters)]
NextFilter(h) == asks' = [asks EXCEPT ![h] = After(asks[h])]

Wanted(ask) == [ws |-> ask.ws, id |-> ask.id, filter |-> Head(ask.filters)]

Subscribe(h) ==
    /\ asks[h].what = "req" /\ link[asks[h].ws] = "open"
    /\ subscribed' = [subscribed EXCEPT ![Wanted(asks[h])] = @ + 1]
    /\ NextFilter(h)
    /\ UNCHANGED link

\* Whoever is gone is not subscribed any more.
TooLate(h) ==
    /\ asks[h].what = "req" /\ link[asks[h].ws] # "open"
    /\ NextFilter(h)
    /\ UNCHANGED <<link, subscribed>>

Refuse(h) ==
    /\ asks[h].what = "req"
    /\ asks' = [asks EXCEPT ![h] = Nothing]
    /\ UNCHANGED <<link, subscribed>>

\* The listeners a CLOSE or the end of a connection is about.
Concerns(ask, l) ==
    /\ ask.what \in {"close", "kill"} /\ l.ws = ask.ws
    /\ ask.what = "close" => l.id = ask.id

Unsubscribe(h) ==
    /\ \E l \in Listener :
          /\ Concerns(asks[h], l) /\ subscribed[l] > 0
          /\ subscribed' = [subscribed EXCEPT ![l] = @ - 1]
    /\ UNCHANGED <<link, asks>>

\* It ends when none is left.
Conclude(h) ==
    /\ asks[h].what \in {"close", "kill"}
    /\ \A l \in Listener : Concerns(asks[h], l) => subscribed[l] = 0
    /\ link' = IF asks[h].what = "kill" THEN [link EXCEPT ![asks[h].ws] = "gone"] ELSE link
    /\ asks' = [asks EXCEPT ![h] = Nothing]
    /\ UNCHANGED subscribed

\* The process ends, and with it all connections.
Stop ==
    /\ link' = [ws \in Sockets |-> "fresh"]
    /\ asks' = [h \in Handlers |-> Nothing]
    /\ subscribed' = [l \in Listener |-> 0]

Asking(h) == \E ws \in Sockets :
    \/ Ask(h, AskKill(ws))
    \/ \E id \in Ids : Ask(h, AskClose(ws, id))
    \/ \E s \in Subscriptions : Ask(h, AskReq(ws, s))

Next ==
    \/ Stop \/ \E ws \in Sockets : Connect(ws)
    \/ \E h \in Handlers : \/ Asking(h) \/ Subscribe(h) \/ TooLate(h) \/ Refuse(h)
                           \/ Unsubscribe(h) \/ Conclude(h)

Spec == Init /\ [][Next]_subscribers
===============================================================================
