--------------------------------- MODULE NWC ---------------------------------
(***************************************************************************)
(* The wallet connection of internal/payments/nwc.go.  Requests and        *)
(* replies are events on a relay; all calls of a provider share one        *)
(* connection to it, n.relay, which a mutex guards while it is looked up,  *)
(* dialled or closed, and nobody else: a call that holds a connection may  *)
(* see it dropped, or closed by another call, between any two of its       *)
(* steps.                                                                  *)
(*                                                                         *)
(* The relay, the wallet and the client library are not in the repository: *)
(* they are modelled as nwc.go uses them.  Replies are of an ephemeral     *)
(* kind, so the relay keeps none for later.  Encryption, amounts and the   *)
(* method get_info (which has a provider to itself) are left out.          *)
(***************************************************************************)
EXTENDS Naturals

CONSTANTS
  Calls, About, Hashes, NoHash, Nobody, Earlier,   \* as in Provider
  MaxDials,   \* bound: connections ever dialled
  Faults      \* BOOLEAN: dials fail, connections drop, requests are refused

VARIABLES
  lock,     \* n.mu: the call that holds it, or Nobody
  relay,    \* n.relay: the number of a connection, 0 for nil
  open,     \* the connections that are up
  dials,    \* connections dialled so far
  at,       \* where each call stands
  via,      \* the connection each call works with
  late,     \* calls whose context has expired
  subs,     \* calls that are subscribed
  pending,  \* requests the wallet has not acted on
  inbox,    \* what each subscription has received
  overdue, replies, made, settled                  \* as in Provider

wallet == <<made, settled, pending>>
conns  == <<lock, relay, open, dials>>
vars   == <<conns, at, via, late, subs, inbox, wallet, overdue, replies>>

Conns == 1 .. MaxDials

Reply == [says: {"nothing", "invoice", "paid", "unpaid", "failed"}, hash: Hashes \cup {NoHash}]
Says(word) == [says |-> word, hash |-> NoHash]
Invoice(h) == [says |-> "invoice", hash |-> h]
Nothing == Says("nothing")

ASSUME NWCAssumption ==
    /\ About \in [Calls -> Hashes \cup {NoHash}]
    /\ NoHash \notin Hashes
    /\ {Nobody, Earlier} \cap Calls = {} /\ Nobody # Earlier
    /\ MaxDials \in Nat /\ Faults \in BOOLEAN

\* A mutation of After: the request is published before its reply is listened for.
AfterPublishing(place) ==
    CASE place = "dial" -> "publish" [] place = "sent" -> "subscribe"
      [] place = "subscribe" -> "wait" [] OTHER -> "done"

\* The order of call.
After(place) ==
    CASE place = "dial" -> "subscribe" [] place = "subscribe" -> "publish"
      [] place = "sent" -> "wait" [] OTHER -> "done"

Go(c, place) == at' = [at EXCEPT ![c] = place]

\* The deferred cancel and Unsub, and what the caller is told.
Return(c, reply) ==
    /\ Go(c, "done")
    /\ replies' = [replies EXCEPT ![c] = reply]
    /\ via' = [via EXCEPT ![c] = 0]
    /\ inbox' = [inbox EXCEPT ![c] = Nothing]
    /\ subs' = subs \ {c} /\ late' = late \ {c}
    /\ UNCHANGED <<wallet, overdue>>

Begin(c) ==
    /\ at[c] = "idle"
    /\ Go(c, "conn")
    /\ overdue' = IF About[c] \in settled THEN overdue \cup {c} ELSE overdue
    /\ UNCHANGED <<conns, via, late, subs, inbox, wallet, replies>>

\* external: context.WithTimeout; 30 seconds from Begin.
Expire(c) ==
    /\ at[c] \notin {"idle", "done"} /\ c \notin late
    /\ late' = late \cup {c}
    /\ UNCHANGED <<conns, at, via, subs, inbox, wallet, overdue, replies>>

----------------------------------------------------------------------------
(* conn, under the mutex.  Waiting for it does not heed the context.        *)

Lock(c) ==
    /\ at[c] = "conn" /\ lock = Nobody
    /\ lock' = c
    /\ Go(c, "dial")
    /\ UNCHANGED <<relay, open, dials, via, late, subs, inbox, wallet, overdue, replies>>

Connected == relay \in open

HasConn(c, k) ==
    /\ via' = [via EXCEPT ![c] = k]
    /\ lock' = Nobody
    /\ Go(c, After("dial"))
    /\ UNCHANGED <<late, subs, inbox, wallet, overdue, replies>>

Reuse(c) ==
    /\ at[c] = "dial" /\ Connected
    /\ HasConn(c, relay)
    /\ UNCHANGED <<relay, open, dials>>

Dial(c) ==
    /\ at[c] = "dial" /\ ~Connected /\ c \notin late
    /\ dials < MaxDials
    /\ dials' = dials + 1 /\ relay' = dials' /\ open' = open \cup {dials'}
    /\ HasConn(c, dials')

\* A mutation of DialFails: the error path forgets to unlock.
DialFailsLocked(c) ==
    /\ at[c] = "dial" /\ ~Connected
    /\ Faults \/ c \in late
    /\ Return(c, Says("failed"))
    /\ UNCHANGED conns

DialFails(c) ==
    /\ at[c] = "dial" /\ ~Connected
    /\ Faults \/ c \in late
    /\ lock' = Nobody
    /\ Return(c, Says("failed"))
    /\ UNCHANGED <<relay, open, dials>>

----------------------------------------------------------------------------
(* call: subscribe, publish, wait for the reply.                           *)

Subscribe(c) ==
    /\ at[c] = "subscribe" /\ via[c] \in open
    /\ subs' = subs \cup {c}
    /\ Go(c, After("subscribe"))
    /\ UNCHANGED <<conns, via, late, inbox, wallet, overdue, replies>>

SubscribeFails(c) ==
    /\ at[c] = "subscribe"
    /\ via[c] \notin open \/ c \in late
    /\ Return(c, Says("failed"))
    /\ UNCHANGED conns

\* Publish sends the request; a fast wallet answers before the relay's OK is back.
Publish(c) ==
    /\ at[c] = "publish" /\ via[c] \in open
    /\ pending' = pending \cup {c}
    /\ Go(c, "sent")
    /\ UNCHANGED <<conns, via, late, subs, inbox, made, settled, overdue, replies>>

Accepted(c) ==
    /\ at[c] = "sent"
    /\ Go(c, After("sent"))
    /\ UNCHANGED <<conns, via, late, subs, inbox, wallet, overdue, replies>>

PublishFails(c) ==
    /\ at[c] \in {"publish", "sent"}
    /\ via[c] \notin open \/ c \in late \/ (Faults /\ at[c] = "sent")
    /\ Go(c, "reset")
    /\ UNCHANGED <<conns, via, late, subs, inbox, wallet, overdue, replies>>

\* A mutation of Closed: reset forgets the connection and leaves it up.
Forgotten == open

\* reset closes the connection that is current, whichever this call has used.
Closed == open \ {relay}

Reset(c) ==
    /\ at[c] = "reset" /\ lock = Nobody
    /\ open' = Closed /\ relay' = 0
    /\ Return(c, Says("failed"))
    /\ UNCHANGED <<lock, dials>>

\* The select takes any of its cases that is ready.
Receive(c) ==
    /\ at[c] = "wait" /\ inbox[c] # Nothing
    /\ Return(c, inbox[c])
    /\ UNCHANGED conns

GiveUp(c) ==
    /\ at[c] = "wait"
    /\ c \in late \/ via[c] \notin open
    /\ Return(c, Says("failed"))
    /\ UNCHANGED conns

----------------------------------------------------------------------------
(* Around it: the relay and the wallet.                                    *)

Drop(k) ==
    /\ Faults /\ k \in open
    /\ open' = open \ {k}
    /\ UNCHANGED <<lock, relay, dials, at, via, late, subs, inbox, wallet, overdue, replies>>

\* The wallet makes an invoice for a CreateInvoice, looks one up for an IsPaid
\* (NOT_FOUND of one that is not its own reads as unpaid), or sends an error; so does
\* one whose reply does not decode.
Answers(c) ==
    {Says("failed")} \cup
    IF About[c] = NoHash THEN {Invoice(h) : h \in {g \in Hashes : made[g] = Nobody}}
    ELSE {Says(IF About[c] \in settled THEN "paid" ELSE "unpaid")}

\* A mutation of Matches: the filter asks for the kind of a reply alone.
MatchesKind(d, c) == TRUE

\* The filter of call d's subscription, on the reply to call c.
Matches(d, c) == d = c

Hears(d, c) == d \in subs /\ via[d] \in open /\ Matches(d, c)

\* A reply is published once it is known; how long that and the way to the relay take
\* is how long the request is pending.
Act(c) ==
    /\ c \in pending
    /\ pending' = pending \ {c}
    /\ \E reply \in Answers(c) :
          /\ made' = [h \in Hashes |-> IF reply = Invoice(h) THEN c ELSE made[h]]
          /\ inbox' = [d \in Calls |->
                          IF Hears(d, c) /\ inbox[d] = Nothing THEN reply ELSE inbox[d]]
    /\ UNCHANGED <<conns, at, via, late, subs, settled, overdue, replies>>

Settle(h) ==
    /\ made[h] # Nobody /\ h \notin settled
    /\ settled' = settled \cup {h}
    /\ UNCHANGED <<conns, at, via, late, subs, inbox, made, pending, overdue, replies>>

----------------------------------------------------------------------------
Init ==
    /\ lock = Nobody /\ relay = 0 /\ open = {} /\ dials = 0
    /\ at = [c \in Calls |-> "idle"] /\ via = [c \in Calls |-> 0]
    /\ late = {} /\ subs = {} /\ pending = {} /\ overdue = {} /\ settled = {}
    /\ inbox = [c \in Calls |-> Nothing]
    /\ replies = [c \in Calls |-> Nothing]
    /\ made = [h \in Hashes |-> IF \E c \in Calls : About[c] = h THEN Earlier ELSE Nobody]

\* What a call does by itself, once it has what it waits for or gives it up.
Step(c) ==
    \/ Reuse(c) \/ DialFails(c) \/ Subscribe(c) \/ SubscribeFails(c)
    \/ Publish(c) \/ PublishFails(c) \/ Receive(c) \/ GiveUp(c)

Next ==
    \/ \E c \in Calls : \/ Begin(c) \/ Expire(c) \/ Lock(c) \/ Dial(c) \/ Step(c)
                        \/ Accepted(c) \/ Reset(c) \/ Act(c)
    \/ \E k \in Conns : Drop(k)
    \/ \E h \in Hashes : Settle(h)

Spec == Init /\ [][Next]_vars

\* A call is a goroutine, its timer fires, and a Go mutex starves nobody.  Nothing
\* is expected of the relay or the wallet: no dial need succeed, no request be
\* accepted, no reply come.
Fairness == \A c \in Calls : /\ WF_vars(Step(c)) /\ WF_vars(Expire(c))
                             /\ SF_vars(Lock(c)) /\ SF_vars(Reset(c))

FairSpec == Spec /\ Fairness

----------------------------------------------------------------------------
(* Properties.                                                             *)

Places == {"idle", "conn", "dial", "subscribe", "publish", "sent", "wait", "reset", "done"}

\* Every variable is what the code can make of it, and the mutex is held by the call
\* that looks a connection up.
TypeOK ==
    /\ lock \in Calls \cup {Nobody} /\ relay \in 0 .. dials /\ dials \in 0 .. MaxDials
    /\ open \subseteq 1 .. dials
    /\ at \in [Calls -> Places] /\ via \in [Calls -> 0 .. dials]
    /\ late \subseteq Calls /\ subs \subseteq Calls /\ pending \subseteq Calls
    /\ inbox \in [Calls -> Reply]
    /\ overdue \subseteq Calls /\ replies \in [Calls -> Reply]
    /\ made \in [Hashes -> Calls \cup {Nobody, Earlier}] /\ settled \subseteq Hashes
    /\ \A c \in Calls : at[c] = "dial" <=> lock = c

\* However calls fail, time out and reset beside each other, a connection that is up
\* is the shared one: dialling anew and reset (nwc.go:197-220) leave none behind that
\* nobody would ever close.
NoConnectionIsLeaked == open \subseteq {relay}

\* "subscribe before publishing so a fast wallet can't answer into the void"
\* (nwc.go:152): a reply that nobody hears is one to a call that is over or about to
\* fail, or whose connection is gone.
RepliesAreHeard ==
    [][\A c \in Calls : Act(c) =>
          \/ inbox'[c] # Nothing
          \/ at[c] \in {"reset", "done"}
          \/ via[c] \notin open]_vars

\* Every call ends, be it with an error, whatever the relay and the wallet do and
\* however many calls wait for the mutex while another dials: "nwcTimeout bounds how
\* long we wait" (nwc.go:18).
CallsEnd == \A c \in Calls : at[c] # "idle" ~> at[c] = "done"

\* Sharing a connection, replies that come late, out of order or never, and questions
\* asked while an invoice is being paid included, this is what payments.Provider
\* promises: no call is told of another's invoice, or of a payment that was not made.
Backend == INSTANCE Provider WITH asked <- {c \in Calls : at[c] # "idle"}
BackendSpec == Backend!Spec
===============================================================================
