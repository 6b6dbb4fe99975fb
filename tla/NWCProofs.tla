------------------------------ MODULE NWCProofs ------------------------------
(***************************************************************************)
(* Proofs about NWC: for any number of calls, invoices and dials, no       *)
(* connection is leaked, every reply of the wallet is heard by a call that *)
(* can still hear it, and the provider keeps what Provider promises.       *)
(*                                                                         *)
(* The inductive invariant adds to the types that a connection that is up  *)
(* is the shared one, that a call listens from before it publishes until   *)
(* it returns, and that what it has heard is honest: true of the wallet    *)
(* when it was said and, by Provider, ever since.                          *)
(***************************************************************************)
EXTENDS NWC, TLAPS

\* A call that has sent its request, or is about to, is subscribed.
Listens(c) == at[c] \in {"publish", "sent", "wait"} => c \in subs

\* A request is out, and a reply in, only of a call that has got that far.
Ordered(c) ==
    /\ c \in pending => at[c] \in {"sent", "wait", "reset", "done"}
    /\ inbox[c] # Nothing => at[c] # "idle"
    /\ at[c] # "done" => replies[c] = Nothing
    /\ c \in subs => at[c] # "idle"
    /\ c \in overdue => at[c] # "idle" /\ About[c] \in settled

Heard(c) == inbox[c] # Nothing => Backend!Honest(c, inbox[c])

Order  == \A c \in Calls : Listens(c) /\ Ordered(c)
Honesty == \A c \in Calls : Heard(c)

IInv == TypeOK /\ NoConnectionIsLeaked /\ Order /\ Honesty

\* The replies there are.
LEMMA Words ==
    /\ \A h \in Hashes : Invoice(h) \in Reply /\ Invoice(h) # Nothing
    /\ \A w \in {"nothing", "paid", "unpaid", "failed"} : Says(w) \in Reply
    /\ \A w \in {"paid", "unpaid", "failed"} : Says(w) # Nothing
BY DEF Invoice, Says, Nothing, Reply

LEMMA InitTypes == Init => TypeOK
<1> SUFFICES ASSUME Init PROVE TypeOK
  OBVIOUS
<1>1. MaxDials \in Nat
  BY NWCAssumption
<1>2. Nothing \in Reply
  BY Words DEF Nothing
<1>3. \A c \in Calls : lock # c
  BY NWCAssumption DEF Init
<1>4. made \in [Hashes -> Calls \cup {Nobody, Earlier}]
  BY DEF Init
<1>5. QED
  BY <1>1, <1>2, <1>3, <1>4 DEF Init, TypeOK, Places

\* What ends a call keeps the types, whatever becomes of the connections.
LEMMA ReturnTypes ==
    ASSUME TypeOK, NEW c \in Calls, NEW reply \in Reply, Return(c, reply), dials' = dials
    PROVE  /\ at' \in [Calls -> Places] /\ via' \in [Calls -> 0 .. dials']
           /\ late' \subseteq Calls /\ subs' \subseteq Calls /\ pending' \subseteq Calls
           /\ inbox' \in [Calls -> Reply] /\ overdue' \subseteq Calls
           /\ replies' \in [Calls -> Reply]
           /\ made' \in [Hashes -> Calls \cup {Nobody, Earlier}] /\ settled' \subseteq Hashes
<1>1. Nothing \in Reply /\ dials \in Nat
  BY Words, NWCAssumption DEF TypeOK, Nothing
<1>2. QED
  BY <1>1 DEF TypeOK, Return, Go, Places, wallet

\* The steps of conn.
LEMMA ConnTypes ==
    ASSUME TypeOK, NEW c \in Calls, Lock(c) \/ Reuse(c) \/ Dial(c) \/ DialFails(c)
    PROVE  TypeOK'
<1> MaxDials \in Nat /\ Nobody \notin Calls
  BY NWCAssumption
<1>1. CASE Lock(c)
  BY <1>1 DEF TypeOK, Lock, Go, Places, wallet
<1>2. CASE Reuse(c)
  BY <1>2 DEF TypeOK, Reuse, HasConn, After, Go, Places, wallet, Connected
<1>3. CASE Dial(c)
  <2>1. dials' = dials + 1 /\ dials' \in 0 .. MaxDials /\ relay' \in 0 .. dials'
    BY <1>3 DEF TypeOK, Dial
  <2>2. open' \subseteq 1 .. dials'
    BY <1>3, <2>1 DEF TypeOK, Dial
  <2>3. via' \in [Calls -> 0 .. dials']
    BY <1>3, <2>1 DEF TypeOK, Dial, HasConn
  <2>4. /\ lock' = Nobody
        /\ at' \in [Calls -> Places]
        /\ \A d \in Calls : at'[d] # "dial"
    BY <1>3 DEF TypeOK, Dial, HasConn, After, Go, Places
  <2>5. QED
    BY <1>3, <2>1, <2>2, <2>3, <2>4 DEF TypeOK, Dial, HasConn, wallet
<1>4. CASE DialFails(c)
  <2>1. Says("failed") \in Reply
    BY Words
  <2>2. Return(c, Says("failed")) /\ lock' = Nobody /\ UNCHANGED <<relay, open, dials>>
    BY <1>4 DEF DialFails
  <2>3. \A d \in Calls : at'[d] # "dial"
    BY <1>4 DEF TypeOK, DialFails, Return, Go
  <2>4. QED
    BY <2>1, <2>2, <2>3, ReturnTypes DEF TypeOK
<1>5. QED
  BY <1>1, <1>2, <1>3, <1>4

\* The steps of call.
LEMMA CallTypes ==
    ASSUME TypeOK, NEW c \in Calls,
           \/ Begin(c) \/ Expire(c) \/ Subscribe(c) \/ SubscribeFails(c) \/ Publish(c)
           \/ Accepted(c) \/ PublishFails(c) \/ Reset(c) \/ Receive(c) \/ GiveUp(c)
    PROVE  TypeOK'
<1> MaxDials \in Nat /\ Nobody \notin Calls
  BY NWCAssumption
<1>1. CASE Begin(c)
  BY <1>1 DEF TypeOK, Begin, Go, Places, wallet, conns
<1>2. CASE Expire(c)
  BY <1>2 DEF TypeOK, Expire, wallet, conns
<1>3. CASE Subscribe(c)
  BY <1>3 DEF TypeOK, Subscribe, After, Go, Places, wallet, conns
<1>4. CASE Publish(c)
  BY <1>4 DEF TypeOK, Publish, Go, Places, conns
<1>5. CASE Accepted(c)
  BY <1>5 DEF TypeOK, Accepted, After, Go, Places, wallet, conns
<1>6. CASE PublishFails(c)
  BY <1>6 DEF TypeOK, PublishFails, Go, Places, wallet, conns
<1>7. CASE SubscribeFails(c) \/ GiveUp(c) \/ Receive(c)
  <2>1. PICK reply \in Reply : Return(c, reply)
    BY <1>7, Words DEF TypeOK, SubscribeFails, GiveUp, Receive
  <2>2. UNCHANGED <<lock, relay, open, dials>> /\ at[c] # "dial"
    BY <1>7 DEF SubscribeFails, GiveUp, Receive, conns
  <2>3. \A d \in Calls : at'[d] = "dial" <=> at[d] = "dial"
    BY <2>1, <2>2 DEF TypeOK, Return, Go
  <2>4. QED
    BY <2>1, <2>2, <2>3, ReturnTypes DEF TypeOK
<1>8. CASE Reset(c)
  <2>1. Return(c, Says("failed")) /\ Says("failed") \in Reply
    BY <1>8, Words DEF Reset
  <2>2. UNCHANGED <<lock, dials>> /\ open' \subseteq open /\ relay' = 0 /\ at[c] # "dial"
    BY <1>8 DEF Reset, Closed
  <2>3. \A d \in Calls : at'[d] = "dial" <=> at[d] = "dial"
    BY <2>1, <2>2 DEF TypeOK, Return, Go
  <2>4. QED
    BY <2>1, <2>2, <2>3, ReturnTypes DEF TypeOK
<1>9. QED
  BY <1>1, <1>2, <1>3, <1>4, <1>5, <1>6, <1>7, <1>8

\* An answer is a reply, and it was worth sending.
LEMMA AnswersAreReplies ==
    ASSUME NEW c \in Calls, NEW reply \in Answers(c)
    PROVE  reply \in Reply /\ reply # Nothing
BY Words DEF Answers

\* The steps of the world.
LEMMA WorldTypes ==
    ASSUME TypeOK,
           \/ \E c \in Calls : Act(c)
           \/ \E k \in Conns : Drop(k)
           \/ \E h \in Hashes : Settle(h)
    PROVE  TypeOK'
<1>1. ASSUME NEW c \in Calls, Act(c) PROVE TypeOK'
  <2>1. PICK reply \in Answers(c) :
          /\ made' = [h \in Hashes |-> IF reply = Invoice(h) THEN c ELSE made[h]]
          /\ inbox' = [d \in Calls |->
                          IF Hears(d, c) /\ inbox[d] = Nothing THEN reply ELSE inbox[d]]
    BY <1>1 DEF Act
  <2>2. reply \in Reply
    BY AnswersAreReplies
  <2>3. /\ made' \in [Hashes -> Calls \cup {Nobody, Earlier}]
        /\ inbox' \in [Calls -> Reply]
    BY <2>1, <2>2 DEF TypeOK
  <2>4. QED
    BY <1>1, <2>3 DEF TypeOK, Act, conns
<1>2. ASSUME NEW k \in Conns, Drop(k) PROVE TypeOK'
  BY <1>2 DEF TypeOK, Drop, wallet
<1>3. ASSUME NEW h \in Hashes, Settle(h) PROVE TypeOK'
  BY <1>3 DEF TypeOK, Settle, conns
<1>4. QED
  BY <1>1, <1>2, <1>3

LEMMA Types == ASSUME TypeOK, [Next]_vars PROVE TypeOK'
<1>1. CASE UNCHANGED vars
  BY <1>1 DEF TypeOK, vars, conns, wallet
<1>2. CASE Next
  BY <1>2, ConnTypes, CallTypes, WorldTypes DEF Next, Step
<1>3. QED
  BY <1>1, <1>2

\* Whatever is open after a step was open before, or is the new shared connection.
LEMMA NoLeak == ASSUME TypeOK, NoConnectionIsLeaked, [Next]_vars PROVE NoConnectionIsLeaked'
<1>1. CASE UNCHANGED <<relay, open>>
  BY <1>1 DEF NoConnectionIsLeaked
<1>2. ASSUME NEW c \in Calls, Dial(c) PROVE NoConnectionIsLeaked'
  BY <1>2 DEF NoConnectionIsLeaked, Dial, Connected
<1>3. ASSUME NEW c \in Calls, Reset(c) PROVE NoConnectionIsLeaked'
  BY <1>3 DEF NoConnectionIsLeaked, Reset, Closed
<1>4. ASSUME NEW k \in Conns, Drop(k) PROVE NoConnectionIsLeaked'
  BY <1>4 DEF NoConnectionIsLeaked, Drop
<1>5. ASSUME NEW c \in Calls,
             \/ Begin(c) \/ Expire(c) \/ Lock(c) \/ Step(c) \/ Accepted(c) \/ Act(c)
      PROVE  UNCHANGED <<relay, open>>
  BY <1>5 DEF Begin, Expire, Lock, Step, Accepted, Act, Reuse, DialFails, Subscribe,
              SubscribeFails, Publish, PublishFails, Receive, GiveUp, conns
<1>6. ASSUME NEW h \in Hashes, Settle(h) PROVE UNCHANGED <<relay, open>>
  BY <1>6 DEF Settle, conns
<1>7. CASE UNCHANGED vars
  BY <1>1, <1>7 DEF vars, conns
<1>8. QED
  BY <1>1, <1>2, <1>3, <1>4, <1>5, <1>6, <1>7 DEF Next

----------------------------------------------------------------------------
(* The order of a call's steps.                                            *)

\* What ends a call leaves nothing of it behind, and the others alone.
LEMMA ReturnOrder ==
    ASSUME TypeOK, Order, NEW c \in Calls, NEW reply, Return(c, reply), at[c] # "idle"
    PROVE  Order'
<1>1. ASSUME NEW d \in Calls, d # c PROVE Listens(d)' /\ Ordered(d)'
  <2>1. /\ at'[d] = at[d] /\ replies'[d] = replies[d] /\ inbox'[d] = inbox[d]
        /\ d \in subs' <=> d \in subs
        /\ UNCHANGED <<pending, overdue, settled>>
    BY <1>1 DEF TypeOK, Return, Go, wallet
  <2>2. QED
    BY <2>1 DEF Order, Listens, Ordered
<1>2. at'[c] = "done" /\ c \notin subs' /\ UNCHANGED <<overdue, settled, pending>>
  BY DEF TypeOK, Return, Go, wallet
<1>3. Listens(c)' /\ Ordered(c)'
  BY <1>2 DEF Order, Listens, Ordered
<1>4. QED
  BY <1>1, <1>3 DEF Order

LEMMA ConnOrder ==
    ASSUME TypeOK, Order, NEW c \in Calls, Lock(c) \/ Reuse(c) \/ Dial(c) \/ DialFails(c)
    PROVE  Order'
<1>1. CASE Lock(c)
  BY <1>1 DEF TypeOK, Order, Listens, Ordered, Lock, Go, wallet
<1>2. CASE Reuse(c) \/ Dial(c)
  BY <1>2 DEF TypeOK, Order, Listens, Ordered, Reuse, Dial, HasConn, After, Go, wallet
<1>3. CASE DialFails(c)
  BY <1>3, ReturnOrder DEF DialFails
<1>4. QED
  BY <1>1, <1>2, <1>3

LEMMA CallOrder ==
    ASSUME TypeOK, Order, NEW c \in Calls,
           \/ Begin(c) \/ Expire(c) \/ Subscribe(c) \/ SubscribeFails(c) \/ Publish(c)
           \/ Accepted(c) \/ PublishFails(c) \/ Reset(c) \/ Receive(c) \/ GiveUp(c)
    PROVE  Order'
<1>1. CASE Begin(c)
  BY <1>1 DEF TypeOK, Order, Listens, Ordered, Begin, Go, wallet
<1>2. CASE Expire(c)
  BY <1>2 DEF TypeOK, Order, Listens, Ordered, Expire, wallet
<1>3. CASE Subscribe(c)
  BY <1>3 DEF TypeOK, Order, Listens, Ordered, Subscribe, After, Go, wallet
<1>4. CASE Publish(c)
  BY <1>4 DEF TypeOK, Order, Listens, Ordered, Publish, Go
<1>5. CASE Accepted(c)
  BY <1>5 DEF TypeOK, Order, Listens, Ordered, Accepted, After, Go, wallet
<1>6. CASE PublishFails(c)
  BY <1>6 DEF TypeOK, Order, Listens, Ordered, PublishFails, Go, wallet
<1>7. CASE SubscribeFails(c) \/ Reset(c) \/ Receive(c) \/ GiveUp(c)
  BY <1>7, ReturnOrder DEF SubscribeFails, Reset, Receive, GiveUp
<1>8. QED
  BY <1>1, <1>2, <1>3, <1>4, <1>5, <1>6, <1>7

LEMMA WorldOrder ==
    ASSUME TypeOK, Order,
           \/ \E c \in Calls : Act(c)
           \/ \E k \in Conns : Drop(k)
           \/ \E h \in Hashes : Settle(h)
    PROVE  Order'
<1>1. ASSUME NEW c \in Calls, Act(c) PROVE Order'
  BY <1>1 DEF TypeOK, Order, Listens, Ordered, Act, Hears, conns
<1>2. ASSUME NEW k \in Conns, Drop(k) PROVE Order'
  BY <1>2 DEF TypeOK, Order, Listens, Ordered, Drop, wallet
<1>3. ASSUME NEW h \in Hashes, Settle(h) PROVE Order'
  BY <1>3 DEF TypeOK, Order, Listens, Ordered, Settle, conns
<1>4. QED
  BY <1>1, <1>2, <1>3

LEMMA Orders == ASSUME TypeOK, Order, [Next]_vars PROVE Order'
<1>1. CASE UNCHANGED vars
  BY <1>1 DEF Order, Listens, Ordered, vars, conns, wallet
<1>2. CASE Next
  BY <1>2, ConnOrder, CallOrder, WorldOrder DEF Next, Step
<1>3. QED
  BY <1>1, <1>2

----------------------------------------------------------------------------
(* Honesty.                                                                *)

\* What was true of an invoice when it was said stays true: an invoice is made once,
\* stays paid, and was or was not paid when the question was asked.
LEMMA HonestStays ==
    ASSUME TypeOK, NEW c \in Calls, NEW reply, Backend!Honest(c, reply),
           \A h \in Hashes : made[h] \in Calls => made'[h] = made[h],
           settled \subseteq settled', c \in overdue' => c \in overdue
    PROVE  Backend!Honest(c, reply)'
BY DEF Backend!Honest, TypeOK

\* Only a wallet that acts, a payment and a call that begins touch what is said about.
LEMMA Quiet ==
    ASSUME TypeOK, [Next]_vars, \A c \in Calls : ~Act(c) /\ ~Begin(c)
    PROVE  UNCHANGED <<made, overdue>> /\ settled \subseteq settled'
<1>1. ASSUME NEW c \in Calls, Expire(c) \/ Lock(c) \/ Dial(c) \/ Step(c) \/ Accepted(c) \/ Reset(c)
      PROVE  UNCHANGED <<made, overdue, settled>>
  BY <1>1 DEF Expire, Lock, Dial, HasConn, Step, Accepted, Reset, Reuse, DialFails, Subscribe,
              SubscribeFails, Publish, PublishFails, Receive, GiveUp, Return, wallet
<1>2. ASSUME NEW k \in Conns, Drop(k) PROVE UNCHANGED <<made, overdue, settled>>
  BY <1>2 DEF Drop, wallet
<1>3. ASSUME NEW h \in Hashes, Settle(h) PROVE UNCHANGED <<made, overdue>> /\ settled \subseteq settled'
  BY <1>3 DEF Settle
<1>4. CASE UNCHANGED vars
  BY <1>4 DEF vars, wallet
<1>5. QED
  BY <1>1, <1>2, <1>3, <1>4 DEF Next

\* Without them nothing is heard, either.
LEMMA QuietInbox ==
    ASSUME TypeOK, [Next]_vars, \A c \in Calls : ~Act(c), NEW d \in Calls
    PROVE  inbox'[d] = inbox[d] \/ inbox'[d] = Nothing
<1>1. ASSUME NEW c \in Calls,
             \/ Begin(c) \/ Expire(c) \/ Lock(c) \/ Dial(c) \/ Accepted(c) \/ Reuse(c)
             \/ Subscribe(c) \/ Publish(c) \/ PublishFails(c)
      PROVE  UNCHANGED inbox
  BY <1>1 DEF Begin, Expire, Lock, Dial, HasConn, Accepted, Reuse, Subscribe, Publish, PublishFails
<1>2. ASSUME NEW c \in Calls,
             DialFails(c) \/ SubscribeFails(c) \/ Receive(c) \/ GiveUp(c) \/ Reset(c)
      PROVE  inbox'[d] = inbox[d] \/ inbox'[d] = Nothing
  BY <1>2 DEF TypeOK, DialFails, SubscribeFails, Receive, GiveUp, Reset, Return
<1>3. ASSUME NEW k \in Conns, Drop(k) PROVE UNCHANGED inbox
  BY <1>3 DEF Drop
<1>4. ASSUME NEW h \in Hashes, Settle(h) PROVE UNCHANGED inbox
  BY <1>4 DEF Settle
<1>5. CASE UNCHANGED vars
  BY <1>5 DEF vars
<1>6. QED
  BY <1>1, <1>2, <1>3, <1>4, <1>5 DEF Next, Step

\* What the wallet answers is honest.
LEMMA AnswersAreHonest ==
    ASSUME TypeOK, Order, NEW c \in Calls, Act(c), NEW reply \in Answers(c),
           made' = [h \in Hashes |-> IF reply = Invoice(h) THEN c ELSE made[h]]
    PROVE  Backend!Honest(c, reply)'
<1>1. UNCHANGED <<settled, overdue>>
  BY DEF Act
<1>2. CASE reply = Says("failed")
  BY <1>2 DEF Backend!Honest, Backend!Says, Says
<1>3. CASE About[c] = NoHash /\ \E h \in Hashes : reply = Invoice(h)
  BY <1>3 DEF Backend!Honest, Backend!Invoice, Invoice
<1>4. CASE About[c] # NoHash /\ About[c] \in settled /\ reply = Says("paid")
  BY <1>1, <1>4 DEF Backend!Honest, Backend!Says, Says
<1>5. CASE About[c] # NoHash /\ About[c] \notin settled /\ reply = Says("unpaid")
  <2>1. c \notin overdue
    BY <1>5 DEF Order, Ordered
  <2>2. QED
    BY <1>1, <1>5, <2>1 DEF Backend!Honest, Backend!Says, Says
<1>6. QED
  BY <1>2, <1>3, <1>4, <1>5 DEF Answers

LEMMA ActHonesty ==
    ASSUME TypeOK, Order, Honesty, NEW c \in Calls, Act(c)
    PROVE  Honesty'
<1>1. PICK reply \in Answers(c) :
        /\ made' = [h \in Hashes |-> IF reply = Invoice(h) THEN c ELSE made[h]]
        /\ inbox' = [d \in Calls |->
                        IF Hears(d, c) /\ inbox[d] = Nothing THEN reply ELSE inbox[d]]
  BY DEF Act
<1>2. UNCHANGED <<settled, overdue>>
  BY DEF Act
<1>3. \A h \in Hashes : made[h] \in Calls => made'[h] = made[h]
  <2> SUFFICES ASSUME NEW h \in Hashes, made[h] \in Calls, reply = Invoice(h) PROVE FALSE
    BY <1>1
  <2>1. About[c] = NoHash /\ made[h] = Nobody
    BY DEF Answers, Invoice, Says
  <2>2. QED
    BY <2>1, NWCAssumption
<1>4. ASSUME NEW d \in Calls, NEW heard, inbox'[d] = heard, heard # Nothing
      PROVE  Backend!Honest(d, heard)'
  <2>1. CASE heard = inbox[d]
    <3>1. Backend!Honest(d, heard)
      BY <1>4, <2>1 DEF Honesty, Heard
    <3>2. QED
      BY <3>1, <1>2, <1>3, HonestStays
  <2>2. CASE heard # inbox[d]
    <3>1. d = c /\ heard = reply
      BY <1>1, <1>4, <2>2 DEF Hears, Matches
    <3>2. Backend!Honest(c, reply)'
      BY <1>1, AnswersAreHonest
    <3>3. QED
      BY <3>1, <3>2
  <2>3. QED
    BY <2>1, <2>2
<1>5. ASSUME NEW d \in Calls PROVE Heard(d)'
  BY <1>4 DEF Heard
<1>6. QED
  BY <1>5 DEF Honesty

\* A call that begins has heard nothing, and whether it began too late to be told
\* "unpaid" is of no matter to the others.
LEMMA BeginHonesty ==
    ASSUME TypeOK, Order, Honesty, NEW c \in Calls, Begin(c)
    PROVE  Honesty'
<1>1. UNCHANGED <<inbox, made, settled>>
  BY DEF Begin, wallet
<1>2. ASSUME NEW d \in Calls, NEW heard, inbox'[d] = heard, heard # Nothing
      PROVE  Backend!Honest(d, heard)'
  <2>1. Backend!Honest(d, heard)
    BY <1>1, <1>2 DEF Honesty, Heard
  <2>2. d # c
    BY <1>1, <1>2 DEF Order, Ordered, Begin
  <2>3. d \in overdue' => d \in overdue
    BY <2>2 DEF Begin
  <2>4. QED
    BY <1>1, <2>1, <2>3, HonestStays
<1>3. ASSUME NEW d \in Calls PROVE Heard(d)'
  BY <1>2 DEF Heard
<1>4. QED
  BY <1>3 DEF Honesty

LEMMA Honesties == ASSUME TypeOK, Order, Honesty, [Next]_vars PROVE Honesty'
<1>1. CASE \E c \in Calls : Act(c)
  BY <1>1, ActHonesty
<1>2. CASE \E c \in Calls : Begin(c)
  BY <1>2, BeginHonesty
<1>3. CASE \A c \in Calls : ~Act(c) /\ ~Begin(c)
  <2>1. UNCHANGED <<made, overdue>> /\ settled \subseteq settled'
    BY <1>3, Quiet
  <2>2. ASSUME NEW d \in Calls, NEW heard, inbox'[d] = heard, heard # Nothing
        PROVE  Backend!Honest(d, heard)'
    <3>1. inbox[d] = heard
      BY <1>3, <2>2, QuietInbox
    <3>2. Backend!Honest(d, heard)
      BY <2>2, <3>1 DEF Honesty, Heard
    <3>3. QED
      BY <2>1, <3>2, HonestStays
  <2>3. ASSUME NEW d \in Calls PROVE Heard(d)'
    BY <2>2 DEF Heard
  <2>4. QED
    BY <2>3 DEF Honesty
<1>4. QED
  BY <1>1, <1>2, <1>3

----------------------------------------------------------------------------
(* The invariant, and what follows from it.                                *)

LEMMA Initially == Init => IInv
<1> SUFFICES ASSUME Init PROVE IInv
  OBVIOUS
<1>1. Order
  BY DEF Init, Order, Listens, Ordered
<1>2. Honesty /\ NoConnectionIsLeaked
  BY DEF Init, Honesty, Heard, NoConnectionIsLeaked
<1>3. QED
  BY <1>1, <1>2, InitTypes DEF IInv

LEMMA Invariance == Spec => []IInv
<1>1. IInv /\ [Next]_vars => IInv'
  BY Types, NoLeak, Orders, Honesties DEF IInv
<1>2. QED
  BY Initially, <1>1, PTL DEF Spec

\* Every variable stays what the code can make of it, and the mutex is held by exactly
\* the call that looks a connection up (nwc.go:197-211).
THEOREM NWCTypes == Spec => []TypeOK
<1>1. IInv => TypeOK
  BY DEF IInv
<1>2. QED
  BY <1>1, Invariance, PTL

\* However many calls fail, expire and reset beside each other, a connection that is up
\* is the shared one (nwc.go:197-220).
THEOREM NothingLeaks == Spec => []NoConnectionIsLeaked
<1>1. IInv => NoConnectionIsLeaked
  BY DEF IInv
<1>2. QED
  BY <1>1, Invariance, PTL

\* The wallet may answer at any moment after the request is sent: a call that is neither
\* over nor failing, and still connected, hears it (nwc.go:152-166).
THEOREM RepliesReach == Spec => RepliesAreHeard
<1>1. ASSUME IInv, NEW c \in Calls, Act(c)
      PROVE  inbox'[c] # Nothing \/ at[c] \in {"reset", "done"} \/ via[c] \notin open
  <2>1. PICK reply \in Answers(c) :
          inbox' = [d \in Calls |-> IF Hears(d, c) /\ inbox[d] = Nothing THEN reply ELSE inbox[d]]
    BY <1>1 DEF Act
  <2>2. reply # Nothing
    BY AnswersAreReplies
  <2>3. at[c] \in {"reset", "done"} \/ c \in subs
    BY <1>1 DEF IInv, Order, Listens, Ordered, Act
  <2>4. QED
    BY <2>1, <2>2, <2>3 DEF Hears, Matches
<1>2. IInv /\ [Next]_vars => [\A c \in Calls : Act(c) =>
          \/ inbox'[c] # Nothing
          \/ at[c] \in {"reset", "done"}
          \/ via[c] \notin open]_vars
  BY <1>1
<1>3. QED
  BY <1>2, Invariance, PTL DEF Spec, RepliesAreHeard

----------------------------------------------------------------------------
(* The refinement: what a step of NWC is to Provider.                      *)

\* To return is to answer.
LEMMA Answering ==
    ASSUME TypeOK, Order, NEW c \in Calls, NEW reply \in Reply, Backend!Honest(c, reply),
           Return(c, reply), at[c] \notin {"idle", "done"}
    PROVE  Backend!Answer(c)
<1>1. replies[c].says = "nothing"
  BY DEF Order, Ordered, Nothing, Says
<1>2. {d \in Calls : at'[d] # "idle"} = {d \in Calls : at[d] # "idle"}
  BY DEF TypeOK, Return, Go
<1>3. reply \in Backend!Reply
  BY DEF Reply, Backend!Reply
<1>4. QED
  BY <1>1, <1>2, <1>3 DEF Backend!Answer, Return, wallet

LEMMA Failing ==
    ASSUME TypeOK, Order, NEW c \in Calls,
           DialFails(c) \/ SubscribeFails(c) \/ GiveUp(c) \/ Reset(c)
    PROVE  Backend!Answer(c)
<1>1. Return(c, Says("failed")) /\ at[c] \notin {"idle", "done"}
  BY DEF DialFails, SubscribeFails, GiveUp, Reset
<1>2. Backend!Honest(c, Says("failed"))
  BY DEF Backend!Honest, Backend!Says, Says
<1>3. QED
  BY <1>1, <1>2, Words, Answering

LEMMA Receiving == ASSUME TypeOK, Order, Honesty, NEW c \in Calls, Receive(c) PROVE Backend!Answer(c)
<1>1. Return(c, inbox[c]) /\ at[c] = "wait" /\ inbox[c] # Nothing /\ inbox[c] \in Reply
  BY DEF Receive, TypeOK
<1>2. Backend!Honest(c, inbox[c])
  BY <1>1 DEF Honesty, Heard
<1>3. QED
  BY <1>1, <1>2, Answering

LEMMA Asking == ASSUME TypeOK, NEW c \in Calls, Begin(c) PROVE Backend!Ask(c)
<1>1. {d \in Calls : at'[d] # "idle"} = {d \in Calls : at[d] # "idle"} \cup {c}
  BY DEF TypeOK, Begin, Go
<1>2. QED
  BY <1>1 DEF Begin, Backend!Ask, wallet

\* The wallet makes an invoice when it acts, and for the call it acts for.
LEMMA Making ==
    ASSUME TypeOK, Order, NEW c \in Calls, Act(c)
    PROVE  (\E h \in Hashes : Backend!Make(h, c)) \/ UNCHANGED Backend!provider
<1>1. PICK reply \in Answers(c) : made' = [h \in Hashes |-> IF reply = Invoice(h) THEN c ELSE made[h]]
  BY DEF Act
<1>2. UNCHANGED <<at, overdue, replies, settled>>
  BY DEF Act
<1>3. CASE \E h \in Hashes : reply = Invoice(h)
  <2>1. PICK h \in Hashes : reply = Invoice(h)
    BY <1>3
  <2>2. made[h] = Nobody
    BY <2>1 DEF Answers, Invoice, Says
  <2>3. made' = [made EXCEPT ![h] = c]
    BY <1>1, <2>1 DEF TypeOK, Invoice
  <2>4. at[c] # "idle"
    BY DEF Order, Ordered, Act
  <2>5. QED
    BY <1>2, <2>2, <2>3, <2>4 DEF Backend!Make
<1>4. CASE ~ \E h \in Hashes : reply = Invoice(h)
  <2>1. made' = made
    BY <1>1, <1>4 DEF TypeOK
  <2>2. QED
    BY <1>2, <2>1 DEF Backend!provider
<1>5. QED
  BY <1>3, <1>4

\* The other steps are between the call, the connection and the relay.
LEMMA Stuttering ==
    ASSUME TypeOK, NEW c \in Calls,
           \/ Expire(c) \/ Lock(c) \/ Reuse(c) \/ Dial(c) \/ Subscribe(c)
           \/ Publish(c) \/ Accepted(c) \/ PublishFails(c)
    PROVE  UNCHANGED Backend!provider
<1>1. UNCHANGED <<overdue, replies, made, settled>>
  BY DEF Expire, Lock, Reuse, Dial, HasConn, Subscribe, Publish, Accepted, PublishFails, wallet
<1>2. \A d \in Calls : at'[d] = "idle" <=> at[d] = "idle"
  BY DEF Expire, Lock, Reuse, Dial, HasConn, After, Subscribe, Publish, Accepted, PublishFails,
         Go, TypeOK
<1>3. QED
  BY <1>1, <1>2 DEF Backend!provider

LEMMA StepsMap == ASSUME IInv, [Next]_vars PROVE [Backend!Next]_(Backend!provider)
<1> USE DEF IInv
<1>1. ASSUME NEW c \in Calls,
             \/ Begin(c) \/ Expire(c) \/ Lock(c) \/ Dial(c) \/ Step(c)
             \/ Accepted(c) \/ Reset(c) \/ Act(c)
      PROVE  [Backend!Next]_(Backend!provider)
  <2>1. CASE Begin(c)
    BY <2>1, Asking DEF Backend!Next
  <2>2. CASE DialFails(c) \/ SubscribeFails(c) \/ GiveUp(c) \/ Reset(c)
    BY <2>2, Failing DEF Backend!Next
  <2>3. CASE Receive(c)
    BY <2>3, Receiving DEF Backend!Next
  <2>4. CASE Act(c)
    BY <2>4, Making DEF Backend!Next
  <2>5. CASE \/ Expire(c) \/ Lock(c) \/ Reuse(c) \/ Dial(c) \/ Subscribe(c)
             \/ Publish(c) \/ Accepted(c) \/ PublishFails(c)
    BY <2>5, Stuttering
  <2>6. QED
    BY <1>1, <2>1, <2>2, <2>3, <2>4, <2>5 DEF Step
<1>2. ASSUME NEW h \in Hashes, Settle(h) PROVE Backend!Settle(h)
  BY <1>2 DEF Settle, Backend!Settle
<1>3. ASSUME NEW k \in Conns, Drop(k) PROVE UNCHANGED Backend!provider
  BY <1>3 DEF Drop, Backend!provider, wallet
<1>4. CASE UNCHANGED vars
  BY <1>4 DEF vars, wallet, Backend!provider
<1>5. QED
  BY <1>1, <1>2, <1>3, <1>4 DEF Next, Backend!Next

\* The wallet connection is a payment backend as provider.go describes one: whatever is
\* lost, late, dropped or reset, no call of any number of them is told of another's
\* invoice or of a payment that was not made.
THEOREM NWCImplementsProvider == Spec => BackendSpec
<1>1. Init => Backend!Init
  BY DEF Init, Backend!Init, Nothing, Says, Backend!Says
<1>2. IInv /\ [Next]_vars => [Backend!Next]_(Backend!provider)
  BY StepsMap
<1>3. QED
  BY <1>1, <1>2, Invariance, PTL DEF Spec, BackendSpec, Backend!Spec
===============================================================================
