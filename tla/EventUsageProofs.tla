--------------------------- MODULE EventUsageProofs ---------------------------
(***************************************************************************)
(* Proofs about EventUsage: for any events, pubkeys and handlers, what was *)
(* banned, forgotten or deleted stays out, and at rest what is stored is   *)
(* billed and what is gone was refunded, but for events two handlers had   *)
(* in hand at once.                                                        *)
(*                                                                         *)
(* An event that is not raced has one handler at most (Exclusive), so what *)
(* a handler has found out about it stays true until that handler acts:    *)
(* Gated, Checked, Deleting, Erasing.  What each step adds to the tables   *)
(* is said once (Entering, Banning, Forgetting), and the rest follows.     *)
(*                                                                         *)
(* The counters are sums over the rows (CountInv), and what is spent past  *)
(* a quota is bounded through what each writer has seen (OvershootInv);    *)
(* Sums has what both need of sums.                                        *)
(*                                                                         *)
(* The last part is about Expiration, which works on the same event table. *)
(***************************************************************************)
EXTENDS EventUsage, Expiration, Sums, TLAPS

Types ==
    /\ stored \subseteq Events /\ banned \subseteq Events /\ raced \subseteq Events
    /\ expired \subseteq Events
    /\ vanished \in [Pubkeys -> Nat]
    /\ rows \in [Events -> Row]
    /\ member \in [Pubkeys -> GroupIds \cup {NoGroup}]
    /\ writers \in [Writers -> WriteInHand]
    /\ erasers \in [Erasers -> Erasure]

\* What a handler has in hand fits what it is doing.
Fits(hand) ==
    /\ hand.at = "idle" <=> hand.event = NoEvent
    /\ hand.at \in {"seek", "erase", "refund"} => Kind(hand.event) = "delete"
    /\ hand.at \in {"erase", "refund"} => EventOf[hand.event].of \in Events
    /\ hand.at = "reconcile" => Kind(hand.event) = "replaceable"
    /\ hand.at \in {"bill", "reconcile"} =>
          /\ hand.row.pubkey \in Pubkeys
          /\ Kind(hand.event) # "message" => hand.row.pubkey = Author(hand.event)

Shape ==
    /\ \A w \in Writers : Fits(writers[w])
    /\ \A m \in Erasers : erasers[m].at = "idle" <=> erasers[m].event = NoEvent

Exclusive == \A e \in Events \ raced : \A p, q \in Holders(e) : p = q

\* Past the gate.
Gated(w) ==
    LET e == writers[w].event IN
    writers[w].at \in {"check", "store"} /\ e \notin raced =>
        e \notin banned /\ Created(e) > vanished[Author(e)]

\* Past the look for deletions.
Checked(w) ==
    LET e == writers[w].event IN
    writers[w].at = "store" /\ e \notin raced =>
        \A d \in stored \ expired : ~(Kind(d) = "delete" /\ EventOf[d].of = e)

\* A deletion whose target is gone.
Deleting(w) ==
    LET d == writers[w].event IN
    /\ writers[w].at \in {"refund", "gate", "check", "store"}
    /\ Kind(d) = "delete" /\ EventOf[d].of \notin raced
    => EventOf[d].of \notin stored

Erasing(m) ==
    erasers[m].at = "refund" /\ erasers[m].event \notin raced => erasers[m].event \notin stored

Knowing == (\A w \in Writers : Gated(w) /\ Checked(w) /\ Deleting(w)) /\ \A m \in Erasers : Erasing(m)

Handled == Types /\ Shape /\ Exclusive

\* The steps of a writer that let go of nothing and take up nothing.
Works(w) ==
    \/ SeekTarget(w) \/ EraseTarget(w) \/ RefundTarget(w) \/ Gate(w) \/ CheckDeleted(w)
    \/ StoreRegular(w) \/ StoreReplaceable(w) \/ ChoosePot(w) \/ Bill(w) \/ Reconcile(w)

----------------------------------------------------------------------------
(* Types.                                                                  *)

LEMMA EventFacts ==
    ASSUME NEW e \in Events
    PROVE  /\ EventOf[e] \in Event /\ Author(e) \in Pubkeys /\ Created(e) \in Nat \ {0}
           /\ EventOf[e].of \in Events \cup {NoEvent} /\ EventOf[e].of # e
           /\ Kind(e) \in {"note", "replaceable", "delete", "vanish", "message"}
           /\ Kind(e) # "delete" => EventOf[e].of = NoEvent
           /\ e # NoEvent
BY UsageAssumption DEF Event, Author, Created, Kind

LEMMA InitHandled == Init => Handled
<1> SUFFICES ASSUME Init PROVE Handled
  OBVIOUS
<1>1. NoRow \in Row /\ NoWrite \in WriteInHand /\ NoErasure \in Erasure
  BY DEF NoRow, Row, NoWrite, WriteInHand, NoErasure, Erasure
<1>2. Types
  BY <1>1, UsageAssumption DEF Init, Types
<1>3. Shape
  BY DEF Init, Shape, Fits, NoWrite, NoErasure
<1>4. Exclusive
  <2>1. ASSUME NEW e \in Events PROVE Holders(e) = {}
    BY EventFacts DEF Init, Holders, Holds, NoWrite, NoErasure
  <2>2. QED
    BY <2>1 DEF Exclusive
<1>5. QED
  BY <1>2, <1>3, <1>4 DEF Handled

\* The pot a bill is for.
LEMMA Billing ==
    ASSUME Types, NEW e \in Events
    PROVE  /\ BilledPubkey(e) \in Pubkeys
           /\ Kind(e) # "message" => BilledPubkey(e) = Author(e)
           /\ Payer(BilledPubkey(e), Size(e)) \in GroupIds \cup {NoGroup}
<1>1. BilledPubkey(e) \in Pubkeys /\ (Kind(e) # "message" => BilledPubkey(e) = Author(e))
  BY EventFacts, UsageAssumption DEF BilledPubkey, Sponsored, Kind
<1>2. QED
  BY <1>1 DEF Types, Payer

Places == {"idle", "seek", "erase", "refund", "gate", "check", "store", "charge", "bill", "reconcile"}

\* To move on is to hold the same event elsewhere; to be done is to hold none.
LEMMA Moving ==
    ASSUME Types, Shape, NEW w \in Writers, NEW place \in Places,
           At(w, place), Fits([writers[w] EXCEPT !.at = place]), UNCHANGED erasers
    PROVE  writers' \in [Writers -> WriteInHand] /\ Shape'
<1> DEFINE hand == [writers[w] EXCEPT !.at = place]
<1>1. hand \in WriteInHand
  BY DEF Types, WriteInHand, Places
<1>2. writers' = [writers EXCEPT ![w] = hand]
  BY DEF Types, At
<1> HIDE DEF hand
<1>3. Fits(hand)
  BY DEF hand
<1>4. writers' \in [Writers -> WriteInHand] /\ \A u \in Writers : writers'[u] = IF u = w THEN hand ELSE writers[u]
  BY <1>1, <1>2 DEF Types
<1>5. QED
  BY <1>3, <1>4 DEF Shape, Fits

LEMMA Finishing ==
    ASSUME Types, Shape, NEW w \in Writers, Done(w), UNCHANGED erasers
    PROVE  writers' \in [Writers -> WriteInHand] /\ Shape'
<1>1. NoWrite \in WriteInHand /\ Fits(NoWrite)
  BY DEF NoWrite, NoRow, Row, WriteInHand, Fits
<1>2. writers' \in [Writers -> WriteInHand] /\ \A u \in Writers : writers'[u] = IF u = w THEN NoWrite ELSE writers[u]
  BY <1>1 DEF Types, Done
<1>3. QED
  BY <1>1, <1>2 DEF Shape, Fits

\* The hand after a move.
LEMMA Moved ==
    ASSUME Types, NEW w \in Writers, NEW place
    PROVE  /\ [writers[w] EXCEPT !.at = place].at = place
           /\ [writers[w] EXCEPT !.at = place].event = writers[w].event
           /\ [writers[w] EXCEPT !.at = place].row = writers[w].row
BY DEF Types, WriteInHand

LEMMA WorkTypes ==
    ASSUME Types, Shape, NEW w \in Writers, Works(w)
    PROVE  Types' /\ Shape'
<1> DEFINE h == writers[w]
<1>0. /\ h \in WriteInHand /\ Fits(h)
      /\ h.event \in Events \cup {NoEvent}
      /\ h.at # "idle" => h.event \in Events
  BY DEF Types, Shape, WriteInHand, Fits
<1>a. UNCHANGED <<banned, vanished, member, expired, erasers>>
  BY DEF Works, SeekTarget, EraseTarget, RefundTarget, Gate, CheckDeleted, StoreRegular,
         StoreReplaceable, ChoosePot, Bill, Reconcile, tables
<1>f. raced' \subseteq Events
  BY <1>0 DEF Works, SeekTarget, EraseTarget, RefundTarget, Gate, CheckDeleted, StoreRegular,
         StoreReplaceable, ChoosePot, Bill, Reconcile, Types
<1>b. stored' \subseteq Events
  BY <1>0 DEF Works, SeekTarget, EraseTarget, Erased, RefundTarget, Gate, CheckDeleted, StoreRegular,
         StoreReplaceable, ChoosePot, Bill, Reconcile, tables, Types
<1>c. rows' \in [Events -> Row]
  <2>1. NoRow \in Row /\ h.row \in Row
    BY <1>0 DEF NoRow, Row, WriteInHand
  <2>2. CASE RefundTarget(w) \/ Bill(w) \/ Reconcile(w)
    BY <2>1, <2>2 DEF Types, RefundTarget, Bill, Reconcile, UsageRemoved, UsageAdded, Pruned
  <2>3. CASE ~(RefundTarget(w) \/ Bill(w) \/ Reconcile(w))
    BY <2>3 DEF Types, Works, SeekTarget, EraseTarget, Gate, CheckDeleted, StoreRegular,
         StoreReplaceable, ChoosePot, tables
  <2>4. QED
    BY <2>2, <2>3
<1>d. writers' \in [Writers -> WriteInHand] /\ Shape'
  <2>1. CASE Done(w)
    BY <1>a, <2>1, Finishing
  <2>2. ASSUME NEW place \in Places \ {"idle"}, At(w, place), h.at # "idle",
               place \in {"erase", "refund"} => Kind(h.event) = "delete" /\ EventOf[h.event].of \in Events,
               place # "seek",
               place = "reconcile" => Kind(h.event) = "replaceable" /\ h.at = "bill",
               place # "bill"
        PROVE  writers' \in [Writers -> WriteInHand] /\ Shape'
    <3>1. Fits([writers[w] EXCEPT !.at = place])
      BY <1>0, <2>2, Moved, EventFacts DEF Fits
    <3>2. QED
      BY <1>a, <2>2, <3>1, Moving
  <2>3. CASE ChoosePot(w)
    <3> DEFINE k == BilledPubkey(h.event)
               row == [pubkey |-> k, group |-> Payer(k, Size(h.event))]
               hand == [at |-> "bill", event |-> h.event, row |-> row]
    <3>1. h.event \in Events
      BY <1>0, <2>3 DEF ChoosePot
    <3>2. row \in Row /\ row.pubkey \in Pubkeys
          /\ (Kind(h.event) # "message" => row.pubkey = Author(h.event))
      BY <3>1, Billing DEF Row
    <3>3. writers' = [writers EXCEPT ![w] = hand]
      BY <2>3 DEF ChoosePot
    <3> HIDE DEF row
    <3>4. hand \in WriteInHand /\ Fits(hand)
      BY <3>1, <3>2, EventFacts DEF WriteInHand, Fits
    <3>5. writers' \in [Writers -> WriteInHand]
          /\ \A u \in Writers : writers'[u] = IF u = w THEN hand ELSE writers[u]
      <4> HIDE DEF hand
      <4>1. QED
        BY <3>3, <3>4 DEF Types
    <3>6. QED
      BY <1>a, <3>4, <3>5 DEF Shape, Fits
  <2>4. CASE SeekTarget(w) \/ EraseTarget(w) \/ RefundTarget(w)
    BY <1>0, <2>1, <2>2, <2>4 DEF SeekTarget, EraseTarget, RefundTarget, Places, Fits, Types
  <2>5. CASE Gate(w) \/ CheckDeleted(w) \/ StoreRegular(w) \/ StoreReplaceable(w)
    BY <2>1, <2>2, <2>5 DEF Gate, CheckDeleted, StoreRegular, StoreReplaceable, Places
  <2>6. CASE Bill(w) \/ Reconcile(w)
    BY <2>1, <2>2, <2>6 DEF Bill, Reconcile, Places
  <2>7. QED
    BY <2>3, <2>4, <2>5, <2>6 DEF Works
<1>e. QED
  BY <1>a, <1>b, <1>c, <1>d, <1>f DEF Types

LEMMA TakeUpTypes ==
    ASSUME Types, Shape, NEW w \in Writers,
           (\E e \in Events : Receive(w, e)) \/ Vanish(w)
    PROVE  Types' /\ Shape'
<1>1. ASSUME NEW e \in Events, Receive(w, e) PROVE Types' /\ Shape'
  <2> DEFINE hand == [NoWrite EXCEPT !.event = e,
                         !.at = IF Kind(e) = "delete" THEN "seek" ELSE "gate"]
  <2>1. hand \in WriteInHand /\ Fits(hand)
    BY EventFacts DEF NoWrite, NoRow, Row, WriteInHand, Fits
  <2>2. writers' = [writers EXCEPT ![w] = hand]
    BY <1>1 DEF Receive
  <2> HIDE DEF hand
  <2>3. writers' \in [Writers -> WriteInHand]
        /\ \A u \in Writers : writers'[u] = IF u = w THEN hand ELSE writers[u]
    BY <2>1, <2>2 DEF Types
  <2>4. UNCHANGED <<tables, erasers>> /\ raced' \subseteq Events
    BY <1>1 DEF Receive, Tallied, Types
  <2>5. QED
    BY <2>1, <2>3, <2>4 DEF Types, Shape, Fits, tables
<1>2. CASE Vanish(w)
  <2>1. writers[w].event \in Events
    BY <1>2 DEF Types, Shape, Fits, Vanish, WriteInHand
  <2>2. Done(w) /\ UNCHANGED <<banned, member, expired, erasers>> /\ raced' \subseteq Events /\ stored' \subseteq Events
    BY <1>2 DEF Vanish, Tallied, Types
  <2>3. vanished' \in [Pubkeys -> Nat]
    BY <1>2, <2>1, EventFacts DEF Types, Vanish
  <2>4. rows' \in [Events -> Row]
    BY <1>2 DEF Types, Vanish, Pruned, NoRow, Row
  <2>5. QED
    BY <2>2, <2>3, <2>4, Finishing DEF Types
<1>3. QED
  BY <1>1, <1>2

LEMMA EraseTypes ==
    ASSUME Types, Shape, NEW m \in Erasers, Erase(m)
    PROVE  Types' /\ Shape'
<1>1. UNCHANGED <<vanished, member, expired, writers>> /\ raced' \subseteq Events /\ banned' \subseteq Events
      /\ stored' \subseteq Events
  BY DEF Erase, BanEvent, Expire, FindEvent, EraseEvent, Erased, RefundEvent, Tallied, Types, tables
<1>2. rows' \in [Events -> Row]
  BY DEF Erase, BanEvent, Expire, FindEvent, EraseEvent, RefundEvent, UsageRemoved, Types, tables, NoRow, Row
<1>3. erasers' \in [Erasers -> Erasure]
      /\ \A n \in Erasers : erasers'[n].at = "idle" <=> erasers'[n].event = NoEvent
  <2>1. CASE \E e \in Events : BanEvent(m, e) \/ Expire(m, e)
    <3>1. PICK e \in Events : erasers' = [erasers EXCEPT ![m] = [at |-> "find", event |-> e]]
      BY <2>1 DEF BanEvent, Expire
    <3>2. [at |-> "find", event |-> e] \in Erasure /\ e # NoEvent
      BY EventFacts DEF Erasure
    <3>3. QED
      BY <3>1, <3>2 DEF Types, Shape
  <2>2. CASE FindEvent(m)
    BY <2>2 DEF Types, Shape, FindEvent, Erasure, NoErasure
  <2>3. CASE EraseEvent(m) \/ RefundEvent(m)
    BY <2>3 DEF Types, Shape, EraseEvent, RefundEvent, Erasure, NoErasure
  <2>4. QED
    BY <2>1, <2>2, <2>3 DEF Erase
<1>4. QED
  BY <1>1, <1>2, <1>3 DEF Types, Shape, Fits

LEMMA OtherTypes ==
    ASSUME Types, Shape, Operator \/ Restart
    PROVE  Types' /\ Shape'
<1>1. CASE Operator
  <2>1. UNCHANGED <<stored, rows, writers, erasers>> /\ raced' \subseteq Events /\ banned' \subseteq Events
        /\ expired' \subseteq Events
    BY <1>1 DEF Operator, AllowEvent, Lapse, Suspend, OpenAccount, DeleteAccount, ChangeGroup, DeleteGroup,
                Unvanish, Tallied, Types
  <2>2. vanished' \in [Pubkeys -> Nat] /\ member' \in [Pubkeys -> GroupIds \cup {NoGroup}]
    BY <1>1 DEF Operator, AllowEvent, Lapse, Suspend, OpenAccount, DeleteAccount, ChangeGroup, DeleteGroup,
                Unvanish, Types
  <2>3. QED
    BY <2>1, <2>2 DEF Types, Shape, Fits
<1>2. CASE Restart
  <2>1. NoRow \in Row /\ NoWrite \in WriteInHand /\ NoErasure \in Erasure
    BY DEF NoRow, Row, NoWrite, WriteInHand, NoErasure, Erasure
  <2>2. QED
    BY <1>2, <2>1 DEF Types, Shape, Fits, Restart, tables, NoWrite, NoErasure
<1>3. QED
  BY <1>1, <1>2

----------------------------------------------------------------------------
(* One handler at a time.                                                  *)

LEMMA Tally == ASSUME Tallied PROVE Exclusive' /\ raced \subseteq raced'
BY DEF Tallied, Overtaken, Exclusive

LEMMA LettingGo ==
    ASSUME Exclusive, raced \subseteq raced', \A e \in Events : Holders(e)' \subseteq Holders(e)
    PROVE  Exclusive'
BY DEF Exclusive

\* Who goes on with what it has, or puts it down, becomes nobody's second handler.
LEMMA SameHands ==
    ASSUME \A w \in Writers : writers'[w].event \in {writers[w].event, NoEvent},
           \A m \in Erasers : erasers'[m].event \in {erasers[m].event, NoEvent}
    PROVE  \A e \in Events : Holders(e)' \subseteq Holders(e)
BY EventFacts DEF Holders, Holds

LEMMA WorkHands == ASSUME Types, NEW w \in Writers, Works(w)
    PROVE  /\ \A u \in Writers : writers'[u].event \in {writers[u].event, NoEvent}
           /\ UNCHANGED erasers /\ raced \subseteq raced'
<1>1. \/ Done(w) \/ ChoosePot(w) \/ \E place \in Places : At(w, place)
  BY DEF Works, SeekTarget, EraseTarget, RefundTarget, Gate, CheckDeleted, StoreRegular,
         StoreReplaceable, Bill, Reconcile, Places
<1>2. \A u \in Writers : writers'[u].event \in {writers[u].event, NoEvent}
  BY <1>1 DEF Done, ChoosePot, At, NoWrite, Types, WriteInHand
<1>3. QED
  BY <1>2 DEF Works, SeekTarget, EraseTarget, RefundTarget, Gate, CheckDeleted, StoreRegular,
         StoreReplaceable, ChoosePot, Bill, Reconcile

LEMMA Exclusion ==
    ASSUME Types, Shape, Exclusive, [Next]_vars
    PROVE  Exclusive' /\ raced \subseteq raced'
<1>1. ASSUME NEW w \in Writers, Works(w) PROVE Exclusive' /\ raced \subseteq raced'
  BY <1>1, WorkHands, SameHands, LettingGo
<1>2. ASSUME NEW w \in Writers, (\E e \in Events : Receive(w, e)) \/ Vanish(w)
      PROVE  Exclusive' /\ raced \subseteq raced'
  BY <1>2, Tally DEF Receive, Vanish
<1>3. ASSUME NEW m \in Erasers, Erase(m) PROVE Exclusive' /\ raced \subseteq raced'
  <2>1. CASE \E e \in Events : BanEvent(m, e) \/ Expire(m, e)
    BY <2>1, Tally DEF BanEvent, Expire
  <2>2. CASE FindEvent(m) \/ EraseEvent(m) \/ RefundEvent(m)
    <3>1. \A n \in Erasers : erasers'[n].event \in {erasers[n].event, NoEvent}
      BY <2>2 DEF FindEvent, EraseEvent, RefundEvent, NoErasure, Types, Erasure
    <3>2. UNCHANGED <<writers, raced>>
      BY <2>2 DEF FindEvent, EraseEvent, RefundEvent
    <3>3. QED
      BY <3>1, <3>2, SameHands, LettingGo
  <2>3. QED
    BY <1>3, <2>1, <2>2 DEF Erase
<1>4. CASE Operator
  <2>1. UNCHANGED <<writers, erasers>> /\ (Tallied \/ UNCHANGED raced)
    BY <1>4 DEF Operator, AllowEvent, Lapse, Suspend, OpenAccount, DeleteAccount, ChangeGroup, DeleteGroup, Unvanish
  <2>2. QED
    BY <2>1, Tally, SameHands, LettingGo
<1>5. CASE Restart
  BY <1>5, SameHands, LettingGo DEF Restart, NoWrite, NoErasure
<1>6. CASE UNCHANGED vars
  BY <1>6, SameHands, LettingGo DEF vars
<1>7. QED
  BY <1>1, <1>2, <1>3, <1>4, <1>5, <1>6 DEF Next, Write, Works

LEMMA Handling == ASSUME Handled, [Next]_vars PROVE Handled'
<1>1. Types' /\ Shape'
  <2>1. CASE UNCHANGED vars
    BY <2>1 DEF Handled, Types, Shape, Fits, vars, tables
  <2>2. CASE Next
    BY <2>2, WorkTypes, TakeUpTypes, EraseTypes, OtherTypes DEF Handled, Next, Write, Works
  <2>3. QED
    BY <2>1, <2>2
<1>2. QED
  BY <1>1, Exclusion DEF Handled

----------------------------------------------------------------------------
(* What a step adds to the tables.                                         *)

\* Only a writer that has got as far stores an event, and its own.
LEMMA Entering ==
    ASSUME [Next]_vars, NEW e \in stored', e \notin stored
    PROVE  \E w \in Writers : writers[w].at = "store" /\ writers[w].event = e
<1>1. CASE \E w \in Writers : StoreRegular(w) \/ StoreReplaceable(w)
  BY <1>1 DEF StoreRegular, StoreReplaceable, Versions
<1>2. CASE ~ \E w \in Writers : StoreRegular(w) \/ StoreReplaceable(w)
  <2>1. stored' \subseteq stored
    BY <1>2 DEF Next, Write, Erase, Operator, Receive, SeekTarget, EraseTarget, Erased, RefundTarget,
           Gate, CheckDeleted, ChoosePot, Bill, Reconcile, Vanish, BanEvent, Expire, FindEvent,
           EraseEvent, RefundEvent, AllowEvent, Lapse, Suspend, OpenAccount, DeleteAccount, ChangeGroup,
           DeleteGroup, Unvanish, Restart, tables, vars
  <2>2. QED
    BY <2>1
<1>3. QED
  BY <1>1, <1>2

\* Who bans an event has it in hand from then on.
LEMMA Banning ==
    ASSUME Types, [Next]_vars, NEW e \in banned', e \notin banned
    PROVE  \E m \in Erasers : erasers'[m].event = e
<1>1. CASE \E m \in Erasers, f \in Events : BanEvent(m, f)
  BY <1>1 DEF BanEvent, Types
<1>2. CASE ~ \E m \in Erasers, f \in Events : BanEvent(m, f)
  <2>1. banned' \subseteq banned
    BY <1>2 DEF Next, Write, Erase, Operator, Receive, SeekTarget, EraseTarget, RefundTarget,
           Gate, CheckDeleted, StoreRegular, StoreReplaceable, ChoosePot, Bill, Reconcile, Vanish,
           Expire, FindEvent, EraseEvent, RefundEvent, AllowEvent, Lapse, Suspend, OpenAccount,
           DeleteAccount, ChangeGroup, DeleteGroup, Unvanish, Restart, tables, vars
  <2>2. QED
    BY <2>1
<1>3. QED
  BY <1>1, <1>2

\* An event that is forgotten is gone, and whoever had it in hand is caught with it.
LEMMA Forgetting ==
    ASSUME Handled, [Next]_vars, NEW e \in Events,
           Created(e) > vanished[Author(e)], ~(Created(e) > vanished'[Author(e)])
    PROVE  e \notin stored' /\ (e \in raced' \/ Holders(e)' = {})
<1>0. Author(e) \in Pubkeys /\ Created(e) \in Nat /\ vanished[Author(e)] \in Nat
  BY EventFacts DEF Handled, Types
<1>1. CASE \E w \in Writers : Vanish(w)
  <2>1. PICK w \in Writers : Vanish(w)
    BY <1>1
  <2> DEFINE v == writers[w].event
  <2>2. v \in Events /\ Author(v) \in Pubkeys /\ Created(v) \in Nat
    BY <2>1, EventFacts DEF Vanish, Handled, Types, Shape, Fits, WriteInHand
  <2>3. Author(e) = Author(v) /\ Created(e) <= Created(v)
    BY <1>0, <2>1, <2>2 DEF Vanish, Handled, Types
  <2>4. e \notin stored'
    BY <2>1, <2>3 DEF Vanish
  <2>5. Created(e) <= vanished'[Author(e)]
    BY <1>0, <2>1, <2>2, <2>3 DEF Vanish, Handled, Types
  <2>6. e \in raced' \/ Holders(e)' = {}
    BY <2>1, <2>5 DEF Vanish, Tallied, Overtaken
  <2>7. QED
    BY <2>4, <2>6
<1>2. CASE \E k \in Pubkeys : Unvanish(k)
  BY <1>0, <1>2, EventFacts DEF Unvanish, Handled, Types
<1>3. CASE ~(\E w \in Writers : Vanish(w)) /\ ~(\E k \in Pubkeys : Unvanish(k))
  <2>1. UNCHANGED vanished
    BY <1>3 DEF Next, Write, Erase, Operator, Receive, SeekTarget, EraseTarget, RefundTarget,
           Gate, CheckDeleted, StoreRegular, StoreReplaceable, ChoosePot, Bill, Reconcile,
           BanEvent, Expire, FindEvent, EraseEvent, RefundEvent, AllowEvent, Lapse, Suspend, OpenAccount,
           DeleteAccount, ChangeGroup, DeleteGroup, Restart, tables, vars
  <2>2. QED
    BY <2>1
<1>4. QED
  BY <1>1, <1>2, <1>3

----------------------------------------------------------------------------
(* What a handler knows.                                                   *)

\* What has expired stays expired.
LEMMA Aging == ASSUME [Next]_vars PROVE expired \subseteq expired'
BY DEF Next, Write, Erase, Operator, Receive, SeekTarget, EraseTarget, RefundTarget, Gate,
       CheckDeleted, StoreRegular, StoreReplaceable, ChoosePot, Bill, Reconcile, Vanish, BanEvent,
       Expire, FindEvent, EraseEvent, RefundEvent, AllowEvent, Lapse, Suspend, OpenAccount,
       DeleteAccount, ChangeGroup, DeleteGroup, Unvanish, Restart, tables, vars

\* Of an event that is not raced, all handlers are one.
LEMMA Alone ==
    ASSUME Handled, NEW e \in Events, e \notin raced
    PROVE  /\ \A u, w \in Writers : Holds(u, e) /\ Holds(w, e) => u = w
           /\ \A w \in Writers, m \in Erasers : ~(Holds(w, e) /\ erasers[m].event = e)
           /\ \A m, n \in Erasers : erasers[m].event = e /\ erasers[n].event = e => m = n
BY UsageAssumption DEF Handled, Exclusive, Holders

\* What a writer knows stays true while it rests.
LEMMA RestingWriter ==
    ASSUME Handled, Handled', Knowing, [Next]_vars, raced \subseteq raced',
           NEW w \in Writers, writers'[w] = writers[w]
    PROVE  Gated(w)' /\ Checked(w)' /\ Deleting(w)'
<1> DEFINE e == writers[w].event
<1>0. writers[w].at # "idle" => e \in Events /\ EventOf[e].of # e /\ EventOf[e].of \in Events \cup {NoEvent}
  BY EventFacts DEF Handled, Types, Shape, Fits, WriteInHand
<1>1. ASSUME writers[w].at \in {"check", "store"}, e \notin raced'
      PROVE  e \notin banned' /\ Created(e) > vanished'[Author(e)]
  <2>1. e \in Events /\ e \notin banned /\ Created(e) > vanished[Author(e)]
    BY <1>0, <1>1 DEF Knowing, Gated
  <2>2. Holds(w, e)' /\ w \in Holders(e)'
    BY DEF Holds, Holders
  <2>3. e \notin banned'
    BY <1>1, <2>1, <2>2, Banning, UsageAssumption DEF Handled, Exclusive, Holders
  <2>4. Created(e) > vanished'[Author(e)]
    BY <1>1, <2>1, <2>2, Forgetting
  <2>5. QED
    BY <2>3, <2>4
<1>2. ASSUME writers[w].at = "store", e \notin raced', NEW d \in stored' \ expired', Kind(d) = "delete", EventOf[d].of = e
      PROVE  FALSE
  <2>1. e \in Events /\ d \in Events /\ e \notin raced
    BY <1>0, <1>2 DEF Handled, Types
  <2>2. d \notin stored
    BY <1>2, <2>1, Aging DEF Knowing, Checked
  <2>3. PICK u \in Writers : writers[u].event = d
    BY <2>2, Entering
  <2>4. Holds(u, e) /\ Holds(w, e)
    BY <1>2, <2>1, <2>3, EventFacts DEF Holds
  <2>5. u = w
    BY <2>1, <2>4, Alone
  <2>6. QED
    BY <1>0, <1>2, <2>3, <2>5
<1>3. ASSUME writers[w].at \in {"refund", "gate", "check", "store"}, Kind(e) = "delete",
             EventOf[e].of \notin raced', EventOf[e].of \in stored'
      PROVE  FALSE
  <2> DEFINE t == EventOf[e].of
  <2>1. t \in Events /\ t \notin raced /\ e \in Events /\ e # NoEvent /\ t # e
    BY <1>0, <1>3, EventFacts DEF Handled, Types
  <2>2. t \notin stored
    BY <1>3, <2>1 DEF Knowing, Deleting
  <2>3. PICK u \in Writers : writers[u].event = t
    BY <1>3, <2>2, Entering
  <2>4. Holds(u, t) /\ Holds(w, t)
    BY <2>1, <2>3 DEF Holds
  <2>5. QED
    BY <2>1, <2>3, <2>4, Alone
<1>4. Gated(w)'
  BY <1>1 DEF Gated
<1>5. Checked(w)'
  BY <1>2 DEF Checked
<1>6. Deleting(w)'
  BY <1>3 DEF Deleting
<1>7. QED
  BY <1>4, <1>5, <1>6

LEMMA RestingEraser ==
    ASSUME Handled, Knowing, [Next]_vars, raced \subseteq raced',
           NEW m \in Erasers, erasers'[m] = erasers[m]
    PROVE  Erasing(m)'
<1> SUFFICES ASSUME erasers[m].at = "refund", erasers[m].event \notin raced', erasers[m].event \in stored'
             PROVE  FALSE
  BY DEF Erasing
<1>1. erasers[m].event \in Events /\ erasers[m].event \notin raced /\ erasers[m].event \notin stored
  BY DEF Handled, Types, Shape, Erasure, Knowing, Erasing
<1>2. PICK u \in Writers : writers[u].event = erasers[m].event
  BY <1>1, Entering
<1>3. QED
  BY <1>1, <1>2, Alone DEF Holds

\* A writer that is done, or has just begun, knows nothing.
LEMMA Ignorant ==
    ASSUME NEW w \in Writers, writers'[w].at \in {"idle", "seek", "erase", "charge", "bill", "reconcile"}
    PROVE  Gated(w)' /\ Checked(w)' /\ Deleting(w)'
BY DEF Gated, Checked, Deleting

\* What a writer has just found out.
LEMMA BusyWriter ==
    ASSUME Handled, Knowing, NEW w \in Writers, Write(w)
    PROVE  Gated(w)' /\ Checked(w)' /\ Deleting(w)'
<1> DEFINE e == writers[w].event
<1> USE DEF Handled, Types, WriteInHand
<1>1. CASE SeekTarget(w)
  BY <1>1, Ignorant DEF SeekTarget, At, Done, NoWrite, Gated, Checked, Deleting, tables
<1>2. CASE EraseTarget(w)
  BY <1>2 DEF EraseTarget, Erased, At, Gated, Checked, Deleting
<1>3. CASE RefundTarget(w)
  BY <1>3 DEF RefundTarget, At, Gated, Checked, Deleting, Knowing
<1>4. CASE Gate(w)
  <2>1. CASE Done(w)
    BY <2>1, Ignorant DEF Done, NoWrite
  <2>2. CASE (Passes(e) \/ e \in raced') /\ At(w, "check")
    <3>1. writers'[w].at = "check" /\ writers'[w].event = e /\ UNCHANGED tables /\ raced \subseteq raced'
      BY <1>4, <2>2 DEF Gate, At
    <3>2. Deleting(w) /\ writers[w].at = "gate"
      BY <1>4 DEF Knowing, Gate
    <3>3. QED
      BY <2>2, <3>1, <3>2 DEF Passes, Gated, Checked, Deleting, tables
  <2>3. QED
    BY <1>4, <2>1, <2>2 DEF Gate
<1>5. CASE CheckDeleted(w)
  <2>1. CASE Done(w)
    BY <2>1, Ignorant DEF Done, NoWrite
  <2>2. CASE At(w, "store") /\ (Deletions(e) = {} \/ e \in raced')
    <3>1. writers'[w].at = "store" /\ writers'[w].event = e /\ UNCHANGED tables /\ raced \subseteq raced'
      BY <1>5, <2>2 DEF CheckDeleted, At
    <3>2. Deleting(w) /\ Gated(w) /\ writers[w].at = "check"
      BY <1>5 DEF Knowing, CheckDeleted
    <3>3. QED
      BY <2>2, <3>1, <3>2 DEF Gated, Checked, Deleting, Deletions, tables
  <2>3. QED
    BY <1>5, <2>1, <2>2 DEF CheckDeleted
<1>6. CASE StoreRegular(w) \/ StoreReplaceable(w) \/ ChoosePot(w) \/ Bill(w) \/ Reconcile(w) \/ Vanish(w)
  <2>1. writers'[w].at \in {"idle", "charge", "bill", "reconcile"}
    BY <1>6 DEF StoreRegular, StoreReplaceable, ChoosePot, Bill, Reconcile, Vanish, At, Done, NoWrite
  <2>2. QED
    BY <2>1, Ignorant
<1>7. CASE \E f \in Events : Receive(w, f)
  BY <1>7 DEF Receive, NoWrite, Gated, Checked, Deleting
<1>8. QED
  BY <1>1, <1>2, <1>3, <1>4, <1>5, <1>6, <1>7 DEF Write

LEMMA BusyEraser == ASSUME Handled, NEW m \in Erasers, Erase(m) PROVE Erasing(m)'
BY DEF Handled, Types, Erasure, Erase, BanEvent, Expire, FindEvent, EraseEvent, Erased, RefundEvent,
       NoErasure, Erasing

\* A step is of one handler, and the others rest.
LEMMA OneAtATime ==
    ASSUME Handled, [Next]_vars, ~Restart
    PROVE  /\ \A w \in Writers : writers'[w] = writers[w] \/ Write(w)
           /\ \A m \in Erasers : erasers'[m] = erasers[m] \/ Erase(m)
<1>1. ASSUME NEW u \in Writers, Write(u)
      PROVE  UNCHANGED erasers /\ \A w \in Writers : w # u => writers'[w] = writers[w]
  BY <1>1 DEF Handled, Types, Write, Receive, SeekTarget, EraseTarget, RefundTarget, Gate, CheckDeleted,
         StoreRegular, StoreReplaceable, ChoosePot, Bill, Reconcile, Vanish, At, Done
<1>2. ASSUME NEW n \in Erasers, Erase(n)
      PROVE  UNCHANGED writers /\ \A m \in Erasers : m # n => erasers'[m] = erasers[m]
  BY <1>2 DEF Handled, Types, Erase, BanEvent, Expire, FindEvent, EraseEvent, RefundEvent
<1>3. CASE Operator \/ UNCHANGED vars
  BY <1>3 DEF Operator, AllowEvent, Lapse, Suspend, OpenAccount, DeleteAccount, ChangeGroup, DeleteGroup,
              Unvanish, vars
<1>4. QED
  BY <1>1, <1>2, <1>3 DEF Next

LEMMA Learning ==
    ASSUME Handled, Handled', Knowing, [Next]_vars, raced \subseteq raced'
    PROVE  Knowing'
<1>1. CASE Restart
  BY <1>1 DEF Restart, Knowing, NoWrite, NoErasure, Gated, Checked, Deleting, Erasing
<1>2. CASE ~Restart
  BY <1>2, OneAtATime, RestingWriter, RestingEraser, BusyWriter, BusyEraser DEF Knowing
<1>3. QED
  BY <1>1, <1>2

----------------------------------------------------------------------------
(* What stays out.                                                         *)

LEMMA BansHold ==
    ASSUME Handled, Knowing, [Next]_vars, raced \subseteq raced', BannedStaysOut
    PROVE  BannedStaysOut'
<1> SUFFICES ASSUME NEW e \in banned' \cap stored', e \notin raced'
             PROVE  \E m \in Erasers : erasers'[m].event = e
  BY DEF BannedStaysOut
<1>1. CASE e \notin banned
  BY <1>1, Banning DEF Handled
<1>2. CASE e \in banned /\ e \notin stored
  BY <1>2, Entering DEF Knowing, Gated
<1>3. CASE e \in banned /\ e \in stored
  <2>1. PICK m \in Erasers : erasers[m].event = e
    BY <1>3 DEF BannedStaysOut
  <2>a. e \in Events /\ e # NoEvent /\ m \in Holders(e)
    BY <1>3, <2>1, EventFacts DEF Handled, Types, Holders
  <2>2. CASE Restart
    BY <2>2, <2>a DEF Restart
  <2>3. CASE ~Restart /\ erasers'[m] # erasers[m]
    <3>1. Erase(m)
      BY <2>3, OneAtATime
    <3>2. erasers[m] # NoErasure /\ erasers[m].at # "idle"
      BY <2>1, <2>a DEF Handled, Shape, NoErasure
    <3>3. CASE FindEvent(m)
      BY <1>3, <2>1, <3>3 DEF FindEvent, Handled, Types, Erasure
    <3>4. CASE EraseEvent(m)
      BY <1>3, <2>1, <3>4 DEF EraseEvent, Handled, Types, Erasure
    <3>5. CASE RefundEvent(m)
      BY <1>3, <2>1, <3>5 DEF RefundEvent, Knowing, Erasing
    <3>6. QED
      BY <3>1, <3>2, <3>3, <3>4, <3>5 DEF Erase, BanEvent, Expire
  <2>4. QED
    BY <2>1, <2>2, <2>3
<1>4. QED
  BY <1>1, <1>2, <1>3

LEMMA ForgettingHolds ==
    ASSUME Handled, Handled', Knowing, [Next]_vars, raced \subseteq raced', ForgottenStaysForgotten
    PROVE  ForgottenStaysForgotten'
<1> SUFFICES ASSUME NEW e \in stored' \ raced' PROVE Created(e) > vanished'[Author(e)]
  BY DEF ForgottenStaysForgotten
<1>1. e \in Events /\ e \notin raced
  BY DEF Handled, Types
<1>2. Created(e) > vanished[Author(e)]
  <2>1. CASE e \in stored
    BY <1>1, <2>1 DEF ForgottenStaysForgotten
  <2>2. CASE e \notin stored
    BY <1>1, <2>2, Entering DEF Knowing, Gated
  <2>3. QED
    BY <2>1, <2>2
<1>3. QED
  BY <1>1, <1>2, Forgetting

LEMMA DeletionsHold ==
    ASSUME Handled, Handled', Knowing, [Next]_vars, raced \subseteq raced', DeletedStaysOut
    PROVE  DeletedStaysOut'
<1> SUFFICES ASSUME NEW d \in stored' \ expired', NEW e \in stored', Kind(d) = "delete", EventOf[d].of = e,
                    e \notin raced'
             PROVE  FALSE
  BY DEF DeletedStaysOut
<1>1. d \in Events /\ e \in Events /\ d # e /\ e \notin raced /\ d # NoEvent /\ d \notin expired
  BY EventFacts, Aging DEF Handled, Types
<1>2. CASE d \in stored /\ e \in stored
  BY <1>1, <1>2 DEF DeletedStaysOut
<1>3. CASE d \notin stored
  <2>1. PICK w \in Writers : writers[w].at = "store" /\ writers[w].event = d
    BY <1>3, Entering
  <2>2. e \notin stored
    BY <1>1, <2>1 DEF Knowing, Deleting
  <2>3. PICK u \in Writers : writers[u].event = e
    BY <2>2, Entering
  <2>4. Holds(w, e) /\ Holds(u, e)
    BY <1>1, <2>1, <2>3 DEF Holds
  <2>5. QED
    BY <1>1, <2>1, <2>3, <2>4, Alone
<1>4. CASE d \in stored /\ e \notin stored
  <2>1. PICK w \in Writers : writers[w].at = "store" /\ writers[w].event = e
    BY <1>4, Entering
  <2>2. QED
    BY <1>1, <1>4, <2>1 DEF Knowing, Checked
<1>5. QED
  BY <1>2, <1>3, <1>4

----------------------------------------------------------------------------
(* Events and rows.                                                        *)

Counts(e) == Kind(e) \notin {"message", "vanish"}

\* Stored and not billed: whoever stored it is on the way to.
Owing(e) ==
    e \in stored /\ rows[e] = NoRow =>
        \E w \in Writers : writers[w].at \in {"charge", "bill"} /\ writers[w].event = e

\* A newer version is being billed, and the author's rows will be reconciled after.
Superseding(w, e) ==
    /\ writers[w].at \in {"charge", "bill", "reconcile"}
    /\ Kind(writers[w].event) = "replaceable" /\ Author(writers[w].event) = Author(e)

\* Gone and still billed: whoever took it away is on the way to refunding it.
Owed(e) ==
    e \notin stored /\ rows[e] # NoRow =>
        \/ \E w \in Writers : writers[w].at = "refund" /\ EventOf[writers[w].event].of = e
        \/ \E m \in Erasers : erasers[m].at = "refund" /\ erasers[m].event = e
        \/ Kind(e) = "replaceable" /\ \E w \in Writers : Superseding(w, e)

\* What is about to be billed is there.
Present(w) ==
    LET e == writers[w].event IN
    writers[w].at \in {"charge", "bill"} /\ Kind(e) # "replaceable" /\ Counts(e) /\ e \notin raced
    => e \in stored

Balanced ==
    /\ \A w \in Writers : Present(w)
    /\ \A e \in Events : Counts(e) =>
          /\ rows[e] # NoRow => rows[e].pubkey = Author(e)
          /\ e \notin raced => Owing(e) /\ Owed(e)

IInv == Handled /\ Knowing /\ Balanced /\ BannedStaysOut /\ ForgottenStaysForgotten /\ DeletedStaysOut

\* Who may take a row away.
LEMMA Dropping ==
    ASSUME [Next]_vars, NEW e \in Events, rows[e] # NoRow, rows'[e] = NoRow
    PROVE  \/ \E w \in Writers : RefundTarget(w) \/ Reconcile(w) \/ Vanish(w) \/ Bill(w)
           \/ \E m \in Erasers : RefundEvent(m)
<1>1. CASE ~ ((\E w \in Writers : RefundTarget(w) \/ Reconcile(w) \/ Vanish(w) \/ Bill(w))
              \/ \E m \in Erasers : RefundEvent(m))
  <2>1. UNCHANGED rows
    BY <1>1 DEF Next, Write, Erase, Operator, Receive, SeekTarget, EraseTarget, Gate, CheckDeleted,
           StoreRegular, StoreReplaceable, ChoosePot, BanEvent, Expire, FindEvent, EraseEvent,
           AllowEvent, Lapse, Suspend, OpenAccount, DeleteAccount, ChangeGroup, DeleteGroup, Unvanish,
           Restart, tables, vars
  <2>2. QED
    BY <2>1
<1>2. QED
  BY <1>1

\* Only the bill writes a row, for its event and to whom it chose.
LEMMA Charging ==
    ASSUME Handled, [Next]_vars, NEW e \in Events, rows'[e] # rows[e], rows'[e] # NoRow
    PROVE  \E w \in Writers : Bill(w) /\ writers[w].event = e /\ rows'[e] = writers[w].row
                              /\ rows[e] = NoRow
<1>1. CASE \E w \in Writers : Bill(w)
  BY <1>1 DEF Bill, UsageAdded, Handled, Types
<1>2. CASE \E w \in Writers : RefundTarget(w) \/ Reconcile(w) \/ Vanish(w)
  BY <1>2 DEF RefundTarget, Reconcile, Vanish, UsageRemoved, Pruned, Handled, Types
<1>3. CASE \E m \in Erasers : RefundEvent(m)
  BY <1>3 DEF RefundEvent, UsageRemoved, Handled, Types
<1>4. CASE ~ ((\E w \in Writers : RefundTarget(w) \/ Reconcile(w) \/ Vanish(w) \/ Bill(w))
              \/ \E m \in Erasers : RefundEvent(m))
  <2>1. UNCHANGED rows
    BY <1>4 DEF Next, Write, Erase, Operator, Receive, SeekTarget, EraseTarget, Gate, CheckDeleted,
           StoreRegular, StoreReplaceable, ChoosePot, BanEvent, Expire, FindEvent, EraseEvent,
           AllowEvent, Lapse, Suspend, OpenAccount, DeleteAccount, ChangeGroup, DeleteGroup, Unvanish,
           Restart, tables, vars
  <2>2. QED
    BY <2>1
<1>5. QED
  BY <1>1, <1>2, <1>3, <1>4

\* Who takes an event away, and where that leaves them.
LEMMA Leaving ==
    ASSUME Handled, [Next]_vars, NEW e \in stored, e \notin stored'
    PROVE  \/ \E w \in Writers : /\ writers[w].at = "erase" /\ writers'[w].at = "refund"
                                 /\ writers'[w].event = writers[w].event
                                 /\ EventOf[writers[w].event].of = e
           \/ \E m \in Erasers : erasers'[m].at = "refund" /\ erasers[m].event = e /\ erasers'[m].event = e
           \/ Kind(e) = "replaceable" /\ \E w \in Writers : Superseding(w, e)'
           \/ \E w \in Writers : Vanish(w)
<1> USE DEF Handled, Types, WriteInHand, Erasure
<1>1. CASE \E w \in Writers : EraseTarget(w)
  BY <1>1 DEF EraseTarget, Erased, At
<1>2. CASE \E m \in Erasers : EraseEvent(m)
  BY <1>2 DEF EraseEvent, Erased
<1>3. CASE \E w \in Writers : StoreRegular(w) \/ StoreReplaceable(w)
  <2>1. PICK w \in Writers : StoreReplaceable(w)
    BY <1>3 DEF StoreRegular
  <2>2. Kind(e) = "replaceable" /\ Author(e) = Author(writers[w].event)
    BY <2>1 DEF StoreReplaceable, Versions
  <2>3. writers'[w].at = "charge" /\ writers'[w].event = writers[w].event
    BY <2>1 DEF StoreReplaceable, At
  <2>4. Superseding(w, e)'
    BY <2>1, <2>2, <2>3 DEF StoreReplaceable, Superseding
  <2>5. QED
    BY <2>2, <2>4
<1>4. CASE ~ \/ \E w \in Writers : EraseTarget(w) \/ Vanish(w) \/ StoreRegular(w) \/ StoreReplaceable(w)
             \/ \E m \in Erasers : EraseEvent(m)
  <2>1. UNCHANGED stored
    BY <1>4 DEF Next, Write, Erase, Operator, Receive, SeekTarget, RefundTarget, Gate, CheckDeleted,
           ChoosePot, Bill, Reconcile, BanEvent, Expire, FindEvent, RefundEvent,
           AllowEvent, Lapse, Suspend, OpenAccount, DeleteAccount, ChangeGroup, DeleteGroup, Unvanish,
           Restart, tables, vars
  <2>2. QED
    BY <2>1
<1>5. QED
  BY <1>1, <1>2, <1>3, <1>4

\* What is stored goes on to be billed.
LEMMA Storing ==
    ASSUME Handled, [Next]_vars, NEW e \in stored', e \notin stored
    PROVE  \E w \in Writers : writers'[w].at = "charge" /\ writers'[w].event = e
<1>1. PICK w \in Writers : (StoreRegular(w) \/ StoreReplaceable(w)) /\ writers[w].event = e
  <2>1. CASE \E w \in Writers : StoreRegular(w) \/ StoreReplaceable(w)
    BY <2>1 DEF StoreRegular, StoreReplaceable, Versions
  <2>2. CASE ~ \E w \in Writers : StoreRegular(w) \/ StoreReplaceable(w)
    <3>1. stored' \subseteq stored
      BY <2>2 DEF Next, Write, Erase, Operator, Receive, SeekTarget, EraseTarget, Erased, RefundTarget,
           Gate, CheckDeleted, ChoosePot, Bill, Reconcile, Vanish, BanEvent, Expire, FindEvent,
           EraseEvent, RefundEvent, AllowEvent, Lapse, Suspend, OpenAccount, DeleteAccount, ChangeGroup,
           DeleteGroup, Unvanish, Restart, tables, vars
    <3>2. QED
      BY <3>1
  <2>3. QED
    BY <2>1, <2>2
<1>2. At(w, "charge")
  BY <1>1 DEF StoreRegular, StoreReplaceable
<1>3. QED
  BY <1>1, <1>2 DEF At, Handled, Types, WriteInHand

\* A row that goes from a stored event goes with the event.
LEMMA RowsStay ==
    ASSUME Handled, Knowing, Balanced, [Next]_vars, NEW e \in Events, Counts(e), e \notin raced,
           e \in stored, e \in stored', rows[e] # NoRow
    PROVE  rows'[e] # NoRow
<1> SUFFICES ASSUME rows'[e] = NoRow PROVE FALSE
  OBVIOUS
<1>0. rows[e].pubkey = Author(e) /\ Author(e) \in Pubkeys /\ Nobody \notin Pubkeys
  BY EventFacts, UsageAssumption DEF Balanced
<1>1. ASSUME NEW w \in Writers, RefundTarget(w) PROVE FALSE
  <2>1. EventOf[writers[w].event].of = e /\ writers[w].at = "refund"
    BY <1>1 DEF RefundTarget, UsageRemoved, Handled, Types
  <2>2. Kind(writers[w].event) = "delete"
    BY <2>1 DEF Handled, Shape, Fits
  <2>3. QED
    BY <2>1, <2>2 DEF Knowing, Deleting
<1>2. ASSUME NEW w \in Writers, Reconcile(w) PROVE FALSE
  BY <1>0, <1>2 DEF Reconcile, Pruned
<1>3. ASSUME NEW w \in Writers, Vanish(w) PROVE FALSE
  BY <1>0, <1>3 DEF Vanish, Pruned
<1>4. ASSUME NEW w \in Writers, Bill(w) PROVE FALSE
  <2>1. writers[w].row.pubkey \in Pubkeys
    BY <1>4 DEF Bill, Handled, Shape, Fits
  <2>2. QED
    BY <1>0, <1>4, <2>1 DEF Bill, UsageAdded, NoRow, Handled, Types
<1>5. ASSUME NEW m \in Erasers, RefundEvent(m) PROVE FALSE
  <2>1. erasers[m].event = e /\ erasers[m].at = "refund"
    BY <1>5 DEF RefundEvent, UsageRemoved, Handled, Types
  <2>2. QED
    BY <2>1 DEF Knowing, Erasing
<1>6. QED
  BY <1>1, <1>2, <1>3, <1>4, <1>5, Dropping

\* What is unbalanced when the process stops counts as raced.
LEMMA Stopped ==
    ASSUME Restart, NEW e \in Events, e \notin raced'
    PROVE  e \in stored' <=> rows'[e] # NoRow
BY DEF Restart, tables

LEMMA OwingHolds ==
    ASSUME Handled, Knowing, Balanced, [Next]_vars, raced \subseteq raced',
           NEW e \in Events, Counts(e), e \notin raced'
    PROVE  Owing(e)'
<1> SUFFICES ASSUME e \in stored', rows'[e] = NoRow
             PROVE  \E w \in Writers : writers'[w].at \in {"charge", "bill"} /\ writers'[w].event = e
  BY DEF Owing
<1>1. CASE e \notin stored
  BY <1>1, Storing
<1>2. CASE e \in stored
  <2>1. rows[e] = NoRow
    BY <1>2, RowsStay
  <2>2. PICK w \in Writers : writers[w].at \in {"charge", "bill"} /\ writers[w].event = e
    BY <1>2, <2>1 DEF Balanced, Owing
  <2>3. CASE writers'[w] = writers[w]
    BY <2>2, <2>3
  <2>4. CASE Restart
    BY <2>4, Stopped
  <2>5. CASE Write(w)
    <3>1. CASE ChoosePot(w)
      BY <2>2, <3>1 DEF ChoosePot, Handled, Types
    <3>2. CASE Bill(w)
      <4>1. rows'[e] = writers[w].row /\ writers[w].row.pubkey \in Pubkeys
        BY <2>1, <2>2, <3>2 DEF Bill, UsageAdded, Handled, Types, Shape, Fits
      <4>2. QED
        BY <4>1, UsageAssumption DEF NoRow
    <3>3. QED
      BY <2>2, <2>5, <3>1, <3>2, EventFacts DEF Write, Receive, SeekTarget, EraseTarget, RefundTarget,
         Gate, CheckDeleted, StoreRegular, StoreReplaceable, Reconcile, Vanish, Counts
  <2>6. QED
    BY <2>3, <2>4, <2>5, OneAtATime
<1>3. QED
  BY <1>1, <1>2

LEMMA OwedHolds ==
    ASSUME Handled, Handled', Knowing, Balanced, [Next]_vars, raced \subseteq raced',
           NEW e \in Events, Counts(e), e \notin raced'
    PROVE  Owed(e)'
<1> SUFFICES ASSUME e \notin stored', rows'[e] # NoRow
             PROVE  \/ \E w \in Writers : writers'[w].at = "refund" /\ EventOf[writers'[w].event].of = e
                    \/ \E m \in Erasers : erasers'[m].at = "refund" /\ erasers'[m].event = e
                    \/ Kind(e) = "replaceable" /\ \E w \in Writers : Superseding(w, e)'
  BY DEF Owed
<1> USE DEF Handled, Types, WriteInHand
<1>1. CASE rows[e] = NoRow
  <2>1. PICK w \in Writers : Bill(w) /\ writers[w].event = e
    BY <1>1, Charging
  <2>2. CASE Kind(e) # "replaceable"
    BY <2>1, <2>2 DEF Balanced, Present, Bill
  <2>3. CASE Kind(e) = "replaceable"
    BY <2>1, <2>3 DEF Bill, At, Superseding
  <2>4. QED
    BY <2>2, <2>3
<1>2. CASE rows[e] # NoRow /\ e \in stored
  <2>1. CASE \E w \in Writers : Vanish(w)
    <3>1. PICK w \in Writers : Vanish(w)
      BY <2>1
    <3>2. Author(e) = Author(writers[w].event)
      BY <1>2, <3>1 DEF Vanish
    <3>3. rows'[e] = NoRow
      BY <1>2, <3>1, <3>2 DEF Vanish, Pruned, Balanced
    <3>4. QED
      BY <3>3
  <2>2. CASE ~ \E w \in Writers : Vanish(w)
    BY <1>2, <2>2, Leaving
  <2>3. QED
    BY <2>1, <2>2
<1>3. CASE rows[e] # NoRow /\ e \notin stored
  <2>0. rows[e].pubkey = Author(e) /\ Owed(e)
    BY <1>3 DEF Balanced
  <2>1. CASE Restart
    BY <2>1, Stopped
  <2>2. ASSUME ~Restart, NEW w \in Writers, writers[w].at = "refund", EventOf[writers[w].event].of = e
        PROVE  writers'[w] = writers[w]
    <3>1. ~RefundTarget(w)
      BY <2>2 DEF RefundTarget, UsageRemoved
    <3>2. ~Write(w)
      BY <2>2, <3>1 DEF Write, Receive, SeekTarget, EraseTarget, Gate, CheckDeleted, StoreRegular,
         StoreReplaceable, ChoosePot, Bill, Reconcile, Vanish
    <3>3. QED
      BY <2>2, <3>2, OneAtATime
  <2>3. ASSUME ~Restart, NEW m \in Erasers, erasers[m].at = "refund", erasers[m].event = e
        PROVE  erasers'[m] = erasers[m]
    <3>1. ~RefundEvent(m)
      BY <2>3 DEF RefundEvent, UsageRemoved
    <3>2. ~Erase(m)
      BY <2>3, <3>1 DEF Erase, BanEvent, Expire, FindEvent, EraseEvent
    <3>3. QED
      BY <2>3, <3>2, OneAtATime
  <2>4. ASSUME ~Restart, NEW w \in Writers, Superseding(w, e)
        PROVE  Superseding(w, e)'
    <3>1. CASE writers'[w] = writers[w]
      BY <2>4, <3>1 DEF Superseding
    <3>2. CASE ChoosePot(w)
      BY <2>4, <3>2 DEF ChoosePot, Superseding
    <3>3. CASE Bill(w)
      BY <2>4, <3>3 DEF Bill, At, Superseding
    <3>4. CASE Reconcile(w)
      <4>1. writers[w].row.pubkey = Author(e)
        BY <2>4, <3>4 DEF Reconcile, Superseding, Shape, Fits
      <4>2. rows'[e] = NoRow
        BY <1>3, <2>0, <3>4, <4>1 DEF Reconcile, Pruned
      <4>3. QED
        BY <4>2
    <3>5. QED
      BY <2>4, <3>1, <3>2, <3>3, <3>4, OneAtATime DEF Write, Receive, SeekTarget, EraseTarget,
         RefundTarget, Gate, CheckDeleted, StoreRegular, StoreReplaceable, Vanish, Superseding
  <2>5. QED
    BY <1>3, <2>0, <2>1, <2>2, <2>3, <2>4 DEF Owed
<1>4. QED
  BY <1>1, <1>2, <1>3

LEMMA PresentHolds ==
    ASSUME Handled, Handled', Knowing, Balanced, ForgottenStaysForgotten, [Next]_vars,
           raced \subseteq raced', NEW w \in Writers
    PROVE  Present(w)'
<1> SUFFICES ASSUME NEW e, e = writers'[w].event, writers'[w].at \in {"charge", "bill"},
                    Kind(e) # "replaceable", Counts(e), e \notin raced'
             PROVE  e \in stored'
  BY DEF Present, Counts, Kind
<1>1. CASE writers'[w] = writers[w]
  <2>1. e \in stored /\ e \in Events /\ e # NoEvent
    BY <1>1, EventFacts DEF Balanced, Present, Counts, Handled, Types
  <2>2. Holds(w, e) /\ w \in Holders(e)'
    BY <1>1 DEF Holds, Holders
  <2> SUFFICES ASSUME e \notin stored' PROVE FALSE
    OBVIOUS
  <2>3. ASSUME NEW u \in Writers, writers[u].at = "erase", EventOf[writers[u].event].of = e PROVE FALSE
    <3>1. writers[u].event # NoEvent
      BY <2>3 DEF Handled, Shape, Fits
    <3>2. Holds(u, e)
      BY <2>3, <3>1 DEF Holds
    <3>3. QED
      BY <1>1, <2>1, <2>2, <2>3, <3>2, Alone
  <2>4. ASSUME NEW m \in Erasers, erasers[m].event = e PROVE FALSE
    BY <2>1, <2>2, <2>4, Alone
  <2>5. ASSUME NEW u \in Writers, Vanish(u) PROVE FALSE
    <3> DEFINE v == writers[u].event
    <3>1. v \in Events /\ Created(v) \in Nat /\ Author(v) \in Pubkeys /\ Created(e) \in Nat
      BY <2>1, <2>5, EventFacts DEF Vanish, Handled, Types, Shape, Fits, WriteInHand
    <3>2. Author(e) = Author(v) /\ Created(e) <= Created(v)
      BY <2>1, <2>5 DEF Vanish
    <3>3. ~(Created(e) > vanished'[Author(e)])
      BY <2>5, <3>1, <3>2 DEF Vanish, Handled, Types
    <3>4. Created(e) > vanished[Author(e)]
      BY <2>1 DEF ForgottenStaysForgotten
    <3>5. QED
      BY <2>1, <2>2, <3>3, <3>4, Forgetting
  <2>6. QED
    BY <2>1, <2>3, <2>4, <2>5, Leaving
<1>2. CASE Restart
  BY <1>2 DEF Restart, NoWrite
<1>3. CASE Write(w)
  <2> USE DEF Handled, Types, WriteInHand
  <2>1. CASE StoreRegular(w)
    BY <2>1 DEF StoreRegular, At, Done, NoWrite
  <2>2. CASE StoreReplaceable(w)
    BY <2>2 DEF StoreReplaceable, At
  <2>3. CASE ChoosePot(w)
    BY <2>3 DEF ChoosePot, Balanced, Present, tables
  <2>4. CASE Bill(w)
    BY <2>4 DEF Bill, At, Done, NoWrite
  <2>5. CASE SeekTarget(w) \/ EraseTarget(w) \/ RefundTarget(w) \/ Gate(w) \/ CheckDeleted(w)
    <3>1. At(w, "gate") \/ At(w, "erase") \/ At(w, "refund") \/ At(w, "check") \/ At(w, "store") \/ Done(w)
      BY <2>5 DEF SeekTarget, EraseTarget, RefundTarget, Gate, CheckDeleted
    <3>2. ~At(w, "gate") /\ ~At(w, "erase") /\ ~At(w, "refund")
      BY DEF At
    <3>3. ~At(w, "check") /\ ~At(w, "store") /\ ~Done(w)
      BY DEF At, Done, NoWrite
    <3>4. QED
      BY <3>1, <3>2, <3>3
  <2>6. CASE Reconcile(w) \/ Vanish(w)
    BY <2>6 DEF Reconcile, Vanish, Done, NoWrite
  <2>7. CASE \E f \in Events : Receive(w, f)
    <3>1. writers'[w].at \in {"seek", "gate"}
      BY <2>7 DEF Receive, NoWrite
    <3>2. QED
      BY <3>1
  <2>8. QED
    BY <1>3, <2>1, <2>2, <2>3, <2>4, <2>5, <2>6, <2>7 DEF Write
<1>4. QED
  BY <1>1, <1>2, <1>3, OneAtATime

LEMMA Balancing ==
    ASSUME Handled, Handled', Knowing, Balanced, ForgottenStaysForgotten, [Next]_vars,
           raced \subseteq raced'
    PROVE  Balanced'
<1>1. ASSUME NEW e \in Events, Counts(e), rows'[e] # NoRow PROVE rows'[e].pubkey = Author(e)
  <2>1. CASE rows'[e] = rows[e]
    BY <1>1, <2>1 DEF Balanced
  <2>2. CASE rows'[e] # rows[e]
    BY <1>1, <2>2, Charging DEF Bill, Handled, Shape, Fits, Counts
  <2>3. QED
    BY <2>1, <2>2
<1>2. QED
  BY <1>1, OwingHolds, OwedHolds, PresentHolds DEF Balanced, Counts, Kind, Author

----------------------------------------------------------------------------
(* The invariant, and what follows from it.                                *)

LEMMA Initially == Init => IInv
<1> SUFFICES ASSUME Init PROVE IInv
  OBVIOUS
<1>1. Knowing
  BY DEF Init, Knowing, Gated, Checked, Deleting, Erasing, NoWrite, NoErasure
<1>2. Balanced
  BY DEF Init, Balanced, Present, Owing, Owed, NoWrite
<1>3. BannedStaysOut /\ ForgottenStaysForgotten /\ DeletedStaysOut
  BY DEF Init, BannedStaysOut, ForgottenStaysForgotten, DeletedStaysOut
<1>4. QED
  BY <1>1, <1>2, <1>3, InitHandled DEF IInv

LEMMA Invariance == Spec => []IInv
<1>1. ASSUME IInv, [Next]_vars PROVE IInv'
  <2>1. Handled' /\ raced \subseteq raced'
    BY <1>1, Handling, Exclusion DEF IInv, Handled
  <2>2. Knowing' /\ Balanced'
    BY <1>1, <2>1, Learning, Balancing DEF IInv
  <2>3. BannedStaysOut' /\ ForgottenStaysForgotten' /\ DeletedStaysOut'
    BY <1>1, <2>1, BansHold, ForgettingHolds, DeletionsHold DEF IInv
  <2>4. QED
    BY <2>1, <2>2, <2>3 DEF IInv
<1>2. QED
  BY Initially, <1>1, PTL DEF Spec

\* Whatever is sent, banned, deleted or resent, in whatever order and by however many
\* handlers, what a moderator has banned is gone and stays gone (management.go:128),
\* unless two handlers had it at once or a look for the ban failed.
THEOREM BansStay == Spec => []BannedStaysOut
<1>1. IInv => BannedStaysOut
  BY DEF IInv
<1>2. QED
  BY <1>1, Invariance, PTL

\* Nothing its author asked to be forgotten comes back (policy.go:34), unless somebody
\* had it in hand at that moment.
THEOREM ForgettingStays == Spec => []ForgottenStaysForgotten
<1>1. IInv => ForgottenStaysForgotten
  BY DEF IInv
<1>2. QED
  BY <1>1, Invariance, PTL

\* An event and a deletion of it that has not expired are never both stored (deleting.go,
\* adding.go:36), unless the two were handled at once or a query of theirs failed.
THEOREM DeletionsStay == Spec => []DeletedStaysOut
<1>1. IInv => DeletedStaysOut
  BY DEF IInv
<1>2. QED
  BY <1>1, Invariance, PTL

\* When nobody is at work, what is stored is billed and what is gone was refunded
\* (store.go:731-813), through replacements, deletions, sweeps and requests to vanish.
THEOREM BillsBalance == Spec => []EveryEventIsBilled
<1>1. ASSUME IInv PROVE EveryEventIsBilled
  <2> SUFFICES ASSUME \A w \in Writers : writers[w] = NoWrite, \A m \in Erasers : erasers[m] = NoErasure,
                      NEW e \in Events \ raced, Counts(e)
               PROVE  e \in stored <=> rows[e] # NoRow
    BY DEF EveryEventIsBilled, Counts
  <2>1. Owing(e) /\ Owed(e)
    BY <1>1 DEF IInv, Balanced
  <2>2. QED
    BY <2>1 DEF Owing, Owed, Superseding, NoWrite, NoErasure
<1>2. QED
  BY <1>1, Invariance, PTL

----------------------------------------------------------------------------
(* The counters.                                                           *)

\* A row that a group pays for names the group its author is in, or one that was left
\* or deleted.
Sides(row) == row.group # NoGroup => member[row.pubkey] = row.group \/ row.group \in drifted

Rowed(rs) == {e \in Events : rs[e] # NoRow}

\* The events a pot pays for.
Bills(rs, p) == {e \in Events : rs[e] # NoRow /\ PaidFrom(rs[e]) = p}

Funds == pots \in [Pots -> Pot] /\ drifted \subseteq Pots /\ IsFiniteSet(Rowed(rows))

RowsNamed == \A e \in Rowed(rows) : rows[e].pubkey \in Pubkeys /\ Sides(rows[e])

BillsNamed == \A w \in Writers : writers[w].at = "bill" => Sides(writers[w].row)

\* The counter is the sum of the rows, and a pot that is not there has none.
Exact(p) == pots[p].used = Billed(rows, p) /\ (~pots[p].exists => Bills(rows, p) = {})

CountInv == Funds /\ RowsNamed /\ BillsNamed /\ \A p \in Pots \ drifted : Exact(p)

\* The sizes that are added up, by name.
Sizes == [e \in Events |-> Size(e)]

LEMMA SizeFacts ==
    ASSUME NEW e \in Events
    PROVE  Size(e) \in Nat /\ Size(e) <= MaxSize /\ MaxSize \in Nat /\ Sizes[e] = Size(e)
BY UsageAssumption DEF Event, Size, Sizes

\* What is billed is a natural number.
LEMMA BilledType ==
    ASSUME NEW rs, IsFiniteSet(Rowed(rs)), NEW p
    PROVE  /\ IsFiniteSet(Bills(rs, p)) /\ Billed(rs, p) = SumFunctionOnSet(Sizes, Bills(rs, p))
           /\ Billed(rs, p) \in Nat
<1>1. IsFiniteSet(Bills(rs, p))
  <2>1. Bills(rs, p) \subseteq Rowed(rs)
    BY DEF Bills, Rowed
  <2>2. QED
    BY <2>1, FS_Subset
<1>2. Billed(rs, p) = SumFunctionOnSet(Sizes, Bills(rs, p))
  BY DEF Billed, Bills, Sizes
<1>3. \A e \in Bills(rs, p) : Sizes[e] \in Nat
  BY SizeFacts DEF Bills
<1>4. QED
  BY <1>1, <1>2, <1>3, SumType

\* The bills of a pot are finitely many, and they and any other event have a size.
LEMMA BillsSize ==
    ASSUME Funds, NEW p
    PROVE  /\ IsFiniteSet(Bills(rows, p))
           /\ \A f \in Bills(rows, p) : Sizes[f] \in Int
           /\ \A e \in Events : \A f \in Bills(rows, p) \cup {e} : Sizes[f] \in Int
<1>1. IsFiniteSet(Bills(rows, p))
  BY BilledType DEF Funds
<1>2. ASSUME NEW e \in Events PROVE Sizes[e] \in Int
  <2>1. Size(e) \in Nat /\ Sizes[e] = Size(e)
    BY SizeFacts
  <2>2. QED
    BY <2>1
<1>3. QED
  BY <1>1, <1>2 DEF Bills

\* Fewer rows are billed no more.
LEMMA BilledLess ==
    ASSUME NEW rs, NEW rt, IsFiniteSet(Rowed(rs)), NEW p, Bills(rt, p) \subseteq Bills(rs, p)
    PROVE  Billed(rt, p) <= Billed(rs, p)
<1>1. IsFiniteSet(Bills(rs, p)) /\ \A e \in Bills(rs, p) : Sizes[e] \in Nat
  BY BilledType, SizeFacts DEF Bills
<1>2. SumFunctionOnSet(Sizes, Bills(rt, p)) <= SumFunctionOnSet(Sizes, Bills(rs, p))
  BY <1>1, SumOfPart
<1>3. QED
  BY <1>2 DEF Billed, Bills, Sizes

LEMMA PotFacts ==
    ASSUME Funds, NEW p \in Pots
    PROVE  pots[p] \in Pot /\ pots[p].used \in Nat /\ pots[p].exists \in BOOLEAN /\ pots[p].open \in BOOLEAN
BY DEF Funds, Pot

\* The pot a row is billed to is an account or a group.
LEMMA PaidFromType ==
    ASSUME NEW row \in Row, row.pubkey \in Pubkeys
    PROVE  PaidFrom(row) \in Pots /\ row # NoRow
BY UsageAssumption DEF Row, PaidFrom, Pots, NoRow

\* A bill adds the event to its pot and to its rows.
LEMMA Adding ==
    ASSUME Types, Funds, NEW e \in Events, NEW row \in Row, row.pubkey \in Pubkeys,
           rows[e] = NoRow, UsageAdded(e, row)
    PROVE  /\ pots' \in [Pots -> Pot]
           /\ \A p \in Pots : Exact(p) /\ (p = PaidFrom(row) => pots[p].exists) => Exact(p)'
<1> DEFINE q == PaidFrom(row)
<1>0. q \in Pots /\ row # NoRow
  BY PaidFromType
<1>1. /\ rows' = [rows EXCEPT ![e] = row]
      /\ pots' = [p \in Pots |-> IF p = q /\ pots[p].exists
                                 THEN [pots[p] EXCEPT !.used = @ + Size(e)] ELSE pots[p]]
  BY DEF UsageAdded
<1>2. pots' \in [Pots -> Pot]
  <2>1. ASSUME NEW p \in Pots PROVE [pots[p] EXCEPT !.used = @ + Size(e)] \in Pot
    BY PotFacts, SizeFacts DEF Pot
  <2>2. QED
    BY <1>1, <2>1, PotFacts
<1>3. ASSUME NEW p \in Pots, Exact(p), p = q => pots[p].exists PROVE Exact(p)'
  <2>0. \A f \in Events : rows'[f] = IF f = e THEN row ELSE rows[f]
    BY <1>1 DEF Types
  <2>1. CASE p # q
    <3>1. Bills(rows', p) = Bills(rows, p)
      BY <1>0, <2>0, <2>1 DEF Bills
    <3>2. pots'[p] = pots[p]
      BY <1>1, <2>1
    <3>3. QED
      BY <1>3, <3>1, <3>2 DEF Exact, Billed, Bills
  <2>2. CASE p = q
    <3>1. Bills(rows', p) = Bills(rows, p) \cup {e} /\ e \notin Bills(rows, p)
      BY <1>0, <2>0, <2>2 DEF Bills
    <3>2. SumFunctionOnSet(Sizes, Bills(rows', p)) = SumFunctionOnSet(Sizes, Bills(rows, p)) + Size(e)
      <4>1. IsFiniteSet(Bills(rows, p)) /\ \A f \in Bills(rows, p) \cup {e} : Sizes[f] \in Int
        BY BillsSize
      <4>2. SumFunctionOnSet(Sizes, Bills(rows, p) \cup {e}) = SumFunctionOnSet(Sizes, Bills(rows, p)) + Sizes[e]
        BY <3>1, <4>1, SumAdds
      <4>3. QED
        BY <3>1, <4>2, SizeFacts
    <3>3. Billed(rows', p) = Billed(rows, p) + Size(e)
      BY <3>2 DEF Billed, Bills, Sizes
    <3>4. pots'[p].used = pots[p].used + Size(e) /\ pots'[p].exists
      BY <1>1, <1>3, <2>2, PotFacts DEF Pot
    <3>5. QED
      BY <1>3, <3>3, <3>4 DEF Exact
  <2>3. QED
    BY <2>1, <2>2
<1>4. QED
  BY <1>2, <1>3

\* A refund takes the event out of both; what is given back was there.
LEMMA Removing ==
    ASSUME Types, Funds, NEW e \in Events, UsageRemoved(e)
    PROVE  /\ pots' \in [Pots -> Pot]
           /\ \A p \in Pots : Exact(p) => Exact(p)'
           /\ \A p \in Pots : pots'[p].exists = pots[p].exists /\ pots'[p].used <= pots[p].used
<1>1. CASE rows[e] = NoRow
  <2>1. UNCHANGED <<rows, pots>>
    BY <1>1 DEF UsageRemoved
  <2>2. QED
    BY <2>1, PotFacts DEF Exact, Funds, Billed, Bills
<1>2. CASE rows[e] # NoRow
  <2> DEFINE q == PaidFrom(rows[e])
  <2>1. /\ rows' = [rows EXCEPT ![e] = NoRow]
        /\ pots' = [p \in Pots |-> IF p = q /\ pots[p].exists
                                   THEN [pots[p] EXCEPT !.used = Less(@, Size(e))] ELSE pots[p]]
    BY <1>2 DEF UsageRemoved, RefundedPot
  <2>2. \A p \in Pots : Less(pots[p].used, Size(e)) \in Nat /\ Less(pots[p].used, Size(e)) <= pots[p].used
    BY PotFacts, SizeFacts DEF Less
  <2>3. pots' \in [Pots -> Pot]
    <3>1. ASSUME NEW p \in Pots PROVE [pots[p] EXCEPT !.used = Less(@, Size(e))] \in Pot
      BY <2>2, PotFacts DEF Pot
    <3>2. QED
      BY <2>1, <3>1, PotFacts
  <2>4. ASSUME NEW p \in Pots
        PROVE  pots'[p].exists = pots[p].exists /\ pots'[p].used <= pots[p].used
    <3>1. CASE p = q /\ pots[p].exists
      BY <2>1, <2>2, <3>1, PotFacts DEF Pot
    <3>2. CASE ~(p = q /\ pots[p].exists)
      BY <2>1, <3>2, PotFacts
    <3>3. QED
      BY <3>1, <3>2
  <2>5. ASSUME NEW p \in Pots, Exact(p) PROVE Exact(p)'
    <3>0. \A f \in Events : rows'[f] = IF f = e THEN NoRow ELSE rows[f]
      BY <2>1 DEF Types, NoRow, Row
    <3>1. CASE p # q
      <4>1. Bills(rows', p) = Bills(rows, p)
        BY <3>0, <3>1 DEF Bills
      <4>2. pots'[p] = pots[p]
        BY <2>1, <3>1
      <4>3. QED
        BY <2>5, <4>1, <4>2 DEF Exact, Billed, Bills
    <3>2. CASE p = q
      <4>1. e \in Bills(rows, p) /\ Bills(rows', p) = Bills(rows, p) \ {e}
        BY <1>2, <3>0, <3>2 DEF Bills
      <4>2. pots[p].exists
        BY <2>5, <4>1 DEF Exact
      <4>3. IsFiniteSet(Bills(rows, p)) /\ \A f \in Bills(rows, p) : Sizes[f] \in Int
        BY BillsSize
      <4>4. SumFunctionOnSet(Sizes, Bills(rows, p)) = Sizes[e] + SumFunctionOnSet(Sizes, Bills(rows, p) \ {e})
        BY <4>1, <4>3, SumTakes
      <4>5. SumFunctionOnSet(Sizes, Bills(rows, p) \ {e}) \in Nat
        <5>1. IsFiniteSet(Bills(rows, p) \ {e}) /\ \A f \in Bills(rows, p) \ {e} : Sizes[f] \in Nat
          BY <4>3, FS_RemoveElement, SizeFacts DEF Bills
        <5>2. QED
          BY <5>1, SumType
      <4>6. Billed(rows, p) = Size(e) + Billed(rows', p) /\ Billed(rows', p) \in Nat
        BY <4>1, <4>4, <4>5, SizeFacts DEF Billed, Bills, Sizes
      <4>7. pots'[p].used = Less(pots[p].used, Size(e)) /\ pots'[p].exists
        BY <2>1, <3>2, <4>2, PotFacts DEF Pot
      <4>8. Less(pots[p].used, Size(e)) = Billed(rows', p)
        BY <2>5, <4>6, SizeFacts DEF Exact, Less
      <4>9. QED
        BY <4>7, <4>8 DEF Exact
    <3>3. QED
      BY <3>1, <3>2
  <2>6. QED
    BY <2>3, <2>4, <2>5
<1>3. QED
  BY <1>1, <1>2

\* Rows that are pruned are those of a pubkey: they go from its own counter and from its
\* group's, and both are counted afresh.
LEMMA Recounting ==
    ASSUME Types, Funds, RowsNamed, NEW k \in Pubkeys, NEW events, NEW rs, rs = Pruned(k, events),
           rows' = rs, Recomputed(rs, k)
    PROVE  /\ pots' \in [Pots -> Pot]
           /\ \A p \in Pots \ drifted : Exact(p) => Exact(p)'
           /\ \A p \in Pots \ drifted :
                 Exact(p) => pots'[p].exists = pots[p].exists /\ pots'[p].used <= pots[p].used
<1>0. \A e \in Events : rs[e] = rows[e] \/ (rs[e] = NoRow /\ rows[e].pubkey = k)
  BY DEF Pruned
<1>1. IsFiniteSet(Rowed(rs))
  <2>1. Rowed(rs) \subseteq Rowed(rows)
    BY <1>0 DEF Rowed
  <2>2. QED
    BY <2>1, FS_Subset DEF Funds
<1>2. pots' = [p \in Pots |-> IF p \in {k, member[k]} /\ pots[p].exists
                              THEN [pots[p] EXCEPT !.used = Billed(rs, p)] ELSE pots[p]]
  BY DEF Recomputed
<1>3. ASSUME NEW p \in Pots
      PROVE  /\ [pots[p] EXCEPT !.used = Billed(rs, p)] \in Pot
             /\ [pots[p] EXCEPT !.used = Billed(rs, p)].used = Billed(rs, p)
             /\ [pots[p] EXCEPT !.used = Billed(rs, p)].exists = pots[p].exists
  BY <1>1, BilledType, PotFacts DEF Pot
<1>4. pots' \in [Pots -> Pot]
  BY <1>2, <1>3, PotFacts
<1>5. ASSUME NEW p \in Pots \ drifted, Exact(p)
      PROVE  Exact(p)' /\ pots'[p].exists = pots[p].exists /\ pots'[p].used <= pots[p].used
  <2>1. Bills(rs, p) \subseteq Bills(rows, p)
    BY <1>0 DEF Bills
  <2>2. Billed(rs, p) <= Billed(rows, p)
    BY <2>1, BilledLess DEF Funds
  <2>3. CASE p \in {k, member[k]} /\ pots[p].exists
    <3>1. pots'[p].used = Billed(rs, p) /\ pots'[p].exists
      BY <1>2, <1>3, <2>3
    <3>2. QED
      BY <1>5, <2>2, <2>3, <3>1 DEF Exact
  <2>4. CASE p \in {k, member[k]} /\ ~pots[p].exists
    <3>1. pots'[p] = pots[p] /\ Bills(rows, p) = {} /\ Bills(rs, p) = {}
      BY <1>2, <1>5, <2>1, <2>4 DEF Exact
    <3>2. Billed(rs, p) = Billed(rows, p)
      BY <3>1 DEF Billed, Bills
    <3>3. QED
      BY <1>5, <3>1, <3>2, PotFacts DEF Exact
  <2>5. CASE p \notin {k, member[k]}
    <3>1. ASSUME NEW e \in Bills(rows, p) PROVE e \in Bills(rs, p)
      <4>1. e \in Rowed(rows) /\ PaidFrom(rows[e]) = p /\ Sides(rows[e])
        BY <3>1 DEF Bills, Rowed, RowsNamed
      <4>2. rows[e].pubkey # k
        BY <1>5, <2>5, <4>1 DEF Sides, PaidFrom
      <4>3. QED
        BY <1>0, <3>1, <4>2 DEF Bills
    <3>2. Bills(rs, p) = Bills(rows, p) /\ pots'[p] = pots[p]
      BY <1>2, <2>1, <2>5, <3>1
    <3>3. Billed(rs, p) = Billed(rows, p)
      BY <3>2 DEF Billed, Bills
    <3>4. QED
      BY <1>5, <3>2, <3>3, PotFacts DEF Exact
  <2>6. QED
    BY <2>3, <2>4, <2>5
<1>6. QED
  BY <1>4, <1>5

\* The steps that touch a row or a counter.
LEMMA PotSteps ==
    ASSUME [Next]_vars
    PROVE  \/ UNCHANGED <<rows, pots>>
           \/ \E w \in Writers : RefundTarget(w) \/ Bill(w) \/ Reconcile(w) \/ Vanish(w)
           \/ \E m \in Erasers : RefundEvent(m)
           \/ \E p \in Pots : Suspend(p)
           \/ \E k \in Pubkeys : OpenAccount(k) \/ DeleteAccount(k)
           \/ \E g \in GroupIds : DeleteGroup(g)
BY DEF Next, Write, Erase, Operator, Receive, SeekTarget, EraseTarget, Gate, CheckDeleted,
       StoreRegular, StoreReplaceable, ChoosePot, BanEvent, Expire, FindEvent, EraseEvent,
       AllowEvent, Lapse, ChangeGroup, Unvanish, Restart, tables, vars

\* Who left a group, or was left by it, is remembered.
LEMMA Drifting ==
    ASSUME Types, Shape, Funds, [Next]_vars
    PROVE  /\ drifted \subseteq drifted' /\ drifted' \subseteq Pots
           /\ \A k \in Pubkeys : member'[k] = member[k] \/ member[k] = NoGroup \/ member[k] \in drifted'
<1> USE DEF Types, Funds, Pots
<1>1. ASSUME NEW k \in Pubkeys, NEW g \in GroupIds \cup {NoGroup}, ChangeGroup(k, g)
      PROVE  /\ drifted \subseteq drifted' /\ drifted' \subseteq Pots
             /\ \A j \in Pubkeys : member'[j] = member[j] \/ member[j] = NoGroup \/ member[j] \in drifted'
  BY <1>1 DEF ChangeGroup
<1>2. ASSUME NEW g \in GroupIds, DeleteGroup(g)
      PROVE  /\ drifted \subseteq drifted' /\ drifted' \subseteq Pots
             /\ \A j \in Pubkeys : member'[j] = member[j] \/ member[j] = NoGroup \/ member[j] \in drifted'
  BY <1>2 DEF DeleteGroup
<1>3. ASSUME NEW k \in Pubkeys, DeleteAccount(k)
      PROVE  drifted \subseteq drifted' /\ drifted' \subseteq Pots /\ member' = member
  BY <1>3 DEF DeleteAccount
<1>4. ASSUME NEW w \in Writers, Bill(w)
      PROVE  drifted \subseteq drifted' /\ drifted' \subseteq Pots /\ member' = member
  <2>1. writers[w].row \in Row /\ writers[w].row.pubkey \in Pubkeys
    BY <1>4 DEF Bill, Shape, Fits, WriteInHand
  <2>2. PaidFrom(writers[w].row) \in Pots
    BY <2>1, PaidFromType
  <2>3. QED
    BY <1>4, <2>2 DEF Bill
<1>5. CASE ~ \/ \E k \in Pubkeys : DeleteAccount(k) \/ \E g \in GroupIds \cup {NoGroup} : ChangeGroup(k, g)
             \/ \E g \in GroupIds : DeleteGroup(g)
             \/ \E w \in Writers : Bill(w)
  <2>1. UNCHANGED <<drifted, member>>
    BY <1>5 DEF Next, Write, Erase, Operator, Receive, SeekTarget, EraseTarget, RefundTarget, Gate, CheckDeleted,
           StoreRegular, StoreReplaceable, ChoosePot, Reconcile, Vanish, BanEvent, Expire, FindEvent, EraseEvent,
           RefundEvent, AllowEvent, Lapse, Suspend, OpenAccount, Unvanish, Restart, tables, vars
  <2>2. QED
    BY <2>1
<1>6. QED
  BY <1>1, <1>2, <1>3, <1>4, <1>5

\* So a row that named its author's group still does, or the group has drifted.
LEMMA SidesStay ==
    ASSUME Types, Funds, Shape, [Next]_vars, NEW row, row.pubkey \in Pubkeys, Sides(row)
    PROVE  Sides(row)'
BY Drifting DEF Sides

\* What a writer is about to bill names the group its author is in.
LEMMA BillsNamedStay ==
    ASSUME Handled, CountInv, [Next]_vars
    PROVE  BillsNamed'
<1> SUFFICES ASSUME NEW w \in Writers, writers'[w].at = "bill"
             PROVE  \E row : row = writers'[w].row /\ Sides(row)'
  BY DEF BillsNamed, Sides
<1>1. CASE writers'[w] = writers[w]
  <2>1. PICK row : row = writers[w].row
    OBVIOUS
  <2>2. row.pubkey \in Pubkeys /\ Sides(row)
    BY <1>1, <2>1 DEF CountInv, BillsNamed, Handled, Shape, Fits
  <2>3. Sides(row)'
    BY <2>2, SidesStay DEF Handled, CountInv
  <2>4. QED
    BY <1>1, <2>1, <2>3
<1>2. CASE Restart
  BY <1>2 DEF Restart, NoWrite
<1>3. CASE ChoosePot(w)
  <2> DEFINE e == writers[w].event
             k == BilledPubkey(e)
  <2>1. writers'[w].row = [pubkey |-> k, group |-> Payer(k, Size(e))] /\ UNCHANGED member
    BY <1>3 DEF ChoosePot, Handled, Types, tables
  <2>2. Payer(k, Size(e)) \in {NoGroup, member[k]}
    BY DEF Payer
  <2> HIDE DEF k, e
  <2>3. QED
    BY <2>1, <2>2 DEF Sides
<1>4. CASE Write(w) /\ ~ChoosePot(w)
  <2> USE DEF Handled, Types, WriteInHand
  <2>1. CASE \E f \in Events : Receive(w, f)
    BY <2>1 DEF Receive, NoWrite
  <2>2. CASE ~ \E f \in Events : Receive(w, f)
    <3>1. Done(w) \/ \E place \in Places \ {"bill"} : At(w, place)
      BY <1>4, <2>2 DEF Write, SeekTarget, EraseTarget, RefundTarget, Gate, CheckDeleted, StoreRegular,
             StoreReplaceable, Bill, Reconcile, Vanish, Places
    <3>2. QED
      BY <3>1 DEF Done, At, NoWrite
  <2>3. QED
    BY <2>1, <2>2
<1>5. QED
  BY <1>1, <1>2, <1>3, <1>4, OneAtATime

\* Rows keep the names they were billed under.
LEMMA RowsNamedStay ==
    ASSUME Handled, CountInv, [Next]_vars
    PROVE  RowsNamed' /\ IsFiniteSet(Rowed(rows'))
<1>1. ASSUME NEW e \in Rowed(rows')
      PROVE  \E row : row = rows'[e] /\ row.pubkey \in Pubkeys /\ Sides(row)
  <2>1. CASE rows'[e] = rows[e]
    BY <1>1, <2>1 DEF CountInv, RowsNamed, Rowed
  <2>2. CASE rows'[e] # rows[e]
    BY <1>1, <2>2, Charging DEF Rowed, Bill, CountInv, BillsNamed, Handled, Shape, Fits
  <2>3. QED
    BY <2>1, <2>2
<1>2. RowsNamed'
  <2> SUFFICES ASSUME NEW e \in Rowed(rows')
               PROVE  \E row : row = rows'[e] /\ row.pubkey \in Pubkeys /\ Sides(row)'
    BY DEF RowsNamed, Rowed, Sides
  <2>1. PICK row : row = rows'[e] /\ row.pubkey \in Pubkeys /\ Sides(row)
    BY <1>1
  <2>2. Sides(row)'
    BY <2>1, SidesStay DEF Handled, CountInv
  <2>3. QED
    BY <2>1, <2>2
<1>3. IsFiniteSet(Rowed(rows'))
  <2>1. CASE \E w \in Writers : Bill(w)
    <3>1. PICK w \in Writers : Bill(w)
      BY <2>1
    <3>2. Rowed(rows') \subseteq Rowed(rows) \cup {writers[w].event}
      BY <3>1 DEF Bill, UsageAdded, Rowed, Handled, Types
    <3>3. IsFiniteSet(Rowed(rows) \cup {writers[w].event})
      BY FS_AddElement DEF CountInv, Funds
    <3>4. QED
      BY <3>2, <3>3, FS_Subset
  <2>2. CASE ~ \E w \in Writers : Bill(w)
    <3>1. Rowed(rows') \subseteq Rowed(rows)
      BY <2>2, Charging DEF Rowed
    <3>2. QED
      BY <3>1, FS_Subset DEF CountInv, Funds
  <2>3. QED
    BY <2>1, <2>2
<1>4. QED
  BY <1>2, <1>3

\* Counters follow the rows, whoever bills, refunds, reconciles or vanishes.
LEMMA CountersFollow ==
    ASSUME Handled, CountInv, [Next]_vars
    PROVE  pots' \in [Pots -> Pot] /\ \A p \in Pots \ drifted' : Exact(p)'
<1>0. /\ Types /\ Shape /\ Funds /\ RowsNamed
      /\ \A p \in Pots \ drifted' : p \in Pots \ drifted /\ Exact(p)
      /\ \A p \in Pots \ drifted : Exact(p)
  BY Drifting DEF Handled, CountInv
<1>1. ASSUME NEW w \in Writers, RefundTarget(w)
      PROVE  pots' \in [Pots -> Pot] /\ \A p \in Pots \ drifted' : Exact(p)'
  <2>1. PICK e : e = EventOf[writers[w].event].of /\ UsageRemoved(e)
    BY <1>1 DEF RefundTarget
  <2>2. e \in Events
    BY <1>0, <1>1, <2>1 DEF Shape, Fits, RefundTarget
  <2>3. QED
    BY <1>0, <2>1, <2>2, Removing
<1>2. ASSUME NEW m \in Erasers, RefundEvent(m)
      PROVE  pots' \in [Pots -> Pot] /\ \A p \in Pots \ drifted' : Exact(p)'
  <2>1. erasers[m].event \in Events /\ UsageRemoved(erasers[m].event)
    BY <1>0, <1>2 DEF RefundEvent, Types, Shape, Erasure
  <2>2. QED
    BY <1>0, <2>1, Removing
<1>3. ASSUME NEW w \in Writers, Bill(w)
      PROVE  pots' \in [Pots -> Pot] /\ \A p \in Pots \ drifted' : Exact(p)'
  <2>1. PICK e, row : e = writers[w].event /\ row = writers[w].row
    OBVIOUS
  <2>2. e \in Events /\ row \in Row /\ row.pubkey \in Pubkeys /\ UsageAdded(e, row)
    BY <1>0, <1>3, <2>1 DEF Bill, Types, Shape, Fits, WriteInHand
  <2>3. CASE rows[e] # NoRow
    <3>1. UNCHANGED <<rows, pots>>
      BY <2>2, <2>3 DEF UsageAdded
    <3>2. QED
      BY <1>0, <3>1 DEF Exact, Funds, Billed, Bills
  <2>4. CASE rows[e] = NoRow
    <3>1. \A p \in Pots \ drifted' : p = PaidFrom(row) => pots[p].exists
      BY <1>3, <2>1, <2>4 DEF Bill
    <3>2. QED
      BY <1>0, <2>2, <2>4, <3>1, Adding
  <2>5. QED
    BY <2>3, <2>4
<1>4. ASSUME NEW w \in Writers, Reconcile(w)
      PROVE  pots' \in [Pots -> Pot] /\ \A p \in Pots \ drifted' : Exact(p)'
  <2>1. PICK k, rs : k = writers[w].row.pubkey /\ rs = Pruned(k, stored)
    OBVIOUS
  <2>2. k \in Pubkeys /\ rows' = rs /\ Recomputed(rs, k)
    BY <1>0, <1>4, <2>1 DEF Reconcile, Shape, Fits
  <2>3. QED
    BY <1>0, <2>1, <2>2, Recounting
<1>5. ASSUME NEW w \in Writers, Vanish(w)
      PROVE  pots' \in [Pots -> Pot] /\ \A p \in Pots \ drifted' : Exact(p)'
  <2>1. PICK k, left, rs : /\ k = Author(writers[w].event)
                           /\ left = {e \in stored : ~(Author(e) = k /\ Created(e) <= Created(writers[w].event))}
                           /\ rs = Pruned(k, left)
    OBVIOUS
  <2>2. rows' = rs /\ Recomputed(rs, k)
    BY <1>5, <2>1 DEF Vanish
  <2>3. k \in Pubkeys
    BY <1>0, <1>5, <2>1, EventFacts DEF Vanish, Types, Shape, Fits, WriteInHand
  <2>4. QED
    BY <1>0, <2>1, <2>2, <2>3, Recounting
<1>6. ASSUME NEW p \in Pots, Suspend(p)
      PROVE  pots' \in [Pots -> Pot] /\ \A q \in Pots \ drifted' : Exact(q)'
  <2>1. rows' = rows /\ pots' = [pots EXCEPT ![p].open = ~@]
    BY <1>6 DEF Suspend
  <2>2. [pots[p] EXCEPT !.open = ~@] \in Pot
    BY <1>0, PotFacts DEF Pot
  <2>3. pots' \in [Pots -> Pot]
    BY <1>0, <2>1, <2>2 DEF Funds
  <2>4. \A q \in Pots : pots'[q].used = pots[q].used /\ pots'[q].exists = pots[q].exists
    BY <1>0, <2>1 DEF Funds, Pot
  <2>5. drifted' = drifted
    BY <1>6 DEF Suspend
  <2>6. ASSUME NEW q \in Pots \ drifted PROVE Exact(q)'
    BY <1>0, <2>1, <2>4 DEF Exact, Billed, Bills
  <2>7. QED
    BY <2>3, <2>5, <2>6
<1>7. ASSUME NEW k \in Pubkeys, OpenAccount(k)
      PROVE  pots' \in [Pots -> Pot] /\ \A q \in Pots \ drifted' : Exact(q)'
  <2>1. rows' = rows /\ pots' = [pots EXCEPT ![k] = FreshPot] /\ ~pots[k].exists /\ k \in Pots
    BY <1>7 DEF OpenAccount, Pots
  <2>2. pots' \in [Pots -> Pot]
    BY <1>0, <2>1 DEF Funds, Pot, FreshPot
  <2>3. \A q \in Pots : q # k => pots'[q] = pots[q]
    BY <1>0, <2>1 DEF Funds
  <2>4. k \notin drifted => Exact(k)'
    <3> SUFFICES ASSUME k \notin drifted PROVE Exact(k)'
      OBVIOUS
    <3>1. Bills(rows, k) = {}
      BY <1>0, <2>1 DEF Exact
    <3>2. Billed(rows, k) = 0
      BY <3>1, BilledType, SumOfNone DEF Funds, CountInv
    <3>3. pots'[k].used = 0 /\ pots'[k].exists
      BY <1>0, <2>1 DEF FreshPot, Funds
    <3>4. QED
      BY <2>1, <3>2, <3>3 DEF Exact
  <2>5. QED
    BY <1>0, <2>1, <2>2, <2>3, <2>4 DEF Exact, Billed, Bills
<1>8. ASSUME NEW p \in Pots, (p \in Pubkeys /\ DeleteAccount(p)) \/ (p \in GroupIds /\ DeleteGroup(p))
      PROVE  pots' \in [Pots -> Pot] /\ \A q \in Pots \ drifted' : Exact(q)'
  <2>1. rows' = rows /\ pots' = [pots EXCEPT ![p] = NoPot] /\ p \in drifted'
    BY <1>8 DEF DeleteAccount, DeleteGroup
  <2>2. pots' \in [Pots -> Pot]
    BY <1>0, <2>1 DEF Funds, Pot, NoPot
  <2>3. \A q \in Pots : q # p => pots'[q] = pots[q]
    BY <1>0, <2>1 DEF Funds
  <2>4. QED
    BY <1>0, <2>1, <2>2, <2>3 DEF Exact, Billed, Bills
<1>9. CASE UNCHANGED <<rows, pots>>
  BY <1>0, <1>9 DEF Exact, Funds, Billed, Bills
<1>10. QED
  <2>1. \/ UNCHANGED <<rows, pots>>
        \/ \E w \in Writers : RefundTarget(w) \/ Bill(w) \/ Reconcile(w) \/ Vanish(w)
        \/ \E m \in Erasers : RefundEvent(m)
        \/ \E p \in Pots : Suspend(p)
        \/ \E k \in Pubkeys : OpenAccount(k) \/ DeleteAccount(k)
        \/ \E g \in GroupIds : DeleteGroup(g)
    BY PotSteps
  <2>2. QED
    BY <2>1, <1>1, <1>2, <1>3, <1>4, <1>5, <1>6, <1>7, <1>8, <1>9 DEF Pots

LEMMA CountInit == Init => CountInv
<1> SUFFICES ASSUME Init PROVE CountInv
  OBVIOUS
<1>1. pots \in [Pots -> Pot]
  BY DEF Init, Pot, FreshPot, NoPot
<1>2. Rowed(rows) = {} /\ IsFiniteSet(Rowed(rows))
  <2>1. Rowed(rows) = {}
    BY DEF Init, Rowed
  <2>2. QED
    BY <2>1, FS_EmptySet
<1>3. Funds /\ RowsNamed /\ BillsNamed
  BY <1>1, <1>2 DEF Init, Funds, RowsNamed, BillsNamed, NoWrite
<1>4. ASSUME NEW p \in Pots PROVE Exact(p)
  <2>1. Bills(rows, p) = {}
    BY DEF Init, Bills
  <2>2. Billed(rows, p) = 0
    BY <1>2, <2>1, BilledType, SumOfNone
  <2>3. pots[p].used = 0
    BY DEF Init, FreshPot, NoPot
  <2>4. QED
    BY <2>1, <2>2, <2>3 DEF Exact
<1>5. QED
  BY <1>3, <1>4 DEF CountInv

LEMMA CountStep ==
    ASSUME Handled, CountInv, [Next]_vars
    PROVE  CountInv'
<1>1. Funds'
  <2>1. pots' \in [Pots -> Pot] /\ IsFiniteSet(Rowed(rows'))
    BY CountersFollow, RowsNamedStay
  <2>2. drifted' \subseteq Pots
    BY Drifting DEF Handled, CountInv
  <2>3. QED
    BY <2>1, <2>2 DEF Funds, Rowed
<1>2. QED
  BY <1>1, CountersFollow, RowsNamedStay, BillsNamedStay DEF CountInv

LEMMA Counting == Spec => [](Handled /\ CountInv)
<1>1. Init => Handled /\ CountInv
  BY InitHandled, CountInit
<1>2. Handled /\ CountInv /\ [Next]_vars => (Handled /\ CountInv)'
  BY Handling, CountStep
<1>3. QED
  BY <1>1, <1>2, PTL DEF Spec

\* Any events, handlers, accounts and groups: every value has its type, and no counter
\* goes below zero.
THEOREM TypeCorrect == Spec => []TypeOK
<1>1. Handled /\ CountInv => TypeOK
  BY DEF Handled, Types, CountInv, Funds, TypeOK
<1>2. QED
  BY <1>1, Counting, PTL

\* The used bytes of an account or group are the sum of the usage rows billed to it
\* (AddUsage, RemoveUsage, ReconcileUsage and Vanish, store.go:695-813, vanish.go:50), in whatever order
\* they come and however often, unless it was deleted, left, or billed while absent.
THEOREM CountersStayRows == Spec => []CountersAreRows
<1>1. CountInv => CountersAreRows
  BY DEF CountInv, Exact, CountersAreRows
<1>2. QED
  BY <1>1, Counting, PTL

----------------------------------------------------------------------------
(* What is spent past a quota.                                             *)

\* Past the gate, and on the way to a bill.
Passed(w) == writers[w].at \in {"check", "store", "charge"} /\ Kind(writers[w].event) # "vanish"

\* What a writer has in hand is for k to pay, as things stand.
Spends(w, k) ==
    \/ Passed(w) /\ BilledPubkey(writers[w].event) = k
    \/ writers[w].at = "bill" /\ writers[w].row.pubkey = k

Debts(k) == [w \in Writers |-> IF Spends(w, k) THEN Size(writers[w].event) ELSE 0]

\* Whom OvershootIsBounded speaks of.
Single(k) ==
    /\ k \notin drifted /\ k \notin Joiners /\ GroupOf[k] = NoGroup
    /\ \A e \in raced : EventOf[e].to # k /\ (Kind(e) = "message" => Author(e) # k)

\* Before there is an account nothing but a message, which its recipient pays for, can
\* be in hand; and a message to the account to be is paid for by its author.
Unready(k) ==
    \A w \in Writers :
        /\ Spends(w, k) => Kind(writers[w].event) = "message" /\ Author(writers[w].event) = k
        /\ Passed(w) /\ Kind(writers[w].event) = "message" /\ EventOf[writers[w].event].to = k
           => Known(Author(writers[w].event))

\* The last to pass the gate found room for its event, and the others are one event each.
Within(k) ==
    pots[k].used + SumFunctionOnSet(Debts(k), Writers) <= Quota[k] + (Cardinality(Writers) - 1) * MaxSize

Modest(k) ==
    Single(k) => /\ member[k] = NoGroup
                 /\ IF pots[k].exists THEN Within(k) ELSE Unready(k)

OvershootInv == \A k \in Pubkeys : Modest(k)

\* Singles were single before.
LEMMA SinglesWere ==
    ASSUME Handled, CountInv, [Next]_vars, NEW k \in Pubkeys, Single(k)', OvershootInv
    PROVE  Single(k) /\ member[k] = NoGroup /\ member'[k] = NoGroup /\ k \in Pots
<1>1. raced \subseteq raced' /\ drifted \subseteq drifted'
  BY Exclusion, Drifting DEF Handled, CountInv
<1>2. Single(k)
  BY <1>1 DEF Single
<1>3. member[k] = NoGroup
  BY <1>2 DEF OvershootInv, Modest
<1>4. member'[k] = NoGroup
  <2>1. k \notin Joiners
    BY <1>2 DEF Single
  <2>2. CASE \E j \in Pubkeys : \E g \in GroupIds \cup {NoGroup} : ChangeGroup(j, g)
    BY <1>3, <2>1, <2>2 DEF ChangeGroup, Handled, Types
  <2>3. CASE \E g \in GroupIds : DeleteGroup(g)
    BY <1>3, <2>3 DEF DeleteGroup
  <2>4. CASE ~ ((\E j \in Pubkeys : \E g \in GroupIds \cup {NoGroup} : ChangeGroup(j, g))
                \/ \E g \in GroupIds : DeleteGroup(g))
    <3>1. UNCHANGED member
      BY <2>4 DEF Next, Write, Erase, Operator, Receive, SeekTarget, EraseTarget, RefundTarget, Gate,
             CheckDeleted, StoreRegular, StoreReplaceable, ChoosePot, Bill, Reconcile, Vanish, BanEvent,
             Expire, FindEvent, EraseEvent, RefundEvent, AllowEvent, Lapse, Suspend, OpenAccount, DeleteAccount,
             Unvanish, Restart, tables, vars
    <3>2. QED
      BY <1>3, <3>1
  <2>5. QED
    BY <2>2, <2>3, <2>4
<1>5. QED
  BY <1>2, <1>3, <1>4 DEF Pots

\* Whoever writes an account's or group's counter leaves it there.
LEMMA ExistsStays ==
    ASSUME Handled, CountInv, [Next]_vars, NEW p \in Pots
    PROVE  \/ pots'[p].exists <=> pots[p].exists
           \/ p \in Pubkeys /\ (OpenAccount(p) \/ DeleteAccount(p))
           \/ p \in GroupIds /\ DeleteGroup(p)
<1>1. ASSUME NEW e, UsageRemoved(e) PROVE pots'[p].exists <=> pots[p].exists
  BY <1>1, PotFacts DEF CountInv, UsageRemoved, Pot
<1>2. ASSUME NEW e, NEW row, UsageAdded(e, row) PROVE pots'[p].exists <=> pots[p].exists
  BY <1>2, PotFacts DEF CountInv, UsageAdded, Pot
<1>3. ASSUME NEW rs, NEW k, Recomputed(rs, k) PROVE pots'[p].exists <=> pots[p].exists
  BY <1>3, PotFacts DEF CountInv, Recomputed, Pot
<1>4. ASSUME NEW q \in Pots, Suspend(q) PROVE pots'[p].exists <=> pots[p].exists
  BY <1>4, PotFacts DEF CountInv, Funds, Suspend, Pot
<1>5. ASSUME NEW k \in Pubkeys, OpenAccount(k), k # p PROVE pots'[p] = pots[p]
  BY <1>5 DEF CountInv, Funds, OpenAccount
<1>6. ASSUME NEW k \in Pubkeys, DeleteAccount(k), k # p PROVE pots'[p] = pots[p]
  BY <1>6 DEF CountInv, Funds, DeleteAccount
<1>7. ASSUME NEW g \in GroupIds, DeleteGroup(g), g # p PROVE pots'[p] = pots[p]
  BY <1>7 DEF CountInv, Funds, DeleteGroup
<1>8. ASSUME NEW w \in Writers, RefundTarget(w) \/ Bill(w) \/ Reconcile(w) \/ Vanish(w)
      PROVE  pots'[p].exists <=> pots[p].exists
  BY <1>1, <1>2, <1>3, <1>8 DEF RefundTarget, Bill, Reconcile, Vanish
<1>9. ASSUME NEW m \in Erasers, RefundEvent(m) PROVE pots'[p].exists <=> pots[p].exists
  BY <1>1, <1>9 DEF RefundEvent
<1>10. QED
  BY <1>4, <1>5, <1>6, <1>7, <1>8, <1>9, PotSteps DEF Pots

\* Who becomes known, or a stranger, is caught with the messages in hand.
LEMMA KnownStays ==
    ASSUME Handled, CountInv, [Next]_vars, NEW e \in Events, Kind(e) = "message", e \notin raced',
           NEW w \in Writers, writers'[w].event = e
    PROVE  Known(Author(e))' <=> Known(Author(e))
<1>1. CASE Tallied
  <2>1. w \in Holders(e)'
    BY DEF Holders, Holds
  <2>2. ~Overtaken(e)
    BY <1>1 DEF Tallied
  <2>3. ~(Known(Author(e)) # Known(Author(e))')
    BY <2>1, <2>2 DEF Overtaken
  <2>4. QED
    BY <2>3
<1>2. CASE ~Tallied
  <2>1. UNCHANGED member
    BY <1>2 DEF Next, Write, Erase, Operator, Receive, SeekTarget, EraseTarget, RefundTarget, Gate,
           CheckDeleted, StoreRegular, StoreReplaceable, ChoosePot, Bill, Reconcile, Vanish, BanEvent,
           Expire, FindEvent, EraseEvent, RefundEvent, AllowEvent, Lapse, Suspend, OpenAccount, DeleteAccount,
           ChangeGroup, DeleteGroup, Unvanish, Restart, tables, vars
  <2>2. pots'[Author(e)].exists <=> pots[Author(e)].exists
    <3>1. Author(e) \in Pots /\ Author(e) \notin GroupIds
      BY EventFacts, UsageAssumption DEF Pots
    <3>2. ~OpenAccount(Author(e)) /\ ~DeleteAccount(Author(e))
      BY <1>2 DEF OpenAccount, DeleteAccount
    <3>3. QED
      BY <3>1, <3>2, ExistsStays
  <2>3. QED
    BY <2>1, <2>2 DEF Known
<1>3. QED
  BY <1>1, <1>2

\* An account that is neither deleted nor billed while absent stays, once it is there.
LEMMA SinglesStay ==
    ASSUME Handled, CountInv, OvershootInv, [Next]_vars, NEW k \in Pubkeys, Single(k)'
    PROVE  (pots'[k].exists <=> pots[k].exists) \/ (OpenAccount(k) /\ ~pots[k].exists)
<1>1. k \in Pots /\ k \notin GroupIds
  BY UsageAssumption DEF Pots
<1>2. ~DeleteAccount(k)
  BY DEF DeleteAccount, Single
<1>3. OpenAccount(k) => ~pots[k].exists
  BY DEF OpenAccount
<1>4. QED
  BY <1>1, <1>2, <1>3, ExistsStays

\* Only a bill of its own makes a counter grow.
LEMMA Growing ==
    ASSUME Handled, CountInv, [Next]_vars, NEW k \in Pubkeys, k \notin drifted', pots[k].exists
    PROVE  \/ pots'[k].used <= pots[k].used
           \/ \E w \in Writers : /\ Bill(w) /\ writers[w].row.pubkey = k
                                 /\ pots'[k].used = pots[k].used + Size(writers[w].event)
<1>0. /\ k \in Pots \ drifted /\ Exact(k) /\ Types /\ Shape /\ Funds /\ RowsNamed
      /\ k \notin GroupIds /\ pots[k].used \in Nat
  BY Drifting, PotFacts, UsageAssumption DEF Handled, CountInv, Pots
<1>1. ASSUME NEW w \in Writers, RefundTarget(w) PROVE pots'[k].used <= pots[k].used
  <2>1. PICK e : e = EventOf[writers[w].event].of /\ UsageRemoved(e)
    BY <1>1 DEF RefundTarget
  <2>2. e \in Events
    BY <1>0, <1>1, <2>1 DEF Shape, Fits, RefundTarget
  <2>3. QED
    BY <1>0, <2>1, <2>2, Removing
<1>2. ASSUME NEW m \in Erasers, RefundEvent(m) PROVE pots'[k].used <= pots[k].used
  <2>1. erasers[m].event \in Events /\ UsageRemoved(erasers[m].event)
    BY <1>0, <1>2 DEF RefundEvent, Types, Shape, Erasure
  <2>2. QED
    BY <1>0, <2>1, Removing
<1>3. ASSUME NEW w \in Writers, Bill(w)
      PROVE  \/ pots'[k].used <= pots[k].used
             \/ writers[w].row.pubkey = k /\ pots'[k].used = pots[k].used + Size(writers[w].event)
  <2>1. PICK e, row : e = writers[w].event /\ row = writers[w].row
    OBVIOUS
  <2>2. UsageAdded(e, row) /\ row \in Row /\ e \in Events
    BY <1>0, <1>3, <2>1 DEF Bill, Types, WriteInHand, Shape, Fits
  <2>3. CASE rows[e] # NoRow \/ PaidFrom(row) # k
    <3>1. pots'[k] = pots[k]
      BY <1>0, <2>2, <2>3 DEF UsageAdded
    <3>2. QED
      BY <1>0, <3>1
  <2>4. CASE rows[e] = NoRow /\ PaidFrom(row) = k
    <3>1. row.pubkey = k
      BY <1>0, <2>2, <2>4 DEF PaidFrom, Row
    <3>2. pots'[k] = [pots[k] EXCEPT !.used = @ + Size(e)]
      BY <1>0, <2>2, <2>4 DEF UsageAdded
    <3>3. pots'[k].used = pots[k].used + Size(e)
      BY <1>0, <3>2, PotFacts DEF Pot
    <3>4. QED
      BY <2>1, <3>1, <3>3
  <2>5. QED
    BY <2>3, <2>4
<1>4. ASSUME NEW w \in Writers, Reconcile(w) PROVE pots'[k].used <= pots[k].used
  <2>1. PICK j, rs : j = writers[w].row.pubkey /\ rs = Pruned(j, stored)
    OBVIOUS
  <2>2. j \in Pubkeys /\ rows' = rs /\ Recomputed(rs, j)
    BY <1>0, <1>4, <2>1 DEF Reconcile, Shape, Fits
  <2>3. QED
    BY <1>0, <2>1, <2>2, Recounting
<1>5. ASSUME NEW w \in Writers, Vanish(w) PROVE pots'[k].used <= pots[k].used
  <2>1. PICK j, left, rs : /\ j = Author(writers[w].event)
                           /\ left = {e \in stored : ~(Author(e) = j /\ Created(e) <= Created(writers[w].event))}
                           /\ rs = Pruned(j, left)
    OBVIOUS
  <2>2. rows' = rs /\ Recomputed(rs, j)
    BY <1>5, <2>1 DEF Vanish
  <2>3. j \in Pubkeys
    BY <1>0, <1>5, <2>1, EventFacts DEF Vanish, Types, Shape, Fits, WriteInHand
  <2>4. QED
    BY <1>0, <2>1, <2>2, <2>3, Recounting
<1>6. ASSUME NEW p \in Pots, Suspend(p) PROVE pots'[k].used <= pots[k].used
  BY <1>0, <1>6 DEF Suspend, Funds, Pot
<1>7. ASSUME NEW j \in Pubkeys, OpenAccount(j) PROVE pots'[k].used <= pots[k].used
  BY <1>0, <1>7 DEF OpenAccount, Funds
<1>8. ASSUME NEW p \in Pots, (p \in Pubkeys /\ DeleteAccount(p)) \/ (p \in GroupIds /\ DeleteGroup(p))
      PROVE  pots'[k].used <= pots[k].used
  BY <1>0, <1>8 DEF DeleteAccount, DeleteGroup, Funds, NoPot
<1>9. QED
  BY <1>0, <1>1, <1>2, <1>3, <1>4, <1>5, <1>6, <1>7, <1>8, PotSteps DEF Pots

\* Who passes, goes on to pass or has just been let through the gate.
LEMMA Passing ==
    ASSUME Handled, NEW w \in Writers, Write(w), Passed(w)'
    PROVE  /\ UNCHANGED <<pots, member>> /\ writers'[w].event = writers[w].event
           /\ writers[w].event \in Events /\ Kind(writers[w].event) # "vanish"
           /\ Passed(w) \/ (Gate(w) /\ Paid(writers[w].event))
<1> USE DEF Handled, Types, WriteInHand
<1>1. CASE Gate(w) \/ CheckDeleted(w) \/ StoreRegular(w) \/ StoreReplaceable(w)
  <2>1. UNCHANGED <<pots, member>>
    BY <1>1 DEF Gate, CheckDeleted, StoreRegular, StoreReplaceable, tables
  <2>2. ~Done(w)
    BY DEF Done, NoWrite, Passed
  <2>3. At(w, "check") \/ At(w, "store") \/ At(w, "charge")
    BY <1>1, <2>2 DEF Gate, CheckDeleted, StoreRegular, StoreReplaceable
  <2>4. writers'[w].event = writers[w].event /\ writers[w].at # "idle"
    BY <1>1, <2>3 DEF At, Gate, CheckDeleted, StoreRegular, StoreReplaceable
  <2>5. writers[w].event \in Events
    BY <2>4 DEF Shape, Fits
  <2>6. Kind(writers[w].event) # "vanish"
    BY <2>4 DEF Passed, Kind
  <2>7. writers[w].at \in {"check", "store"} \/ (Gate(w) /\ Paid(writers[w].event))
    BY <1>1, <2>2 DEF Gate, Passes, PassesUnseen, CheckDeleted, StoreRegular, StoreReplaceable
  <2>8. QED
    BY <2>1, <2>4, <2>5, <2>6, <2>7 DEF Passed
<1>2. CASE SeekTarget(w) \/ EraseTarget(w) \/ RefundTarget(w)
  BY <1>2 DEF SeekTarget, EraseTarget, RefundTarget, At, Done, NoWrite, Passed
<1>3. CASE ChoosePot(w)
  BY <1>3 DEF ChoosePot, Passed
<1>4. CASE Bill(w) \/ Reconcile(w) \/ Vanish(w)
  BY <1>4 DEF Bill, Reconcile, Vanish, At, Done, NoWrite, Passed
<1>5. CASE \E e \in Events : Receive(w, e)
  BY <1>5 DEF Receive, NoWrite, Passed
<1>6. QED
  BY <1>1, <1>2, <1>3, <1>4, <1>5 DEF Write

\* What is past the gate is for k to pay if it would be billed to k.
LEMMA PassedSpends ==
    ASSUME NEW w \in Writers, NEW k, Passed(w)', NEW e, e = writers'[w].event
    PROVE  Spends(w, k)' <=> BilledPubkey(e)' = k
<1>1. writers'[w].at # "bill"
  BY DEF Passed
<1>2. BilledPubkey(e)' = IF Kind(e) \in Sponsored /\ ~Known(Author(e))' /\ Known(EventOf[e].to)'
                         THEN EventOf[e].to ELSE Author(e)
  BY DEF BilledPubkey
<1>3. QED
  BY <1>1, <1>2 DEF Spends, BilledPubkey, Kind, Author, Known

\* What a writer has for k to pay it had before, or was let through the gate with.
LEMMA Spending ==
    ASSUME Handled, NEW w \in Writers, Write(w), NEW k \in Pubkeys, Spends(w, k)'
    PROVE  /\ writers'[w].event = writers[w].event /\ writers[w].event \in Events
           /\ \/ Spends(w, k)
              \/ /\ Gate(w) /\ Paid(writers[w].event) /\ UNCHANGED <<pots, member>>
                 /\ BilledPubkey(writers[w].event) = k /\ Kind(writers[w].event) # "vanish"
<1>0. PICK e : e = writers[w].event
  OBVIOUS
<1>1. CASE Passed(w)'
  <2>1. UNCHANGED <<pots, member>> /\ writers'[w].event = e
    BY <1>0, <1>1, Passing
  <2>2. BilledPubkey(e)' = k
    BY <1>1, <2>1, PassedSpends
  <2>3. BilledPubkey(e) = k
    BY <2>1, <2>2 DEF BilledPubkey, Known, Author, Kind
  <2>4. QED
    BY <1>0, <1>1, <2>1, <2>3, Passing DEF Spends
<1>2. CASE ~Passed(w)'
  <2>1. writers'[w].at = "bill" /\ writers'[w].row.pubkey = k
    BY <1>2 DEF Spends
  <2>2. ChoosePot(w)
    <3> USE DEF Handled, Types, WriteInHand
    <3>1. CASE \E f \in Events : Receive(w, f)
      BY <2>1, <3>1 DEF Receive, NoWrite
    <3>2. CASE ~ChoosePot(w) /\ ~ \E f \in Events : Receive(w, f)
      <4>1. Done(w) \/ \E place \in Places \ {"bill"} : At(w, place)
        BY <3>2 DEF Write, SeekTarget, EraseTarget, RefundTarget, Gate, CheckDeleted, StoreRegular,
               StoreReplaceable, Bill, Reconcile, Vanish, Places
      <4>2. QED
        BY <2>1, <4>1 DEF Done, At, NoWrite
    <3>3. QED
      BY <3>1, <3>2
  <2>3. /\ writers'[w] = [at |-> "bill", event |-> e,
                          row |-> [pubkey |-> BilledPubkey(e), group |-> Payer(BilledPubkey(e), Size(e))]]
        /\ writers[w].at = "charge" /\ Kind(e) # "vanish"
    BY <1>0, <2>2 DEF ChoosePot, Handled, Types
  <2>4. e \in Events
    BY <1>0, <2>3 DEF Handled, Types, Shape, Fits, WriteInHand
  <2>5. QED
    BY <1>0, <2>1, <2>3, <2>4 DEF Spends, Passed
<1>3. QED
  BY <1>1, <1>2

\* What is somebody's to pay stays so, while its writer rests.
LEMMA RestingSpends ==
    ASSUME Handled, CountInv, OvershootInv, [Next]_vars, NEW k \in Pubkeys, Single(k)',
           pots[k].exists, pots'[k].exists,
           NEW w \in Writers, writers'[w] = writers[w], Spends(w, k)'
    PROVE  Spends(w, k)
<1>0. PICK e : e = writers[w].event
  OBVIOUS
<1>1. CASE ~Passed(w)'
  BY <1>1 DEF Spends
<1>2. CASE Passed(w)'
  <2>1. Passed(w) /\ e \in Events
    BY <1>0, <1>2 DEF Passed, Handled, Types, Shape, Fits, WriteInHand, Kind
  <2>2. BilledPubkey(e)' = k
    BY <1>0, <1>2, PassedSpends
  <2>3. Known(k) /\ Known(k)'
    BY DEF Known
  <2>4. CASE Author(e) = k
    BY <1>0, <2>1, <2>3, <2>4 DEF BilledPubkey, Spends
  <2>5. CASE Author(e) # k
    <3>1. Kind(e) = "message" /\ ~Known(Author(e))' /\ EventOf[e].to = k
      BY <2>2, <2>5 DEF BilledPubkey, Sponsored, Author, Kind
    <3>2. e \notin raced'
      BY <3>1 DEF Single
    <3>3. ~Known(Author(e))
      BY <1>0, <2>1, <3>1, <3>2, KnownStays
    <3>4. BilledPubkey(e) = k
      BY <2>3, <3>1, <3>3 DEF BilledPubkey, Sponsored
    <3>5. QED
      BY <1>0, <2>1, <3>4 DEF Spends
  <2>6. QED
    BY <2>4, <2>5
<1>3. QED
  BY <1>1, <1>2

\* Without an account nothing is let in that would be for it to pay.
LEMMA UnreadyStays ==
    ASSUME Handled, CountInv, OvershootInv, [Next]_vars, NEW k \in Pubkeys, Single(k)',
           ~pots[k].exists, ~pots'[k].exists
    PROVE  Unready(k)'
<1>0. /\ Single(k) /\ member[k] = NoGroup /\ member'[k] = NoGroup /\ Unready(k)
      /\ ~Known(k) /\ ~Known(k)'
  BY SinglesWere DEF OvershootInv, Modest, Known
<1> SUFFICES ASSUME NEW w \in Writers, NEW e, e = writers'[w].event
             PROVE  /\ Spends(w, k)' => Kind(e) = "message" /\ Author(e) = k
                    /\ Passed(w)' /\ Kind(e) = "message" /\ EventOf[e].to = k => Known(Author(e))'
  BY DEF Unready, Kind, Author, Known
<1>1. CASE writers'[w] = writers[w]
  <2>1. ASSUME Spends(w, k)' PROVE Kind(e) = "message" /\ Author(e) = k
    <3>1. CASE Spends(w, k)
      BY <1>0, <1>1, <3>1 DEF Unready
    <3>2. CASE ~Spends(w, k)
      <4>1. Passed(w)' /\ Passed(w)
        BY <1>1, <2>1, <3>2 DEF Spends, Passed, Kind
      <4>2. BilledPubkey(e)' = k
        BY <2>1, <4>1, PassedSpends
      <4>3. Author(e) = k
        BY <1>0, <4>2 DEF BilledPubkey, Author
      <4>4. BilledPubkey(e) # k
        BY <1>1, <3>2, <4>1 DEF Spends
      <4>5. QED
        BY <4>3, <4>4 DEF BilledPubkey, Sponsored
    <3>3. QED
      BY <3>1, <3>2
  <2>2. ASSUME Passed(w)', Kind(e) = "message", EventOf[e].to = k PROVE Known(Author(e))'
    <3>1. Passed(w) /\ e \in Events
      BY <1>1, <2>2 DEF Passed, Handled, Types, Shape, Fits, WriteInHand, Kind
    <3>2. Known(Author(e))
      BY <1>0, <1>1, <2>2, <3>1 DEF Unready
    <3>3. e \notin raced'
      BY <2>2 DEF Single
    <3>4. QED
      BY <2>2, <3>1, <3>2, <3>3, KnownStays
  <2>3. QED
    BY <2>1, <2>2
<1>2. CASE Restart
  BY <1>2 DEF Restart, NoWrite, Spends, Passed
<1>3. CASE Write(w)
  <2>1. ASSUME Spends(w, k)' PROVE Kind(e) = "message" /\ Author(e) = k
    <3>1. CASE Spends(w, k)
      BY <1>0, <1>3, <2>1, <3>1, Spending DEF Unready
    <3>2. CASE ~Spends(w, k)
      <4>1. Paid(e) /\ BilledPubkey(e) = k /\ Kind(e) # "vanish"
        BY <1>3, <2>1, <3>2, Spending
      <4>2. QED
        BY <1>0, <4>1 DEF Paid
    <3>3. QED
      BY <3>1, <3>2
  <2>2. ASSUME Passed(w)', Kind(e) = "message", EventOf[e].to = k PROVE Known(Author(e))'
    <3>1. UNCHANGED <<pots, member>> /\ writers[w].event = e /\ (Passed(w) \/ Paid(e))
      BY <1>3, <2>2, Passing
    <3>2. Known(Author(e))
      <4>1. CASE Passed(w)
        BY <1>0, <2>2, <3>1, <4>1 DEF Unready
      <4>2. CASE Paid(e)
        BY <1>0, <2>2, <4>2 DEF Paid, BilledPubkey
      <4>3. QED
        BY <3>1, <4>1, <4>2
    <3>3. QED
      BY <3>1, <3>2 DEF Known
  <2>3. QED
    BY <2>1, <2>2
<1>4. QED
  BY <1>1, <1>2, <1>3, OneAtATime

\* A debt is at most the largest event.
LEMMA DebtFacts ==
    ASSUME Handled, NEW k
    PROVE  /\ \A w \in Writers : Debts(k)[w] \in Nat /\ Debts(k)[w] <= MaxSize
           /\ SumFunctionOnSet(Debts(k), Writers) \in Nat
<1>1. ASSUME NEW w \in Writers PROVE Debts(k)[w] \in Nat /\ Debts(k)[w] <= MaxSize
  <2>1. Spends(w, k) => writers[w].event \in Events
    BY DEF Spends, Passed, Handled, Types, Shape, Fits, WriteInHand
  <2>2. QED
    BY <2>1, SizeFacts, UsageAssumption DEF Debts
<1>2. QED
  BY <1>1, SumType, UsageAssumption

\* Writers and their debts, but for one.
LEMMA Others ==
    ASSUME NEW f, NEW w \in Writers, \A u \in Writers : f[u] \in Nat /\ f[u] <= MaxSize
    PROVE  /\ SumFunctionOnSet(f, Writers) = f[w] + SumFunctionOnSet(f, Writers \ {w})
           /\ SumFunctionOnSet(f, Writers \ {w}) \in Nat
           /\ SumFunctionOnSet(f, Writers \ {w}) <= (Cardinality(Writers) - 1) * MaxSize
<1>1. /\ IsFiniteSet(Writers) /\ IsFiniteSet(Writers \ {w}) /\ MaxSize \in Nat
      /\ Cardinality(Writers \ {w}) = Cardinality(Writers) - 1
  BY UsageAssumption, FS_RemoveElement
<1>2. \A u \in Writers : f[u] \in Int
  OBVIOUS
<1>3. SumFunctionOnSet(f, Writers) = f[w] + SumFunctionOnSet(f, Writers \ {w})
  BY <1>1, <1>2, SumTakes
<1>4. \A u \in Writers \ {w} : f[u] \in Nat /\ f[u] \in Int /\ f[u] <= MaxSize
  OBVIOUS
<1>5. SumFunctionOnSet(f, Writers \ {w}) \in Nat
  BY <1>1, <1>4, SumType
<1>6. SumFunctionOnSet(f, Writers \ {w}) <= Cardinality(Writers \ {w}) * MaxSize
  BY <1>1, <1>4, SumBounded
<1>7. QED
  BY <1>1, <1>3, <1>5, <1>6

\* The bound is a natural number.
LEMMA Allowed ==
    ASSUME NEW k \in Pubkeys
    PROVE  /\ Quota[k] \in Nat /\ (Cardinality(Writers) - 1) * MaxSize \in Nat
           /\ Quota[k] + (Cardinality(Writers) - 1) * MaxSize \in Nat
<1>1. Cardinality(Writers) \in Nat /\ Cardinality(Writers) # 0
  BY UsageAssumption, FS_CardinalityType, FS_EmptySet
<1>2. PICK c, m : c = Cardinality(Writers) - 1 /\ m = MaxSize
  OBVIOUS
<1>3. c \in Nat /\ m \in Nat
  BY <1>1, <1>2, UsageAssumption
<1>4. c * m \in Nat
  BY <1>3
<1>5. Quota[k] \in Nat
  BY UsageAssumption DEF Pots
<1>6. QED
  BY <1>2, <1>4, <1>5

\* A new account has used nothing, and nothing is in hand for it to pay.
LEMMA WithinBegins ==
    ASSUME Handled, CountInv, OvershootInv, [Next]_vars, NEW k \in Pubkeys, Single(k)',
           OpenAccount(k), ~pots[k].exists
    PROVE  Within(k)'
<1>0. /\ Single(k) /\ member[k] = NoGroup /\ k \in Pots /\ Unready(k) /\ ~Known(k)
      /\ UNCHANGED writers
  BY SinglesWere DEF OvershootInv, Modest, Known, OpenAccount
<1>1. pots'[k].exists /\ pots'[k].used = 0 /\ Known(k)'
  BY <1>0 DEF OpenAccount, FreshPot, CountInv, Funds, Known
<1>2. ASSUME NEW w \in Writers, Spends(w, k)' PROVE FALSE
  <2>0. PICK e : e = writers[w].event /\ e = writers'[w].event
    BY <1>0
  <2>1. e \in Events
    BY <1>0, <1>2, <2>0 DEF Spends, Passed, Handled, Types, Shape, Fits, WriteInHand
  <2>2. ASSUME Kind(e) = "message", Author(e) = k PROVE FALSE
    <3>1. e \notin raced'
      BY <2>2 DEF Single
    <3>2. QED
      BY <1>0, <1>1, <2>0, <2>1, <2>2, <3>1, KnownStays
  <2>3. ~Spends(w, k)
    BY <1>0, <2>0, <2>2 DEF Unready
  <2>4. Passed(w) /\ Passed(w)'
    BY <1>0, <1>2, <2>3 DEF Spends, Passed, Kind
  <2>5. BilledPubkey(e)' = k /\ BilledPubkey(e) # k
    BY <1>2, <2>0, <2>3, <2>4, PassedSpends DEF Spends
  <2>6. CASE Author(e) = k
    <3>1. Kind(e) = "message"
      BY <2>5, <2>6 DEF BilledPubkey, Sponsored
    <3>2. QED
      BY <2>2, <2>6, <3>1
  <2>7. CASE Author(e) # k
    <3>1. Kind(e) = "message" /\ ~Known(Author(e))' /\ EventOf[e].to = k
      BY <2>5, <2>7 DEF BilledPubkey, Sponsored, Author, Kind
    <3>2. e \notin raced' /\ Known(Author(e))
      BY <1>0, <2>0, <2>4, <3>1 DEF Single, Unready
    <3>3. QED
      BY <2>0, <2>1, <3>1, <3>2, KnownStays
  <2>8. QED
    BY <2>6, <2>7
<1>3. PICK g : g = Debts(k)'
  OBVIOUS
<1>4. \A w \in Writers : g[w] = 0
  BY <1>2, <1>3 DEF Debts
<1>5. SumFunctionOnSet(g, Writers) = 0
  BY <1>4, SumOfZeros, UsageAssumption
<1>6. QED
  BY <1>1, <1>3, <1>5, Allowed DEF Within

\* The gate lets an event through that fits; from there on what is used and what is in
\* hand only shrink together.
LEMMA WithinStays ==
    ASSUME Handled, Handled', CountInv, OvershootInv, [Next]_vars, NEW k \in Pubkeys, Single(k)',
           pots[k].exists, pots'[k].exists, pots'[k].used \in Nat
    PROVE  Within(k)'
<1>0. /\ Single(k) /\ member[k] = NoGroup /\ k \in Pots /\ Within(k) /\ pots[k].used \in Nat
      /\ IsFiniteSet(Writers) /\ MaxSize \in Nat /\ k \notin drifted'
  BY SinglesWere, PotFacts, UsageAssumption DEF OvershootInv, Modest, CountInv, Single
<1>1. PICK f, g : f = Debts(k) /\ g = Debts(k)'
  OBVIOUS
<1>2. \A w \in Writers : f[w] \in Nat /\ f[w] <= MaxSize
  BY <1>1, DebtFacts
<1>3. ASSUME NEW w \in Writers
      PROVE  /\ g[w] = IF Spends(w, k)' THEN Size(writers'[w].event) ELSE 0
             /\ g[w] \in Nat /\ g[w] <= MaxSize
  <2>1. g[w] = IF Spends(w, k)' THEN Size(writers'[w].event) ELSE 0
    BY <1>1 DEF Debts, Size
  <2>2. Spends(w, k)' => writers'[w].event \in Events
    BY DEF Spends, Passed, Handled, Types, Shape, Fits, WriteInHand
  <2>3. QED
    BY <1>0, <2>1, <2>2, SizeFacts
<1>4. PICK sf, sg : sf = SumFunctionOnSet(f, Writers) /\ sg = SumFunctionOnSet(g, Writers)
  OBVIOUS
<1>5. sf \in Nat /\ sg \in Nat
  BY <1>0, <1>2, <1>3, <1>4, SumType
<1>6. PICK b : b = Quota[k] + (Cardinality(Writers) - 1) * MaxSize /\ b \in Nat
  BY Allowed
<1>7. pots[k].used + sf <= b
  BY <1>0, <1>1, <1>4, <1>6 DEF Within
<1> SUFFICES pots'[k].used + sg <= b
  BY <1>1, <1>4, <1>6 DEF Within
<1>8. ASSUME \A u \in Writers : g[u] <= f[u], pots'[k].used <= pots[k].used
      PROVE  pots'[k].used + sg <= b
  <2>1. sg <= sf
    <3>1. \A u \in Writers : g[u] \in Int /\ f[u] \in Int /\ g[u] <= f[u]
      BY <1>2, <1>3, <1>8
    <3>2. QED
      BY <1>0, <1>4, <3>1, SumLess
  <2>2. QED
    BY <1>0, <1>5, <1>6, <1>7, <1>8, <2>1
<1>9. CASE Restart
  <2>1. \A u \in Writers : g[u] = 0
    BY <1>3, <1>9 DEF Restart, NoWrite, Spends, Passed
  <2>2. pots' = pots
    BY <1>9 DEF Restart, tables
  <2>3. QED
    BY <1>0, <1>2, <1>8, <2>1, <2>2
<1>10. ASSUME ~Restart, NEW w \in Writers, Spends(w, k)', ~Spends(w, k) PROVE pots'[k].used + sg <= b
  <2>1. Write(w)
    BY <1>10, RestingSpends, OneAtATime
  <2>2. /\ writers'[w].event = writers[w].event /\ writers[w].event \in Events
        /\ Paid(writers[w].event) /\ UNCHANGED <<pots, member>>
        /\ BilledPubkey(writers[w].event) = k /\ Kind(writers[w].event) # "vanish"
    BY <1>10, <2>1, Spending
  <2>3. pots'[k].used + Size(writers[w].event) <= Quota[k]
    BY <1>0, <2>2 DEF Paid, CanWrite, Affords
  <2>4. g[w] = Size(writers[w].event)
    BY <1>3, <1>10, <2>2
  <2>5. PICK rest, most : /\ rest = SumFunctionOnSet(g, Writers \ {w})
                          /\ most = (Cardinality(Writers) - 1) * MaxSize
    OBVIOUS
  <2>6. sg = g[w] + rest /\ rest \in Nat /\ rest <= most
    BY <1>3, <1>4, <2>5, Others
  <2>7. Quota[k] \in Nat /\ most \in Nat /\ b = Quota[k] + most /\ g[w] \in Nat
    BY <1>3, <1>6, <2>5, Allowed
  <2>8. QED
    BY <1>0, <2>3, <2>4, <2>6, <2>7
<1>11. ASSUME ~Restart, \A u \in Writers : Spends(u, k)' => Spends(u, k)
       PROVE  pots'[k].used + sg <= b
  <2>1. ASSUME NEW u \in Writers PROVE g[u] <= f[u]
    <3>1. CASE ~Spends(u, k)'
      BY <1>2, <1>3, <3>1
    <3>2. CASE Spends(u, k)'
      <4>1. writers'[u].event = writers[u].event
        BY <1>11, <3>2, Spending, OneAtATime
      <4>2. f[u] = Size(writers[u].event) /\ g[u] = Size(writers[u].event)
        BY <1>1, <1>3, <1>11, <3>2, <4>1 DEF Debts
      <4>3. QED
        BY <1>2, <4>2
    <3>3. QED
      BY <3>1, <3>2
  <2>2. CASE pots'[k].used <= pots[k].used
    BY <1>8, <2>1, <2>2
  <2>3. ASSUME NEW w \in Writers, Bill(w), writers[w].row.pubkey = k,
               pots'[k].used = pots[k].used + Size(writers[w].event)
        PROVE  pots'[k].used + sg <= b
    <3>1. f[w] = Size(writers[w].event)
      BY <1>1, <2>3 DEF Debts, Spends, Bill
    <3>2. g[w] = 0
      <4>1. writers'[w].at \in {"reconcile", "idle"}
        BY <2>3 DEF Bill, At, Done, NoWrite, Handled, Types, WriteInHand
      <4>2. QED
        BY <1>3, <4>1 DEF Spends, Passed
    <3>3. PICK rf, rg : /\ rf = SumFunctionOnSet(f, Writers \ {w})
                        /\ rg = SumFunctionOnSet(g, Writers \ {w})
      OBVIOUS
    <3>4. sf = f[w] + rf /\ sg = g[w] + rg /\ rf \in Nat /\ rg \in Nat
      BY <1>2, <1>3, <1>4, <3>3, Others
    <3>5. rg <= rf
      <4>1. IsFiniteSet(Writers \ {w})
        BY <1>0, FS_RemoveElement
      <4>2. \A u \in Writers \ {w} : g[u] \in Int /\ f[u] \in Int /\ g[u] <= f[u]
        BY <1>2, <1>3, <2>1
      <4>3. QED
        BY <3>3, <4>1, <4>2, SumLess
    <3>6. QED
      BY <1>0, <1>2, <1>6, <1>7, <2>3, <3>1, <3>2, <3>4, <3>5
  <2>4. QED
    BY <1>0, <2>2, <2>3, Growing
<1>12. QED
  BY <1>9, <1>10, <1>11

LEMMA OvershootInit == Init => OvershootInv
<1> SUFFICES ASSUME Init, NEW k \in Pubkeys, Single(k)
             PROVE  member[k] = NoGroup /\ IF pots[k].exists THEN Within(k) ELSE Unready(k)
  BY DEF OvershootInv, Modest
<1>1. \A w \in Writers : ~Spends(w, k) /\ ~Passed(w)
  BY DEF Init, NoWrite, Spends, Passed
<1>2. PICK f : f = Debts(k)
  OBVIOUS
<1>3. SumFunctionOnSet(f, Writers) = 0
  <2>1. \A w \in Writers : f[w] = 0
    BY <1>1, <1>2 DEF Debts
  <2>2. QED
    BY <2>1, SumOfZeros, UsageAssumption
<1>4. pots[k].used = 0
  BY DEF Init, FreshPot, NoPot, Pots
<1>5. Within(k)
  BY <1>2, <1>3, <1>4, Allowed DEF Within
<1>6. Unready(k)
  BY <1>1 DEF Unready
<1>7. QED
  BY <1>5, <1>6 DEF Init, Single

LEMMA OvershootStep ==
    ASSUME Handled, Handled', CountInv, CountInv', OvershootInv, [Next]_vars
    PROVE  OvershootInv'
<1> SUFFICES ASSUME NEW k \in Pubkeys, Single(k)'
             PROVE  member'[k] = NoGroup /\ IF pots'[k].exists THEN Within(k)' ELSE Unready(k)'
  BY DEF OvershootInv, Modest
<1>1. member'[k] = NoGroup /\ k \in Pots
  BY SinglesWere
<1>2. CASE pots'[k].exists /\ pots[k].exists
  <2>1. pots'[k].used \in Nat
    BY <1>1 DEF CountInv, Funds, Pot
  <2>2. QED
    BY <1>1, <1>2, <2>1, WithinStays
<1>3. CASE pots'[k].exists /\ ~pots[k].exists
  BY <1>1, <1>3, SinglesStay, WithinBegins
<1>4. CASE ~pots'[k].exists
  <2>1. ~pots[k].exists
    BY <1>1, <1>4, SinglesStay DEF OpenAccount, FreshPot, CountInv, Funds
  <2>2. QED
    BY <1>1, <1>4, <2>1, UnreadyStays
<1>5. QED
  BY <1>2, <1>3, <1>4

\* However many goroutines write, and whatever is refunded, reconciled and forgotten
\* meanwhile, an account on its own goes past its quota (policy.go's gate, AddUsage's
\* bill) by at most the largest event for each other goroutine.
THEOREM OvershootStaysBounded == Spec => []OvershootIsBounded
<1>1. Handled /\ CountInv /\ OvershootInv => OvershootIsBounded
  <2> SUFFICES ASSUME Handled, CountInv, OvershootInv, NEW k \in Pubkeys \ (drifted \cup Joiners), GroupOf[k] = NoGroup,
                      \A e \in raced : EventOf[e].to # k /\ (Kind(e) = "message" => Author(e) # k)
               PROVE  pots[k].used <= Quota[k] + (Cardinality(Writers) - 1) * MaxSize
    BY DEF OvershootIsBounded
  <2>0. k \in Pots /\ k \in Pots \ drifted
    BY DEF Pots
  <2>1. PICK b : b = Quota[k] + (Cardinality(Writers) - 1) * MaxSize /\ b \in Nat
    BY Allowed
  <2>2. CASE pots[k].exists
    <3>1. Within(k)
      BY <2>2 DEF OvershootInv, Modest, Single
    <3>2. pots[k].used \in Nat /\ SumFunctionOnSet(Debts(k), Writers) \in Nat
      BY <2>0, PotFacts, DebtFacts DEF CountInv
    <3>3. QED
      BY <2>1, <3>1, <3>2 DEF Within
  <2>3. CASE ~pots[k].exists
    <3>1. Bills(rows, k) = {} /\ pots[k].used = Billed(rows, k)
      BY <2>0, <2>3 DEF CountInv, Exact
    <3>2. Billed(rows, k) = 0
      BY <3>1, BilledType, SumOfNone DEF CountInv, Funds
    <3>3. QED
      BY <2>1, <3>1, <3>2
  <2>4. QED
    BY <2>2, <2>3
<1>2. Init => OvershootInv
  BY OvershootInit
<1>3. (Handled /\ CountInv) /\ (Handled /\ CountInv)' /\ OvershootInv /\ [Next]_vars => OvershootInv'
  BY OvershootStep
<1>4. QED
  BY <1>1, <1>2, <1>3, Counting, PTL DEF Spec

----------------------------------------------------------------------------
(* The sweep of what expires, over the same table: `stored` is the event     *)
(* table here and there.  Whatever number of publications and restarts, what *)
(* the manager may have lost sight of is what `missed` says.                 *)
(* ExpiringIsKnown is inductive beside the types: an entry leaves the heap   *)
(* into the hand of the sweep, into `missed`, or after its event.            *)

SweepPlaces == {"idle", "scanned", "check", "fetch", "drop"}

\* The initial state has its types.
LEMMA SweepInitTypes == SweepInit => SweepTypeOK
<1> SUFFICES ASSUME SweepInit PROVE SweepTypeOK
  OBVIOUS
<1>1. clock \in 1 .. Horizon /\ boots \in 0 .. Boots
  BY ExpirationAssumption DEF SweepInit
<1>2. sweep \in [at: SweepPlaces, now: Nat, event: Events]
  BY DEF SweepInit, SweepPlaces
<1>3. QED
  BY <1>1, <1>2 DEF SweepInit, SweepTypeOK, SweepPlaces

\* A publication keeps them.
LEMMA SweepPublishTypes ==
    ASSUME SweepTypeOK, NEW e \in Events, Publish(e)
    PROVE  SweepTypeOK'
<1>1. CASE Admit(e)
  BY <1>1 DEF SweepTypeOK, Admit
<1>2. CASE Store(e)
  BY <1>2 DEF SweepTypeOK, Store
<1>3. CASE Track(e)
  <2>1. heap' \in [Events -> Nat]
    BY <1>3 DEF SweepTypeOK, Track, Pushed
  <2>2. QED
    BY <1>3, <2>1 DEF SweepTypeOK, Track
<1>4. QED
  BY <1>1, <1>2, <1>3 DEF Publish

\* A deletion, or an eviction, keeps them.
LEMMA SweepDeleteTypes ==
    ASSUME SweepTypeOK, NEW e \in Events, Delete(e) \/ Evict(e)
    PROVE  SweepTypeOK'
<1>1. CASE Find(e)
  BY <1>1 DEF SweepTypeOK, Find
<1>2. CASE EraseFound(e)
  BY <1>2 DEF SweepTypeOK, EraseFound, Without
<1>3. CASE EraseFails(e)
  BY <1>3 DEF SweepTypeOK, EraseFails
<1>4. CASE Untrack(e)
  <2>1. heap' \in [Events -> Nat]
    BY <1>4 DEF SweepTypeOK, Untrack
  <2>2. missed' \subseteq stored'
    BY <1>4 DEF SweepTypeOK, Untrack
  <2>3. QED
    BY <1>4, <2>1, <2>2 DEF SweepTypeOK, Untrack
<1>5. CASE Record(e)
  BY <1>5 DEF SweepTypeOK, Record
<1>6. CASE Evict(e)
  BY <1>6 DEF SweepTypeOK, Evict, Without, requests
<1>7. QED
  BY <1>1, <1>2, <1>3, <1>4, <1>5, <1>6 DEF Delete

\* The manager keeps them.
LEMMA SweepManagerTypes ==
    ASSUME SweepTypeOK, Work \/ ScanFails \/ SweepFails
    PROVE  SweepTypeOK'
<1>1. ASSUME NEW found, found \subseteq stored, ScanOf(found)
      PROVE  SweepTypeOK'
  <2>1. heap' \in [Events -> Nat]
    BY <1>1 DEF SweepTypeOK, ScanOf, Scanned
  <2>2. sweep' \in [at: SweepPlaces, now: Nat, event: Events]
    BY <1>1 DEF SweepTypeOK, ScanOf, SweepPlaces
  <2>3. missed' \subseteq stored'
    BY <1>1 DEF SweepTypeOK, ScanOf
  <2>4. QED
    BY <1>1, <2>1, <2>2, <2>3 DEF SweepTypeOK, ScanOf, requests, SweepPlaces
<1>2. CASE Scan
  BY <1>1, <1>2 DEF Scan, Found
<1>3. CASE ScanFails
  BY <1>1, <1>3 DEF ScanFails
<1>4. CASE Begin
  <2>1. clock \in Nat
    BY DEF SweepTypeOK
  <2>2. sweep' \in [at: SweepPlaces, now: Nat, event: Events]
    BY <1>4, <2>1 DEF SweepTypeOK, Begin, SweepPlaces
  <2>3. QED
    BY <1>4, <2>2 DEF SweepTypeOK, Begin, requests, SweepPlaces
<1>5. ASSUME NEW e \in Events, Pop(e)
      PROVE  SweepTypeOK'
  <2>1. heap[e] \in Nat /\ heap[e] > 0
    BY <1>5 DEF SweepTypeOK, Pop, Due
  <2>2. heap' \in [Events -> Nat]
    BY <1>5, <2>1 DEF SweepTypeOK, Pop
  <2>3. QED
    BY <1>5, <2>2 DEF SweepTypeOK, Pop, requests
<1>6. CASE Rest
  BY <1>6 DEF SweepTypeOK, Rest, Resting, requests
<1>7. CASE Fetch
  BY <1>7 DEF SweepTypeOK, Fetch, requests
<1>8. CASE Drop
  BY <1>8 DEF SweepTypeOK, Drop, Without, requests
<1>9. CASE SweepFails
  BY <1>9 DEF SweepTypeOK, SweepFails, Lost, requests
<1>10. QED
  BY <1>2, <1>3, <1>4, <1>5, <1>6, <1>7, <1>8, <1>9 DEF Work

\* Every step keeps them.
LEMMA SweepStepTypes ==
    ASSUME SweepTypeOK, [SweepNext]_sweepVars
    PROVE  SweepTypeOK'
<1>1. CASE Tick
  BY <1>1, ExpirationAssumption DEF SweepTypeOK, Tick, requests
<1>2. CASE RestartSweep
  <2>1. boots' \in 0 .. Boots
    BY <1>2, ExpirationAssumption DEF SweepTypeOK, RestartSweep
  <2>2. sweep' \in [at: SweepPlaces, now: Nat, event: Events]
    BY <1>2 DEF SweepTypeOK, RestartSweep, Resting, SweepPlaces
  <2>3. QED
    BY <1>2, <2>1, <2>2 DEF SweepTypeOK, RestartSweep, SweepPlaces
<1>3. CASE UNCHANGED sweepVars
  BY <1>3 DEF SweepTypeOK, sweepVars
<1>4. QED
  BY <1>1, <1>2, <1>3, SweepPublishTypes, SweepDeleteTypes, SweepManagerTypes DEF SweepNext

\* Whatever the events, their ends and the manager's luck, every value the relay keeps
\* about them has its type; what is missed is still stored.
THEOREM SweepTypes == SweepSpec => []SweepTypeOK
<1>1. SweepInit => SweepTypeOK
  BY SweepInitTypes
<1>2. SweepTypeOK /\ [SweepNext]_sweepVars => SweepTypeOK'
  BY SweepStepTypes
<1>3. QED
  BY <1>1, <1>2, PTL DEF SweepSpec

----------------------------------------------------------------------------
\* A publication hides nothing: stored is not yet tracked, but about to be.
LEMMA SweepPublishKnows ==
    ASSUME SweepTypeOK, ExpiringIsKnown, NEW e \in Events, Publish(e)
    PROVE  ExpiringIsKnown'
<1> SUFFICES ASSUME NEW f \in Events, f \in stored', f \in Expirable, f \notin missed'
             PROVE  Watched(f)'
  BY DEF ExpiringIsKnown, Expirable
<1>1. CASE Admit(e)
  BY <1>1 DEF SweepTypeOK, ExpiringIsKnown, Watched, Admit, Expirable
<1>2. CASE Store(e)
  <2>1. CASE f \in stored
    BY <1>2, <2>1
    DEF SweepTypeOK, ExpiringIsKnown, Watched, Store, Expirable
  <2>2. CASE f \notin stored
    BY <1>2, <2>2 DEF SweepTypeOK, Watched, Store
  <2>3. QED
    BY <2>1, <2>2
<1>3. CASE Track(e)
  <2>1. CASE f = e
    BY <1>3, <2>1 DEF SweepTypeOK, Watched, Track, Pushed
  <2>2. CASE f # e
    BY <1>3, <2>2
    DEF SweepTypeOK, ExpiringIsKnown, Watched, Track, Pushed
  <2>3. QED
    BY <2>1, <2>2
<1>4. QED
  BY <1>1, <1>2, <1>3 DEF Publish

\* Deletions take an entry after its event, and if it is another's, say so.
LEMMA SweepDeleteKnows ==
    ASSUME SweepTypeOK, ExpiringIsKnown, NEW e \in Events,
           Delete(e) \/ Evict(e)
    PROVE  ExpiringIsKnown'
<1> SUFFICES ASSUME NEW f \in Events, f \in stored', f \in Expirable, f \notin missed'
             PROVE  Watched(f)'
  BY DEF ExpiringIsKnown, Expirable
<1>1. CASE Find(e)
  BY <1>1 DEF SweepTypeOK, ExpiringIsKnown, Watched, Find
<1>2. CASE EraseFound(e)
  BY <1>2 DEF SweepTypeOK, ExpiringIsKnown, Watched, EraseFound, Without
<1>3. CASE EraseFails(e)
  BY <1>3 DEF SweepTypeOK, ExpiringIsKnown, Watched, EraseFails
<1>4. CASE Untrack(e)
  <2>1. f \notin missed /\ f \in stored
    BY <1>4 DEF Untrack
  <2>2. Watched(f)
    BY <2>1 DEF ExpiringIsKnown
  <2>3. CASE f = e
    BY <1>4, <2>1, <2>2, <2>3 DEF SweepTypeOK, Watched, Untrack
  <2>4. CASE f # e
    BY <1>4, <2>2, <2>4 DEF SweepTypeOK, Watched, Untrack
  <2>5. QED
    BY <2>3, <2>4
<1>5. CASE Record(e)
  BY <1>5 DEF SweepTypeOK, ExpiringIsKnown, Watched, Record
<1>6. CASE Evict(e)
  BY <1>6
  DEF SweepTypeOK, ExpiringIsKnown, Watched, Evict, Without,
      requests
<1>7. QED
  BY <1>1, <1>2, <1>3, <1>4, <1>5, <1>6 DEF Delete

\* The manager's own entries go from the heap to its hand, and on with the event.
LEMMA SweepManagerKnows ==
    ASSUME SweepTypeOK, ExpiringIsKnown,
           Work \/ ScanFails \/ SweepFails
    PROVE  ExpiringIsKnown'
<1> SUFFICES ASSUME NEW f \in Events, f \in stored', f \in Expirable, f \notin missed'
             PROVE  Watched(f)'
  BY DEF ExpiringIsKnown, Expirable
<1>1. ASSUME NEW found, found \subseteq stored, ScanOf(found)
      PROVE  Watched(f)'
  <2>1. f \in stored /\ (f \in found \/ heap[f] > 0)
    BY <1>1 DEF SweepTypeOK, ScanOf
  <2>2. heap'[f] > 0
    BY <1>1, <2>1 DEF SweepTypeOK, ScanOf, Scanned
  <2>3. QED
    BY <2>2 DEF Watched
<1>2. CASE Scan
  BY <1>1, <1>2 DEF Scan, Found
<1>3. CASE ScanFails
  BY <1>1, <1>3 DEF ScanFails
<1>4. CASE Begin
  BY <1>4 DEF SweepTypeOK, ExpiringIsKnown, Watched, Begin, requests
<1>5. ASSUME NEW e \in Events, Pop(e)
      PROVE  Watched(f)'
  <2>1. Watched(f) /\ sweep.at = "check"
    BY <1>5 DEF ExpiringIsKnown, Pop
  <2>2. CASE f = e
    BY <1>5, <2>2 DEF SweepTypeOK, Watched, Pop
  <2>3. CASE f # e
    BY <1>5, <2>1, <2>3 DEF SweepTypeOK, Watched, Pop, requests
  <2>4. QED
    BY <2>2, <2>3
<1>6. CASE Rest
  BY <1>6
  DEF SweepTypeOK, ExpiringIsKnown, Watched, Rest, Resting,
      requests
<1>7. CASE Fetch
  BY <1>7 DEF SweepTypeOK, ExpiringIsKnown, Watched, Fetch, requests
<1>8. CASE Drop
  BY <1>8
  DEF SweepTypeOK, ExpiringIsKnown, Watched, Drop, Without,
      requests
<1>9. CASE SweepFails
  <2>1. f \in stored /\ f \notin missed
    BY <1>9 DEF SweepFails, Lost
  <2>2. Watched(f)
    BY <2>1 DEF ExpiringIsKnown
  <2>3. CASE f = sweep.event
    <3>1. heap[f] # 0
      BY <1>9, <2>1, <2>3 DEF SweepFails, Lost
    <3>2. QED
      BY <1>9, <3>1 DEF SweepTypeOK, Watched, SweepFails
  <2>4. CASE f # sweep.event
    BY <1>9, <2>2, <2>4 DEF SweepTypeOK, Watched, SweepFails, requests
  <2>5. QED
    BY <2>3, <2>4
<1>10. QED
  BY <1>2, <1>3, <1>4, <1>5, <1>6, <1>7, <1>8, <1>9 DEF Work

LEMMA SweepStepKnows ==
    ASSUME SweepTypeOK, ExpiringIsKnown, [SweepNext]_sweepVars
    PROVE  ExpiringIsKnown'
<1>1. CASE Tick
  BY <1>1 DEF ExpiringIsKnown, Watched, Tick, requests
<1>2. CASE RestartSweep
  BY <1>2 DEF ExpiringIsKnown, Watched, RestartSweep
<1>3. CASE UNCHANGED sweepVars
  BY <1>3 DEF ExpiringIsKnown, Watched, sweepVars
<1>4. QED
  BY <1>1, <1>2, <1>3, SweepPublishKnows, SweepDeleteKnows, SweepManagerKnows DEF SweepNext

\* Any number of events, copies and restarts: outside what the code gives up (`missed`),
\* every stored event that expires is in the heap, about to enter it, in the sweep's hand,
\* or still to be scanned.
THEOREM NothingIsOverlooked == SweepSpec => []ExpiringIsKnown
<1>1. SweepInit => ExpiringIsKnown
  BY DEF SweepInit, ExpiringIsKnown
<1>2. SweepTypeOK /\ ExpiringIsKnown /\ [SweepNext]_sweepVars => ExpiringIsKnown'
  BY SweepStepKnows
<1>3. SweepSpec => []SweepTypeOK
  BY SweepTypes
<1>4. QED
  BY <1>1, <1>2, <1>3, PTL DEF SweepSpec
===============================================================================
