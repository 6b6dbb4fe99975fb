---------------------------- MODULE BillingProofs ----------------------------
(***************************************************************************)
(* Theorems about Billing, for any number of buyers, groups, names,        *)
(* invoices and requests, and any backend and clock.                       *)
(***************************************************************************)
EXTENDS Billing, Sums

(* The inductive invariant.  TypeOK alone is not inductive: what a worker
   grants depends on the row it has read, and what a request records on the
   steps it has been through.                                              *)

\* A request past its quote has a buyer; past its invoice, a fresh hash of its
\* own and a group that exists under an id.
RequestInv ==
    /\ \A r \in Requests :
          /\ requests[r].at # "idle" => requests[r].pubkey \in Pubkeys
          /\ requests[r].at = "invoiced" =>
                /\ requests[r].hash \in Hashes
                /\ requests[r].meta \in RecordedMeta
                /\ payments[requests[r].hash].status = "none"
                /\ \E b \in Backends : requests[r].hash \in issued[b]
    /\ \A r, s \in Requests :
          /\ requests[r].at = "invoiced" /\ requests[s].at = "invoiced"
          /\ requests[r].hash = requests[s].hash
          => r = s

\* A recorded invoice was issued and has a buyer; a paid one was settled.
PaymentInv ==
    /\ \A h \in Hashes : payments[h].status # "none" =>
          /\ payments[h].pubkey \in Pubkeys
          /\ \E b \in Backends : h \in issued[b]
    /\ PaidIsSettled

\* A worker that is asking holds a recorded invoice, one about to grant a
\* settled one.
WorkerInv ==
    \A w \in Settlers :
        /\ workers[w].at # "idle" => /\ workers[w].hash \in Hashes
                                     /\ payments[workers[w].hash].status # "none"
        /\ workers[w].at = "grant" => workers[w].hash \in settled

\* The poller's list holds recorded invoices.
PollInv == \A h \in poll.todo : payments[h].status # "none"

\* A pot that does not exist holds nothing, a group id nobody owns has no pot,
\* and a lifetime pot has no term.
PotInv ==
    /\ \A t \in Targets : ~pots[t].exists => pots[t] = NoPot
    /\ \A g \in GroupIds : owner[g] = Nobody => ~pots[g].exists
    /\ \A t \in Targets : pots[t].permanent => pots[t].expires = 0

\* An absent row holds nothing.
NameInv == \A n \in Names : names[n].pubkey = Nobody => names[n] = FreeName

IInv == TypeOK /\ RequestInv /\ PaymentInv /\ WorkerInv /\ PollInv /\ PotInv /\ NameInv

----------------------------------------------------------------------------
(* The types of what the actions write.                                    *)

LEMMA NameRowTypes ==
  ASSUME NEW row \in Nip05Name, NEW k \in Pubkeys, NEW t \in Nat, NEW d \in Nat,
         NEW f \in BOOLEAN
  PROVE  /\ FreeName \in Nip05Name
         /\ Reserved(row, k, t) \in Nip05Name
         /\ Released(row, k) \in Nip05Name
         /\ Purged(row, t) \in Nip05Name
         /\ Granted(row, d, f, t) \in Nip05Name
         /\ Saved(k, t, f) \in Nip05Name
  <1>1. FreeName \in Nip05Name /\ Saved(k, t, f) \in Nip05Name
        BY DEF Nip05Name, FreeName, Saved
  <1>2. Reserved(row, k, t) \in Nip05Name
        BY DEF Nip05Name, Reserved
  <1>3. Released(row, k) \in Nip05Name /\ Purged(row, t) \in Nip05Name
        BY <1>1 DEF Released, Purged
  <1>4. Granted(row, d, f, t) \in Nip05Name
    <2>1. Maximum(row.expires, t) + d \in Nat
          BY DEF Maximum, Nip05Name
    <2> QED BY <2>1 DEF Nip05Name, Granted
  <1> QED BY <1>1, <1>2, <1>3, <1>4

LEMMA NameRowInv ==
  ASSUME NEW row \in Nip05Name, NEW k \in Pubkeys, NEW t \in Nat, NEW d \in Nat,
         NEW f \in BOOLEAN, row.pubkey = Nobody => row = FreeName
  PROVE  /\ Reserved(row, k, t).pubkey # Nobody
         /\ Released(row, k).pubkey = Nobody => Released(row, k) = FreeName
         /\ Purged(row, t).pubkey = Nobody => Purged(row, t) = FreeName
         /\ row.pubkey # Nobody => Granted(row, d, f, t).pubkey # Nobody
         /\ Saved(k, t, f).pubkey # Nobody
  BY NobodyAssumption DEF Nip05Name, FreeName, Reserved, Released, Purged, Granted, Saved

LEMMA NullTypes ==
  /\ NoPot \in Pot /\ NoMeta \in PaymentMeta /\ NoMeta \in RecordedMeta
  /\ NoPayment \in Payment /\ IdleRequest \in CheckoutRequest /\ IdleWorker \in Settling
  BY BillingAssumption
  DEF NoPot, Pot, NoMeta, PaymentMeta, RecordedMeta, NoPayment, Payment,
      IdleRequest, CheckoutRequest, IdleWorker, Settling

LEMMA QuotedType ==
  ASSUME NEW k \in Pubkeys, NEW o \in Orders, pots \in [Targets -> Pot]
  PROVE  Quoted(k, o) \in PaymentMeta
  BY BillingAssumption DEF Quoted, Order, PaymentMeta, Pot, Targets

LEMMA BilledToType ==
  ASSUME NEW m \in PaymentMeta, NEW g \in GroupIds
  PROVE  BilledTo(m, g) \in RecordedMeta
  BY BillingAssumption DEF BilledTo, RecordedMeta, PaymentMeta

LEMMA EntitledType ==
  ASSUME NEW pot \in Pot, NEW m \in PaymentMeta, now \in Nat
  PROVE  /\ Entitled(pot, m) \in Pot
         /\ Entitled(pot, m).exists
         /\ Entitled(pot, m).quota >= pot.quota
  BY DEF Entitled, Renewed, Maximum, Pot, PaymentMeta

\* A lifetime pot has no term, before and after it is credited.
LEMMA EntitledPermanent ==
  ASSUME NEW pot \in Pot, NEW m \in PaymentMeta, pot.permanent => pot.expires = 0
  PROVE  /\ Entitled(pot, m).permanent => Entitled(pot, m).expires = 0
         /\ pot.permanent => Entitled(pot, m).permanent
  BY DEF Entitled, Renewed, Pot, PaymentMeta

LEMMA InitInv == Init => IInv
  <1> SUFFICES ASSUME Init PROVE IInv
      OBVIOUS
  <1>1. TypeOK
    <2>1. FreeName \in Nip05Name
          BY DEF FreeName, Nip05Name
    <2>2. poll \in [at: {"sleep", "settle", "purge"}, todo: SUBSET Hashes]
          BY DEF Init
    <2> QED BY <2>1, <2>2, NullTypes DEF Init, TypeOK
  <1>2. RequestInv /\ PaymentInv /\ WorkerInv /\ PollInv
        BY DEF Init, RequestInv, PaymentInv, PaidIsSettled, WorkerInv, PollInv, IdleRequest,
               IdleWorker, NoPayment
  <1>3. PotInv /\ NameInv
        BY DEF Init, PotInv, NameInv, NoPot, FreeName, Targets
  <1> QED BY <1>1, <1>2, <1>3 DEF IInv
----------------------------------------------------------------------------
(* Every action keeps the invariant.                                       *)

\* A conjunct of the invariant that no step of an action touches.
LEMMA Unchanged ==
  /\ RequestInv /\ UNCHANGED <<requests, payments, issued>> => RequestInv'
  /\ PaymentInv /\ UNCHANGED <<payments, issued, settled>> => PaymentInv'
  /\ WorkerInv /\ UNCHANGED <<workers, payments, settled>> => WorkerInv'
  /\ PollInv /\ UNCHANGED <<poll, payments>> => PollInv'
  /\ PotInv /\ UNCHANGED <<pots, owner>> => PotInv'
  /\ NameInv /\ UNCHANGED names => NameInv'
  BY DEF RequestInv, PaymentInv, PaidIsSettled, WorkerInv, PollInv, PotInv, NameInv

LEMMA QuoteInv ==
  ASSUME IInv, NEW r \in Requests, NEW k \in Pubkeys, NEW o \in Orders, Quote(r, k, o)
  PROVE  IInv'
  <1>1. TypeOK'
    <2>1. Quoted(k, o) \in PaymentMeta
          BY QuotedType DEF IInv, TypeOK
    <2> QED BY <2>1 DEF IInv, TypeOK, Quote, CheckoutRequest, tables, outside
  <1>2. RequestInv'
        BY DEF IInv, TypeOK, RequestInv, Quote, tables, outside
  <1> QED BY <1>1, <1>2, Unchanged DEF IInv, Quote, tables, outside

LEMMA ReserveInv ==
  ASSUME IInv, NEW r \in Requests, Reserve(r)
  PROVE  IInv'
  <1> DEFINE q == requests[r]
  <1>1. q \in CheckoutRequest /\ q.pubkey \in Pubkeys
        BY DEF IInv, TypeOK, RequestInv, Reserve
  <1>2. requests' = [requests EXCEPT ![r].at = "reserved"]
        BY DEF Reserve
  <1>3. CASE q.meta.name = NoName
    <2>1. TypeOK'
          BY <1>1, <1>2, <1>3 DEF IInv, TypeOK, Reserve, CheckoutRequest, outside
    <2>2. RequestInv'
          BY <1>1, <1>2 DEF IInv, TypeOK, RequestInv, Reserve, outside
    <2> QED BY <1>3, <2>1, <2>2, Unchanged DEF IInv, Reserve, outside
  <1>4. CASE q.meta.name # NoName
    <2> DEFINE n == q.meta.name
               row == Reserved(names[n], q.pubkey, now + InvoiceTTL)
    <2>1. n \in Names /\ names[n] \in Nip05Name /\ now + InvoiceTTL \in Nat
          BY <1>1, <1>4, BillingAssumption DEF IInv, TypeOK, CheckoutRequest, PaymentMeta
    <2>2. row \in Nip05Name /\ row.pubkey # Nobody
          BY <1>1, <2>1, NameRowTypes, NameRowInv DEF IInv, NameInv
    <2>3. names' = [names EXCEPT ![n] = row]
          BY <1>4 DEF Reserve
    <2>4. TypeOK'
          BY <1>1, <1>2, <2>1, <2>2, <2>3 DEF IInv, TypeOK, Reserve, CheckoutRequest, outside
    <2>5. RequestInv'
          BY <1>1, <1>2 DEF IInv, TypeOK, RequestInv, Reserve, outside
    <2>6. NameInv'
          BY <2>1, <2>2, <2>3 DEF IInv, TypeOK, NameInv
    <2> QED BY <2>4, <2>5, <2>6, Unchanged DEF IInv, Reserve, outside
  <1> QED BY <1>3, <1>4

LEMMA CheckoutRefusedInv ==
  ASSUME IInv, NEW r \in Requests, CheckoutRefused(r)
  PROVE  IInv'
  <1>1. TypeOK'
        BY NullTypes DEF IInv, TypeOK, CheckoutRefused, tables, outside
  <1>2. RequestInv'
        BY DEF IInv, TypeOK, RequestInv, CheckoutRefused, IdleRequest, tables, outside
  <1> QED BY <1>1, <1>2, Unchanged DEF IInv, CheckoutRefused, tables, outside

LEMMA GroupCreatedInv ==
  ASSUME IInv, NEW g \in GroupIds, NEW k \in Pubkeys, GroupCreated(g, k)
  PROVE  /\ owner' \in [GroupIds -> Pubkeys \cup {Nobody}]
         /\ pots' \in [Targets -> Pot]
         /\ PotInv'
  <1>1. [NoPot EXCEPT !.exists = TRUE] \in Pot
        BY DEF NoPot, Pot
  <1>2. owner' \in [GroupIds -> Pubkeys \cup {Nobody}] /\ pots' \in [Targets -> Pot]
        BY <1>1 DEF GroupCreated, IInv, TypeOK
  <1>3. PotInv'
        BY NobodyAssumption DEF GroupCreated, IInv, TypeOK, PotInv, Targets, NoPot
  <1> QED BY <1>2, <1>3

LEMMA OpenInvoiceInv ==
  ASSUME IInv, NEW r \in Requests, OpenInvoice(r)
  PROVE  IInv'
  <1> DEFINE q == requests[r]
  <1>1. q \in CheckoutRequest /\ q.pubkey \in Pubkeys
        BY DEF IInv, TypeOK, RequestInv, OpenInvoice
  <1>2. PICK h \in Hashes :
          /\ \A b \in Backends : h \notin issued[b]
          /\ issued' = [issued EXCEPT ![backend] = @ \cup {h}]
          /\ \/ /\ q.meta.group # NewGroup
                /\ requests' = [requests EXCEPT ![r].at = "invoiced", ![r].hash = h]
                /\ UNCHANGED <<owner, pots>>
             \/ \E g \in GroupIds :
                   /\ q.meta.group = NewGroup
                   /\ GroupCreated(g, q.pubkey)
                   /\ requests' = [requests EXCEPT ![r].at = "invoiced", ![r].hash = h,
                                                   ![r].meta = BilledTo(@, g)]
        BY DEF OpenInvoice
  <1>3. PICK m \in RecordedMeta :
          requests' = [requests EXCEPT ![r] = [at |-> "invoiced", pubkey |-> q.pubkey,
                                               meta |-> m, hash |-> h]]
    <2>1. CASE q.meta.group # NewGroup
          BY <1>1, <1>2, <2>1 DEF IInv, TypeOK, CheckoutRequest, RecordedMeta
    <2>2. CASE q.meta.group = NewGroup
          BY <1>1, <1>2, <2>2, BilledToType DEF IInv, TypeOK, CheckoutRequest
    <2> QED BY <2>1, <2>2
  <1>4. /\ owner' \in [GroupIds -> Pubkeys \cup {Nobody}]
        /\ pots' \in [Targets -> Pot]
        /\ PotInv'
    <2>1. CASE UNCHANGED <<owner, pots>>
          BY <2>1, Unchanged DEF IInv, TypeOK
    <2>2. CASE \E g \in GroupIds : GroupCreated(g, q.pubkey)
          BY <1>1, <2>2, GroupCreatedInv
    <2> QED BY <1>2, <2>1, <2>2
  <1>5. issued' \in [Backends -> SUBSET Hashes]
        BY <1>2 DEF IInv, TypeOK
  <1>6. TypeOK'
    <2>1. requests' \in [Requests -> CheckoutRequest]
          BY <1>1, <1>2, <1>3 DEF IInv, TypeOK, CheckoutRequest, RecordedMeta
    <2> QED BY <1>4, <1>5, <2>1 DEF IInv, TypeOK, OpenInvoice
  <1>7. payments[h].status = "none" /\ \A s \in Requests : requests[s].at = "invoiced" => requests[s].hash # h
        BY <1>2 DEF IInv, TypeOK, PaymentInv, RequestInv, Payment
  <1>8. \A b \in Backends : issued[b] \subseteq issued'[b]
        BY <1>2 DEF IInv, TypeOK
  <1>9. h \in issued'[backend] /\ backend \in Backends
        BY <1>2 DEF IInv, TypeOK
  <1>10. RequestInv'
    <2>1. UNCHANGED payments
          BY DEF OpenInvoice
    <2>2. \A s \in Requests : requests'[s] = IF s = r THEN [at |-> "invoiced", pubkey |-> q.pubkey,
                                               meta |-> m, hash |-> h] ELSE requests[s]
          BY <1>3 DEF IInv, TypeOK
    <2> HIDE DEF q
    <2> QED BY <1>1, <1>2, <1>7, <1>8, <1>9, <2>1, <2>2 DEF IInv, RequestInv
  <1>11. PaymentInv'
        BY <1>8 DEF IInv, PaymentInv, PaidIsSettled, OpenInvoice
  <1> QED BY <1>4, <1>6, <1>10, <1>11, Unchanged DEF IInv, OpenInvoice

LEMMA CheckoutFailsInv ==
  ASSUME IInv, NEW r \in Requests, CheckoutFails(r)
  PROVE  IInv'
  <1> DEFINE q == requests[r]
  <1>1. q \in CheckoutRequest /\ q.pubkey \in Pubkeys
        BY DEF IInv, TypeOK, RequestInv, CheckoutFails
  <1>2. names' \in [Names -> Nip05Name] /\ NameInv'
    <2>1. CASE q.meta.name = NoName
          BY <2>1 DEF IInv, TypeOK, NameInv, CheckoutFails, NameReleased
    <2>2. CASE q.meta.name # NoName
      <3> DEFINE n == q.meta.name
                 row == Released(names[n], q.pubkey)
      <3>1. n \in Names /\ names[n] \in Nip05Name
            BY <1>1, <2>2 DEF IInv, TypeOK, CheckoutRequest, PaymentMeta
      <3>2. row \in Nip05Name /\ (row.pubkey = Nobody => row = FreeName)
        <4>1. 0 \in Nat /\ FALSE \in BOOLEAN
              OBVIOUS
        <4> QED BY <1>1, <3>1, <4>1, NameRowTypes, NameRowInv DEF IInv, NameInv
      <3>3. names' = [names EXCEPT ![n] = row]
            BY <2>2 DEF CheckoutFails, NameReleased
      <3> HIDE DEF n, row
      <3> QED BY <3>1, <3>2, <3>3 DEF IInv, TypeOK, NameInv
    <2> QED BY <2>1, <2>2
  <1>3. /\ owner' \in [GroupIds -> Pubkeys \cup {Nobody}]
        /\ pots' \in [Targets -> Pot]
        /\ PotInv'
    <2>1. CASE UNCHANGED <<owner, pots>>
          BY <2>1, Unchanged DEF IInv, TypeOK
    <2>2. CASE \E g \in GroupIds : GroupCreated(g, q.pubkey)
          BY <1>1, <2>2, GroupCreatedInv
    <2> QED BY <2>1, <2>2 DEF CheckoutFails
  <1>4. TypeOK'
        BY <1>2, <1>3, NullTypes DEF IInv, TypeOK, CheckoutFails, outside
  <1>5. RequestInv'
        BY DEF IInv, TypeOK, RequestInv, CheckoutFails, IdleRequest, outside
  <1> QED BY <1>2, <1>3, <1>4, <1>5, Unchanged DEF IInv, CheckoutFails, outside

LEMMA RecordPaymentInv ==
  ASSUME IInv, NEW r \in Requests, RecordPayment(r)
  PROVE  IInv'
  <1> DEFINE q == requests[r]
             p == [status |-> "pending", pubkey |-> q.pubkey, meta |-> q.meta, created |-> now]
  <1>1. /\ q \in CheckoutRequest /\ q.pubkey \in Pubkeys /\ q.hash \in Hashes
        /\ q.meta \in RecordedMeta /\ payments[q.hash].status = "none"
        /\ \E b \in Backends : q.hash \in issued[b]
        BY DEF IInv, TypeOK, RequestInv, RecordPayment
  <1>2. p \in Payment
        BY <1>1 DEF IInv, TypeOK, Payment
  <1>3. payments' = [payments EXCEPT ![q.hash] = p]
        BY DEF RecordPayment
  <1>4. TypeOK'
        BY <1>1, <1>2, <1>3, NullTypes DEF IInv, TypeOK, RecordPayment, outside
  <1>5. \A h \in Hashes : payments'[h] = IF h = q.hash THEN p ELSE payments[h]
        BY <1>3 DEF IInv, TypeOK
  <1>6. RequestInv'
    <2>1. \A s \in Requests : requests'[s] = IF s = r THEN IdleRequest ELSE requests[s]
          BY DEF IInv, TypeOK, RecordPayment
    <2>2. requests[r].at = "invoiced" /\ UNCHANGED issued
          BY DEF RecordPayment, outside
    <2> QED BY <1>5, <2>1, <2>2 DEF IInv, RequestInv, IdleRequest
  <1>7. PaymentInv'
        BY <1>1, <1>5 DEF IInv, PaymentInv, PaidIsSettled, RecordPayment, outside
  <1>8. WorkerInv' /\ PollInv'
        BY <1>1, <1>5 DEF IInv, TypeOK, WorkerInv, PollInv, RecordPayment, outside
  <1> QED BY <1>4, <1>6, <1>7, <1>8, Unchanged DEF IInv, RecordPayment
\* Starting to settle, or finding nothing to settle, keeps what workers hold.
LEMMA WorkerStepInv ==
  ASSUME IInv, NEW w \in Settlers, NEW x \in Settling,
         workers' = [workers EXCEPT ![w] = x],
         UNCHANGED <<payments, settled>>,
         x.at # "idle" => x.hash \in Hashes /\ payments[x.hash].status # "none",
         x.at = "grant" => x.hash \in settled
  PROVE  workers' \in [Settlers -> Settling] /\ WorkerInv'
  BY DEF IInv, TypeOK, WorkerInv

LEMMA ReadPaymentInv ==
  ASSUME IInv, NEW w \in Settlers, NEW h \in Hashes, ReadPayment(w, h),
         UNCHANGED <<payments, settled>>
  PROVE  workers' \in [Settlers -> Settling] /\ WorkerInv'
  <1>1. CASE payments[h].status = "paid"
        BY <1>1, NullTypes, WorkerStepInv DEF ReadPayment, Idle, IdleWorker
  <1>2. CASE payments[h].status # "paid"
    <2> DEFINE x == [at |-> "ask", hash |-> h]
    <2>1. x \in Settling
          BY DEF Settling
    <2> QED BY <1>2, <2>1, WorkerStepInv DEF ReadPayment
  <1> QED BY <1>1, <1>2

LEMMA IdleInv ==
  ASSUME IInv, NEW w \in Settlers, Idle(w), UNCHANGED <<payments, settled>>
  PROVE  workers' \in [Settlers -> Settling] /\ WorkerInv'
  BY NullTypes, WorkerStepInv DEF Idle, IdleWorker

LEMMA ArrivalInv ==
  ASSUME IInv, NEW w \in Workers, NEW h \in Hashes,
         Webhook(w, h) \/ InvoiceStatus(w, h) \/ InvoiceSettle(w)
  PROVE  IInv'
  <1>1. w \in Settlers /\ UNCHANGED <<now, tables, outside, requests, poll, polled, meddled>>
        BY DEF Settlers, Webhook, InvoiceStatus, InvoiceSettle
  <1>2. workers' \in [Settlers -> Settling] /\ WorkerInv'
    <2>1. CASE Webhook(w, h)
          BY <1>1, <2>1, ReadPaymentInv DEF Webhook, tables, outside
    <2>2. CASE InvoiceStatus(w, h)
      <3> DEFINE x == [at |-> "panel", hash |-> h]
      <3>1. x \in Settling
            BY DEF Settling
      <3> QED BY <1>1, <2>2, <3>1, WorkerStepInv DEF InvoiceStatus, tables, outside
    <2>3. CASE InvoiceSettle(w)
      <3>1. workers[w].hash \in Hashes
            BY <1>1, <2>3 DEF IInv, WorkerInv, InvoiceSettle
      <3> QED BY <1>1, <2>3, <3>1, ReadPaymentInv DEF InvoiceSettle, tables, outside
    <2> QED BY <2>1, <2>2, <2>3
  <1>3. TypeOK'
        BY <1>1, <1>2 DEF IInv, TypeOK, tables, outside
  <1> QED BY <1>1, <1>2, <1>3, Unchanged DEF IInv, tables, outside

LEMMA AskInv ==
  ASSUME IInv, NEW w \in Settlers, AskPaid(w) \/ AskUnpaid(w) \/ GrantRolledBack(w)
  PROVE  IInv'
  <1>1. UNCHANGED <<now, tables, outside, requests, poll, polled, meddled>>
        BY DEF AskPaid, AskUnpaid, GrantRolledBack
  <1>2. workers' \in [Settlers -> Settling] /\ WorkerInv'
    <2>1. CASE AskPaid(w)
      <3> DEFINE x == [at |-> "grant", hash |-> workers[w].hash]
      <3>1. /\ workers[w].hash \in Hashes /\ payments[workers[w].hash].status # "none"
            /\ workers[w].hash \in settled
            BY <2>1 DEF IInv, WorkerInv, AskPaid, IsPaid
      <3>2. x \in Settling
            BY <3>1 DEF Settling
      <3>3. workers[w] \in Settling /\ workers' = [workers EXCEPT ![w].at = "grant"]
            BY <2>1 DEF IInv, TypeOK, AskPaid
      <3>4. [workers[w] EXCEPT !.at = "grant"] = x
            BY <3>3 DEF Settling
      <3>5. workers' = [workers EXCEPT ![w] = x]
            BY <3>3, <3>4
      <3> QED BY <1>1, <3>1, <3>2, <3>5, WorkerStepInv DEF tables, outside
    <2>2. CASE Idle(w)
          BY <1>1, <2>2, IdleInv DEF tables, outside
    <2> QED BY <2>1, <2>2 DEF AskUnpaid, GrantRolledBack
  <1>3. TypeOK'
        BY <1>1, <1>2 DEF IInv, TypeOK, tables, outside
  <1> QED BY <1>1, <1>2, <1>3, Unchanged DEF IInv, tables, outside

\* What a recorded invoice names: a buyer, and a pot of theirs or of a group.
LEMMA RecordedTarget ==
  ASSUME IInv, NEW h \in Hashes, payments[h].status # "none"
  PROVE  /\ payments[h] \in Payment /\ payments[h].pubkey \in Pubkeys
         /\ payments[h].meta \in PaymentMeta
         /\ PotOf(payments[h]) \in Targets
         /\ OpensAccount(payments[h].meta) => PotOf(payments[h]) \in Pubkeys
         /\ PotOf(payments[h]) \in GroupIds => payments[h].meta.group = PotOf(payments[h])
  BY BillingAssumption
  DEF IInv, TypeOK, PaymentInv, Payment, RecordedMeta, PaymentMeta, PotOf, OpensAccount, Targets

\* The pots after a grant: at most one of them changed, and it only gained.
LEMMA PotGrantedStep ==
  ASSUME IInv, NEW h \in Hashes, payments[h].status # "none", PotGranted(payments[h])
  PROVE  \/ UNCHANGED pots
         \/ \E t \in Targets, m \in PaymentMeta :
               /\ pots' = [pots EXCEPT ![t] = Entitled(pots[t], m)]
               /\ t \in Pubkeys \/ pots[t].exists
  <1> DEFINE t == PotOf(payments[h])
             m == payments[h].meta
  <1>1. CASE pots[t].exists \/ OpensAccount(m)
    <2>1. pots' = [pots EXCEPT ![t] = Entitled(pots[t], m)]
          BY <1>1 DEF PotGranted
    <2>2. t \in Targets /\ m \in PaymentMeta /\ (t \in Pubkeys \/ pots[t].exists)
          BY <1>1, RecordedTarget
    <2> QED BY <2>1, <2>2
  <1>2. CASE ~(pots[t].exists \/ OpensAccount(m))
        BY <1>2 DEF PotGranted
  <1> QED BY <1>1, <1>2

LEMMA PotGrantedInv ==
  ASSUME IInv, NEW h \in Hashes, payments[h].status # "none", PotGranted(payments[h]),
         UNCHANGED owner
  PROVE  pots' \in [Targets -> Pot] /\ PotInv'
  <1>1. CASE UNCHANGED pots
        BY <1>1, Unchanged DEF IInv, TypeOK
  <1>2. CASE \E t \in Targets, m \in PaymentMeta :
               /\ pots' = [pots EXCEPT ![t] = Entitled(pots[t], m)]
               /\ t \in Pubkeys \/ pots[t].exists
    <2>1. PICK t \in Targets, m \in PaymentMeta :
               /\ pots' = [pots EXCEPT ![t] = Entitled(pots[t], m)]
               /\ t \in Pubkeys \/ pots[t].exists
          BY <1>2
    <2> DEFINE e == Entitled(pots[t], m)
    <2>2. /\ e \in Pot /\ e.exists /\ (e.permanent => e.expires = 0)
          BY EntitledType, EntitledPermanent DEF IInv, TypeOK, PotInv
    <2> HIDE DEF e
    <2>3. \A u \in Targets : pots'[u] = IF u = t THEN e ELSE pots[u]
          BY <2>1 DEF IInv, TypeOK, e
    <2>4. pots' \in [Targets -> Pot]
          BY <2>1, <2>2 DEF IInv, TypeOK, e
    <2>5. PotInv'
          BY <2>1, <2>2, <2>3, BillingAssumption DEF IInv, PotInv, Targets
    <2> QED BY <2>4, <2>5
  <1> QED BY <1>1, <1>2, PotGrantedStep

LEMMA NameGrantedInv ==
  ASSUME IInv, NEW h \in Hashes, payments[h].status # "none", NameGranted(payments[h])
  PROVE  names' \in [Names -> Nip05Name] /\ NameInv'
  <1> DEFINE m == payments[h].meta
             n == m.name
             row == Granted(names[n], m.nameDays, m.nameForever, now)
  <1>1. CASE UNCHANGED names
        BY <1>1, Unchanged DEF IInv, TypeOK
  <1>2. CASE n # NoName /\ names[n].pubkey = payments[h].pubkey
    <2>1. /\ n \in Names /\ names[n] \in Nip05Name /\ payments[h].pubkey \in Pubkeys
          /\ m.nameDays \in Nat /\ m.nameForever \in BOOLEAN
          BY <1>2, RecordedTarget DEF IInv, TypeOK, PaymentMeta
    <2>2. now \in Nat /\ (names[n].pubkey = Nobody => names[n] = FreeName)
          BY <2>1 DEF IInv, TypeOK, NameInv
    <2>4. names[n].pubkey # Nobody
          BY <1>2, <2>1, NobodyAssumption
    <2>5. row \in Nip05Name
          BY <2>1, <2>2, NameRowTypes
    <2>6. row.pubkey # Nobody
          BY <2>1, <2>2, <2>4, NameRowInv
    <2>3. names' = [names EXCEPT ![n] = row]
          BY <1>2 DEF NameGranted
    <2> HIDE DEF n, row
    <2> QED BY <2>1, <2>3, <2>5, <2>6 DEF IInv, TypeOK, NameInv
  <1> QED BY <1>1, <1>2 DEF NameGranted

LEMMA GrantInv ==
  ASSUME IInv, NEW w \in Settlers, Grant(w)
  PROVE  IInv'
  <1> DEFINE h == workers[w].hash
  <1>1. h \in Hashes /\ payments[h].status # "none" /\ h \in settled
        BY DEF IInv, WorkerInv, Grant
  <1>2. /\ payments' = [payments EXCEPT ![h].status = "paid"]
        /\ PotGranted(payments[h]) /\ NameGranted(payments[h])
        /\ workers' = [workers EXCEPT ![w] = IdleWorker]
        /\ UNCHANGED <<now, owner, outside, requests, poll, polled, meddled>>
        BY DEF Grant, Idle
  <1> HIDE DEF h
  <1>3. \A i \in Hashes : /\ payments'[i].pubkey = payments[i].pubkey
                          /\ payments'[i].meta = payments[i].meta
                          /\ i # h => payments'[i] = payments[i]
        BY <1>1, <1>2 DEF IInv, TypeOK, Payment
  <1>4. payments'[h].status = "paid" /\ payments' \in [Hashes -> Payment]
        BY <1>1, <1>2 DEF IInv, TypeOK, Payment
  <1>5. pots' \in [Targets -> Pot] /\ PotInv'
        BY <1>1, <1>2, PotGrantedInv
  <1>6. names' \in [Names -> Nip05Name] /\ NameInv'
        BY <1>1, <1>2, NameGrantedInv
  <1>7. workers' \in [Settlers -> Settling]
        BY <1>2, NullTypes DEF IInv, TypeOK
  <1>8. TypeOK'
        BY <1>2, <1>4, <1>5, <1>6, <1>7 DEF IInv, TypeOK, outside
  <1>9. RequestInv'
        BY <1>1, <1>2, <1>3 DEF IInv, RequestInv, outside
  <1>10. PaymentInv'
        BY <1>1, <1>2, <1>3 DEF IInv, PaymentInv, PaidIsSettled, outside
  <1>11. WorkerInv'
        BY <1>1, <1>2, <1>3, <1>4 DEF IInv, TypeOK, WorkerInv, IdleWorker, outside
  <1>12. PollInv'
        BY <1>2, <1>3, <1>4 DEF IInv, TypeOK, PollInv
  <1> QED BY <1>5, <1>6, <1>8, <1>9, <1>10, <1>11, <1>12 DEF IInv
LEMMA PollListInv ==
  ASSUME IInv, PollList
  PROVE  IInv'
  <1>1. TypeOK' /\ PollInv'
        BY DEF IInv, TypeOK, PollInv, PollList, Checkable, tables, outside
  <1> QED BY <1>1, Unchanged DEF IInv, PollList, tables, outside

LEMMA PollSettleInv ==
  ASSUME IInv, NEW h \in Hashes, PollSettle(h)
  PROVE  IInv'
  <1>1. Poller \in Settlers /\ UNCHANGED <<payments, settled>>
        BY DEF Settlers, PollSettle, tables, outside
  <1>2. workers' \in [Settlers -> Settling] /\ WorkerInv'
        BY <1>1, ReadPaymentInv DEF PollSettle
  <1>3. TypeOK' /\ PollInv'
        BY <1>2 DEF IInv, TypeOK, PollInv, PollSettle, tables, outside
  <1> QED BY <1>2, <1>3, Unchanged DEF IInv, PollSettle, tables, outside

LEMMA ExpireStalePaymentsInv ==
  ASSUME IInv, ExpireStalePayments
  PROVE  IInv'
  <1>1. \A h \in Hashes : /\ payments'[h] \in Payment
                          /\ payments'[h].pubkey = payments[h].pubkey
                          /\ payments'[h].status = "none" <=> payments[h].status = "none"
                          /\ payments'[h].status = "paid" <=> payments[h].status = "paid"
        BY DEF IInv, TypeOK, ExpireStalePayments, Stale, Payment
  <1>2. payments' \in [Hashes -> Payment]
        BY <1>1 DEF ExpireStalePayments
  <1>3. TypeOK'
        BY <1>2 DEF IInv, TypeOK, ExpireStalePayments, outside
  <1>4. RequestInv' /\ PaymentInv'
        BY <1>1 DEF IInv, RequestInv, PaymentInv, PaidIsSettled, ExpireStalePayments, outside
  <1>5. WorkerInv' /\ PollInv'
        BY <1>1 DEF IInv, TypeOK, WorkerInv, PollInv, ExpireStalePayments, outside
  <1> QED BY <1>3, <1>4, <1>5, Unchanged DEF IInv, ExpireStalePayments

LEMMA PurgeNip05NamesInv ==
  ASSUME IInv, PurgeNip05Names
  PROVE  IInv'
  <1>1. \A n \in Names : /\ names'[n] \in Nip05Name
                         /\ names'[n].pubkey = Nobody => names'[n] = FreeName
        BY NameRowTypes, NullTypes
        DEF IInv, TypeOK, NameInv, PurgeNip05Names, Purged, FreeName, Nip05Name
  <1>2. names' \in [Names -> Nip05Name] /\ NameInv'
        BY <1>1 DEF PurgeNip05Names, NameInv
  <1>3. TypeOK'
        BY <1>2, BillingAssumption DEF IInv, TypeOK, PurgeNip05Names, outside
  <1>4. PollInv'
        BY DEF IInv, TypeOK, PollInv, PurgeNip05Names
  <1> QED BY <1>2, <1>3, <1>4, Unchanged DEF IInv, PurgeNip05Names, outside

LEMMA PayTickInv ==
  ASSUME IInv, (\E h \in Hashes : Pay(h)) \/ Tick \/ (\E b \in Backends : SwitchBackend(b))
  PROVE  IInv'
  <1>1. CASE \E h \in Hashes : Pay(h)
    <2>1. TypeOK' /\ PaymentInv' /\ WorkerInv'
          BY <1>1 DEF IInv, TypeOK, PaymentInv, PaidIsSettled, WorkerInv, Pay, tables
    <2> QED BY <1>1, <2>1, Unchanged DEF IInv, Pay, tables
  <1>2. CASE Tick
    <2>1. /\ now' = now + 1 /\ polled' = FALSE
          /\ UNCHANGED <<tables, outside, requests, workers, poll, meddled>>
          BY <1>2, Zenon DEF Tick
    <2>3. now' \in Nat /\ polled' \in BOOLEAN
      <3>1. now' \in Nat
            BY <2>1 DEF IInv, TypeOK
      <3>2. polled' \in BOOLEAN
            BY <2>1
      <3> QED BY <3>1, <3>2
    <2>2. TypeOK'
          BY <2>1, <2>3 DEF IInv, TypeOK, tables, outside
    <2> QED BY <1>2, <2>2, Unchanged DEF IInv, Tick, tables, outside
  <1>3. CASE \E b \in Backends : SwitchBackend(b)
    <2>1. TypeOK'
          BY <1>3 DEF IInv, TypeOK, SwitchBackend, tables
    <2> QED BY <1>3, <2>1, Unchanged DEF IInv, SwitchBackend, tables
  <1> QED BY <1>1, <1>2, <1>3

LEMMA OperatorInv ==
  ASSUME IInv,
         \/ \E g \in GroupIds : DeleteGroup(g)
         \/ \E k \in Pubkeys : DeleteAccount(k)
         \/ \E n \in Names : \/ DeleteNip05Name(n)
                             \/ \E k \in Pubkeys, f \in BOOLEAN : SaveNip05Name(n, k, f)
  PROVE  IInv'
  <1>1. CASE \E g \in GroupIds : DeleteGroup(g)
    <2>1. TypeOK' /\ PotInv'
          BY <1>1, NullTypes DEF IInv, TypeOK, PotInv, NoPot, Targets, DeleteGroup, outside
    <2> QED BY <1>1, <2>1, Unchanged DEF IInv, DeleteGroup, outside
  <1>3. CASE \E k \in Pubkeys : DeleteAccount(k)
    <2>1. TypeOK' /\ PotInv'
          BY <1>3, NullTypes, BillingAssumption
          DEF IInv, TypeOK, PotInv, NoPot, Targets, DeleteAccount, outside
    <2> QED BY <1>3, <2>1, Unchanged DEF IInv, DeleteAccount, outside
  <1>2. CASE \E n \in Names : \/ DeleteNip05Name(n)
                             \/ \E k \in Pubkeys, f \in BOOLEAN : SaveNip05Name(n, k, f)
    <2>1. PICK n \in Names, row \in Nip05Name :
            /\ names' = [names EXCEPT ![n] = row]
            /\ row.pubkey = Nobody => row = FreeName
            /\ meddled' = meddled \cup {n}
            /\ UNCHANGED <<now, payments, pots, owner, outside, requests, workers, poll, polled>>
      <3>1. CASE \E n \in Names : DeleteNip05Name(n)
            BY <3>1 DEF DeleteNip05Name, FreeName, Nip05Name
      <3>2. CASE \E n \in Names, k \in Pubkeys, f \in BOOLEAN : SaveNip05Name(n, k, f)
        <4>1. PICK n \in Names, k \in Pubkeys, f \in BOOLEAN : SaveNip05Name(n, k, f)
              BY <3>2
        <4>2. now + NameTime \in Nat
              BY BillingAssumption DEF IInv, TypeOK
        <4>3. /\ Saved(k, now + NameTime, f) \in Nip05Name
              /\ Saved(k, now + NameTime, f).pubkey # Nobody
              BY <4>2, NobodyAssumption DEF Saved, Nip05Name
        <4> QED BY <4>1, <4>3 DEF SaveNip05Name
      <3> QED BY <1>2, <3>1, <3>2
    <2>2. TypeOK' /\ NameInv'
          BY <2>1 DEF IInv, TypeOK, NameInv, outside
    <2> QED BY <2>1, <2>2, Unchanged DEF IInv, outside
  <1> QED BY <1>1, <1>2, <1>3

LEMMA RestartInv ==
  ASSUME IInv, Restart
  PROVE  IInv'
  <1>1. TypeOK'
    <2>1. poll' \in [at: {"sleep", "settle", "purge"}, todo: SUBSET Hashes]
          BY DEF Restart
    <2>2. /\ requests' \in [Requests -> CheckoutRequest]
          /\ workers' \in [Settlers -> Settling]
          BY NullTypes DEF Restart
    <2> QED BY <2>1, <2>2 DEF IInv, TypeOK, Restart, tables, outside
  <1>2. RequestInv' /\ WorkerInv' /\ PollInv'
        BY DEF RequestInv, WorkerInv, PollInv, Restart, IdleRequest, IdleWorker
  <1> QED BY <1>1, <1>2, Unchanged DEF IInv, Restart, tables, outside

----------------------------------------------------------------------------
(* The theorems.                                                           *)

LEMMA NextInv == IInv /\ [Next]_vars => IInv'
  <1> SUFFICES ASSUME IInv, [Next]_vars PROVE IInv'
      OBVIOUS
  <1>1. CASE Checkout
        BY <1>1, QuoteInv, ReserveInv, CheckoutRefusedInv, OpenInvoiceInv, CheckoutFailsInv,
           RecordPaymentInv DEF Checkout
  <1>2. CASE Arrival
    <2>1. PICK w \in Workers : \/ \E h \in Hashes : Webhook(w, h) \/ InvoiceStatus(w, h)
                             \/ InvoiceSettle(w)
          BY <1>2 DEF Arrival
    <2>2. CASE InvoiceSettle(w)
      <3>1. workers[w].hash \in Hashes
            BY <2>2 DEF IInv, WorkerInv, InvoiceSettle, Settlers
      <3> QED BY <2>2, <3>1, ArrivalInv
    <2> QED BY <2>1, <2>2, ArrivalInv
  <1>3. CASE \E w \in Settlers : Settle(w)
        BY <1>3, AskInv, GrantInv DEF Settle
  <1>4. CASE PollLoop
        BY <1>4, PollListInv, PollSettleInv, ExpireStalePaymentsInv, PurgeNip05NamesInv
        DEF PollLoop
  <1>5. CASE Environment
        BY <1>5, PayTickInv, OperatorInv, RestartInv DEF Environment
  <1>6. CASE UNCHANGED vars
    <2>1. TypeOK'
          BY <1>6 DEF IInv, TypeOK, vars, tables, outside
    <2> QED BY <1>6, <2>1, Unchanged DEF IInv, vars, tables, outside
  <1> QED BY <1>1, <1>2, <1>3, <1>4, <1>5, <1>6 DEF Next

LEMMA Invariance == Spec => []IInv
  BY InitInv, NextInv, PTL DEF Spec

\* Every table and every local of a request stays of its type: in particular a
\* recorded invoice always names its buyer, and a group by the id it was given.
THEOREM TypeCorrect == Spec => []TypeOK
  <1>1. IInv => TypeOK
        BY DEF IInv
  <1> QED BY <1>1, Invariance, PTL

\* Settle never grants what was not paid for, for any number of webhooks, panels,
\* polls, backends and restarts.
THEOREM NothingUnpaidIsGranted == Spec => []PaidIsSettled
  <1>1. IInv => PaidIsSettled
        BY DEF IInv, PaymentInv
  <1> QED BY <1>1, Invariance, PTL
\* The steps that write a payment row, and what they do to it.
LEMMA PaymentSteps ==
  ASSUME IInv, [Next]_vars, NEW h \in Hashes
  PROVE  payments[h].status = "paid" => payments'[h].status = "paid"
  <1>1. CASE \E r \in Requests : RecordPayment(r)
        BY <1>1 DEF IInv, TypeOK, RequestInv, RecordPayment
  <1>2. CASE \E w \in Settlers : Grant(w)
        BY <1>2 DEF IInv, TypeOK, Payment, Grant
  <1>3. CASE ExpireStalePayments
        BY <1>3 DEF IInv, TypeOK, Payment, ExpireStalePayments, Stale
  <1>4. CASE UNCHANGED payments
        BY <1>4
  <1> QED
    <2>1. UNCHANGED vars => UNCHANGED payments
          BY DEF vars, tables
    <2>2. Checkout => UNCHANGED payments \/ \E r \in Requests : RecordPayment(r)
          BY DEF Checkout, Quote, Reserve, CheckoutRefused, OpenInvoice, CheckoutFails, tables
    <2>3. Arrival => UNCHANGED payments
          BY DEF Arrival, Webhook, InvoiceStatus, InvoiceSettle, tables
    <2>4. (\E w \in Settlers : Settle(w)) => UNCHANGED payments \/ \E w \in Settlers : Grant(w)
          BY DEF Settle, AskPaid, AskUnpaid, GrantRolledBack, tables
    <2>5. PollLoop => UNCHANGED payments \/ ExpireStalePayments
          BY DEF PollLoop, PollList, PollSettle, PurgeNip05Names, tables
    <2>6. Environment => UNCHANGED payments
          BY DEF Environment, Tick, Restart, Pay, SwitchBackend, DeleteGroup, DeleteAccount,
             SaveNip05Name, DeleteNip05Name, tables
    <2> QED BY <1>1, <1>2, <1>3, <1>4, <2>1, <2>2, <2>3, <2>4, <2>5, <2>6 DEF Next

\* A settled payment stays settled, however webhooks, panels, the poller's write-off
\* and restarts interleave.
THEOREM PaidStaysPaid == Spec => PaidIsFinal
  <1>1. IInv /\ [Next]_vars =>
          [\A h \in Hashes : payments[h].status = "paid" => payments'[h].status = "paid"]_payments
        BY PaymentSteps
  <1> QED BY <1>1, Invariance, PTL DEF Spec, PaidIsFinal

\* The steps that write a pot: each changes at most one, a new group, a granted
\* pot or a deleted one.
LEMMA PotSteps ==
  ASSUME IInv, [Next]_vars
  PROVE  \/ UNCHANGED pots
         \/ \E g \in GroupIds, k \in Pubkeys : GroupCreated(g, k)
         \/ \E t \in Targets, m \in PaymentMeta : pots' = [pots EXCEPT ![t] = Entitled(pots[t], m)]
         \/ \E t \in Targets : pots' = [pots EXCEPT ![t] = NoPot]
  <1>1. CASE \E r \in Requests : OpenInvoice(r)
        BY <1>1 DEF IInv, RequestInv, OpenInvoice
  <1>2. CASE \E r \in Requests : CheckoutFails(r)
        BY <1>2 DEF IInv, RequestInv, CheckoutFails
  <1>3. CASE \E w \in Settlers : Grant(w)
    <2>1. PICK w \in Settlers : Grant(w)
          BY <1>3
    <2>2. workers[w].hash \in Hashes /\ payments[workers[w].hash].status # "none"
          BY <2>1 DEF IInv, WorkerInv, Grant
    <2>3. PotGranted(payments[workers[w].hash])
          BY <2>1 DEF Grant
    <2> QED BY <2>2, <2>3, PotGrantedStep
  <1>4. CASE \E g \in GroupIds : DeleteGroup(g)
        BY <1>4 DEF DeleteGroup, Targets
  <1>5. CASE \E k \in Pubkeys : DeleteAccount(k)
        BY <1>5 DEF DeleteAccount, Targets
  <1> QED
    <2>1. UNCHANGED vars => UNCHANGED pots
          BY DEF vars, tables
    <2>2. Checkout => \/ UNCHANGED pots
                      \/ \E r \in Requests : OpenInvoice(r) \/ CheckoutFails(r)
          BY DEF Checkout, Quote, Reserve, CheckoutRefused, RecordPayment, tables
    <2>3. Arrival => UNCHANGED pots
          BY DEF Arrival, Webhook, InvoiceStatus, InvoiceSettle, tables
    <2>4. (\E w \in Settlers : Settle(w)) => UNCHANGED pots \/ \E w \in Settlers : Grant(w)
          BY DEF Settle, AskPaid, AskUnpaid, GrantRolledBack, tables
    <2>5. PollLoop => UNCHANGED pots
          BY DEF PollLoop, PollList, PollSettle, PurgeNip05Names, ExpireStalePayments, tables
    <2>6. Environment => \/ UNCHANGED pots
                         \/ \E g \in GroupIds : DeleteGroup(g)
                         \/ \E k \in Pubkeys : DeleteAccount(k)
          BY DEF Environment, Tick, Restart, Pay, SwitchBackend, SaveNip05Name, DeleteNip05Name,
             tables
    <2> QED BY <1>1, <1>2, <1>3, <1>4, <1>5, <2>1, <2>2, <2>3, <2>4, <2>5, <2>6 DEF Next

LEMMA LifetimeSteps ==
  ASSUME IInv, [Next]_vars, NEW t \in Targets, pots[t].permanent, pots'[t].exists
  PROVE  pots'[t].permanent /\ pots'[t].expires = 0
  <1>1. pots[t] \in Pot /\ pots[t].exists /\ pots[t].expires = 0
        BY DEF IInv, TypeOK, PotInv, NoPot
  <1>2. CASE UNCHANGED pots
        BY <1>1, <1>2
  <1>3. CASE \E g \in GroupIds, k \in Pubkeys : GroupCreated(g, k)
        BY <1>1, <1>3 DEF GroupCreated, IInv, TypeOK, PotInv
  <1>4. CASE \E u \in Targets, m \in PaymentMeta : pots' = [pots EXCEPT ![u] = Entitled(pots[u], m)]
    <2>1. PICK u \in Targets, m \in PaymentMeta : pots' = [pots EXCEPT ![u] = Entitled(pots[u], m)]
          BY <1>4
    <2>2. CASE u = t
      <3>1. pots'[t] = Entitled(pots[t], m)
            BY <2>1, <2>2 DEF IInv, TypeOK
      <3> QED BY <1>1, <3>1, EntitledPermanent
    <2>3. CASE u # t
          BY <1>1, <2>1, <2>3 DEF IInv, TypeOK
    <2> QED BY <2>2, <2>3
  <1>5. CASE \E u \in Targets : pots' = [pots EXCEPT ![u] = NoPot]
        BY <1>1, <1>5 DEF IInv, TypeOK, NoPot
  <1> QED BY <1>2, <1>3, <1>4, <1>5, PotSteps

\* The lifetime plan is never traded for a term, whatever settles after it.
THEOREM LifetimeStays == Spec => LifetimeIsKept
  <1>1. IInv /\ [Next]_vars =>
          [\A t \in Targets : pots[t].permanent /\ pots'[t].exists =>
             pots'[t].permanent /\ pots'[t].expires = 0]_pots
        BY LifetimeSteps
  <1> QED BY <1>1, Invariance, PTL DEF Spec, LifetimeIsKept
----------------------------------------------------------------------------
(* Billing implements the ledger: only recording, granting, paying and     *)
(* deleting are steps of it.                                               *)

Bills == [h \in Hashes |-> BillOf(payments[h])]
Quota == [t \in Targets |-> pots[t].quota]

LEMMA RecordIsBill ==
  ASSUME IInv, NEW r \in Requests, RecordPayment(r)
  PROVE  \E h \in Hashes : Ledger!Bill(h)
  <1> DEFINE h == requests[r].hash
  <1>1. h \in Hashes /\ payments[h].status = "none"
        BY DEF IInv, RequestInv, RecordPayment
  <1>2. payments'[h].status = "pending" /\ \A i \in Hashes \ {h} : payments'[i] = payments[i]
        BY <1>1 DEF IInv, TypeOK, RecordPayment
  <1>3. UNCHANGED <<pots, settled>>
        BY DEF RecordPayment, outside
  <1> HIDE DEF h
  <1>4. Bills' = [Bills EXCEPT ![h] = "due"] /\ Bills[h] = "none" /\ UNCHANGED Quota
        BY <1>1, <1>2, <1>3 DEF Bills, BillOf, Quota
  <1> QED BY <1>1, <1>3, <1>4 DEF Ledger!Bill, Bills, Quota

LEMMA GrantIsCredit ==
  ASSUME IInv, NEW w \in Settlers, Grant(w)
  PROVE  \E h \in Hashes : Ledger!Credit(h)
  <1> DEFINE h == workers[w].hash
  <1>1. h \in Hashes /\ payments[h].status \notin {"none", "paid"} /\ h \in settled
        BY DEF IInv, WorkerInv, Grant, Settleable
  <1>2. payments'[h].status = "paid" /\ \A i \in Hashes \ {h} : payments'[i] = payments[i]
        BY <1>1 DEF IInv, TypeOK, Payment, Grant
  <1>3. UNCHANGED settled /\ PotGranted(payments[h])
        BY DEF Grant, outside
  <1> HIDE DEF h
  <1>4. Bills' = [Bills EXCEPT ![h] = "credited"] /\ Bills[h] = "due"
        BY <1>1, <1>2 DEF Bills, BillOf
  <1>5. \/ UNCHANGED Quota
        \/ \E t \in Targets : /\ \A u \in Targets \ {t} : Quota'[u] = Quota[u]
                              /\ Quota'[t] >= Quota[t]
    <2>1. CASE UNCHANGED pots
          BY <2>1 DEF Quota
    <2>2. CASE \E t \in Targets, m \in PaymentMeta : pots' = [pots EXCEPT ![t] = Entitled(pots[t], m)]
      <3>1. PICK t \in Targets, m \in PaymentMeta : pots' = [pots EXCEPT ![t] = Entitled(pots[t], m)]
            BY <2>2
      <3>2. /\ pots'[t] = Entitled(pots[t], m)
            /\ \A u \in Targets \ {t} : pots'[u] = pots[u]
            BY <3>1 DEF IInv, TypeOK
      <3>3. Entitled(pots[t], m).quota >= pots[t].quota
            BY EntitledType DEF IInv, TypeOK
      <3> QED BY <3>2, <3>3 DEF Quota
    <2> QED BY <1>1, <1>3, <2>1, <2>2, PotGrantedStep
  <1> QED BY <1>1, <1>3, <1>4, <1>5 DEF Ledger!Credit, Bills, Quota

LEMMA PayIsPay ==
  ASSUME IInv, NEW h \in Hashes, Pay(h)
  PROVE  Ledger!Pay(h)
  BY DEF IInv, TypeOK, Payment, Pay, Ledger!Pay, BillOf, tables

LEMMA DeleteIsClose ==
  ASSUME IInv, NEW t \in Targets, pots' = [pots EXCEPT ![t] = NoPot],
         UNCHANGED <<payments, settled>>
  PROVE  Ledger!Close(t)
  <1>1. Quota' = [Quota EXCEPT ![t] = 0]
        BY DEF IInv, TypeOK, Quota, NoPot
  <1> QED BY <1>1 DEF Ledger!Close, Quota

LEMMA GroupCreatedIsStutter ==
  ASSUME IInv, NEW g \in GroupIds, NEW k \in Pubkeys, GroupCreated(g, k)
  PROVE  UNCHANGED Quota
  <1>1. g \in Targets /\ pots[g].quota = 0
        BY DEF GroupCreated, IInv, PotInv, Targets, NoPot
  <1>2. \A t \in Targets : pots'[t].quota = pots[t].quota
        BY <1>1 DEF GroupCreated, IInv, TypeOK, NoPot
  <1> QED BY <1>2 DEF Quota

LEMMA LedgerStep == IInv /\ [Next]_vars => [Ledger!Next]_(Ledger!ledger)
  <1> SUFFICES ASSUME IInv, [Next]_vars PROVE Ledger!Next \/ UNCHANGED <<Bills, settled, Quota>>
      BY DEF Ledger!ledger, Bills, Quota
  <1>1. UNCHANGED <<payments, settled, pots>> => UNCHANGED <<Bills, settled, Quota>>
        BY DEF Bills, Quota
  <1>2. CASE Checkout
    <2>1. CASE \E r \in Requests : RecordPayment(r)
          BY <2>1, RecordIsBill DEF Ledger!Next
    <2>2. CASE \E r \in Requests : OpenInvoice(r) \/ CheckoutFails(r)
      <3>1. PICK r \in Requests : OpenInvoice(r) \/ CheckoutFails(r)
            BY <2>2
      <3>2. requests[r].pubkey \in Pubkeys
            BY <3>1 DEF IInv, RequestInv, OpenInvoice, CheckoutFails
      <3>3. UNCHANGED pots \/ \E g \in GroupIds : GroupCreated(g, requests[r].pubkey)
            BY <3>1 DEF OpenInvoice, CheckoutFails
      <3>4. UNCHANGED <<payments, settled>>
            BY <3>1 DEF OpenInvoice, CheckoutFails, outside
      <3>5. UNCHANGED Quota
            BY <3>2, <3>3, GroupCreatedIsStutter DEF Quota
      <3> QED BY <3>4, <3>5 DEF Bills
    <2>3. CASE UNCHANGED <<payments, settled, pots>>
          BY <1>1, <2>3
    <2> QED BY <1>2, <2>1, <2>2, <2>3
        DEF Checkout, Quote, Reserve, CheckoutRefused, tables, outside
  <1>3. CASE Arrival
        BY <1>1, <1>3 DEF Arrival, Webhook, InvoiceStatus, InvoiceSettle, tables, outside
  <1>4. CASE \E w \in Settlers : Settle(w)
    <2>1. PICK w \in Settlers : Settle(w)
          BY <1>4
    <2>2. CASE Grant(w)
          BY <2>2, GrantIsCredit DEF Ledger!Next
    <2>3. CASE UNCHANGED <<payments, settled, pots>>
          BY <1>1, <2>3
    <2> QED BY <2>1, <2>2, <2>3 DEF Settle, AskPaid, AskUnpaid, GrantRolledBack, tables, outside
  <1>5. CASE PollLoop
    <2>1. CASE ExpireStalePayments
      <3>1. \A h \in Hashes : BillOf(payments'[h]) = BillOf(payments[h])
            BY <2>1 DEF IInv, TypeOK, Payment, ExpireStalePayments, Stale, BillOf
      <3>2. UNCHANGED <<Bills, settled, Quota>>
            BY <2>1, <3>1 DEF Bills, Quota, ExpireStalePayments, outside
      <3> QED BY <3>2
    <2>2. CASE UNCHANGED <<payments, settled, pots>>
          BY <1>1, <2>2
    <2> QED BY <1>5, <2>1, <2>2 DEF PollLoop, PollList, PollSettle, PurgeNip05Names, tables, outside
  <1>6. CASE Environment
    <2>1. CASE \E h \in Hashes : Pay(h)
          BY <2>1, PayIsPay DEF Ledger!Next
    <2>2. CASE \E g \in GroupIds : DeleteGroup(g)
          BY <2>2, DeleteIsClose DEF DeleteGroup, Ledger!Next, Targets, outside
    <2>3. CASE \E k \in Pubkeys : DeleteAccount(k)
          BY <2>3, DeleteIsClose DEF DeleteAccount, Ledger!Next, Targets, outside
    <2>4. CASE UNCHANGED <<payments, settled, pots>>
          BY <1>1, <2>4
    <2> QED BY <1>6, <2>1, <2>2, <2>3, <2>4
        DEF Environment, Tick, Restart, SwitchBackend, SaveNip05Name, DeleteNip05Name, tables, outside
  <1>7. CASE UNCHANGED vars
        BY <1>1, <1>7 DEF vars, tables, outside
  <1> QED BY <1>2, <1>3, <1>4, <1>5, <1>6, <1>7 DEF Next

\* Whatever the number of webhooks, panels, polls, restarts and backends, an invoice
\* is credited at most once, in one step, after it was paid.
THEOREM BillingImplementsLedger == Spec => LedgerSpec
  <1>1. Init => Ledger!Init
        BY DEF Init, Ledger!Init, NoPayment, NoPot, BillOf
  <1> QED BY <1>1, LedgerStep, Invariance, PTL DEF Spec, LedgerSpec, Ledger!Spec
----------------------------------------------------------------------------
(* Names.                                                                  *)

\* What may become of a held row: its owner and term are kept.
RowKept(old, new) ==
    /\ new.pubkey = old.pubkey /\ new.expires >= old.expires
    /\ old.permanent => new.permanent

LEMMA RowsKept ==
  ASSUME NEW row \in Nip05Name, NEW k \in Pubkeys, NEW t \in Nat, NEW u \in Nat,
         NEW d \in Nat, NEW f \in BOOLEAN,
         row.pubkey = Nobody => row = FreeName, Held(row, t)
  PROVE  /\ RowKept(row, row)
         /\ CanReserve(row, k, t) => RowKept(row, Reserved(row, k, u))
         /\ RowKept(row, Granted(row, d, f, t))
         /\ RowKept(row, Purged(row, t))
         /\ Released(row, k) # row => Released(row, k) = FreeName /\ row.pubkey = k /\ ~Live(row, t)
  <1>1. row.pubkey # Nobody
        BY DEF Held, Live, FreeName
  <1>2. RowKept(row, row) /\ RowKept(row, Purged(row, t))
        BY DEF RowKept, Purged, Nip05Name
  <1>3. CanReserve(row, k, t) => RowKept(row, Reserved(row, k, u))
    <2> SUFFICES ASSUME CanReserve(row, k, t) PROVE RowKept(row, Reserved(row, k, u))
        OBVIOUS
    <2>1. row.pubkey = k
          BY <1>1 DEF CanReserve, Held, Live, Nip05Name
    <2> QED BY <2>1 DEF RowKept, Reserved, Nip05Name
  <1>4. RowKept(row, Granted(row, d, f, t))
    <2>1. Maximum(row.expires, t) + d >= row.expires
          BY DEF Maximum, Nip05Name
    <2> QED BY <2>1 DEF RowKept, Granted, Nip05Name
  <1>5. Released(row, k) # row => Released(row, k) = FreeName /\ row.pubkey = k /\ ~Live(row, t)
        BY DEF Released, Live
  <1> QED BY <1>2, <1>3, <1>4, <1>5

LEMMA NameSteps ==
  ASSUME IInv, [Next]_vars, NEW n \in Names, Held(names[n], now), n \notin meddled' \ meddled
  PROVE  \/ RowKept(names[n], names'[n])
         \/ /\ names'[n] = FreeName /\ ~Live(names[n], now)
            /\ \E r \in Requests : /\ requests[r].pubkey = names[n].pubkey
                                  /\ requests[r].meta.name = n
                                  /\ requests'[r] = IdleRequest
  <1> DEFINE row == names[n]
  <1>1. /\ row \in Nip05Name /\ now \in Nat /\ (row.pubkey = Nobody => row = FreeName)
        /\ RowKept(row, row)
        BY DEF IInv, TypeOK, NameInv, RowKept, Nip05Name
  <1>2. ASSUME NEW r \in Requests, Reserve(r)
        PROVE  RowKept(row, names'[n])
    <2> DEFINE q == requests[r]
    <2>1. q.pubkey \in Pubkeys /\ now + InvoiceTTL \in Nat
          BY <1>1, <1>2, BillingAssumption DEF IInv, RequestInv, Reserve
    <2>2. CASE q.meta.name = n /\ q.meta.name # NoName
      <3>1. CanReserve(row, q.pubkey, now) /\ names'[n] = Reserved(row, q.pubkey, now + InvoiceTTL)
            BY <1>2, <2>2 DEF Reserve, IInv, TypeOK
      <3> HIDE DEF row, q
      <3>2. Held(row, now) /\ 0 \in Nat /\ FALSE \in BOOLEAN
            BY DEF row
      <3>3. RowKept(row, Reserved(row, q.pubkey, now + InvoiceTTL))
            BY <1>1, <2>1, <3>1, <3>2, RowsKept
      <3> QED BY <3>1, <3>3
    <2>3. CASE q.meta.name # n \/ q.meta.name = NoName
          BY <1>1, <1>2, <2>3 DEF Reserve, IInv, TypeOK
    <2> QED BY <2>2, <2>3
  <1>3. ASSUME NEW r \in Requests, CheckoutFails(r), names'[n] # row
        PROVE  /\ names'[n] = FreeName /\ ~Live(row, now) /\ requests[r].pubkey = row.pubkey
               /\ requests[r].meta.name = n /\ requests'[r] = IdleRequest
    <2> DEFINE q == requests[r]
    <2>1. q.pubkey \in Pubkeys /\ requests'[r] = IdleRequest
          BY <1>3 DEF IInv, TypeOK, RequestInv, CheckoutFails
    <2>2. q.meta.name = n /\ names'[n] = Released(row, q.pubkey)
          BY <1>3 DEF CheckoutFails, NameReleased, IInv, TypeOK
    <2> HIDE DEF row
    <2>3. Released(row, q.pubkey) = FreeName /\ row.pubkey = q.pubkey /\ ~Live(row, now)
          BY <1>1, <1>3, <2>1, <2>2, RowsKept DEF row
    <2> QED BY <2>1, <2>2, <2>3
  <1>4. ASSUME NEW w \in Settlers, Grant(w)
        PROVE  RowKept(row, names'[n])
    <2> DEFINE p == payments[workers[w].hash]
    <2>1. workers[w].hash \in Hashes /\ p.status # "none" /\ NameGranted(p)
          BY <1>4 DEF IInv, WorkerInv, Grant
    <2>2. p.pubkey \in Pubkeys /\ p.meta \in PaymentMeta
          BY <2>1, RecordedTarget
    <2>3. p.meta.nameDays \in Nat /\ p.meta.nameForever \in BOOLEAN
          BY <2>2 DEF PaymentMeta
    <2>4. CASE names'[n] = Granted(row, p.meta.nameDays, p.meta.nameForever, now)
      <3>1. RowKept(row, Granted(row, p.meta.nameDays, p.meta.nameForever, now))
            BY <1>1, <2>2, <2>3, RowsKept
      <3> QED BY <2>4, <3>1
    <2>5. CASE names'[n] = row
          BY <1>1, <2>5
    <2> QED BY <2>1, <2>4, <2>5 DEF NameGranted, IInv, TypeOK
  <1>5. ASSUME PurgeNip05Names
        PROVE  RowKept(row, names'[n])
        BY <1>1, <1>5 DEF PurgeNip05Names, Purged
  <1>6. ASSUME NEW m \in Names,
               DeleteNip05Name(m) \/ \E k \in Pubkeys, f \in BOOLEAN : SaveNip05Name(m, k, f)
        PROVE  names'[n] = row
        BY <1>6 DEF DeleteNip05Name, SaveNip05Name, IInv, TypeOK
  <1>7. CASE UNCHANGED names
        BY <1>1, <1>7
  <1> HIDE DEF row
  <1> QED
    <2>1. UNCHANGED vars => UNCHANGED names
          BY DEF vars, tables
    <2>2. Checkout => \/ UNCHANGED names
                      \/ \E r \in Requests : Reserve(r) \/ CheckoutFails(r)
          BY DEF Checkout, Quote, CheckoutRefused, OpenInvoice, RecordPayment, tables
    <2>3. Arrival => UNCHANGED names
          BY DEF Arrival, Webhook, InvoiceStatus, InvoiceSettle, tables
    <2>4. (\E w \in Settlers : Settle(w)) => UNCHANGED names \/ \E w \in Settlers : Grant(w)
          BY DEF Settle, AskPaid, AskUnpaid, GrantRolledBack, tables
    <2>5. PollLoop => UNCHANGED names \/ PurgeNip05Names
          BY DEF PollLoop, PollList, PollSettle, ExpireStalePayments, tables
    <2>6. Environment =>
            \/ UNCHANGED names
            \/ \E m \in Names : \/ DeleteNip05Name(m)
                                \/ \E k \in Pubkeys, f \in BOOLEAN : SaveNip05Name(m, k, f)
          BY DEF Environment, Tick, Restart, Pay, SwitchBackend, DeleteGroup, DeleteAccount, tables
    <2> QED BY <1>1, <1>2, <1>3, <1>4, <1>5, <1>6, <1>7, <2>1, <2>2, <2>3, <2>4, <2>5, <2>6
        DEF Next, row

\* A held name is its owner's: for any number of buyers, checkouts, failures and
\* purges, only an admin hands it to somebody else or shortens it.
THEOREM HeldNameStays == Spec => HeldNameIsKept
  <1>1. IInv /\ [Next]_vars =>
          [\A n \in Names : LET old == names[n]
                               new == names'[n] IN
             Held(old, now) /\ n \notin meddled' \ meddled =>
                 \/ new.pubkey = old.pubkey /\ new.expires >= old.expires
                    /\ (old.permanent => new.permanent)
                 \/ new = FreeName /\ ~Live(old, now)
                    /\ \E r \in Requests : /\ requests[r].pubkey = old.pubkey
                                            /\ requests[r].meta.name = n
                                            /\ requests'[r] = IdleRequest]_names
        BY NameSteps DEF RowKept
  <1> QED BY <1>1, Invariance, PTL DEF Spec, HeldNameIsKept
----------------------------------------------------------------------------
(* What is bought, and what is held.  The account an order is for may be   *)
(* opened, admitted or deleted while the order is out: what an order still *)
(* promises when it settles is an invariant of its own.                    *)

Admitted(k) == \E h \in PaidFor(k) : payments[h].meta.admission

\* An order of buyer k that is out: its group has an owner, and one that opens
\* the account comes with admission and a plan, or follows one that did.
Sound(k, m) ==
    /\ m.group \in GroupIds => owner[m.group] # Nobody
    /\ OpensAccount(m) => m.admission \/ Admitted(k)
    /\ OpensAccount(m) => m.days > 0 \/ m.permanent \/ pots[k].exists \/ k \in meddled

OrderInv ==
    /\ \A r \in Requests : requests[r].at # "idle" =>
          Sound(requests[r].pubkey, requests[r].meta)
    /\ \A h \in Hashes : payments[h].status # "none" =>
          Sound(payments[h].pubkey, payments[h].meta)

\* An account was paid admission for, and has a plan unless an admin deleted it once.
AccountInv ==
    /\ AccountsAreAdmitted
    /\ \A k \in Pubkeys \ meddled : pots[k].exists => pots[k].permanent \/ pots[k].expires > 0

\* The sums are of finitely many rows, and match the pots; into an account that
\* does not exist nothing was paid but names.
Recorded == {h \in Hashes : payments[h].status # "none"}
SumInv ==
    /\ IsFiniteSet(Recorded)
    /\ QuotaIsLedger /\ TermCoversPaidDays
    /\ \A k \in Pubkeys \ meddled : ~pots[k].exists =>
          \A h \in PaidFor(k) : payments[h].meta.mb = 0 /\ payments[h].meta.days = 0

LedgerInv == OrderInv /\ AccountInv /\ SumInv
LEMMA InitLedgerInv == Init => LedgerInv
  <1> SUFFICES ASSUME Init PROVE LedgerInv
      OBVIOUS
  <1>1. Recorded = {} /\ \A t : PaidFor(t) = {}
        BY DEF Init, Recorded, PaidFor, NoPayment
  <1>2. \A t \in Targets : ~pots[t].exists
        BY DEF Init, NoPot
  <1>3. OrderInv
        BY DEF Init, OrderInv, IdleRequest, NoPayment
  <1>4. AccountInv
        BY <1>2 DEF AccountInv, AccountsAreAdmitted, Targets
  <1>5. SumInv
        BY <1>1, <1>2, FS_EmptySet DEF SumInv, QuotaIsLedger, TermCoversPaidDays
  <1> QED BY <1>3, <1>4, <1>5 DEF LedgerInv

\* What no step undoes: a payment that settled, the owner a group was created for,
\* what an admin touched, and an account but by its deletion.
LEMMA Kept ==
  ASSUME IInv, [Next]_vars
  PROVE  /\ meddled \subseteq meddled'
         /\ \A g \in GroupIds : owner[g] # Nobody => owner'[g] # Nobody
         /\ \A h \in Hashes : payments[h].status = "paid" =>
               /\ payments'[h].status = "paid"
               /\ payments'[h].meta = payments[h].meta
               /\ payments'[h].pubkey = payments[h].pubkey
         /\ \A k \in Pubkeys : pots[k].exists => pots'[k].exists \/ k \in meddled'
  <1>1. ASSUME NEW g \in GroupIds, NEW k \in Pubkeys, GroupCreated(g, k)
        PROVE  /\ \A f \in GroupIds : owner[f] # Nobody => owner'[f] # Nobody
               /\ \A t \in Targets : pots[t].exists => pots'[t].exists
        BY <1>1 DEF GroupCreated, IInv, TypeOK, NoPot
  <1>2. CASE \E r \in Requests : OpenInvoice(r) \/ CheckoutFails(r)
    <2>1. PICK r \in Requests : OpenInvoice(r) \/ CheckoutFails(r)
          BY <1>2
    <2>2. requests[r].pubkey \in Pubkeys
          BY <2>1 DEF IInv, RequestInv, OpenInvoice, CheckoutFails
    <2>3. \/ UNCHANGED <<owner, pots>>
          \/ \E g \in GroupIds : GroupCreated(g, requests[r].pubkey)
          BY <2>1 DEF OpenInvoice, CheckoutFails
    <2>4. UNCHANGED <<payments, meddled>>
          BY <2>1 DEF OpenInvoice, CheckoutFails
    <2> QED BY <1>1, <2>2, <2>3, <2>4 DEF Targets
  <1>3. CASE \E r \in Requests : RecordPayment(r)
        BY <1>3 DEF IInv, TypeOK, RequestInv, RecordPayment
  <1>4. CASE \E w \in Settlers : Grant(w)
    <2>1. PICK w \in Settlers : Grant(w)
          BY <1>4
    <2>2. workers[w].hash \in Hashes /\ payments[workers[w].hash].status # "none"
          BY <2>1 DEF IInv, WorkerInv, Grant
    <2>3. PotGranted(payments[workers[w].hash]) /\ UNCHANGED <<owner, meddled>>
          BY <2>1 DEF Grant
    <2>4. \A t \in Targets : pots[t].exists => pots'[t].exists
      <3>1. CASE UNCHANGED pots
            BY <3>1
      <3>2. CASE \E t \in Targets, m \in PaymentMeta : pots' = [pots EXCEPT ![t] = Entitled(pots[t], m)]
            BY <3>2 DEF IInv, TypeOK, Entitled
      <3> QED BY <2>2, <2>3, <3>1, <3>2, PotGrantedStep
    <2>5. \A h \in Hashes : payments[h].status = "paid" => payments'[h] = payments[h]
          BY <2>1, <2>2 DEF Grant, Settleable, IInv, TypeOK
    <2> QED BY <2>3, <2>4, <2>5 DEF Targets
  <1>5. CASE ExpireStalePayments
        BY <1>5 DEF IInv, TypeOK, Payment, ExpireStalePayments, Stale
  <1>6. CASE \E g \in GroupIds : DeleteGroup(g)
        BY <1>6, BillingAssumption DEF DeleteGroup, IInv, TypeOK, Targets
  <1>7. CASE \E k \in Pubkeys : DeleteAccount(k)
        BY <1>7 DEF DeleteAccount, IInv, TypeOK, Targets
  <1>8. CASE \E n \in Names : \/ DeleteNip05Name(n)
                             \/ \E k \in Pubkeys, f \in BOOLEAN : SaveNip05Name(n, k, f)
        BY <1>8 DEF DeleteNip05Name, SaveNip05Name
  <1>9. CASE UNCHANGED <<payments, pots, owner, meddled>>
        BY <1>9
  <1> QED
    <2>1. UNCHANGED vars => UNCHANGED <<payments, pots, owner, meddled>>
          BY DEF vars, tables
    <2>2. Checkout => \/ UNCHANGED <<payments, pots, owner, meddled>>
                      \/ \E r \in Requests : \/ OpenInvoice(r) \/ CheckoutFails(r)
                                             \/ RecordPayment(r)
          BY DEF Checkout, Quote, Reserve, CheckoutRefused, tables
    <2>3. Arrival => UNCHANGED <<payments, pots, owner, meddled>>
          BY DEF Arrival, Webhook, InvoiceStatus, InvoiceSettle, tables
    <2>4. (\E w \in Settlers : Settle(w)) =>
             \/ UNCHANGED <<payments, pots, owner, meddled>>
             \/ \E w \in Settlers : Grant(w)
          BY DEF Settle, AskPaid, AskUnpaid, GrantRolledBack, tables
    <2>5. PollLoop => UNCHANGED <<payments, pots, owner, meddled>> \/ ExpireStalePayments
          BY DEF PollLoop, PollList, PollSettle, PurgeNip05Names, tables
    <2>6. Environment => \/ UNCHANGED <<payments, pots, owner, meddled>>
                         \/ \E g \in GroupIds : DeleteGroup(g)
                         \/ \E k \in Pubkeys : DeleteAccount(k)
                         \/ \E n \in Names : \/ DeleteNip05Name(n)
                                             \/ \E k \in Pubkeys, f \in BOOLEAN : SaveNip05Name(n, k, f)
          BY DEF Environment, Tick, Restart, Pay, SwitchBackend, tables
    <2> QED BY <1>2, <1>3, <1>4, <1>5, <1>6, <1>7, <1>8, <1>9,
               <2>1, <2>2, <2>3, <2>4, <2>5, <2>6 DEF Next

\* So an order that is sound stays so for as long as it is out.
LEMMA SoundStays ==
  ASSUME IInv, [Next]_vars, NEW k \in Pubkeys, NEW m \in PaymentMeta, Sound(k, m)
  PROVE  Sound(k, m)'
  <1>1. Admitted(k) => Admitted(k)'
    <2> SUFFICES ASSUME Admitted(k) PROVE Admitted(k)'
        OBVIOUS
    <2>1. PICK h \in Hashes : /\ payments[h].status = "paid" /\ PotOf(payments[h]) = k
                             /\ payments[h].meta.admission
          BY DEF Admitted, PaidFor
    <2>2. /\ payments'[h].status = "paid" /\ payments'[h].meta = payments[h].meta
          /\ payments'[h].pubkey = payments[h].pubkey
          BY <2>1, Kept
    <2> QED BY <2>1, <2>2 DEF Admitted, PaidFor, PotOf
  <1>2. m.group \in GroupIds => owner'[m.group] # Nobody
        BY Kept DEF Sound
  <1>3. OpensAccount(m) => m.admission \/ Admitted(k)'
        BY <1>1 DEF Sound
  <1>4. OpensAccount(m) => m.days > 0 \/ m.permanent \/ pots'[k].exists \/ k \in meddled'
        BY Kept DEF Sound
  <1> QED BY <1>2, <1>3, <1>4 DEF Sound

\* What is quoted is sound: a new account is quoted admission and a plan.
LEMMA QuotedIsSound ==
  ASSUME IInv, AccountInv, NEW k \in Pubkeys, NEW o \in Orders, Quotable(k, o)
  PROVE  Sound(k, Quoted(k, o))
  <1> DEFINE m == Quoted(k, o)
  <1>1. o \in Order /\ m \in PaymentMeta /\ PeriodTime \in Nat /\ IncludedMB \in Nat /\ PeriodTime > 0
        BY BillingAssumption, QuotedType DEF IInv, TypeOK
  <1>2. m.group \in GroupIds => owner[m.group] # Nobody
        BY NobodyAssumption, BillingAssumption DEF Quotable, GroupQuote, Quoted
  <1>3. ASSUME OpensAccount(m) PROVE o.group = NoGroup /\ ForAccess(o)
    <2>1. o.group = NoGroup
          BY <1>3 DEF OpensAccount, Quoted
    <2>2. CASE ~ForAccess(o)
      <3>1. o.periods = 0 /\ o.extraMB = 0 /\ o.lifetimeMB = 0
            BY <1>1, <2>2 DEF ForAccess, Order
      <3>2. PeriodTime * o.periods = 0 /\ IncludedMB * o.periods + o.extraMB + o.lifetimeMB = 0
            BY <1>1, <3>1
      <3>3. m.days = 0 /\ m.mb = 0
            BY <3>2 DEF Quoted
      <3>4. ~m.permanent
        <4>1. ~(o.lifetimeMB > 0)
              BY <3>1
        <4> QED BY <4>1, Zenon DEF Quoted
      <3>5. ~m.admission
            BY <2>2, Zenon DEF Quoted
      <3> QED BY <1>3, <3>3, <3>4, <3>5 DEF OpensAccount
    <2> QED BY <2>1, <2>2
  <1>4. OpensAccount(m) => m.admission \/ Admitted(k)
    <2> SUFFICES ASSUME OpensAccount(m) PROVE m.admission \/ Admitted(k)
        OBVIOUS
    <2>1. pots[k].exists => Admitted(k)
          BY DEF AccountInv, AccountsAreAdmitted, Admitted
    <2> QED BY <1>3, <2>1 DEF Quoted
  <1>5. OpensAccount(m) => m.days > 0 \/ m.permanent \/ pots[k].exists
    <2> SUFFICES ASSUME OpensAccount(m), ~pots[k].exists PROVE m.days > 0 \/ m.permanent
        OBVIOUS
    <2>1. o.periods > 0 \/ o.lifetimeMB > 0
          BY <1>3 DEF Quotable, AccountQuote
    <2>2. ASSUME NEW a \in Nat, NEW b \in Nat, a > 0, b > 0 PROVE a * b > 0
          BY <2>2
    <2>3. o.periods > 0 => PeriodTime * o.periods > 0
          BY <1>1, <2>2 DEF Order
    <2> QED BY <2>1, <2>3 DEF Quoted
  <1> QED BY <1>2, <1>4, <1>5 DEF Sound

\* Where an order that is being placed comes from: the quote, the step before,
\* or the creation of its group.
LEMMA RequestSteps ==
  ASSUME IInv, [Next]_vars, NEW r \in Requests, requests'[r].at # "idle"
  PROVE  LET old == requests[r]
             new == requests'[r] IN
         \/ \E k \in Pubkeys, o \in Orders :
               Quotable(k, o) /\ new.pubkey = k /\ new.meta = Quoted(k, o)
         \/ /\ old.at # "idle" /\ new.pubkey = old.pubkey
            /\ \/ new.meta = old.meta
               \/ \E g \in GroupIds : new.meta = BilledTo(old.meta, g) /\ owner'[g] # Nobody
  <1>1. requests[r] \in CheckoutRequest /\ (requests[r].at # "idle" => requests[r].pubkey \in Pubkeys)
        BY DEF IInv, TypeOK, RequestInv
  <1>2. CASE \E k \in Pubkeys, o \in Orders : Quote(r, k, o)
        BY <1>2 DEF Quote, IInv, TypeOK
  <1>3. CASE Reserve(r)
    <2>1. requests[r].at # "idle" /\ requests' = [requests EXCEPT ![r].at = "reserved"]
          BY <1>3 DEF Reserve
    <2> QED BY <1>1, <2>1 DEF CheckoutRequest, IInv, TypeOK
  <1>4. CASE OpenInvoice(r)
    <2>1. requests[r].at # "idle" /\ requests[r].pubkey \in Pubkeys
          BY <1>1, <1>4 DEF OpenInvoice
    <2>2. PICK h \in Hashes :
             \/ requests' = [requests EXCEPT ![r].at = "invoiced", ![r].hash = h]
             \/ \E g \in GroupIds :
                   /\ GroupCreated(g, requests[r].pubkey)
                   /\ requests' = [requests EXCEPT ![r].at = "invoiced", ![r].hash = h,
                                                   ![r].meta = BilledTo(@, g)]
          BY <1>4 DEF OpenInvoice
    <2>3. CASE requests' = [requests EXCEPT ![r].at = "invoiced", ![r].hash = h]
          BY <1>1, <2>1, <2>3 DEF IInv, TypeOK, CheckoutRequest
    <2>4. CASE \E g \in GroupIds :
                   /\ GroupCreated(g, requests[r].pubkey)
                   /\ requests' = [requests EXCEPT ![r].at = "invoiced", ![r].hash = h,
                                                   ![r].meta = BilledTo(@, g)]
      <3>1. PICK g \in GroupIds :
                   /\ GroupCreated(g, requests[r].pubkey)
                   /\ requests' = [requests EXCEPT ![r].at = "invoiced", ![r].hash = h,
                                                   ![r].meta = BilledTo(@, g)]
            BY <2>4
      <3>2. owner'[g] # Nobody
            BY <2>1, <3>1, NobodyAssumption DEF GroupCreated, IInv, TypeOK
      <3>3. requests'[r].pubkey = requests[r].pubkey /\ requests'[r].meta = BilledTo(requests[r].meta, g)
            BY <1>1, <3>1 DEF IInv, TypeOK, CheckoutRequest
      <3> QED BY <2>1, <3>2, <3>3
    <2> QED BY <2>2, <2>3, <2>4
  <1>5. CASE \E s \in Requests : \/ CheckoutRefused(s) \/ CheckoutFails(s) \/ RecordPayment(s)
                                 \/ s # r /\ (Reserve(s) \/ OpenInvoice(s))
                                 \/ s # r /\ \E k \in Pubkeys, o \in Orders : Quote(s, k, o)
    <2>1. PICK s \in Requests : \/ CheckoutRefused(s) \/ CheckoutFails(s) \/ RecordPayment(s)
                                \/ s # r /\ (Reserve(s) \/ OpenInvoice(s))
                                \/ s # r /\ \E k \in Pubkeys, o \in Orders : Quote(s, k, o)
          BY <1>5
    <2>2. CASE s = r
          BY <2>1, <2>2 DEF CheckoutRefused, CheckoutFails, RecordPayment, IdleRequest, IInv, TypeOK
    <2>3. CASE s # r
      <3>1. requests'[r] = requests[r]
            BY <2>1, <2>3
            DEF Quote, Reserve, OpenInvoice, CheckoutRefused, CheckoutFails, RecordPayment, IInv, TypeOK
      <3> QED BY <3>1
    <2> QED BY <2>2, <2>3
  <1>6. CASE Restart
        BY <1>6 DEF Restart, IdleRequest
  <1>7. CASE UNCHANGED requests
        BY <1>7
  <1> QED
    <2>1. UNCHANGED vars => UNCHANGED requests
          BY DEF vars
    <2>2. Checkout => \/ \E k \in Pubkeys, o \in Orders : Quote(r, k, o)
                      \/ Reserve(r) \/ OpenInvoice(r)
                      \/ \E s \in Requests : \/ CheckoutRefused(s) \/ CheckoutFails(s) \/ RecordPayment(s)
                                             \/ s # r /\ (Reserve(s) \/ OpenInvoice(s))
                                             \/ s # r /\ \E k \in Pubkeys, o \in Orders : Quote(s, k, o)
          BY DEF Checkout
    <2>3. Arrival => UNCHANGED requests
          BY DEF Arrival, Webhook, InvoiceStatus, InvoiceSettle
    <2>4. (\E w \in Settlers : Settle(w)) => UNCHANGED requests
          BY DEF Settle, AskPaid, AskUnpaid, Grant, GrantRolledBack
    <2>5. PollLoop => UNCHANGED requests
          BY DEF PollLoop, PollList, PollSettle, ExpireStalePayments, PurgeNip05Names
    <2>6. Environment => UNCHANGED requests \/ Restart
          BY DEF Environment, Tick, Pay, SwitchBackend, DeleteGroup, DeleteAccount, SaveNip05Name,
             DeleteNip05Name
    <2> QED BY <1>2, <1>3, <1>4, <1>5, <1>6, <1>7, <2>1, <2>2, <2>3, <2>4, <2>5, <2>6 DEF Next

\* Where a recorded invoice comes from: an order that was being placed.
LEMMA RecordSteps ==
  ASSUME IInv, [Next]_vars, NEW h \in Hashes, payments'[h].status # "none"
  PROVE  \/ /\ payments[h].status # "none"
            /\ payments'[h].pubkey = payments[h].pubkey /\ payments'[h].meta = payments[h].meta
         \/ \E r \in Requests : /\ RecordPayment(r) /\ h = requests[r].hash
                               /\ requests[r].at # "idle"
                               /\ payments'[h].pubkey = requests[r].pubkey
                               /\ payments'[h].meta = requests[r].meta
  <1>1. CASE \E r \in Requests : RecordPayment(r)
    <2>1. PICK r \in Requests : RecordPayment(r)
          BY <1>1
    <2>2. requests[r].at # "idle" /\ requests[r].hash \in Hashes
          BY <2>1 DEF IInv, RequestInv, RecordPayment
    <2>3. payments' = [payments EXCEPT ![requests[r].hash] =
                          [status |-> "pending", pubkey |-> requests[r].pubkey,
                           meta |-> requests[r].meta, created |-> now]]
          BY <2>1 DEF RecordPayment
    <2> QED BY <2>1, <2>2, <2>3 DEF IInv, TypeOK
  <1>2. CASE \E w \in Settlers : Grant(w)
        BY <1>2 DEF IInv, TypeOK, Payment, WorkerInv, Grant
  <1>3. CASE ExpireStalePayments
        BY <1>3 DEF IInv, TypeOK, Payment, ExpireStalePayments, Stale
  <1>4. CASE UNCHANGED payments
        BY <1>4
  <1> QED
    <2>1. UNCHANGED vars => UNCHANGED payments
          BY DEF vars, tables
    <2>2. Checkout => UNCHANGED payments \/ \E r \in Requests : RecordPayment(r)
          BY DEF Checkout, Quote, Reserve, CheckoutRefused, OpenInvoice, CheckoutFails, tables
    <2>3. Arrival => UNCHANGED payments
          BY DEF Arrival, Webhook, InvoiceStatus, InvoiceSettle, tables
    <2>4. (\E w \in Settlers : Settle(w)) => UNCHANGED payments \/ \E w \in Settlers : Grant(w)
          BY DEF Settle, AskPaid, AskUnpaid, GrantRolledBack, tables
    <2>5. PollLoop => UNCHANGED payments \/ ExpireStalePayments
          BY DEF PollLoop, PollList, PollSettle, PurgeNip05Names, tables
    <2>6. Environment => UNCHANGED payments
          BY DEF Environment, Tick, Restart, Pay, SwitchBackend, DeleteGroup, DeleteAccount,
             SaveNip05Name, DeleteNip05Name, tables
    <2> QED BY <1>1, <1>2, <1>3, <1>4, <2>1, <2>2, <2>3, <2>4, <2>5, <2>6 DEF Next

LEMMA OrderStep == IInv /\ OrderInv /\ AccountInv /\ [Next]_vars => OrderInv'
  <1> SUFFICES ASSUME IInv, OrderInv, AccountInv, [Next]_vars PROVE OrderInv'
      OBVIOUS
  <1>1. ASSUME NEW r \in Requests, requests[r].at # "idle"
        PROVE  /\ requests[r].pubkey \in Pubkeys /\ requests[r].meta \in PaymentMeta
               /\ Sound(requests[r].pubkey, requests[r].meta)
        BY <1>1 DEF IInv, TypeOK, RequestInv, CheckoutRequest, OrderInv
  <1>2. ASSUME NEW r \in Requests, requests'[r].at # "idle",
               NEW k, k = requests'[r].pubkey, NEW m, m = requests'[r].meta
        PROVE  Sound(k, m)'
    <2>1. CASE \E b \in Pubkeys, o \in Orders :
                  Quotable(b, o) /\ requests'[r].pubkey = b /\ requests'[r].meta = Quoted(b, o)
      <3>1. PICK o \in Orders : k \in Pubkeys /\ Quotable(k, o) /\ m = Quoted(k, o)
            BY <1>2, <2>1
      <3>2. m \in PaymentMeta /\ Sound(k, m)
            BY <3>1, QuotedType, QuotedIsSound DEF IInv, TypeOK
      <3> QED BY <3>1, <3>2, SoundStays
    <2>2. CASE requests[r].at # "idle" /\ k = requests[r].pubkey /\ m = requests[r].meta
          BY <1>1, <2>2, SoundStays
    <2>3. CASE /\ requests[r].at # "idle"
               /\ \E g \in GroupIds : m = BilledTo(requests[r].meta, g) /\ owner'[g] # Nobody
      <3>1. PICK g \in GroupIds : m = BilledTo(requests[r].meta, g) /\ owner'[g] # Nobody
            BY <2>3
      <3>2. m.group = g /\ g # NoGroup
            BY <1>1, <2>3, <3>1, BillingAssumption DEF BilledTo, PaymentMeta
      <3> QED BY <3>1, <3>2 DEF Sound, OpensAccount
    <2> QED BY <1>2, <2>1, <2>2, <2>3, RequestSteps
  <1>3. ASSUME NEW h \in Hashes, payments'[h].status # "none",
               NEW k, k = payments'[h].pubkey, NEW m, m = payments'[h].meta
        PROVE  Sound(k, m)'
    <2>1. CASE payments[h].status # "none" /\ k = payments[h].pubkey /\ m = payments[h].meta
      <3>1. k \in Pubkeys /\ m \in PaymentMeta /\ Sound(k, m)
            BY <2>1, RecordedTarget DEF OrderInv
      <3> QED BY <3>1, SoundStays
    <2>2. CASE \E r \in Requests : requests[r].at # "idle" /\ k = requests[r].pubkey
                                   /\ m = requests[r].meta
          BY <1>1, <2>2, SoundStays
    <2> QED BY <1>3, <2>1, <2>2, RecordSteps
  <1> QED BY <1>2, <1>3 DEF OrderInv

\* A grant, seen from the tables: one row is flipped, and its pot is credited.
LEMMA GrantSteps ==
  ASSUME IInv, NEW w \in Settlers, Grant(w)
  PROVE  \E h \in Hashes :
            /\ payments[h].status \notin {"none", "paid"}
            /\ payments'[h].status = "paid" /\ payments'[h].meta = payments[h].meta
            /\ payments'[h].pubkey = payments[h].pubkey
            /\ \A i \in Hashes \ {h} : payments'[i] = payments[i]
            /\ PotGranted(payments[h])
            /\ UNCHANGED <<owner, meddled, now>>
  <1> DEFINE h == workers[w].hash
  <1>1. h \in Hashes /\ payments[h].status \notin {"none", "paid"}
        BY DEF IInv, WorkerInv, Grant, Settleable
  <1>2. /\ payments' = [payments EXCEPT ![h].status = "paid"]
        /\ PotGranted(payments[h]) /\ UNCHANGED <<owner, meddled, now>>
        BY DEF Grant
  <1> HIDE DEF h
  <1>3. /\ payments'[h].status = "paid" /\ payments'[h].meta = payments[h].meta
        /\ payments'[h].pubkey = payments[h].pubkey
        /\ \A i \in Hashes \ {h} : payments'[i] = payments[i]
        BY <1>1, <1>2 DEF IInv, TypeOK, Payment
  <1> QED BY <1>1, <1>2, <1>3

\* A step that is no grant settles nothing, and does to the pots no more than
\* create a group, delete one, or delete an account.
LEMMA OtherSteps ==
  ASSUME IInv, [Next]_vars, ~\E w \in Settlers : Grant(w)
  PROVE  /\ \A h \in Hashes : payments'[h].status = "paid" => payments[h].status = "paid"
         /\ \/ UNCHANGED pots
            \/ \E g \in GroupIds, k \in Pubkeys : GroupCreated(g, k)
            \/ \E t \in GroupIds \cup meddled' : pots' = [pots EXCEPT ![t] = NoPot]
  <1>1. CASE \E r \in Requests : RecordPayment(r)
        BY <1>1 DEF IInv, TypeOK, RequestInv, RecordPayment
  <1>2. CASE \E r \in Requests : OpenInvoice(r) \/ CheckoutFails(r)
    <2>1. PICK r \in Requests : OpenInvoice(r) \/ CheckoutFails(r)
          BY <1>2
    <2>2. requests[r].pubkey \in Pubkeys
          BY <2>1 DEF IInv, RequestInv, OpenInvoice, CheckoutFails
    <2>3. UNCHANGED pots \/ \E g \in GroupIds : GroupCreated(g, requests[r].pubkey)
          BY <2>1 DEF OpenInvoice, CheckoutFails
    <2>4. UNCHANGED payments
          BY <2>1 DEF OpenInvoice, CheckoutFails
    <2> QED BY <2>2, <2>3, <2>4
  <1>3. CASE ExpireStalePayments
        BY <1>3 DEF IInv, TypeOK, Payment, ExpireStalePayments, Stale
  <1>4. CASE \E g \in GroupIds : DeleteGroup(g)
        BY <1>4 DEF DeleteGroup
  <1>5. CASE \E k \in Pubkeys : DeleteAccount(k)
        BY <1>5 DEF DeleteAccount
  <1>6. CASE UNCHANGED <<payments, pots>>
        BY <1>6
  <1> QED
    <2>1. UNCHANGED vars => UNCHANGED <<payments, pots>>
          BY DEF vars, tables
    <2>2. Checkout => \/ UNCHANGED <<payments, pots>>
                      \/ \E r \in Requests : \/ OpenInvoice(r) \/ CheckoutFails(r)
                                             \/ RecordPayment(r)
          BY DEF Checkout, Quote, Reserve, CheckoutRefused, tables
    <2>3. Arrival => UNCHANGED <<payments, pots>>
          BY DEF Arrival, Webhook, InvoiceStatus, InvoiceSettle, tables
    <2>4. (\E w \in Settlers : Settle(w)) => UNCHANGED <<payments, pots>>
          BY DEF Settle, AskPaid, AskUnpaid, GrantRolledBack, tables
    <2>5. PollLoop => UNCHANGED <<payments, pots>> \/ ExpireStalePayments
          BY DEF PollLoop, PollList, PollSettle, PurgeNip05Names, tables
    <2>6. Environment => \/ UNCHANGED <<payments, pots>>
                         \/ \E g \in GroupIds : DeleteGroup(g)
                         \/ \E k \in Pubkeys : DeleteAccount(k)
          BY DEF Environment, Tick, Restart, Pay, SwitchBackend, SaveNip05Name, DeleteNip05Name,
             tables
    <2> QED BY <1>1, <1>2, <1>3, <1>4, <1>5, <1>6, <2>1, <2>2, <2>3, <2>4, <2>5, <2>6 DEF Next

\* What a grant does to the pot t of the invoice h, for the two invariants below.
LEMMA AccountGranted ==
  ASSUME IInv, OrderInv, AccountInv, NEW h \in Hashes, payments[h].status # "none",
         PotGranted(payments[h]), NEW k \in Pubkeys, PotOf(payments[h]) = k, pots'[k].exists
  PROVE  /\ payments[h].meta.admission \/ Admitted(k)
         /\ k \notin meddled => pots'[k].permanent \/ pots'[k].expires > 0
  <1> DEFINE m == payments[h].meta
  <1>1. m \in PaymentMeta /\ pots[k] \in Pot /\ now \in Nat /\ k \in Targets
        BY RecordedTarget DEF IInv, TypeOK, Targets
  <1>2. payments[h].pubkey = k
        BY RecordedTarget, BillingAssumption DEF PotOf, RecordedMeta, Payment, PaymentMeta
  <1>3. Sound(k, m)
        BY <1>2 DEF OrderInv
  <1>4. pots[k].exists \/ OpensAccount(m)
        BY DEF PotGranted
  <1>5. pots'[k] = Entitled(pots[k], m)
        BY <1>1, <1>4 DEF PotGranted, IInv, TypeOK
  <1>6. m.admission \/ Admitted(k)
        BY <1>3, <1>4 DEF Sound, AccountInv, AccountsAreAdmitted, Admitted
  <1>7. ASSUME k \notin meddled PROVE pots'[k].permanent \/ pots'[k].expires > 0
    <2>1. \/ pots[k].permanent \/ m.permanent
          \/ pots[k].expires > 0
          \/ m.days > 0
          BY <1>3, <1>4, <1>7 DEF Sound, AccountInv
    <2> HIDE DEF m
    <2>2. CASE pots[k].permanent \/ m.permanent
          BY <1>1, <1>5, <2>2 DEF Entitled, Pot, PaymentMeta
    <2>3. CASE ~m.permanent /\ ~pots[k].permanent /\ (pots[k].expires > 0 \/ m.days > 0)
      <3>1. Renewed(pots[k], m.days) > 0
            BY <1>1, <2>3 DEF Renewed, Maximum, Pot, PaymentMeta
      <3> QED BY <1>5, <2>3, <3>1 DEF Entitled
    <2> QED BY <2>1, <2>2, <2>3
  <1> QED BY <1>6, <1>7

LEMMA AccountStep == IInv /\ OrderInv /\ AccountInv /\ [Next]_vars => AccountInv'
  <1> SUFFICES ASSUME IInv, OrderInv, AccountInv, [Next]_vars,
                      NEW k \in Pubkeys, pots'[k].exists
               PROVE  /\ \E h \in PaidFor(k)' : payments'[h].meta.admission
                      /\ k \notin meddled' => pots'[k].permanent \/ pots'[k].expires > 0
      BY DEF AccountInv, AccountsAreAdmitted
  <1>1. k \in Targets /\ k \notin GroupIds /\ meddled \subseteq meddled'
        BY BillingAssumption, Kept DEF Targets
  <1>2. Admitted(k) => \E h \in PaidFor(k)' : payments'[h].meta.admission
        BY Kept DEF Admitted, PaidFor, PotOf
  <1>3. CASE pots'[k] = pots[k]
    <2>1. Admitted(k) /\ (k \notin meddled => pots[k].permanent \/ pots[k].expires > 0)
          BY <1>3 DEF AccountInv, AccountsAreAdmitted, Admitted
    <2> QED BY <1>1, <1>2, <1>3, <2>1
  <1>4. CASE \E w \in Settlers : Grant(w)
    <2>1. PICK h \in Hashes :
            /\ payments[h].status \notin {"none", "paid"}
            /\ payments'[h].status = "paid" /\ payments'[h].meta = payments[h].meta
            /\ payments'[h].pubkey = payments[h].pubkey
            /\ PotGranted(payments[h])
          BY <1>4, GrantSteps
    <2>2. CASE PotOf(payments[h]) = k
      <3>1. /\ payments[h].meta.admission \/ Admitted(k)
            /\ k \notin meddled => pots'[k].permanent \/ pots'[k].expires > 0
            BY <2>1, <2>2, AccountGranted
      <3>2. h \in PaidFor(k)'
            BY <2>1, <2>2 DEF PaidFor, PotOf
      <3> QED BY <1>1, <1>2, <2>1, <3>1, <3>2
    <2>3. CASE PotOf(payments[h]) # k
      <3>1. pots'[k] = pots[k]
            BY <1>1, <2>1, <2>3 DEF PotGranted, IInv, TypeOK
      <3> QED BY <1>3, <3>1
    <2> QED BY <2>2, <2>3
  <1>5. CASE ~\E w \in Settlers : Grant(w)
    <2>1. CASE UNCHANGED pots
          BY <1>3, <2>1
    <2>2. CASE \E g \in GroupIds, b \in Pubkeys : GroupCreated(g, b)
          BY <1>1, <1>3, <2>2 DEF GroupCreated, IInv, TypeOK
    <2>3. CASE \E t \in GroupIds \cup meddled' : pots' = [pots EXCEPT ![t] = NoPot]
          BY <1>1, <1>3, <2>3 DEF NoPot, IInv, TypeOK
    <2> QED BY <1>5, <2>1, <2>2, <2>3, OtherSteps
  <1> QED BY <1>4, <1>5

----------------------------------------------------------------------------
(* The sums.                                                               *)

\* The rows of a sum are finitely many, and its terms are naturals.
LEMMA PaidRows ==
  ASSUME IInv, SumInv, NEW t
  PROVE  /\ IsFiniteSet(PaidFor(t))
         /\ \A h \in Hashes : payments[h].meta.mb \in Nat /\ payments[h].meta.days \in Nat
         /\ PaidMB(t) \in Nat /\ PaidDays(t) \in Nat
  <1>1. PaidFor(t) \subseteq Recorded
        BY DEF PaidFor, Recorded
  <1>2. IsFiniteSet(PaidFor(t))
        BY <1>1, FS_Subset DEF SumInv
  <1>3. \A h \in Hashes : payments[h].meta.mb \in Nat /\ payments[h].meta.days \in Nat
        BY DEF IInv, TypeOK, Payment, RecordedMeta, PaymentMeta
  <1>4. \A h \in PaidFor(t) : /\ [i \in Hashes |-> payments[i].meta.mb][h] \in Nat
                              /\ [i \in Hashes |-> payments[i].meta.days][h] \in Nat
        BY <1>3 DEF PaidFor
  <1>5. PaidMB(t) \in Nat /\ PaidDays(t) \in Nat
        BY <1>2, <1>4, SumType DEF PaidMB, PaidDays
  <1> QED BY <1>2, <1>3, <1>5

\* What is paid into a pot stays the same when no row is settled...
LEMMA PaidStays ==
  ASSUME IInv, IInv', SumInv, [Next]_vars, NEW t, PaidFor(t)' = PaidFor(t)
  PROVE  PaidMB(t)' = PaidMB(t) /\ PaidDays(t)' = PaidDays(t)
  <1>1. IsFiniteSet(PaidFor(t)) /\ \A h \in PaidFor(t) : h \in Hashes /\ payments'[h].meta = payments[h].meta
        BY PaidRows, Kept DEF PaidFor
  <1>2. PaidMB(t)' = PaidMB(t)
    <2>1. ASSUME NEW f, f = [h \in Hashes |-> payments[h].meta.mb],
                 NEW g, g = [h \in Hashes |-> payments'[h].meta.mb]
          PROVE  SumFunctionOnSet(g, PaidFor(t)) = SumFunctionOnSet(f, PaidFor(t))
      <3>1. \A h \in PaidFor(t) : g[h] = f[h]
            BY <1>1, <2>1
      <3> QED BY <1>1, <3>1, SumAgrees
    <2> QED BY <2>1 DEF PaidMB
  <1>3. PaidDays(t)' = PaidDays(t)
    <2>1. ASSUME NEW f, f = [h \in Hashes |-> payments[h].meta.days],
                 NEW g, g = [h \in Hashes |-> payments'[h].meta.days]
          PROVE  SumFunctionOnSet(g, PaidFor(t)) = SumFunctionOnSet(f, PaidFor(t))
      <3>1. \A h \in PaidFor(t) : g[h] = f[h]
            BY <1>1, <2>1
      <3> QED BY <1>1, <3>1, SumAgrees
    <2> QED BY <2>1 DEF PaidDays
  <1> QED BY <1>2, <1>3

\* ... and grows by what the settled row is for.
LEMMA PaidGrows ==
  ASSUME IInv, IInv', SumInv, [Next]_vars, NEW t, NEW x \in Hashes, x \notin PaidFor(t),
         PaidFor(t)' = PaidFor(t) \cup {x}
  PROVE  /\ PaidMB(t)' = PaidMB(t) + payments'[x].meta.mb
         /\ PaidDays(t)' = PaidDays(t) + payments'[x].meta.days
  <1>1. IsFiniteSet(PaidFor(t)) /\ \A h \in PaidFor(t) : h \in Hashes /\ payments'[h].meta = payments[h].meta
        BY PaidRows, Kept DEF PaidFor
  <1>2. \A h \in Hashes : payments'[h].meta.mb \in Nat /\ payments'[h].meta.days \in Nat
        BY DEF IInv, TypeOK, Payment, RecordedMeta, PaymentMeta
  <1>3. PaidMB(t)' = PaidMB(t) + payments'[x].meta.mb
    <2>1. ASSUME NEW f, f = [h \in Hashes |-> payments[h].meta.mb],
                 NEW g, g = [h \in Hashes |-> payments'[h].meta.mb]
          PROVE  SumFunctionOnSet(g, PaidFor(t) \cup {x}) = SumFunctionOnSet(f, PaidFor(t)) + payments'[x].meta.mb
      <3>1. (\A h \in PaidFor(t) : f[h] = g[h]) /\ \A h \in PaidFor(t) \cup {x} : g[h] \in Int
            BY <1>1, <1>2, <2>1
      <3>2. g[x] = payments'[x].meta.mb
            BY <2>1
      <3> QED BY <1>1, <3>1, <3>2, SumGains
    <2> QED BY <2>1 DEF PaidMB
  <1>4. PaidDays(t)' = PaidDays(t) + payments'[x].meta.days
    <2>1. ASSUME NEW f, f = [h \in Hashes |-> payments[h].meta.days],
                 NEW g, g = [h \in Hashes |-> payments'[h].meta.days]
          PROVE  SumFunctionOnSet(g, PaidFor(t) \cup {x}) = SumFunctionOnSet(f, PaidFor(t)) + payments'[x].meta.days
      <3>1. (\A h \in PaidFor(t) : f[h] = g[h]) /\ \A h \in PaidFor(t) \cup {x} : g[h] \in Int
            BY <1>1, <1>2, <2>1
      <3>2. g[x] = payments'[x].meta.days
            BY <2>1
      <3> QED BY <1>1, <3>1, <3>2, SumGains
    <2> QED BY <2>1 DEF PaidDays
  <1> QED BY <1>3, <1>4

\* Nothing was paid into a group before it was created, and only names into an
\* account before it was opened.
LEMMA NothingPaidBefore ==
  ASSUME IInv, OrderInv, SumInv, NEW t \in Targets \ meddled,
         \/ t \in GroupIds /\ owner[t] = Nobody
         \/ t \in Pubkeys /\ ~pots[t].exists
  PROVE  PaidMB(t) = 0 /\ PaidDays(t) = 0
  <1>1. \A h \in PaidFor(t) : payments[h].meta.mb = 0 /\ payments[h].meta.days = 0
    <2>1. CASE t \in GroupIds /\ owner[t] = Nobody
      <3>1. PaidFor(t) = {}
        <4> SUFFICES ASSUME NEW h \in PaidFor(t) PROVE FALSE
            OBVIOUS
        <4>1. h \in Hashes /\ payments[h].status # "none" /\ PotOf(payments[h]) = t
              BY DEF PaidFor
        <4>2. payments[h].meta.group = t
              BY <2>1, <4>1, RecordedTarget
        <4> QED BY <2>1, <4>1, <4>2 DEF OrderInv, Sound
      <3> QED BY <3>1
    <2>2. CASE t \in Pubkeys /\ ~pots[t].exists
          BY <2>2 DEF SumInv
    <2> QED BY <2>1, <2>2
  <1>2. IsFiniteSet(PaidFor(t)) /\ PaidFor(t) \subseteq Hashes
        BY PaidRows DEF PaidFor
  <1>3. \A h \in PaidFor(t) : /\ [i \in Hashes |-> payments[i].meta.mb][h] = 0
                              /\ [i \in Hashes |-> payments[i].meta.days][h] = 0
        BY <1>1, <1>2
  <1> QED BY <1>2, <1>3, SumOfZeros DEF PaidMB, PaidDays

\* A pot and the sums of what was paid into it.
Matched(t) ==
    /\ pots[t].exists => /\ pots[t].quota = PaidMB(t)
                         /\ ~pots[t].permanent => pots[t].expires >= PaidDays(t)
    /\ t \in Pubkeys /\ ~pots[t].exists =>
          \A h \in PaidFor(t) : payments[h].meta.mb = 0 /\ payments[h].meta.days = 0

LEMMA MatchedIs == SumInv <=> IsFiniteSet(Recorded) /\ \A t \in Targets \ meddled : Matched(t)
  BY DEF SumInv, QuotaIsLedger, TermCoversPaidDays, Matched, Targets

\* The pot a grant credits.
LEMMA GrantedIsMatched ==
  ASSUME IInv, IInv', OrderInv, SumInv, [Next]_vars, NEW t \in Targets \ meddled, NEW h \in Hashes,
         payments[h].status \notin {"none", "paid"},
         payments'[h].status = "paid", payments'[h].meta = payments[h].meta,
         payments'[h].pubkey = payments[h].pubkey,
         \A i \in Hashes \ {h} : payments'[i] = payments[i],
         PotGranted(payments[h]), PotOf(payments[h]) = t
  PROVE  Matched(t)'
  <1> DEFINE m == payments[h].meta
  <1>1. m \in PaymentMeta /\ pots[t] \in Pot /\ now \in Nat /\ t \in Targets
        BY RecordedTarget DEF IInv, TypeOK
  <1>2. h \notin PaidFor(t) /\ PaidFor(t)' = PaidFor(t) \cup {h}
        BY DEF PaidFor, PotOf
  <1>3. PaidMB(t)' = PaidMB(t) + m.mb /\ PaidDays(t)' = PaidDays(t) + m.days
        BY <1>2, PaidGrows
  <1>4. PaidMB(t) \in Nat /\ PaidDays(t) \in Nat
        BY PaidRows
  <1>5. CASE pots[t].exists \/ OpensAccount(m)
    <2>1. pots'[t] = Entitled(pots[t], m)
          BY <1>1, <1>5 DEF PotGranted, IInv, TypeOK
    <2>2. pots[t].quota = PaidMB(t) /\ (~pots[t].permanent => pots[t].expires >= PaidDays(t))
      <3>1. CASE pots[t].exists
            BY <3>1, MatchedIs DEF Matched
      <3>2. CASE ~pots[t].exists
        <4>1. t \in Pubkeys
              BY <1>5, <3>2, RecordedTarget
        <4>2. pots[t] = NoPot /\ PaidMB(t) = 0 /\ PaidDays(t) = 0
              BY <1>1, <3>2, <4>1, NothingPaidBefore DEF IInv, PotInv
        <4> QED BY <4>2 DEF NoPot
      <3> QED BY <3>1, <3>2
    <2> HIDE DEF m
    <2>3. pots'[t].exists /\ pots'[t].quota = PaidMB(t) + m.mb
          BY <2>1, <2>2 DEF Entitled
    <2>4. ASSUME ~pots'[t].permanent PROVE pots'[t].expires >= PaidDays(t) + m.days
      <3>1. ~pots[t].permanent /\ ~m.permanent /\ pots'[t].expires = Renewed(pots[t], m.days)
        <4>1. ~pots[t].permanent /\ ~m.permanent
              BY <1>1, <2>1, <2>4 DEF Entitled, Pot, PaymentMeta
        <4>2. pots'[t].expires = IF m.permanent THEN 0 ELSE Renewed(pots[t], m.days)
              BY <2>1 DEF Entitled
        <4> QED BY <2>4, <4>1, <4>2
      <3>2. pots[t].expires \in Nat /\ m.days \in Nat
            BY <1>1 DEF Pot, PaymentMeta
      <3> QED BY <1>1, <1>4, <2>2, <3>1, <3>2 DEF Renewed, Maximum
    <2> QED BY <1>3, <2>3, <2>4 DEF Matched
  <1>6. CASE ~(pots[t].exists \/ OpensAccount(m))
    <2>1. UNCHANGED pots
          BY <1>6 DEF PotGranted
    <2>2. ASSUME t \in Pubkeys PROVE m.mb = 0 /\ m.days = 0
      <3>1. m.group = NoGroup
            BY <2>2, RecordedTarget, BillingAssumption DEF PotOf, PaymentMeta, RecordedMeta, Payment
      <3> HIDE DEF m
      <3> QED BY <1>1, <1>6, <3>1 DEF OpensAccount, PaymentMeta
    <2>3. ASSUME t \in Pubkeys, NEW i \in PaidFor(t)'
          PROVE  payments'[i].meta.mb = 0 /\ payments'[i].meta.days = 0
      <3>1. CASE i = h
            BY <2>2, <2>3, <3>1
      <3>2. CASE i # h
        <4>1. i \in PaidFor(t) /\ payments'[i] = payments[i]
              BY <1>2, <2>3, <3>2 DEF PaidFor
        <4> QED BY <1>6, <2>3, <4>1 DEF SumInv
      <3> QED BY <3>1, <3>2
    <2> QED BY <1>6, <2>1, <2>3 DEF Matched
  <1> QED BY <1>5, <1>6

LEMMA FiniteStep == IInv /\ SumInv /\ [Next]_vars => IsFiniteSet(Recorded')
  <1> SUFFICES ASSUME IInv, SumInv, [Next]_vars PROVE IsFiniteSet(Recorded')
      OBVIOUS
  <1>1. IsFiniteSet(Recorded)
        BY DEF SumInv
  <1>2. CASE \E r \in Requests : RecordPayment(r)
    <2>1. PICK r \in Requests : RecordPayment(r)
          BY <1>2
    <2>2. payments' = [payments EXCEPT ![requests[r].hash] =
                          [status |-> "pending", pubkey |-> requests[r].pubkey,
                           meta |-> requests[r].meta, created |-> now]]
          BY <2>1 DEF RecordPayment
    <2>3. Recorded' \subseteq Recorded \cup {requests[r].hash}
          BY <2>2 DEF IInv, TypeOK, Recorded
    <2> QED BY <1>1, <2>3, FS_AddElement, FS_Subset
  <1>3. CASE ~\E r \in Requests : RecordPayment(r)
    <2>1. Recorded' \subseteq Recorded
          BY <1>3, RecordSteps DEF Recorded
    <2> QED BY <1>1, <2>1, FS_Subset
  <1> QED BY <1>2, <1>3

LEMMA SumStep == IInv /\ IInv' /\ OrderInv /\ SumInv /\ [Next]_vars => SumInv'
  <1> SUFFICES ASSUME IInv, IInv', OrderInv, SumInv, [Next]_vars,
                      NEW t \in Targets \ meddled'
               PROVE  Matched(t)'
      BY FiniteStep DEF SumInv, QuotaIsLedger, TermCoversPaidDays, Matched, Targets
  <1>1. t \in Targets \ meddled /\ Matched(t) /\ pots[t] \in Pot
        BY Kept, MatchedIs DEF IInv, TypeOK
  <1>2. ASSUME PaidFor(t)' = PaidFor(t)
        PROVE  /\ PaidMB(t)' = PaidMB(t) /\ PaidDays(t)' = PaidDays(t)
               /\ pots'[t] = pots[t] => Matched(t)'
    <2>1. PaidMB(t)' = PaidMB(t) /\ PaidDays(t)' = PaidDays(t)
          BY <1>2, PaidStays
    <2>2. \A h \in PaidFor(t) : payments'[h].meta = payments[h].meta
          BY Kept DEF PaidFor
    <2> QED BY <1>1, <1>2, <2>1, <2>2 DEF Matched
  <1>3. CASE \E w \in Settlers : Grant(w)
    <2>1. PICK h \in Hashes :
            /\ payments[h].status \notin {"none", "paid"}
            /\ payments'[h].status = "paid" /\ payments'[h].meta = payments[h].meta
            /\ payments'[h].pubkey = payments[h].pubkey
            /\ \A i \in Hashes \ {h} : payments'[i] = payments[i]
            /\ PotGranted(payments[h])
          BY <1>3, GrantSteps
    <2>2. CASE PotOf(payments[h]) = t
          BY <1>1, <2>1, <2>2, GrantedIsMatched
    <2>3. CASE PotOf(payments[h]) # t
      <3>1. pots'[t] = pots[t]
            BY <1>1, <2>1, <2>3 DEF PotGranted, IInv, TypeOK
      <3>2. PaidFor(t)' = PaidFor(t)
            BY <2>1, <2>3 DEF PaidFor, PotOf
      <3> QED BY <1>2, <3>1, <3>2
    <2> QED BY <2>2, <2>3
  <1>4. CASE ~\E w \in Settlers : Grant(w)
    <2>1. PaidFor(t)' = PaidFor(t)
      <3>1. \A h \in Hashes : payments'[h].status = "paid" => payments[h].status = "paid"
            BY <1>4, OtherSteps
      <3> QED BY <3>1, Kept DEF PaidFor, PotOf
    <2>2. CASE UNCHANGED pots
          BY <1>2, <2>1, <2>2
    <2>3. CASE \E g \in GroupIds, k \in Pubkeys : GroupCreated(g, k)
      <3>1. PICK g \in GroupIds, k \in Pubkeys : GroupCreated(g, k)
            BY <2>3
      <3>2. CASE g = t
        <4>1. PaidMB(t) = 0 /\ PaidDays(t) = 0
              BY <1>1, <3>1, <3>2, NothingPaidBefore DEF GroupCreated
        <4>2. pots'[t] = [NoPot EXCEPT !.exists = TRUE]
              BY <1>1, <3>1, <3>2 DEF GroupCreated, IInv, TypeOK
        <4> QED BY <1>2, <2>1, <4>1, <4>2 DEF Matched, NoPot
      <3>3. CASE g # t
            BY <1>1, <1>2, <2>1, <3>1, <3>3 DEF GroupCreated, IInv, TypeOK
      <3> QED BY <3>2, <3>3
    <2>4. CASE \E u \in GroupIds \cup meddled' : pots' = [pots EXCEPT ![u] = NoPot]
      <3>1. PICK u \in GroupIds \cup meddled' : pots' = [pots EXCEPT ![u] = NoPot]
            BY <2>4
      <3>2. CASE u = t
        <4>1. t \in GroupIds /\ t \notin Pubkeys /\ ~pots'[t].exists
              BY <1>1, <3>1, <3>2, BillingAssumption DEF NoPot, IInv, TypeOK
        <4> QED BY <4>1 DEF Matched
      <3>3. CASE u # t
            BY <1>1, <1>2, <2>1, <3>1, <3>3 DEF IInv, TypeOK
      <3> QED BY <3>2, <3>3
    <2> QED BY <1>4, <2>2, <2>3, <2>4, OtherSteps
  <1> QED BY <1>3, <1>4

----------------------------------------------------------------------------
LEMMA LedgerInvariance == Spec => [](IInv /\ LedgerInv)
  <1>1. Init => IInv /\ LedgerInv
        BY InitInv, InitLedgerInv
  <1>2. (IInv /\ LedgerInv) /\ [Next]_vars => (IInv /\ LedgerInv)'
    <2> SUFFICES ASSUME IInv, LedgerInv, [Next]_vars PROVE IInv' /\ LedgerInv'
        OBVIOUS
    <2>1. IInv'
          BY NextInv
    <2>2. OrderInv' /\ AccountInv' /\ SumInv'
          BY <2>1, OrderStep, AccountStep, SumStep DEF LedgerInv
    <2> QED BY <2>1, <2>2 DEF LedgerInv
  <1> QED BY <1>1, <1>2, PTL DEF Spec

\* The quota of every account and group is what was paid into it, however orders,
\* webhooks, polls, restarts and deletions interleave and however many invoices are
\* out: grant (billing.go) credits each once, whole, and to the pot it was for.
THEOREM QuotaIsWhatWasPaid == Spec => []QuotaIsLedger
  <1>1. LedgerInv => QuotaIsLedger
        BY DEF LedgerInv, SumInv
  <1> QED BY <1>1, LedgerInvariance, PTL

\* Renewals add up: no order of settlements makes a term end before the days paid.
THEOREM TermsAddUp == Spec => []TermCoversPaidDays
  <1>1. LedgerInv => TermCoversPaidDays
        BY DEF LedgerInv, SumInv
  <1> QED BY <1>1, LedgerInvariance, PTL

\* Storage alone opens no account: what was quoted while an account existed may
\* settle after others, but never without a plan behind it.
THEOREM StorageHasAPlan == Spec => []AccountStorageHasAPlan
  <1>1. IInv /\ LedgerInv => AccountStorageHasAPlan
    <2> SUFFICES ASSUME IInv, LedgerInv, NEW k \in Pubkeys \ meddled, pots[k].quota > 0
                 PROVE  pots[k].permanent \/ pots[k].expires > 0
        BY DEF AccountStorageHasAPlan
    <2>1. pots[k].exists
          BY DEF IInv, PotInv, NoPot, Targets
    <2> QED BY <2>1 DEF LedgerInv, AccountInv
  <1> QED BY <1>1, LedgerInvariance, PTL

\* Whoever has an account was charged admission, whatever was ordered before it was
\* opened and settled after: a name alone opens none.
THEOREM AdmissionIsPaid == Spec => []AccountsAreAdmitted
  <1>1. LedgerInv => AccountsAreAdmitted
        BY DEF LedgerInv, AccountInv
  <1> QED BY <1>1, LedgerInvariance, PTL

===============================================================================
