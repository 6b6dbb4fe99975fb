------------------------------- MODULE Provider -------------------------------
(***************************************************************************)
(* What billing may rely on in a payment backend: the interface Provider   *)
(* of internal/payments/provider.go, "every entitlement decision is made   *)
(* ... from those two facts".  An invoice that is handed out was made for  *)
(* the call that asked for it; an invoice is called paid only if it is,    *)
(* and unpaid only if it was not yet when the question was asked ("IsPaid  *)
(* must query the backend, never a local cache").  Any call may fail.      *)
(*                                                                         *)
(* Module Billing asks its backend in one step and so takes no more than   *)
(* this for granted; module NWC implements it.                             *)
(***************************************************************************)
EXTENDS Naturals

CONSTANTS
  Calls,           \* calls of CreateInvoice and IsPaid
  About,           \* the invoice an IsPaid asks about, NoHash for a CreateInvoice
  Hashes, NoHash,
  Nobody,          \* for whom an invoice was made that was not made yet
  Earlier          \* for whom one was made by a call before these

VARIABLES
  asked,    \* the calls that have begun
  overdue,  \* IsPaid calls that began when the invoice was paid already
  replies,  \* what each call returned
  made,     \* for whom each invoice was made
  settled   \* the invoices that are paid

provider == <<asked, overdue, replies, made, settled>>

Reply == [says: {"nothing", "invoice", "paid", "unpaid", "failed"}, hash: Hashes \cup {NoHash}]
Says(word) == [says |-> word, hash |-> NoHash]
Invoice(h) == [says |-> "invoice", hash |-> h]

Init ==
    /\ asked = {} /\ overdue = {} /\ settled = {}
    /\ replies = [c \in Calls |-> Says("nothing")]
    /\ made \in [Hashes -> {Nobody, Earlier}]

Ask(c) ==
    /\ c \notin asked
    /\ asked' = asked \cup {c}
    /\ overdue' = IF About[c] \in settled THEN overdue \cup {c} ELSE overdue
    /\ UNCHANGED <<replies, made, settled>>

\* An invoice may be made for a call that fails.
Make(h, c) ==
    /\ made[h] = Nobody /\ c \in asked
    /\ made' = [made EXCEPT ![h] = c]
    /\ UNCHANGED <<asked, overdue, replies, settled>>

Settle(h) ==
    /\ made[h] # Nobody
    /\ settled' = settled \cup {h}
    /\ UNCHANGED <<asked, overdue, replies, made>>

Honest(c, reply) ==
    \/ reply = Says("failed")
    \/ \E h \in Hashes : reply = Invoice(h) /\ About[c] = NoHash /\ made[h] = c
    \/ reply = Says("paid") /\ About[c] \in settled
    \/ reply = Says("unpaid") /\ About[c] # NoHash /\ c \notin overdue

Answer(c) ==
    /\ c \in asked /\ replies[c].says = "nothing"
    /\ \E reply \in Reply : /\ Honest(c, reply)
                            /\ replies' = [replies EXCEPT ![c] = reply]
    /\ UNCHANGED <<asked, overdue, made, settled>>

Next ==
    \/ \E c \in Calls : Ask(c) \/ Answer(c) \/ \E h \in Hashes : Make(h, c)
    \/ \E h \in Hashes : Settle(h)

Spec == Init /\ [][Next]_provider
===============================================================================
