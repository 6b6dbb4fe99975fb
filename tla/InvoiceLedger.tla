---------------------------- MODULE InvoiceLedger ----------------------------
(***************************************************************************)
(* What billing promises, without requests, pollers or backends: an        *)
(* invoice is made, it may be paid, and once it is paid it may be          *)
(* credited, once and whole.  internal/billing/billing.go:333-336 and      *)
(* 370-372 state it; module Billing implements it.                         *)
(*                                                                         *)
(* The ledger never says when an invoice is credited, and it lets a pot    *)
(* be emptied: an operator may delete a group.                             *)
(***************************************************************************)
EXTENDS Naturals

CONSTANTS Hashes, Targets

VARIABLES
  bills,   \* none, due or credited
  paid,    \* the invoices somebody paid
  quota    \* storage, in megabytes, of every account and group

ledger == <<bills, paid, quota>>

Init ==
    /\ bills = [h \in Hashes |-> "none"]
    /\ paid = {}
    /\ \A t \in Targets : quota[t] = 0

Bill(h) ==
    /\ bills[h] = "none"
    /\ bills' = [bills EXCEPT ![h] = "due"]
    /\ UNCHANGED <<paid, quota>>

Pay(h) ==
    /\ bills[h] # "none"
    /\ paid' = paid \cup {h}
    /\ UNCHANGED <<bills, quota>>

\* One pot gains, or none when the pot is gone or the invoice is for a name.
Credit(h) ==
    /\ bills[h] = "due" /\ h \in paid
    /\ bills' = [bills EXCEPT ![h] = "credited"]
    /\ \/ UNCHANGED quota
       \/ \E t \in Targets : /\ \A u \in Targets \ {t} : quota'[u] = quota[u]
                             /\ quota'[t] >= quota[t]
    /\ UNCHANGED paid

Close(t) ==
    /\ quota' = [quota EXCEPT ![t] = 0]
    /\ UNCHANGED <<bills, paid>>

Next == \/ \E h \in Hashes : Bill(h) \/ Pay(h) \/ Credit(h)
        \/ \E t \in Targets : Close(t)

Spec == Init /\ [][Next]_ledger
===============================================================================
