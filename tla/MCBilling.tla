------------------------------ MODULE MCBilling ------------------------------
(***************************************************************************)
(* Values for the constants of Billing that a .cfg cannot write.           *)
(***************************************************************************)
EXTENDS Billing, TLC

NoOrder == [name |-> NoName, nameTerms |-> 0, nameForever |-> FALSE, group |-> NoGroup,
            periods |-> 0, extraMB |-> 0, lifetimeMB |-> 0]

\* Relay access: a period, storage alone and lifetime storage for the buyer; a
\* period for a new group, lifetime storage for one that exists.
Period   == [NoOrder EXCEPT !.periods = 1]
Storage  == [NoOrder EXCEPT !.extraMB = 1]
Lifetime == [NoOrder EXCEPT !.lifetimeMB = 2]
MCAccessOrders ==
    {Period, Storage, Lifetime, [Period EXCEPT !.group = NewGroup]}
    \cup {[Lifetime EXCEPT !.group = g] : g \in GroupIds}

\* Names: one term of a name.
MCNameOrders == {[NoOrder EXCEPT !.name = n, !.nameTerms = 1] : n \in Names}

\* Both at once: a period, and a name bought outright.
MCMixedOrders == {Period} \cup {[NoOrder EXCEPT !.name = n, !.nameForever = TRUE] : n \in Names}

HashSymmetry == Permutations(Hashes)
RequestSymmetry == Permutations(Hashes) \cup Permutations(Requests) \cup Permutations(Pubkeys)
                   \cup Permutations(Backends)
===============================================================================
