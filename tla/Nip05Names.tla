------------------------------ MODULE Nip05Names ------------------------------
(***************************************************************************)
(* The rows of the table nip05_names (internal/store/nip05.go) and what    *)
(* each SQL statement does to one of them.  A row is a name under a        *)
(* domain; the pair is one member of Names wherever the rows are used.     *)
(*                                                                         *)
(* Nobody owns the row that is not there: FreeName is the absent row.      *)
(***************************************************************************)
EXTENDS Naturals

CONSTANTS Pubkeys, Nobody

ASSUME NobodyAssumption == Nobody \notin Pubkeys

Nip05Name == [pubkey   : Pubkeys \cup {Nobody},
              expires  : Nat,       \* expires_at, 0 until a first payment
              reserved : Nat,       \* reserved_until
              permanent: BOOLEAN]

FreeName == [pubkey |-> Nobody, expires |-> 0, reserved |-> 0, permanent |-> FALSE]

Maximum(a, b) == IF a >= b THEN a ELSE b

\* The name resolves: it is what /.well-known/nostr.json answers with.
Live(row, now) == row.permanent \/ row.expires > now

\* Nobody else may have it: it resolves, or somebody is paying for it.
Held(row, now) == Live(row, now) \/ row.reserved > now

\* Nip05Available: the check a quote makes.
Nip05Available(row, buyer, now) == Held(row, now) => row.pubkey = buyer

\* A mutation of CanReserve: the upsert forgets the reservation column, so a
\* name somebody is paying for can be taken over.
CanReserveIgnoringReservation(row, buyer, now) ==
    \/ row.pubkey \in {buyer, Nobody}
    \/ ~row.permanent /\ row.expires <= now

\* The WHERE clause of ReserveNip05's upsert (an absent row always inserts).
CanReserve(row, buyer, now) ==
    \/ row.pubkey \in {buyer, Nobody}
    \/ ~row.permanent /\ row.expires <= now /\ row.reserved <= now

\* The row after the upsert: taking over a lapsed name starts a fresh term, a
\* renewal keeps its own.
Reserved(row, buyer, until) ==
    [row EXCEPT !.pubkey   = buyer,
                !.reserved = until,
                !.expires  = IF row.pubkey = buyer THEN @ ELSE 0]

\* ReleaseNip05: the DELETE of a checkout that could not be placed.
Released(row, buyer) ==
    IF row.pubkey = buyer /\ ~row.permanent /\ row.expires = 0 THEN FreeName ELSE row

\* PurgeNip05Names: lapsed names and abandoned checkouts go back on sale.
Purged(row, now) == IF Held(row, now) THEN row ELSE FreeName

\* The UPDATE of grant for a name that is still the buyer's.
Granted(row, days, forever, now) ==
    IF forever
    THEN [row EXCEPT !.permanent = TRUE, !.reserved = 0]
    ELSE [row EXCEPT !.expires = Maximum(@, now) + days, !.reserved = 0]

\* SaveNip05Name: an admin hands the name to a pubkey, or edits it.
Saved(pubkey, expires, permanent) ==
    [pubkey |-> pubkey, expires |-> expires, reserved |-> 0, permanent |-> permanent]
===============================================================================
