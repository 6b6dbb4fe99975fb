----------------------------- MODULE MCMembership -----------------------------
(***************************************************************************)
(* Values for the constants of Membership that a .cfg cannot write.        *)
(***************************************************************************)
EXTENDS Membership, TLC

CONSTANTS alice, bob, seat, auto

\* One seat for whoever is first; a code minted on request, of storage without days.
MCTerms == seat :> [days |-> 2, mb |-> 1, seats |-> 1, ttl |-> 0]
        @@ auto :> [days |-> 0, mb |-> 1, seats |-> 1, ttl |-> 1]

Asking(what, who, code) == [what |-> what, who |-> who, code |-> code, form |-> NoAccount]
Bringing(what, who, form) == [what |-> what, who |-> who, code |-> NoCode, form |-> form]

Bought(days, mb, permanent) ==
    [FreshAccount EXCEPT !.expires = days, !.quota = mb, !.permanent = permanent]

AllRequests ==
    <<Asking("join", alice, seat), Asking("claim", bob, seat), Asking("leave", alice, NoCode),
      Bringing("pay", alice, Bought(1, 1, FALSE)), Bringing("save", bob, Bought(1, 0, FALSE)),
      Asking("delete", bob, NoCode), Asking("create", alice, seat), Asking("drop", alice, seat),
      Asking("allow", alice, NoCode), Asking("ban", bob, NoCode), Asking("mint", bob, auto),
      Asking("join", bob, auto)>>

MCRequestOf == [r \in Requests |-> AllRequests[r]]
===============================================================================
