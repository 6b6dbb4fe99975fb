----------------------------- MODULE MCEventUsage -----------------------------
(***************************************************************************)
(* Values for the constants of EventUsage that a .cfg cannot write.        *)
(***************************************************************************)
EXTENDS EventUsage, TLC

CONSTANTS alice, bob, team, note, old, new, mail, gone, drop

By(author, kind, created) ==
    [author |-> author, kind |-> kind, created |-> created, size |-> 1,
     of |-> NoEvent, to |-> Nobody]

\* Alice writes two versions of her profile; bob, who shares storage
\* with the team, sends her a message.  Each pot holds one event.
MCLedgerEvents == {old, new, mail}
MCLedgerEventOf ==
    old :> By(alice, "replaceable", 1)
    @@ new :> By(alice, "replaceable", 2)
    @@ mail :> [By(bob, "message", 1) EXCEPT !.to = alice]
MCLedgerQuota == alice :> 1 @@ bob :> 1 @@ team :> 1
MCLedgerGroups == alice :> NoGroup @@ bob :> team

\* The same with bob a stranger: his message is billed to alice.
MCStrangerQuota == alice :> 2 @@ bob :> 1
MCStrangerGroups == alice :> NoGroup @@ bob :> NoGroup

\* Alice writes a note, deletes it, and asks to be forgotten.
MCErasureEvents == {note, drop, gone}
MCErasureEventOf ==
    note :> By(alice, "note", 1)
    @@ drop :> [By(alice, "delete", 2) EXCEPT !.of = note]
    @@ gone :> By(alice, "vanish", 2)
MCErasureQuota == alice :> 3
MCErasureGroups == alice :> NoGroup

WriterSymmetry == Permutations(Writers)
===============================================================================
