------------------------------ MODULE MCSettings ------------------------------
(***************************************************************************)
(* Values for the constants of Settings that a .cfg cannot write.          *)
(***************************************************************************)
EXTENDS Settings, TLC

CONSTANTS text, chat, owner, aide, old, new, first, key

Ask(what, by, kind, who) ==
    [what |-> what, by |-> by, kind |-> kind, who |-> who, form |-> << >>]
Fill(what, form) == [what |-> what, by |-> owner, kind |-> text, who |-> aide, form |-> form]

\* A relay nobody has configured, and one that takes text alone and keeps files in S3.
MCAtFirst == {NoRow, [DefaultSettings EXCEPT !.allowed = {text}, !.backend = "s3",
                                             !.secret = first]}

AllCalls ==
    <<Ask("allow", owner, text, aide), Ask("disallow", owner, text, aide),
      Ask("disallow", owner, chat, aide), Ask("grant", owner, text, aide),
      Ask("revoke", owner, text, aide), Fill("rename", "name" :> new),
      Fill("form", "backend" :> "s3" @@ "secret" :> key),
      Fill("form", "backend" :> "local" @@ "relays" :> NoRelays @@ "secret" :> Masked),
      Ask("allow", aide, chat, aide),
      Fill("form", "name" :> new @@ "backend" :> "s3" @@ "secret" :> Masked
                   @@ "disallowed" :> {text} @@ "admins" :> {})>>

MCCallOf == [c \in Calls |-> AllCalls[c]]
===============================================================================
