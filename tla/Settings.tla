------------------------------- MODULE Settings -------------------------------
(***************************************************************************)
(* The settings: one JSON row (internal/store/store.go), which the panel's *)
(* form (internal/api/admin.go) and the NIP-86 calls (internal/relay/      *)
(* management.go) read, edit and write back whole, and the storage backend *)
(* that is rebuilt when a form has changed it (internal/blobs/blobs.go).   *)
(*                                                                         *)
(* Every call is a goroutine; each of its reads and writes is a step. Of   *)
(* the fields of the row, those are modelled that a call edits by itself,  *)
(* that the row may leave out, or that something else follows.             *)
(*                                                                         *)
(* Left out: prices, texts and looks, which are like the name; the checks  *)
(* of a form, but for the one that joins two fields; the lightning backend *)
(* (Billing); a database that fails.                                       *)
(***************************************************************************)
EXTENDS Integers, FiniteSets

CONSTANTS
  Kinds, Pubkeys,
  Owners,             \* ADMIN_PUBKEYS
  Names, DefaultName,
  Relays, NoRelays, DefaultRelays,  \* lists of relays for NIP-46
  Secrets, NoSecret, Masked,        \* S3SecretKey; what a browser is shown of it
  AtFirst,            \* the rows there may be at first
  NoRow,
  Calls, CallOf,      \* what is asked for, each once: bound
  AtOnce,             \* bound: calls at work at once
  Boots,              \* bound: how often the relay restarts
  Faults              \* BOOLEAN: a storage backend may fail to start

Config == [name: Names, relays: Relays \cup {NoRelays}, allowed: SUBSET Kinds,
           disallowed: SUBSET Kinds, admins: SUBSET Pubkeys,
           backend: {"local", "s3"}, secret: Secrets \cup {NoSecret}]

DefaultSettings ==
    [name |-> DefaultName, relays |-> DefaultRelays, allowed |-> {}, disallowed |-> {},
     admins |-> {}, backend |-> "local", secret |-> NoSecret]

\* The fields a form may show, each with what it may hold. A form that leaves the secret
\* blank is one that sends it masked.
Field == [name |-> Names, relays |-> Relays \cup {NoRelays}, allowed |-> SUBSET Kinds,
          disallowed |-> SUBSET Kinds, admins |-> SUBSET Pubkeys,
          backend |-> {"local", "s3"}, secret |-> Secrets \cup {Masked}]
IsForm(form) ==
    DOMAIN form \subseteq DOMAIN Field /\ \A f \in DOMAIN form : form[f] \in Field[f]

\* Those that are topics of their own, see below: a list is about every kind or pubkey.
Texts == DOMAIN Field \ {"allowed", "disallowed", "admins"}

\* form: PUT /api/admin/settings. rename stands for the three calls that set one text.
IsCall(call) ==
    /\ call.what \in {"allow", "disallow", "grant", "revoke", "rename", "form"}
    /\ call.by \in Pubkeys /\ call.kind \in Kinds /\ call.who \in Pubkeys
    /\ IsForm(call.form)
    /\ call.what = "rename" => DOMAIN call.form = {"name"}

ASSUME SettingsAssumption ==
    /\ DefaultName \in Names /\ DefaultRelays \in Relays /\ NoRelays \notin Relays
    /\ NoSecret \notin Secrets /\ Masked \notin Secrets \cup {NoSecret}
    /\ AtFirst \subseteq Config \cup {NoRow} /\ NoRow \notin Config
    /\ Owners \subseteq Pubkeys
    /\ Kinds \cap Pubkeys = {} /\ (Kinds \cup Pubkeys) \cap DOMAIN Field = {}
    /\ \A c \in Calls : IsCall(CallOf[c])
    /\ AtOnce \in Nat /\ Boots \in Nat /\ Faults \in BOOLEAN

VARIABLES
  row,      \* the settings row
  at,       \* where each call stands
  read,     \* the settings each call has read
  running,  \* the storage backend that runs, if any
  boots,
  last,     \* history: the last call about each topic
  since,    \* history: topics written, or put back, since a call's read
  lost,     \* history: topics whose last call was overwritten by a stale one
  astray    \* history: two reloads have overlapped, or one failed, since the start

vars == <<row, at, read, running, boots, last, since, lost, astray>>
history == <<last, since, lost>>

What(c) == CallOf[c].what
Shown(c) == CallOf[c].form

Forget(c) == read' = [read EXCEPT ![c] = DefaultSettings]

InHand == {c \in Calls : at[c] \notin {"check", "done"}}
Go(c, place) == at' = [at EXCEPT ![c] = place]

----------------------------------------------------------------------------
(* The row. A field tagged omitempty is not in it when it is empty, and     *)
(* reads as its default: that makes a difference for the relays alone.      *)

Unmarshalled(r) == [r EXCEPT !.relays = IF @ = NoRelays THEN DefaultRelays ELSE @]

\* Settings()
Now == IF row = NoRow THEN DefaultSettings ELSE Unmarshalled(row)

KindAllowed(s, k) == IF s.allowed # {} THEN k \in s.allowed ELSE k \notin s.disallowed

IsAdmin(p) == p \in Owners \cup Now.admins

----------------------------------------------------------------------------
(* The edits.                                                               *)

\* A mutation of KindOpened: the kind is put on the allow list, be there one or not.
KindOpenedAlone(s, k) ==
    [s EXCEPT !.disallowed = @ \ {k}, !.allowed = @ \cup {k}]

KindOpened(s, k) ==
    [s EXCEPT !.disallowed = @ \ {k}, !.allowed = IF @ = {} THEN {} ELSE @ \cup {k}]

\* A mutation of KindClosed: the allow list, which wins, keeps the kind.
KindClosedBelow(s, k) == [s EXCEPT !.disallowed = @ \cup {k}]

KindClosed(s, k) == [s EXCEPT !.allowed = @ \ {k}, !.disallowed = @ \cup {k}]

\* keepSecret
KeptSecret(submitted, stored) == IF submitted = Masked THEN stored ELSE submitted

\* The body of the request is decoded onto the settings that were read.
Decoded(s, form) ==
    [f \in DOMAIN s |->
        IF f \notin DOMAIN form THEN s[f]
        ELSE IF f = "secret" THEN KeptSecret(form[f], s[f]) ELSE form[f]]

Edited(c) ==
    LET s == read[c] IN
    CASE What(c) = "allow"    -> KindOpened(s, CallOf[c].kind)
      [] What(c) = "disallow" -> KindClosed(s, CallOf[c].kind)
      [] What(c) = "grant"    -> [s EXCEPT !.admins = @ \cup {CallOf[c].who}]
      [] What(c) = "revoke"   -> [s EXCEPT !.admins = @ \ {CallOf[c].who}]
      [] OTHER                -> Decoded(s, Shown(c))

\* validateSettings, as far as it joins fields.
Valid(s) == s.backend = "s3" => s.secret # NoSecret

----------------------------------------------------------------------------
(* History. A topic is what a call means to settle.                         *)

Topics == Kinds \cup Pubkeys \cup Texts

About(c) ==
    CASE What(c) \in {"allow", "disallow"} -> {CallOf[c].kind}
      [] What(c) \in {"grant", "revoke"}   -> {CallOf[c].who}
      [] OTHER -> {f \in DOMAIN Shown(c) \cap Topics : f = "secret" => Shown(c)[f] # Masked}

\* A form that shows a list decides about everything that may be on it.
Unsettled(c) ==
    (IF What(c) = "form" /\ DOMAIN Shown(c) \cap {"allowed", "disallowed"} # {} THEN Kinds ELSE {})
    \cup (IF What(c) = "form" /\ "admins" \in DOMAIN Shown(c) THEN Pubkeys ELSE {})

Noted(c) ==
    /\ last'  = [t \in Topics |-> IF t \in About(c) THEN {c}
                                  ELSE IF t \in Unsettled(c) THEN {} ELSE last[t]]
    /\ since' = [d \in Calls |->
                    IF d # c /\ at[d] = "write"
                    THEN since[d] \cup since[c] \cup About(c) \cup Unsettled(c) ELSE {}]
    /\ lost'  = (lost \cup since[c]) \ (About(c) \cup Unsettled(c))

----------------------------------------------------------------------------
(* The steps of a call.                                                     *)

\* RejectAPICall, or the panel's middleware, and what is refused before any read.
Check(c) ==
    /\ at[c] = "check" /\ Cardinality(InHand) < AtOnce
    /\ Go(c, IF \/ ~IsAdmin(CallOf[c].by)
                \/ What(c) = "revoke" /\ CallOf[c].who \in Owners
             THEN "done" ELSE "read")
    /\ UNCHANGED <<row, read, running, boots, history, astray>>

Read(c) ==
    /\ at[c] = "read"
    /\ read' = [read EXCEPT ![c] = Now]
    /\ since' = [since EXCEPT ![c] = {}]
    /\ Go(c, "write")
    /\ UNCHANGED <<row, running, boots, last, lost, astray>>

Storage(s) == [backend |-> s.backend, secret |-> s.secret]

\* Media storage is disabled: the backend did not start with the process.
NoStorage == [backend |-> "none", secret |-> NoSecret]

\* SaveSettings; a form is checked first. Without media storage there is nothing to reload.
Save(c) ==
    /\ at[c] = "write"
    /\ What(c) = "form" => Valid(Edited(c))
    /\ row' = Edited(c)
    /\ Noted(c)
    /\ Go(c, IF What(c) = "form" /\ running # NoStorage THEN "reload" ELSE "done")
    /\ Forget(c)
    /\ UNCHANGED <<running, boots, astray>>

Refuse(c) ==
    /\ at[c] = "write"
    /\ What(c) = "form" /\ ~Valid(Edited(c))
    /\ Go(c, "done")
    /\ Forget(c)
    /\ UNCHANGED <<row, running, boots, history, astray>>

\* Reload reads the settings, and takes the lock after.
Reload(c) ==
    /\ at[c] = "reload"
    /\ read' = [read EXCEPT ![c] = Now]
    /\ astray' = (astray \/ \E d \in Calls : at[d] = "install")
    /\ Go(c, "install")
    /\ UNCHANGED <<row, running, boots, history>>

\* A mutation of StorageFingerprint: a new key alone does not change it.
FingerprintOfBackend(s) == s.backend

StorageFingerprint(s) == <<s.backend, s.secret>>

Install(c) ==
    /\ at[c] = "install"
    /\ running' = IF StorageFingerprint(read[c]) = StorageFingerprint(running)
                  THEN running ELSE Storage(read[c])
    /\ Go(c, "done")
    /\ Forget(c)
    /\ UNCHANGED <<row, boots, history, astray>>

\* The settings are saved, and the backend that ran goes on.
InstallFails(c) ==
    /\ Faults
    /\ at[c] = "install"
    /\ StorageFingerprint(read[c]) # StorageFingerprint(running)
    /\ astray' = TRUE
    /\ Go(c, "done")
    /\ Forget(c)
    /\ UNCHANGED <<row, running, boots, history>>

\* blobs.New: a backend that does not start leaves the relay without media storage until
\* the process starts again, whatever the settings become.
Started == {Storage(Now)} \cup IF Faults THEN {NoStorage} ELSE {}

Restart ==
    /\ boots < Boots
    /\ boots' = boots + 1
    /\ at' = [c \in Calls |-> IF at[c] = "check" THEN "check" ELSE "done"]
    /\ read' = [c \in Calls |-> DefaultSettings]
    /\ since' = [c \in Calls |-> {}]
    /\ running' \in Started
    /\ astray' = FALSE
    /\ UNCHANGED <<row, last, lost>>

Init ==
    /\ row \in AtFirst
    /\ at = [c \in Calls |-> "check"]
    /\ read = [c \in Calls |-> DefaultSettings]
    /\ running \in Started
    /\ boots = 0
    /\ last = [t \in Topics |-> {}]
    /\ since = [c \in Calls |-> {}]
    /\ lost = {}
    /\ astray = FALSE

Next ==
    \/ Restart
    \/ \E c \in Calls : \/ Check(c) \/ Read(c) \/ Save(c) \/ Refuse(c)
                        \/ Reload(c) \/ Install(c) \/ InstallFails(c)

Spec == Init /\ [][Next]_vars

----------------------------------------------------------------------------
(* Properties.                                                              *)

\* Every variable is what the code can make of it. The row in particular: its secret is
\* one an admin typed, never the "redacted form of an existing secret" (store.go:252) a
\* browser was shown and sent back.
TypeOK ==
    /\ row \in Config \cup {NoRow}
    /\ at \in [Calls -> {"check", "read", "write", "reload", "install", "done"}]
    /\ read \in [Calls -> Config]
    /\ running \in [backend: {"local", "s3"}, secret: Secrets \cup {NoSecret}] \cup {NoStorage}
    /\ boots \in 0 .. Boots
    /\ last \in [Topics -> SUBSET Calls]
    /\ since \in [Calls -> SUBSET Topics]
    /\ lost \subseteq Topics
    /\ astray \in BOOLEAN

\* What call c settled about topic t is what the settings say.
Shows(c, t) ==
    CASE t \in Kinds   -> KindAllowed(Now, t) <=> What(c) = "allow"
      [] t \in Pubkeys -> t \in Now.admins <=> What(c) = "grant"
      [] OTHER         -> Now[t] = Shown(c)[t]

\* "start from what is stored so a partial form can't wipe fields it didn't show"
\* (admin.go:169), and two lists decide about a kind, of which one wins (store.go:166): the
\* last call about a topic holds, whatever was asked about others since, unless a call that
\* had read the settings before wrote them back after. (A form that empties the relays is
\* the exception: they read as the default again.)
EditsStick ==
    \A t \in Topics \ lost : \A c \in last[t] :
        Shows(c, t) \/ (t = "relays" /\ Shown(c)[t] = NoRelays)

\* A call about one kind says nothing about the others: allowkind and disallowkind
\* (management.go:217) change no other verdict, but that with the last kind on the allow
\* list the list itself goes, and but for what was written since the call's read.
KindsApart ==
    [][\A c \in Calls : Save(c) /\ What(c) \in {"allow", "disallow"} /\ since[c] = {} =>
          \/ \A k \in Kinds \ About(c) : KindAllowed(Now, k) = KindAllowed(Now', k)
          \/ Now.allowed = About(c) /\ What(c) = "disallow"]_vars

\* "pick up a changed storage backend without a restart" (admin.go:188): once the forms are
\* through, the backend that runs is the one in the settings, unless their reloads
\* overlapped or failed, or a stale call has put another back into the row. That is so where
\* a backend came up with the process; where none did, no form is followed, see below.
BackendFollows ==
    \/ running = Storage(Now)
    \/ \E c \in Calls : at[c] \in {"reload", "install"}
    \/ astray \/ lost \cap {"backend", "secret"} # {}
    \/ running = NoStorage

\* The same words taken as they stand: a backend that failed at the start runs once a form
\* has put the settings right. It does not: main.go:84 forgets the storage, and admin.go:189
\* asks whether there is one.
BackendIsPickedUp ==
    [][\A c \in Calls : Save(c) /\ running = NoStorage /\ "backend" \in About(c) => at'[c] = "reload"]_vars
===============================================================================
