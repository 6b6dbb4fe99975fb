---------------------------- MODULE SettingsProofs ----------------------------
(***************************************************************************)
(* Proofs about Settings: for any kinds, people, texts and calls, however  *)
(* many are at work.  Everything rests on what a call has read: it is as   *)
(* good as the settings themselves, but for the topics written since.      *)
(***************************************************************************)
EXTENDS Settings, TLAPS

Fields == {"name", "relays", "allowed", "disallowed", "admins", "backend", "secret"}

----------------------------------------------------------------------------
(* Settings, and what an edit makes of them.                                *)

\* A row is settings when each field has its type.
LEMMA ConfigByField ==
    ASSUME NEW s, s = [f \in Fields |-> s[f]],
           s["name"] \in Names, s["relays"] \in Relays \cup {NoRelays},
           s["allowed"] \subseteq Kinds, s["disallowed"] \subseteq Kinds,
           s["admins"] \subseteq Pubkeys, s["backend"] \in {"local", "s3"},
           s["secret"] \in Secrets \cup {NoSecret}
    PROVE  s \in Config
BY DEF Config, Fields

LEMMA ConfigFields ==
    ASSUME NEW s \in Config
    PROVE  /\ DOMAIN s = Fields
           /\ s.name \in Names /\ s.relays \in Relays \cup {NoRelays}
           /\ s.allowed \subseteq Kinds /\ s.disallowed \subseteq Kinds
           /\ s.admins \subseteq Pubkeys /\ s.backend \in {"local", "s3"}
           /\ s.secret \in Secrets \cup {NoSecret}
BY DEF Config, Fields

\* What a form brings, and what it leaves.
LEMMA DecodedFields ==
    ASSUME NEW s \in Config, NEW form, IsForm(form)
    PROVE  /\ Decoded(s, form) \in Config
           /\ \A f \in Fields \ DOMAIN form : Decoded(s, form)[f] = s[f]
           /\ \A f \in Fields \cap DOMAIN form :
                 Decoded(s, form)[f] = IF f = "secret" THEN KeptSecret(form[f], s[f]) ELSE form[f]
<1> DEFINE d == Decoded(s, form)
<1>1. /\ DOMAIN form \subseteq {"name", "relays", "allowed", "disallowed", "admins", "backend",
                                "secret"}
      /\ "name" \in DOMAIN form => form["name"] \in Names
      /\ "relays" \in DOMAIN form => form["relays"] \in Relays \cup {NoRelays}
      /\ "allowed" \in DOMAIN form => form["allowed"] \subseteq Kinds
      /\ "disallowed" \in DOMAIN form => form["disallowed"] \subseteq Kinds
      /\ "admins" \in DOMAIN form => form["admins"] \subseteq Pubkeys
      /\ "backend" \in DOMAIN form => form["backend"] \in {"local", "s3"}
      /\ "secret" \in DOMAIN form => form["secret"] \in Secrets \cup {Masked}
  BY DEF IsForm, Field
<1>2. d = [f \in Fields |-> IF f \notin DOMAIN form THEN s[f]
             ELSE IF f = "secret" THEN KeptSecret(form[f], s[f]) ELSE form[f]]
  BY ConfigFields DEF Decoded
<1>3. /\ d = [f \in Fields |-> d[f]]
      /\ \A f \in Fields : d[f] = IF f \notin DOMAIN form THEN s[f]
             ELSE IF f = "secret" THEN KeptSecret(form[f], s[f]) ELSE form[f]
  BY <1>2
<1> HIDE DEF d
<1>4. d["name"] \in Names
  BY <1>1, <1>3, ConfigFields DEF Fields
<1>5. d["relays"] \in Relays \cup {NoRelays}
  BY <1>1, <1>3, ConfigFields DEF Fields
<1>6. d["allowed"] \subseteq Kinds
  BY <1>1, <1>3, ConfigFields DEF Fields
<1>7. d["disallowed"] \subseteq Kinds /\ d["admins"] \subseteq Pubkeys
  BY <1>1, <1>3, ConfigFields DEF Fields
<1>8. d["backend"] \in {"local", "s3"}
  BY <1>1, <1>3, ConfigFields DEF Fields
<1>9. d["secret"] \in Secrets \cup {NoSecret}
  BY <1>1, <1>3, ConfigFields DEF Fields, KeptSecret
<1>10. d \in Config
  BY <1>3, <1>4, <1>5, <1>6, <1>7, <1>8, <1>9, ConfigByField
<1>11. QED
  BY <1>3, <1>10 DEF d

LEMMA FormFields ==
    /\ DOMAIN Field = {"name", "relays", "allowed", "disallowed", "admins", "backend", "secret"}
    /\ Texts = {"name", "relays", "backend", "secret"}
BY DEF Field, Texts

LEMMA CallType ==
    ASSUME NEW c \in Calls
    PROVE  /\ What(c) \in {"allow", "disallow", "grant", "revoke", "rename", "form"}
           /\ CallOf[c].kind \in Kinds /\ CallOf[c].who \in Pubkeys
           /\ IsForm(Shown(c)) /\ DOMAIN Shown(c) \subseteq DOMAIN Field
           /\ What(c) = "rename" => DOMAIN Shown(c) = {"name"}
BY SettingsAssumption DEF IsCall, IsForm, What, Shown

\* What a call is about.
LEMMA AboutWhat ==
    ASSUME NEW c \in Calls
    PROVE  /\ What(c) \in {"allow", "disallow"} => About(c) = {CallOf[c].kind}
           /\ What(c) \in {"grant", "revoke"} => About(c) = {CallOf[c].who}
           /\ What(c) \in {"rename", "form"} =>
                 /\ About(c) \subseteq Texts
                 /\ About(c) = {f \in DOMAIN Shown(c) \cap Texts :
                                   f = "secret" => Shown(c)[f] # Masked}
           /\ About(c) \subseteq Topics /\ Unsettled(c) \subseteq Kinds \cup Pubkeys
           /\ What(c) # "form" => Unsettled(c) = {}
<1>1. CASE What(c) \in {"rename", "form"}
  <2>1. DOMAIN Shown(c) \cap Topics = DOMAIN Shown(c) \cap Texts
    BY CallType, SettingsAssumption DEF Topics, Texts
  <2>2. About(c) = {f \in DOMAIN Shown(c) \cap Topics : f = "secret" => Shown(c)[f] # Masked}
    BY <1>1 DEF About
  <2>3. QED
    BY <1>1, <2>1, <2>2 DEF Unsettled, Topics
<1>2. CASE What(c) \in {"allow", "disallow", "grant", "revoke"}
  BY <1>2, CallType DEF About, Unsettled, Topics
<1>3. QED
  BY <1>1, <1>2, CallType

\* Settings a row reads as.
LEMMA UnmarshalledConfig ==
    ASSUME NEW s \in Config
    PROVE  /\ Unmarshalled(s) \in Config
           /\ Unmarshalled(s).relays # NoRelays
           /\ s.relays # NoRelays => Unmarshalled(s) = s
           /\ Unmarshalled(s).relays = IF s.relays = NoRelays THEN DefaultRelays ELSE s.relays
           /\ \A f \in Fields \ {"relays"} : Unmarshalled(s)[f] = s[f]
<1>1. DefaultRelays \in Relays /\ NoRelays \notin Relays
  BY SettingsAssumption
<1>2. QED
  BY <1>1 DEF Unmarshalled, Config, Fields

LEMMA NowConfig ==
    ASSUME row \in Config \cup {NoRow}
    PROVE  Now \in Config /\ Now.relays # NoRelays
<1>1. DefaultSettings \in Config /\ DefaultSettings.relays # NoRelays
  BY SettingsAssumption DEF DefaultSettings, Config
<1>2. QED
  BY <1>1, UnmarshalledConfig DEF Now

LEMMA EditedConfig ==
    ASSUME NEW c \in Calls, read[c] \in Config
    PROVE  Edited(c) \in Config
<1>1. CASE What(c) \in {"allow", "disallow"}
  BY <1>1, CallType DEF Edited, KindOpened, KindClosed, Config
<1>2. CASE What(c) \in {"grant", "revoke"}
  BY <1>2, CallType DEF Edited, Config
<1>3. CASE What(c) \in {"rename", "form"}
  <2>1. Edited(c) = Decoded(read[c], Shown(c))
    BY <1>3 DEF Edited
  <2>2. QED
    BY <2>1, CallType, DecodedFields
<1>4. QED
  BY <1>1, <1>2, <1>3, CallType

\* An edit leaves the fields it is not about.
LEMMA EditKeepsFields ==
    ASSUME NEW c \in Calls, read[c] \in Config
    PROVE  /\ \A f \in Texts \ About(c) : Edited(c)[f] = read[c][f]
           /\ What(c) \notin {"allow", "disallow"} /\ Unsettled(c) \cap Kinds = {} =>
                 /\ Edited(c).allowed = read[c].allowed
                 /\ Edited(c).disallowed = read[c].disallowed
           /\ What(c) \notin {"grant", "revoke"} /\ Unsettled(c) \cap Pubkeys = {} =>
                 Edited(c).admins = read[c].admins
<1>1. CASE What(c) \in {"allow", "disallow"}
  BY <1>1, FormFields DEF Edited, KindOpened, KindClosed, Config
<1>2. CASE What(c) \in {"grant", "revoke"}
  BY <1>2, FormFields DEF Edited, Config
<1>3. CASE What(c) \in {"rename", "form"}
  <2> DEFINE d == Edited(c)
             form == Shown(c)
  <2>1. d = Decoded(read[c], form)
    BY <1>3 DEF Edited
  <2>2. /\ \A f \in Fields \ DOMAIN form : d[f] = read[c][f]
        /\ \A f \in Fields \cap DOMAIN form :
              d[f] = IF f = "secret" THEN KeptSecret(form[f], read[c][f]) ELSE form[f]
    BY <2>1, CallType, DecodedFields
  <2> HIDE DEF d
  <2>3. \A f \in Texts \ About(c) : d[f] = read[c][f]
    <3> SUFFICES ASSUME NEW f \in Texts, f \notin About(c) PROVE d[f] = read[c][f]
      OBVIOUS
    <3>1. f \in Fields
      BY FormFields DEF Fields
    <3>2. CASE f \notin DOMAIN form
      BY <2>2, <3>1, <3>2
    <3>3. CASE f \in DOMAIN form
      <4>1. f = "secret" /\ form[f] = Masked
        BY <1>3, <3>3, AboutWhat
      <4>2. QED
        BY <2>2, <3>1, <3>3, <4>1 DEF KeptSecret
    <3>4. QED
      BY <3>2, <3>3
  <2>4. d \in Config
    BY EditedConfig DEF d
  <2>5. ASSUME Unsettled(c) \cap Kinds = {}
        PROVE  d.allowed = read[c].allowed /\ d.disallowed = read[c].disallowed
    <3>1. CASE DOMAIN form \cap {"allowed", "disallowed"} = {}
      BY <2>2, <3>1 DEF Fields
    <3>2. CASE DOMAIN form \cap {"allowed", "disallowed"} # {}
      <4>1. Kinds = {}
        BY <1>3, <2>5, <3>2, CallType DEF Unsettled
      <4>2. QED
        BY <2>4, <4>1 DEF Config
    <3>3. QED
      BY <3>1, <3>2
  <2>6. ASSUME Unsettled(c) \cap Pubkeys = {}
        PROVE  d.admins = read[c].admins
    <3>1. CASE "admins" \notin DOMAIN form
      BY <2>2, <3>1 DEF Fields
    <3>2. CASE "admins" \in DOMAIN form
      <4>1. Pubkeys = {}
        BY <1>3, <2>6, <3>2, CallType DEF Unsettled
      <4>2. QED
        BY <2>4, <4>1 DEF Config
    <3>3. QED
      BY <3>1, <3>2
  <2>7. QED
    BY <2>3, <2>5, <2>6 DEF d
<1>4. QED
  BY <1>1, <1>2, <1>3, CallType

\* An edit about nothing changes nothing.
LEMMA EditNothing ==
    ASSUME NEW c \in Calls, read[c] \in Config, About(c) = {}, Unsettled(c) = {}
    PROVE  Edited(c) = read[c]
<1>1. What(c) \in {"rename", "form"}
  BY AboutWhat, CallType
<1>2. /\ \A f \in Texts : Edited(c)[f] = read[c][f]
      /\ Edited(c).allowed = read[c].allowed /\ Edited(c).disallowed = read[c].disallowed
      /\ Edited(c).admins = read[c].admins
  BY <1>1, EditKeepsFields
<1>3. Edited(c) \in Config
  BY EditedConfig
<1>4. QED
  BY <1>2, <1>3, FormFields DEF Config

----------------------------------------------------------------------------
(* Types.                                                                   *)

Places == {"check", "read", "write", "reload", "install", "done"}
Storages == [backend: {"local", "s3"}, secret: Secrets \cup {NoSecret}] \cup {NoStorage}

LEMMA StorageType ==
    ASSUME NEW s \in Config
    PROVE  Storage(s) \in Storages /\ Storage(s) # NoStorage
BY DEF Storage, Storages, NoStorage, Config

LEMMA DefaultConfig == DefaultSettings \in Config
BY SettingsAssumption DEF DefaultSettings, Config

LEMMA InitTypes == Init => TypeOK
<1> SUFFICES ASSUME Init PROVE TypeOK
  OBVIOUS
<1>1. row \in Config \cup {NoRow}
  BY SettingsAssumption DEF Init
<1>2. running \in Storages
  BY <1>1, NowConfig, StorageType DEF Init, Started, Storages
<1>3. boots \in 0 .. Boots
  BY SettingsAssumption DEF Init
<1>4. read \in [Calls -> Config]
  BY DefaultConfig DEF Init
<1>5. QED
  BY <1>1, <1>2, <1>3, <1>4 DEF Init, TypeOK, Storages

\* What a save leaves behind, call by call and topic by topic.
Saved(c) ==
    /\ at[c] = "write" /\ read[c] \in Config
    /\ Edited(c) \in Config /\ row' = Edited(c) /\ Now' = Unmarshalled(Edited(c))
    /\ at' = [at EXCEPT ![c] =
                 IF What(c) = "form" /\ running # NoStorage THEN "reload" ELSE "done"]
    /\ read' = [read EXCEPT ![c] = DefaultSettings]
    /\ \A t \in Topics : last'[t] = IF t \in About(c) THEN {c}
                                    ELSE IF t \in Unsettled(c) THEN {} ELSE last[t]
    /\ \A d \in Calls : since'[d] =
          IF d # c /\ at[d] = "write"
          THEN since[d] \cup since[c] \cup About(c) \cup Unsettled(c) ELSE {}
    /\ lost' = (lost \cup since[c]) \ (About(c) \cup Unsettled(c))
    /\ running' = running /\ boots' = boots /\ astray' = astray

LEMMA SaveSaves ==
    ASSUME TypeOK, NEW c \in Calls, Save(c)
    PROVE  Saved(c)
<1>1. read[c] \in Config
  BY DEF TypeOK
<1>2. Edited(c) \in Config /\ row' = Edited(c)
  BY <1>1, EditedConfig DEF Save
<1>3. Now' = Unmarshalled(Edited(c))
  BY <1>2, SettingsAssumption DEF Now
<1>4. QED
  BY <1>1, <1>2, <1>3 DEF Save, Saved, Noted, Go, Forget

LEMMA SaveTypes ==
    ASSUME TypeOK, NEW c \in Calls, Save(c)
    PROVE  TypeOK'
<1>1. Saved(c)
  BY SaveSaves
<1>2. row' \in Config /\ read' \in [Calls -> Config] /\ at' \in [Calls -> Places]
  BY <1>1, DefaultConfig DEF Saved, TypeOK, Places
<1>3. About(c) \subseteq Topics /\ Unsettled(c) \subseteq Topics
  BY AboutWhat DEF Topics
<1>4. last' \in [Topics -> SUBSET Calls]
  BY DEF Save, Noted, TypeOK
<1>5. since' \in [Calls -> SUBSET Topics]
  BY <1>3 DEF Save, Noted, TypeOK
<1>6. lost' \subseteq Topics
  BY <1>1 DEF Saved, TypeOK
<1>7. QED
  BY <1>1, <1>2, <1>4, <1>5, <1>6 DEF Saved, TypeOK, Places

LEMMA CallTypes ==
    ASSUME TypeOK, NEW c \in Calls,
           Check(c) \/ Read(c) \/ Refuse(c) \/ Reload(c) \/ Install(c) \/ InstallFails(c)
    PROVE  TypeOK'
<1>1. Now \in Config
  BY NowConfig DEF TypeOK
<1>2. CASE Check(c)
  BY <1>2 DEF Check, Go, TypeOK, history
<1>3. CASE Read(c)
  BY <1>1, <1>3 DEF Read, Go, TypeOK
<1>4. CASE Refuse(c)
  BY <1>4, DefaultConfig DEF Refuse, Go, Forget, TypeOK, history
<1>5. CASE Reload(c)
  <2>1. astray' \in BOOLEAN
    BY <1>5 DEF Reload, TypeOK
  <2>2. QED
    BY <1>1, <1>5, <2>1 DEF Reload, Go, TypeOK, history
<1>6. CASE Install(c)
  <2>1. running' \in Storages
    BY <1>6, StorageType DEF Install, TypeOK, Storages
  <2>2. QED
    BY <1>6, <2>1, DefaultConfig DEF Install, Go, Forget, TypeOK, history, Storages
<1>7. CASE InstallFails(c)
  BY <1>7, DefaultConfig DEF InstallFails, Go, Forget, TypeOK, history
<1>8. QED
  BY <1>2, <1>3, <1>4, <1>5, <1>6, <1>7

LEMMA RestartTypes == TypeOK /\ Restart => TypeOK'
<1> SUFFICES ASSUME TypeOK, Restart PROVE TypeOK'
  OBVIOUS
<1>1. running' \in Storages
  BY NowConfig, StorageType DEF Restart, Started, TypeOK, Storages
<1>2. boots' \in 0 .. Boots
  BY SettingsAssumption DEF Restart, TypeOK
<1>3. at' \in [Calls -> Places] /\ read' \in [Calls -> Config]
  BY DefaultConfig DEF Restart, TypeOK, Places
<1>4. QED
  BY <1>1, <1>2, <1>3 DEF Restart, TypeOK, Places, Storages

LEMMA StepTypes == TypeOK /\ [Next]_vars => TypeOK'
<1>1. TypeOK /\ UNCHANGED vars => TypeOK'
  BY DEF TypeOK, vars
<1>2. QED
  BY <1>1, SaveTypes, CallTypes, RestartTypes DEF Next

\* Any number of calls at once, and the row is settings an admin could have typed: its
\* secret is never what a browser was shown of one.
THEOREM SettingsTypes == Spec => []TypeOK
BY InitTypes, StepTypes, PTL DEF Spec

----------------------------------------------------------------------------
(* What the last call about a topic settled.                                *)

\* As Shows, of any settings; a kind also sits in the lists as the call put it, whatever
\* they hold beside it.
Settles(s, c, t) ==
    /\ t \in Kinds /\ What(c) = "allow" =>
          t \notin s.disallowed /\ (s.allowed = {} \/ t \in s.allowed)
    /\ t \in Kinds /\ What(c) # "allow" => t \in s.disallowed /\ t \notin s.allowed
    /\ t \in Pubkeys => (t \in s.admins <=> What(c) = "grant")
    /\ t \notin Kinds /\ t \notin Pubkeys =>
          s[t] = Shown(c)[t] \/ (t = "relays" /\ Shown(c)[t] = NoRelays)

\* A topic is one of three, and a call about it is of that sort.
LEMMA TopicSorts ==
    ASSUME NEW c \in Calls, NEW t \in About(c)
    PROVE  \/ /\ t \in Kinds /\ t \notin Pubkeys /\ t = CallOf[c].kind
              /\ What(c) \in {"allow", "disallow"}
           \/ /\ t \in Pubkeys /\ t \notin Kinds /\ t = CallOf[c].who
              /\ What(c) \in {"grant", "revoke"}
           \/ /\ t \in Texts /\ t \notin Kinds /\ t \notin Pubkeys
              /\ t \in DOMAIN Shown(c) /\ (t = "secret" => Shown(c)[t] # Masked)
              /\ What(c) \in {"rename", "form"}
<1>1. Kinds \cap Pubkeys = {} /\ (Kinds \cup Pubkeys) \cap DOMAIN Field = {}
  BY SettingsAssumption
<1>2. Texts \subseteq DOMAIN Field
  BY DEF Texts
<1>3. CASE What(c) \in {"allow", "disallow"}
  BY <1>1, <1>3, AboutWhat, CallType
<1>4. CASE What(c) \in {"grant", "revoke"}
  BY <1>1, <1>4, AboutWhat, CallType
<1>5. CASE What(c) \in {"rename", "form"}
  BY <1>1, <1>2, <1>5, AboutWhat
<1>6. QED
  BY <1>3, <1>4, <1>5, CallType

\* A call settles what it is about.
LEMMA EditSettles ==
    ASSUME NEW c \in Calls, read[c] \in Config, NEW t \in About(c)
    PROVE  Settles(Edited(c), c, t)
<1>1. CASE t \in Kinds
  <2>1. t = CallOf[c].kind /\ What(c) \in {"allow", "disallow"} /\ t \notin Pubkeys
    <3>1. t \notin Texts
      BY <1>1, SettingsAssumption DEF Texts
    <3>2. QED
      BY <1>1, <3>1, TopicSorts
  <2>2. CASE What(c) = "allow"
    BY <1>1, <2>1, <2>2 DEF Settles, Edited, KindOpened, Config
  <2>3. CASE What(c) = "disallow"
    BY <1>1, <2>1, <2>3 DEF Settles, Edited, KindClosed, Config
  <2>4. QED
    BY <2>1, <2>2, <2>3
<1>2. CASE t \in Pubkeys
  <2>1. t = CallOf[c].who /\ What(c) \in {"grant", "revoke"} /\ t \notin Kinds
    BY <1>2, TopicSorts
  <2>2. QED
    BY <1>2, <2>1 DEF Settles, Edited, Config
<1>3. CASE t \notin Kinds /\ t \notin Pubkeys
  <2>1. /\ t \in Texts /\ t \in DOMAIN Shown(c) /\ What(c) \in {"rename", "form"}
        /\ t = "secret" => Shown(c)[t] # Masked
    BY <1>3, TopicSorts
  <2>2. t \in Fields /\ Edited(c) = Decoded(read[c], Shown(c))
    BY <2>1, FormFields DEF Fields, Edited
  <2>3. Edited(c)[t] = IF t = "secret" THEN KeptSecret(Shown(c)[t], read[c][t]) ELSE Shown(c)[t]
    BY <2>1, <2>2, CallType, DecodedFields
  <2>4. Edited(c)[t] = Shown(c)[t]
    BY <2>1, <2>3 DEF KeptSecret
  <2>5. QED
    BY <1>3, <2>4 DEF Settles
<1>4. QED
  BY <1>1, <1>2, <1>3

\* And leaves what others have settled.
LEMMA EditKeeps ==
    ASSUME NEW c \in Calls, read[c] \in Config, NEW x \in Calls, NEW t \in About(x),
           t \notin About(c), t \notin Unsettled(c), Settles(read[c], x, t)
    PROVE  Settles(Edited(c), x, t)
<1>0. ~(t \in Kinds /\ t \in Pubkeys)
  BY SettingsAssumption
<1>1. CASE t \in Kinds
  <2>1. CASE What(c) \in {"allow", "disallow"}
    <3>1. t # CallOf[c].kind
      BY <2>1, AboutWhat
    <3>2. CASE What(c) = "allow"
      BY <1>0, <1>1, <3>1, <3>2 DEF Settles, Edited, KindOpened, Config
    <3>3. CASE What(c) = "disallow"
      BY <1>0, <1>1, <3>1, <3>3 DEF Settles, Edited, KindClosed, Config
    <3>4. QED
      BY <2>1, <3>2, <3>3
  <2>2. CASE What(c) \notin {"allow", "disallow"}
    <3>1. Unsettled(c) \cap Kinds = {}
      <4>1. Kinds \cap Pubkeys = {}
        BY SettingsAssumption
      <4>2. QED
        BY <1>1, <4>1 DEF Unsettled
    <3>2. Edited(c).allowed = read[c].allowed /\ Edited(c).disallowed = read[c].disallowed
      BY <2>2, <3>1, EditKeepsFields
    <3>3. QED
      BY <1>0, <1>1, <3>2 DEF Settles
  <2>3. QED
    BY <2>1, <2>2
<1>2. CASE t \in Pubkeys /\ t \notin Kinds
  <2>1. CASE What(c) \in {"grant", "revoke"}
    <3>1. t # CallOf[c].who
      BY <2>1, AboutWhat
    <3>2. QED
      BY <1>2, <2>1, <3>1 DEF Settles, Edited, Config
  <2>2. CASE What(c) \notin {"grant", "revoke"}
    <3>1. Unsettled(c) \cap Pubkeys = {}
      <4>1. Kinds \cap Pubkeys = {}
        BY SettingsAssumption
      <4>2. QED
        BY <1>2, <4>1 DEF Unsettled
    <3>2. Edited(c).admins = read[c].admins
      BY <2>2, <3>1, EditKeepsFields
    <3>3. QED
      BY <1>2, <3>2 DEF Settles
  <2>3. QED
    BY <2>1, <2>2
<1>3. CASE t \notin Kinds /\ t \notin Pubkeys
  <2>1. t \in Texts
    BY <1>3, TopicSorts
  <2>2. Edited(c)[t] = read[c][t]
    BY <2>1, EditKeepsFields
  <2>3. QED
    BY <1>3, <2>2 DEF Settles
<1>4. QED
  BY <1>1, <1>2, <1>3

\* Reading the row loses only relays somebody emptied.
LEMMA ReadingSettles ==
    ASSUME NEW s \in Config, NEW x \in Calls, NEW t \in About(x), Settles(s, x, t)
    PROVE  Settles(Unmarshalled(s), x, t)
<1> DEFINE u == Unmarshalled(s)
<1>1. /\ \A f \in Fields \ {"relays"} : u[f] = s[f]
      /\ s.relays # NoRelays => u = s
  BY UnmarshalledConfig
<1> HIDE DEF u
<1>2. u.allowed = s.allowed /\ u.disallowed = s.disallowed /\ u.admins = s.admins
  BY <1>1 DEF Fields
<1>3. t \in Texts /\ t # "relays" => u[t] = s[t]
  BY <1>1, FormFields DEF Fields
<1>4. ASSUME t \in Kinds \/ t \in Pubkeys
      PROVE  Settles(u, x, t)
  BY <1>2, <1>4 DEF Settles
<1>5. ASSUME t \notin Kinds, t \notin Pubkeys
      PROVE  Settles(u, x, t)
  <2>1. t \in Texts
    BY <1>5, TopicSorts
  <2>2. s[t] = Shown(x)[t] \/ (t = "relays" /\ Shown(x)[t] = NoRelays)
    BY <1>5 DEF Settles
  <2>3. u[t] = Shown(x)[t] \/ (t = "relays" /\ Shown(x)[t] = NoRelays)
    BY <1>1, <1>3, <2>1, <2>2
  <2>4. QED
    BY <1>5, <2>3 DEF Settles
<1>6. QED
  BY <1>4, <1>5 DEF u

----------------------------------------------------------------------------
(* The invariant: outside what was lost, the settings show what was last    *)
(* settled about each topic, and so does, outside what was written since,   *)
(* what a call has read.                                                    *)

LastAbout == \A t \in Topics : \A x \in last[t] : x \in Calls /\ t \in About(x)

NowSettles == \A t \in Topics \ lost : \A x \in last[t] : Settles(Now, x, t)

ReadSettles ==
    \A d \in Calls : at[d] = "write" =>
        \A t \in Topics \ (lost \cup since[d]) : \A x \in last[t] : Settles(read[d], x, t)

Settled == TypeOK /\ LastAbout /\ NowSettles /\ ReadSettles

LEMMA InitSettled == Init => Settled
<1>1. Init => LastAbout /\ NowSettles /\ ReadSettles
  BY DEF Init, LastAbout, NowSettles, ReadSettles
<1>2. QED
  BY <1>1, InitTypes DEF Settled

LEMMA SaveSettles ==
    ASSUME Settled, NEW c \in Calls, Save(c)
    PROVE  LastAbout' /\ NowSettles' /\ ReadSettles'
<1>1. Saved(c) /\ TypeOK
  BY SaveSaves DEF Settled
<1>2. LastAbout'
  BY <1>1 DEF Saved, LastAbout, Settled
<1>3. ASSUME NEW t \in Topics, t \notin lost', NEW x \in last'[t]
      PROVE  Settles(Edited(c), x, t) /\ x \in Calls /\ t \in About(x)
  <2>1. x \in Calls /\ t \in About(x)
    BY <1>2, <1>3 DEF LastAbout
  <2>2. CASE t \in About(c)
    <3>1. x = c
      BY <1>1, <1>3, <2>2 DEF Saved
    <3>2. QED
      BY <1>1, <2>1, <2>2, <3>1, EditSettles DEF Saved
  <2>3. CASE t \notin About(c)
    <3>1. t \notin Unsettled(c) /\ x \in last[t]
      BY <1>1, <1>3, <2>3 DEF Saved
    <3>2. t \notin lost /\ t \notin since[c]
      BY <1>1, <1>3, <2>3, <3>1 DEF Saved
    <3>3. Settles(read[c], x, t)
      BY <1>1, <3>1, <3>2 DEF Saved, Settled, ReadSettles
    <3>4. QED
      BY <1>1, <2>1, <2>3, <3>1, <3>3, EditKeeps DEF Saved
  <2>4. QED
    BY <2>2, <2>3
<1>4. NowSettles'
  <2> SUFFICES ASSUME NEW t \in Topics, t \notin lost', NEW x \in last'[t]
               PROVE  Settles(Unmarshalled(Edited(c)), x, t)
    BY <1>1 DEF NowSettles, Saved, Settles, What, Shown
  <2>1. QED
    BY <1>1, <1>3, ReadingSettles DEF Saved
<1>5. ReadSettles'
  <2> SUFFICES ASSUME NEW d \in Calls, at'[d] = "write",
                      NEW t \in Topics, t \notin lost', t \notin since'[d], NEW x \in last'[t]
               PROVE  Settles(read'[d], x, t)
    BY DEF ReadSettles, Settles, What, Shown
  <2>1. d # c /\ at[d] = "write" /\ read'[d] = read[d]
    BY <1>1 DEF Saved, TypeOK
  <2>2. t \notin since[d] /\ t \notin since[c] /\ t \notin About(c) /\ t \notin Unsettled(c)
    BY <1>1, <2>1 DEF Saved
  <2>3. x \in last[t] /\ t \notin lost
    BY <1>1, <2>2 DEF Saved
  <2>4. QED
    BY <2>1, <2>2, <2>3 DEF Settled, ReadSettles
<1>6. QED
  BY <1>2, <1>4, <1>5

\* The other steps of a call write nothing that was settled; what it reads is current.
LEMMA CallSettles ==
    ASSUME Settled, NEW c \in Calls,
           Check(c) \/ Read(c) \/ Refuse(c) \/ Reload(c) \/ Install(c) \/ InstallFails(c)
    PROVE  LastAbout' /\ NowSettles' /\ ReadSettles'
<1>1. row' = row /\ last' = last /\ lost' = lost /\ Now' = Now
  BY DEF Check, Read, Refuse, Reload, Install, InstallFails, history, Now
<1>2. LastAbout' /\ NowSettles'
  BY <1>1 DEF Settled, LastAbout, NowSettles, Settles, What, Shown, About
<1>3. \A d \in Calls : at'[d] = "write" =>
         \/ at[d] = "write" /\ read'[d] = read[d] /\ since'[d] = since[d]
         \/ read'[d] = Now /\ since'[d] = {}
  BY DEF Check, Read, Refuse, Reload, Install, InstallFails, history, Go, Forget, Settled,
         TypeOK
<1>4. ReadSettles'
  <2> SUFFICES ASSUME NEW d \in Calls, at'[d] = "write",
                      NEW t \in Topics, t \notin lost, t \notin since'[d], NEW x \in last[t]
               PROVE  Settles(read'[d], x, t)
    BY <1>1 DEF ReadSettles, Settles, What, Shown
  <2>1. CASE read'[d] = Now
    BY <2>1 DEF Settled, NowSettles
  <2>2. CASE at[d] = "write" /\ read'[d] = read[d] /\ since'[d] = since[d]
    BY <2>2 DEF Settled, ReadSettles
  <2>3. QED
    BY <1>3, <2>1, <2>2
<1>5. QED
  BY <1>2, <1>4

LEMMA StepSettled == Settled /\ [Next]_vars => Settled'
<1> SUFFICES ASSUME Settled, [Next]_vars PROVE Settled'
  OBVIOUS
<1>1. TypeOK'
  BY StepTypes DEF Settled
<1>2. CASE Restart
  <2>1. /\ row' = row /\ last' = last /\ lost' = lost
        /\ \A d \in Calls : at'[d] # "write"
    BY <1>2 DEF Restart
  <2>2. LastAbout' /\ NowSettles' /\ ReadSettles'
    BY <2>1
    DEF Settled, LastAbout, NowSettles, ReadSettles, Settles, What, Shown, About, Now
  <2>3. QED
    BY <1>1, <2>2 DEF Settled
<1>3. CASE UNCHANGED vars
  BY <1>1, <1>3
  DEF vars, Settled, LastAbout, NowSettles, ReadSettles, Settles, What, Shown, About, Now
<1>4. ASSUME NEW c \in Calls,
             \/ Check(c) \/ Read(c) \/ Save(c) \/ Refuse(c)
             \/ Reload(c) \/ Install(c) \/ InstallFails(c)
      PROVE  Settled'
  BY <1>1, <1>4, SaveSettles, CallSettles DEF Settled
<1>5. QED
  BY <1>2, <1>3, <1>4 DEF Next

\* What is settled, shows.
LEMMA SettledShows ==
    ASSUME NEW x \in Calls, NEW t \in About(x), Settles(Now, x, t)
    PROVE  Shows(x, t) \/ (t = "relays" /\ Shown(x)[t] = NoRelays)
<1>1. ~(t \in Kinds /\ t \in Pubkeys)
  BY SettingsAssumption
<1>2. CASE t \in Kinds
  <2>1. KindAllowed(Now, t) <=> What(x) = "allow"
    BY <1>2 DEF Settles, KindAllowed
  <2>2. QED
    BY <1>1, <1>2, <2>1 DEF Shows
<1>3. CASE t \in Pubkeys
  <2>1. t \in Now.admins <=> What(x) = "grant"
    BY <1>3 DEF Settles
  <2>2. QED
    BY <1>1, <1>3, <2>1 DEF Shows
<1>4. CASE t \notin Kinds /\ t \notin Pubkeys
  BY <1>4 DEF Settles, Shows
<1>5. QED
  BY <1>2, <1>3, <1>4

\* Any number of calls at once, over any kinds, people and fields: the last call about a
\* topic holds, whatever was asked about others since, unless a stale call wrote it back.
THEOREM LastCallsHold == Spec => []EditsStick
<1>1. Settled => EditsStick
  BY SettledShows DEF Settled, LastAbout, NowSettles, EditsStick
<1>2. QED
  BY <1>1, InitSettled, StepSettled, PTL DEF Spec

----------------------------------------------------------------------------
(* A call that nobody has written under has read the settings as they are.  *)

ReadSees == \A d \in Calls : at[d] = "write" /\ since[d] = {} => read[d] = Now

LEMMA SaveSees ==
    ASSUME TypeOK, ReadSees, NEW c \in Calls, Save(c)
    PROVE  ReadSees'
<1>1. Saved(c)
  BY SaveSaves
<1> SUFFICES ASSUME NEW d \in Calls, at'[d] = "write", since'[d] = {}
             PROVE  read'[d] = Now'
  BY DEF ReadSees
<1>2. d # c /\ at[d] = "write" /\ read'[d] = read[d]
  BY <1>1 DEF Saved, TypeOK
<1>3. since[d] = {} /\ since[c] = {} /\ About(c) = {} /\ Unsettled(c) = {}
  BY <1>1, <1>2 DEF Saved
<1>4. read[d] = Now /\ read[c] = Now
  BY <1>1, <1>2, <1>3 DEF Saved, ReadSees
<1>5. Edited(c) = Now
  BY <1>1, <1>3, <1>4, EditNothing DEF Saved
<1>6. Now' = Now
  BY <1>1, <1>5, NowConfig, UnmarshalledConfig DEF Saved, TypeOK
<1>7. QED
  BY <1>2, <1>4, <1>6

LEMMA StepSees == TypeOK /\ ReadSees /\ [Next]_vars => ReadSees'
<1> SUFFICES ASSUME TypeOK, ReadSees, [Next]_vars PROVE ReadSees'
  OBVIOUS
<1>1. CASE Restart
  BY <1>1 DEF Restart, ReadSees
<1>2. CASE UNCHANGED vars
  BY <1>2 DEF vars, ReadSees, Now
<1>3. ASSUME NEW c \in Calls,
             Check(c) \/ Read(c) \/ Refuse(c) \/ Reload(c) \/ Install(c) \/ InstallFails(c)
      PROVE  ReadSees'
  <2>1. Now' = Now
    BY <1>3 DEF Check, Read, Refuse, Reload, Install, InstallFails, Now
  <2>2. \A d \in Calls : at'[d] = "write" =>
           \/ at[d] = "write" /\ read'[d] = read[d] /\ since'[d] = since[d]
           \/ read'[d] = Now
    BY <1>3 DEF Check, Read, Refuse, Reload, Install, InstallFails, history, Go, Forget,
                TypeOK
  <2>3. QED
    BY <2>1, <2>2 DEF ReadSees
<1>4. QED
  BY <1>1, <1>2, <1>3, SaveSees DEF Next

\* The lists of an edit give every other kind the verdict it had.
LEMMA OtherVerdicts ==
    ASSUME NEW s \in Config, NEW e \in Config, NEW k \in Kinds, NEW o \in Kinds, o # k,
           \/ e = KindOpened(s, k)
           \/ e = KindClosed(s, k) /\ s.allowed # {k}
    PROVE  KindAllowed(s, o) = KindAllowed(Unmarshalled(e), o)
<1>1. /\ Unmarshalled(e).allowed = e.allowed
      /\ Unmarshalled(e).disallowed = e.disallowed
  BY UnmarshalledConfig DEF Fields
<1>2. CASE e = KindOpened(s, k)
  <2>1. /\ e.disallowed = s.disallowed \ {k}
        /\ e.allowed = IF s.allowed = {} THEN {} ELSE s.allowed \cup {k}
    BY <1>2 DEF KindOpened, Config
  <2>2. QED
    BY <1>1, <2>1 DEF KindAllowed
<1>3. CASE e = KindClosed(s, k) /\ s.allowed # {k}
  <2>1. e.disallowed = s.disallowed \cup {k} /\ e.allowed = s.allowed \ {k}
    BY <1>3 DEF KindClosed, Config
  <2>2. s.allowed = {} <=> e.allowed = {}
    BY <1>3, <2>1
  <2>3. QED
    BY <1>1, <2>1, <2>2 DEF KindAllowed
<1>4. QED
  BY <1>2, <1>3

LEMMA SaveApart ==
    ASSUME TypeOK, ReadSees, NEW c \in Calls, Save(c), What(c) \in {"allow", "disallow"},
           since[c] = {}
    PROVE  \/ \A k \in Kinds \ About(c) : KindAllowed(Now, k) = KindAllowed(Now', k)
           \/ Now.allowed = About(c) /\ What(c) = "disallow"
<1>1. Saved(c) /\ read[c] = Now /\ Now \in Config
  BY SaveSaves, NowConfig DEF Saved, ReadSees, TypeOK
<1>2. About(c) = {CallOf[c].kind} /\ CallOf[c].kind \in Kinds
  BY AboutWhat, CallType
<1>3. Now' = Unmarshalled(Edited(c)) /\ Edited(c) \in Config
  BY <1>1 DEF Saved
<1>4. CASE What(c) = "allow"
  <2>1. Edited(c) = KindOpened(Now, CallOf[c].kind)
    BY <1>1, <1>4 DEF Edited
  <2>2. QED
    BY <1>1, <1>2, <1>3, <2>1, OtherVerdicts
<1>5. CASE What(c) = "disallow"
  <2>1. Edited(c) = KindClosed(Now, CallOf[c].kind)
    BY <1>1, <1>5 DEF Edited
  <2>2. QED
    BY <1>1, <1>2, <1>3, <1>5, <2>1, OtherVerdicts
<1>6. QED
  BY <1>4, <1>5

\* Whatever the kinds and the lists: a call about one kind changes the verdict on no
\* other, but when it takes the last kind off the allow list.
THEOREM OtherKindsStay == Spec => KindsApart
<1>1. Init => ReadSees
  BY DEF Init, ReadSees
<1>2. Spec => [](TypeOK /\ ReadSees)
  BY <1>1, StepSees, InitTypes, StepTypes, PTL DEF Spec
<1>3. TypeOK /\ ReadSees /\ [Next]_vars =>
      [\A c \in Calls : Save(c) /\ What(c) \in {"allow", "disallow"} /\ since[c] = {} =>
          \/ \A k \in Kinds \ About(c) : KindAllowed(Now, k) = KindAllowed(Now', k)
          \/ Now.allowed = About(c) /\ What(c) = "disallow"]_vars
  BY SaveApart
<1>4. QED
  BY <1>2, <1>3, PTL DEF Spec, KindsApart

----------------------------------------------------------------------------
(* The storage backend.                                                     *)

StorageFields == {"backend", "secret"}
StorageLost == lost \cap StorageFields # {}

\* What a call has read of the storage, outside what was written since.
ReadStorage ==
    \A d \in Calls : at[d] = "write" =>
        \A f \in StorageFields \ (lost \cup since[d]) : read[d][f] = Now[f]

\* A reload about to install the storage of other settings than now will be followed by
\* another, or has been overlapped by it.
Excused == (\E d \in Calls : at[d] = "reload") \/ astray \/ StorageLost

ReloadStorage ==
    \A d \in Calls : at[d] = "install" => Storage(read[d]) = Storage(Now) \/ Excused

Overlap ==
    \A c, d \in Calls : at[c] = "install" /\ at[d] = "install" /\ c # d => astray

\* Without media storage nothing reloads.
NothingReloads == running = NoStorage => \A d \in Calls : at[d] \notin {"reload", "install"}

Following ==
    TypeOK /\ ReadStorage /\ ReloadStorage /\ Overlap /\ NothingReloads /\ BackendFollows

LEMMA InitFollowing == Init => Following
<1>1. Init => ReadStorage /\ ReloadStorage /\ Overlap /\ NothingReloads /\ BackendFollows
  BY DEF Init, Started, ReadStorage, ReloadStorage, Overlap, NothingReloads, BackendFollows
<1>2. QED
  BY <1>1, InitTypes DEF Following

\* Only a form writes the storage; anybody else puts back what it has read.
LEMMA SaveStorage ==
    ASSUME Following, NEW c \in Calls, Save(c), NEW f \in StorageFields,
           f \notin lost', f \notin About(c)
    PROVE  /\ f \notin lost /\ f \notin since[c]
           /\ Edited(c)[f] = Now[f] /\ Now'[f] = Now[f]
<1>1. Saved(c)
  BY SaveSaves DEF Following
<1>2. f \in Texts /\ f \in Fields \ {"relays"} /\ f \notin Kinds
  BY SettingsAssumption, FormFields DEF StorageFields, Fields
<1>3. f \notin Unsettled(c)
  <2>1. f \notin Pubkeys
    BY SettingsAssumption, FormFields DEF StorageFields
  <2>2. QED
    BY <1>2, <2>1, AboutWhat
<1>4. f \notin lost /\ f \notin since[c]
  BY <1>1, <1>3 DEF Saved
<1>5. read[c][f] = Now[f]
  BY <1>1, <1>4 DEF Saved, Following, ReadStorage
<1>6. Edited(c)[f] = read[c][f]
  BY <1>1, <1>2, EditKeepsFields DEF Saved
<1>7. Now'[f] = Edited(c)[f]
  BY <1>1, <1>2, UnmarshalledConfig DEF Saved
<1>8. QED
  BY <1>4, <1>5, <1>6, <1>7

LEMMA SaveFollows ==
    ASSUME Following, NEW c \in Calls, Save(c)
    PROVE  ReadStorage' /\ ReloadStorage' /\ Overlap' /\ NothingReloads' /\ BackendFollows'
<1>1. Saved(c) /\ TypeOK
  BY SaveSaves DEF Following
<1>2. ReadStorage'
  <2> SUFFICES ASSUME NEW d \in Calls, at'[d] = "write",
                      NEW f \in StorageFields, f \notin lost', f \notin since'[d]
               PROVE  read'[d][f] = Now'[f]
    BY DEF ReadStorage
  <2>1. d # c /\ at[d] = "write" /\ read'[d] = read[d]
    BY <1>1 DEF Saved, TypeOK
  <2>2. f \notin since[d] /\ f \notin About(c)
    BY <1>1, <2>1 DEF Saved
  <2>3. f \notin lost /\ Now'[f] = Now[f]
    BY <2>2, SaveStorage
  <2>4. QED
    BY <2>1, <2>2, <2>3 DEF Following, ReadStorage
<1>3. \A d \in Calls : at'[d] = "install" => at[d] = "install" /\ read'[d] = read[d]
  BY <1>1 DEF Saved, TypeOK
<1>4. \A d \in Calls : at[d] = "reload" => at'[d] = "reload"
  BY <1>1 DEF Saved, TypeOK
<1>5. Overlap'
  BY <1>1, <1>3 DEF Following, Overlap, Saved
<1>a. NothingReloads'
  BY <1>1 DEF Saved, Following, NothingReloads, TypeOK
<1>6. CASE What(c) = "form" /\ running # NoStorage
  <2>1. at'[c] = "reload"
    BY <1>1, <1>6 DEF Saved, TypeOK
  <2>2. QED
    BY <1>2, <1>5, <1>a, <2>1 DEF ReloadStorage, Excused, BackendFollows
<1>7. CASE What(c) # "form"
  <2>1. \A f \in StorageFields : f \notin About(c)
    <3>1. StorageFields \cap (Kinds \cup Pubkeys) = {} /\ "name" \notin StorageFields
      BY SettingsAssumption, FormFields DEF StorageFields
    <3>2. QED
      BY <1>7, <3>1, AboutWhat, CallType
  <2>2. StorageLost => StorageLost'
    <3>1. Unsettled(c) = {}
      BY <1>7, AboutWhat
    <3>2. QED
      BY <1>1, <2>1, <3>1 DEF Saved, StorageLost
  <2>3. StorageLost' \/ Storage(Now') = Storage(Now)
    <3> SUFFICES ASSUME ~StorageLost' PROVE Storage(Now') = Storage(Now)
      OBVIOUS
    <3>1. Now'["backend"] = Now["backend"] /\ Now'["secret"] = Now["secret"]
      BY <2>1, SaveStorage DEF StorageLost, StorageFields
    <3>2. QED
      BY <3>1 DEF Storage
  <2>4. astray' = astray /\ running' = running
    BY <1>1 DEF Saved
  <2>5. Excused => Excused'
    BY <1>4, <2>2, <2>4 DEF Excused
  <2>6. ReloadStorage'
    BY <1>3, <2>3, <2>5 DEF Following, ReloadStorage, Excused
  <2>7. BackendFollows'
    <3>1. \A d \in Calls : at[d] \in {"reload", "install"} => at'[d] = at[d]
      BY <1>1 DEF Saved, TypeOK
    <3>2. QED
      BY <2>2, <2>3, <2>4, <3>1
      DEF Following, BackendFollows, StorageLost, StorageFields
  <2>8. QED
    BY <1>2, <1>5, <1>a, <2>6, <2>7
<1>8. CASE What(c) = "form" /\ running = NoStorage
  BY <1>1, <1>2, <1>3, <1>5, <1>8, <1>a DEF Saved, BackendFollows, ReloadStorage, NothingReloads, Following
<1>9. QED
  BY <1>6, <1>7, <1>8

\* Two storages are the same when their fingerprints are.
LEMMA InstallInstalls ==
    ASSUME TypeOK, NEW c \in Calls, Install(c)
    PROVE  running' = Storage(read[c])
<1>1. running \in Storages /\ read[c] \in Config
  BY DEF TypeOK, Storages
<1>2. CASE StorageFingerprint(read[c]) = StorageFingerprint(running)
  <2>1. running.backend = read[c].backend /\ running.secret = read[c].secret
    BY <1>2 DEF StorageFingerprint
  <2>2. running = Storage(read[c])
    BY <1>1, <2>1 DEF Storage, Storages, NoStorage, Config
  <2>3. QED
    BY <1>2, <2>2 DEF Install
<1>3. CASE StorageFingerprint(read[c]) # StorageFingerprint(running)
  BY <1>3 DEF Install
<1>4. QED
  BY <1>2, <1>3

\* What a call has read stays as good when it, or another, takes a step that writes nothing.
LEMMA CallReadsStorage ==
    ASSUME Following, NEW c \in Calls,
           Check(c) \/ Read(c) \/ Refuse(c) \/ Reload(c) \/ Install(c) \/ InstallFails(c)
    PROVE  ReadStorage' /\ Now' = Now /\ lost' = lost
<1>1. Now' = Now /\ lost' = lost
  BY DEF Check, Read, Refuse, Reload, Install, InstallFails, history, Now
<1>2. \A d \in Calls : at'[d] = "write" =>
         \/ at[d] = "write" /\ read'[d] = read[d] /\ since'[d] = since[d]
         \/ read'[d] = Now
  BY DEF Check, Read, Refuse, Reload, Install, InstallFails, history, Go, Forget,
         Following, TypeOK
<1>3. QED
  BY <1>1, <1>2 DEF Following, ReadStorage

LEMMA CallFollows ==
    ASSUME Following, NEW c \in Calls,
           Check(c) \/ Read(c) \/ Refuse(c) \/ Reload(c) \/ Install(c) \/ InstallFails(c)
    PROVE  ReadStorage' /\ ReloadStorage' /\ Overlap' /\ NothingReloads' /\ BackendFollows'
<1>1. ReadStorage' /\ Now' = Now /\ lost' = lost
  BY CallReadsStorage
<1>2. \A d \in Calls \ {c} : at'[d] = at[d] /\ read'[d] = read[d]
  BY DEF Check, Read, Refuse, Reload, Install, InstallFails, Go, Forget, Following, TypeOK
<1>a. NothingReloads'
  <2>1. CASE Check(c) \/ Read(c) \/ Refuse(c)
    BY <1>2, <2>1 DEF Check, Read, Refuse, Go, Following, NothingReloads, TypeOK
  <2>2. CASE Reload(c) \/ InstallFails(c)
    BY <2>2 DEF Reload, InstallFails, Following, NothingReloads
  <2>3. CASE Install(c)
    BY <2>3, InstallInstalls, StorageType DEF Following, NothingReloads, TypeOK
  <2>4. QED
    BY <2>1, <2>2, <2>3
<1>3. CASE Check(c) \/ Read(c) \/ Refuse(c)
  <2>1. /\ running' = running /\ astray' = astray
        /\ at[c] \notin {"reload", "install"} /\ at'[c] \notin {"reload", "install"}
    BY <1>3 DEF Check, Read, Refuse, Go, Following, TypeOK
  <2>2. \A d \in Calls : /\ at'[d] = "reload" <=> at[d] = "reload"
                         /\ at'[d] = "install" <=> at[d] = "install"
                         /\ at'[d] = "install" => read'[d] = read[d]
    BY <1>2, <2>1
  <2>3. Excused' <=> Excused
    BY <1>1, <2>1, <2>2 DEF Excused, StorageLost
  <2>4. ReloadStorage' /\ Overlap'
    BY <1>1, <2>1, <2>2, <2>3 DEF Following, ReloadStorage, Overlap
  <2>5. BackendFollows'
    BY <1>1, <2>1, <2>2 DEF Following, BackendFollows
  <2>6. QED
    BY <1>1, <1>a, <2>4, <2>5
<1>4. CASE Reload(c)
  <2>1. /\ at[c] = "reload" /\ at'[c] = "install" /\ read'[c] = Now
        /\ astray' = (astray \/ \E d \in Calls : at[d] = "install")
    BY <1>4 DEF Reload, Go, Following, TypeOK
  <2>2. \A d \in Calls \ {c} : at'[d] = "install" => astray'
    BY <1>2, <2>1
  <2>3. ReloadStorage'
    BY <1>1, <2>1, <2>2 DEF ReloadStorage, Excused
  <2>4. Overlap'
    BY <2>2 DEF Overlap
  <2>5. BackendFollows'
    BY <2>1 DEF BackendFollows
  <2>6. QED
    BY <1>1, <1>a, <2>3, <2>4, <2>5
<1>5. CASE Install(c)
  <2>1. at[c] = "install" /\ at'[c] = "done" /\ astray' = astray
    BY <1>5 DEF Install, Go, Following, TypeOK
  <2>2. Excused => Excused'
    BY <1>1, <1>2, <2>1 DEF Excused, StorageLost
  <2>3. ReloadStorage'
    BY <1>1, <1>2, <2>1, <2>2 DEF Following, ReloadStorage
  <2>4. Overlap'
    BY <1>2, <2>1 DEF Following, Overlap
  <2>5. Storage(read[c]) = Storage(Now) \/ Excused
    BY <2>1 DEF Following, ReloadStorage
  <2>6. running' = Storage(read[c])
    BY <1>5, InstallInstalls DEF Following
  <2>7. BackendFollows'
    BY <1>1, <2>2, <2>5, <2>6 DEF BackendFollows, Excused, StorageLost, StorageFields
  <2>8. QED
    BY <1>1, <1>a, <2>3, <2>4, <2>7
<1>6. CASE InstallFails(c)
  <2>1. astray'
    BY <1>6 DEF InstallFails
  <2>2. QED
    BY <1>1, <1>a, <2>1 DEF ReloadStorage, Excused, Overlap, BackendFollows
<1>7. QED
  BY <1>3, <1>4, <1>5, <1>6

LEMMA StepFollows == Following /\ [Next]_vars => Following'
<1> SUFFICES ASSUME Following, [Next]_vars PROVE Following'
  OBVIOUS
<1>1. TypeOK'
  BY StepTypes DEF Following
<1>2. CASE Restart
  <2>1. Now' = Now /\ running' \in {Storage(Now), NoStorage}
        /\ \A d \in Calls : at'[d] \notin {"write", "reload", "install"}
    BY <1>2 DEF Restart, Started, Now
  <2>2. QED
    BY <1>1, <2>1 DEF Following, ReadStorage, ReloadStorage, Overlap, NothingReloads, BackendFollows
<1>3. CASE UNCHANGED vars
  BY <1>1, <1>3
  DEF vars, Following, ReadStorage, ReloadStorage, Overlap, NothingReloads, BackendFollows, Excused,
      StorageLost, Now
<1>4. ASSUME NEW c \in Calls,
             \/ Check(c) \/ Read(c) \/ Save(c) \/ Refuse(c)
             \/ Reload(c) \/ Install(c) \/ InstallFails(c)
      PROVE  Following'
  BY <1>1, <1>4, SaveFollows, CallFollows DEF Following
<1>5. QED
  BY <1>2, <1>3, <1>4 DEF Next

\* Whatever forms and calls interleave: once the forms are through, the storage backend
\* that runs is the one in the settings, but for overlapping or failed reloads and a stale
\* call that put another back, and where none came up with the process.
THEOREM TheBackendFollows == Spec => []BackendFollows
<1>1. Following => BackendFollows
  BY DEF Following
<1>2. QED
  BY <1>1, InitFollowing, StepFollows, PTL DEF Spec
===============================================================================
