------------------------------- MODULE Accounts -------------------------------
(***************************************************************************)
(* Who is let in without paying, and who edits accounts by hand: invites   *)
(* (internal/store/invites.go, internal/api/invites.go, the join and leave *)
(* requests of internal/relay/nip43.go), NIP-86 (internal/relay/           *)
(* management.go) and the admin form (internal/api/admin.go), beside the   *)
(* grants of a payment.                                                    *)
(*                                                                         *)
(* Every request is a goroutine; its database statements are one action    *)
(* each, ClaimInvite and a paid grant are transactions and so one action.  *)
(* EnsureAccount's INSERT and SELECT are one step too: what comes between  *)
(* them could as well come after both.                                     *)
(*                                                                         *)
(* Left out: notes and wording, authorization, the drift allowed to a      *)
(* request's timestamp, lists, used_bytes (EventUsage), and a database     *)
(* that fails.                                                             *)
(***************************************************************************)
EXTENDS Integers, FiniteSets, Functions

CONSTANTS
  Pubkeys,
  Codes, NoCode,     \* invite codes; a deleted one is never minted again
  Terms,             \* what each code grants, to how many, for how long
  Issued,            \* the codes that exist at first
  Requests,          \* what is asked for, each once: bound
  RequestOf,         \* who asks for what
  AllowDays, AllowMB,  \* PeriodDays and IncludedMB of the settings
  AtOnce,            \* bound: handlers at work at once
  Horizon,           \* bound: the last unit of time
  Crashes            \* BOOLEAN: the process may stop at any point

Time == 1 .. Horizon

\* days, mb: what the code grants; seats: max_uses, 0 for no limit; ttl: 0 for ever.
Term == [days: Nat, mb: Nat, seats: Nat, ttl: Nat]

\* Account, as far as these handlers read and write it. expires = 0 is never.
Account == [exists: BOOLEAN, status: {"active", "banned"}, expires: Nat, quota: Nat,
            permanent: BOOLEAN]
NoAccount    == [exists |-> FALSE, status |-> "active", expires |-> 0, quota |-> 0,
                 permanent |-> FALSE]
FreshAccount == [NoAccount EXCEPT !.exists = TRUE]

Invite == [state: {"unborn", "live", "deleted"}, used: Nat, expires: Nat]

\* join, leave: kinds 28934 and 28936; claim: POST /api/invite/claim; allow, ban:
\* NIP-86; save, delete: the admin's form; pay: billing's grant; create, mint, drop:
\* a code made by an admin, or on request, or deleted.
Kinds == {"join", "claim", "leave", "allow", "ban", "save", "delete", "pay",
          "create", "mint", "drop"}

\* The form carries an account; a payment carries what it adds, in the same fields.
Request == [what: Kinds, who: Pubkeys, code: Codes \cup {NoCode}, form: Account]

ASSUME AccountsAssumption ==
    /\ NoCode \notin Codes /\ Issued \subseteq Codes
    /\ Terms \in [Codes -> Term]
    /\ RequestOf \in [Requests -> Request]
    /\ \A r \in Requests :
          RequestOf[r].what \in {"join", "claim", "create", "mint", "drop"}
          => RequestOf[r].code \in Codes
    /\ \A r \in Requests :
          RequestOf[r].what = "mint" => LET term == Terms[RequestOf[r].code] IN
                                       term.seats = 1 /\ term.ttl > 0
    /\ AllowDays \in Nat /\ AllowMB \in Nat /\ AtOnce \in Nat
    /\ Horizon \in Nat \ {0} /\ Crashes \in BOOLEAN
    /\ IsFiniteSet(Pubkeys)

VARIABLES
  clock,
  accounts,
  invites,
  uses,       \* invite_uses
  at,         \* where each request stands
  read,       \* the account a handler has read and will write back, in part
  disturbed   \* history: accounts an edit of which was lost or cut short, see below

vars == <<clock, accounts, invites, uses, at, read, disturbed>>

What(r) == RequestOf[r].what
Who(r)  == RequestOf[r].who
Code(r) == RequestOf[r].code
Form(r) == RequestOf[r].form

\* The first statement of each handler.
First(r) ==
    CASE What(r) \in {"join", "leave"} -> "look"
      [] What(r) = "claim" -> "claim"
      [] What(r) \in {"allow", "ban", "save"} -> "ensure"
      [] OTHER -> "once"

InHand == {r \in Requests : at[r] \notin {First(r), "done"}}

\* Has read the account, and will write back what it read: not so the form.
Holds(r, p) == at[r] = "update" /\ What(r) # "save" /\ Who(r) = p

Go(r, place) == at' = [at EXCEPT ![r] = place]

\* A handler starts with its first statement.
Starts(r) == at[r] = First(r) => Cardinality(InHand) < AtOnce

----------------------------------------------------------------------------
(* History: an account is disturbed when somebody writes it between the     *)
(* read and the write of another handler, whose write then undoes it, or    *)
(* when a restart cuts a handler short.                                     *)

Disturbing(r) ==
    disturbed' = disturbed \cup {p \in {Who(r)} : \E q \in Requests \ {r} : Holds(q, p)}

----------------------------------------------------------------------------
(* Invite codes.                                                            *)

Larger(i, j) == IF i > j THEN i ELSE j

Minted(until) == [state |-> "live", used |-> 0, expires |-> until]

\* By an admin, who says for how long and for how many.
MintedByAdmin(c) == Minted(IF Terms[c].ttl = 0 THEN 0 ELSE clock + Terms[c].ttl)

\* On request, with auto invite on: for one, and not for ever.
MintedOnRequest(c) == Minted(clock + Terms[c].ttl)

CreateInvite(r) ==
    /\ at[r] = "once" /\ What(r) \in {"create", "mint"}
    /\ invites[Code(r)].state = "unborn"
    /\ invites' = [invites EXCEPT ![Code(r)] =
          IF What(r) = "mint" THEN MintedOnRequest(Code(r)) ELSE MintedByAdmin(Code(r))]
    /\ Go(r, "done")
    /\ UNCHANGED <<clock, accounts, uses, read, disturbed>>

DeleteInvite(r) ==
    /\ at[r] = "once" /\ What(r) = "drop"
    /\ invites' = IF invites[Code(r)].state = "live"
                  THEN [invites EXCEPT ![Code(r)].state = "deleted"] ELSE invites
    /\ Go(r, "done")
    /\ UNCHANGED <<clock, accounts, uses, read, disturbed>>

\* handleJoin asks whether the sender is in already...
Look(r) ==
    LET a == accounts[Who(r)] IN
    /\ at[r] = "look" /\ What(r) = "join" /\ Starts(r)
    /\ Go(r, IF a.exists /\ a.status = "active" THEN "done" ELSE "claim")
    /\ UNCHANGED <<clock, accounts, invites, uses, read, disturbed>>

Spent(i) == [i EXCEPT !.used = @ + 1]

\* A mutation of Claimable: an off-by-one leaves one seat more than the code has.
ClaimableOnceMore(c, p) ==
    /\ invites[c].state = "live"
    /\ invites[c].expires = 0 \/ invites[c].expires > clock
    /\ <<c, p>> \notin uses
    /\ Terms[c].seats = 0 \/ invites[c].used <= Terms[c].seats

Claimable(c, p) ==
    /\ invites[c].state = "live"
    /\ invites[c].expires = 0 \/ invites[c].expires > clock
    /\ <<c, p>> \notin uses
    /\ Terms[c].seats = 0 \/ invites[c].used < Terms[c].seats

\* ClaimInvite, one transaction that holds the write lock from its first read.
Claim(r) ==
    /\ at[r] = "claim" /\ Starts(r)
    /\ IF Claimable(Code(r), Who(r))
       THEN /\ uses' = uses \cup {<<Code(r), Who(r)>>}
            /\ invites' = [invites EXCEPT ![Code(r)] = Spent(@)]
            /\ Go(r, "ensure")
       ELSE Go(r, "done") /\ UNCHANGED <<uses, invites>>
    /\ UNCHANGED <<clock, accounts, read, disturbed>>

----------------------------------------------------------------------------
(* Edits: read the account, compute, write it back whole.                   *)

\* EnsureAccount
Ensured(a) == IF a.exists THEN a ELSE FreshAccount

Ensure(r) ==
    /\ at[r] = "ensure" /\ Starts(r)
    /\ accounts' = [accounts EXCEPT ![Who(r)] = Ensured(@)]
    /\ read' = [read EXCEPT ![r] = Ensured(accounts[Who(r)])]
    /\ Go(r, "update")
    /\ UNCHANGED <<clock, invites, uses, disturbed>>

\* handleLeave reads the account, and makes none.
LeaveLook(r) ==
    /\ at[r] = "look" /\ What(r) = "leave" /\ Starts(r)
    /\ IF accounts[Who(r)].exists
       THEN Go(r, "update") /\ read' = [read EXCEPT ![r] = accounts[Who(r)]]
       ELSE Go(r, "done") /\ UNCHANGED read
    /\ UNCHANGED <<clock, accounts, invites, uses, disturbed>>

\* A mutation of Extended: the term that still runs is forgotten.
ExtendedFromNow(expires, days) == clock + days

\* grantInvite and allowPubKey: from now, or the end of the term that still runs.
Extended(expires, days) == Larger(expires, clock) + days

\* A mutation of Revoked: what was granted goes with the access.
RevokedWhole(a) == [status |-> "banned", expires |-> 0, quota |-> 0]

\* banPubKey and handleLeave take the access, and leave what was paid for.
Revoked(a) == [status |-> "banned", expires |-> a.expires, quota |-> a.quota]

\* grantInvite: an invite without days leaves the term as it is, never included.
Invited(a, term) ==
    [status  |-> "active", quota |-> a.quota + term.mb,
     expires |-> IF term.days > 0 THEN Extended(a.expires, term.days) ELSE a.expires]

\* allowPubKey: one period at the current price list.
Comped(a) ==
    [status |-> "active", expires |-> Extended(a.expires, AllowDays), quota |-> a.quota + AllowMB]

\* What UpdateAccount is given.
Edited(r) ==
    CASE What(r) \in {"join", "claim"} -> Invited(read[r], Terms[Code(r)])
      [] What(r) = "allow"             -> Comped(read[r])
      [] What(r) \in {"ban", "leave"}  -> Revoked(read[r])
      [] OTHER                         -> Form(r)

AfterUpdate(r) ==
    IF What(r) = "save" THEN "permanent"
    ELSE IF What(r) \in {"join", "leave"} THEN "announce" ELSE "done"

\* UpdateAccount: absolute values; no row, no update, and the handler fails.
Update(r) ==
    LET e == Edited(r) IN
    /\ at[r] = "update"
    /\ IF accounts[Who(r)].exists
       THEN /\ accounts' = [accounts EXCEPT ![Who(r)].status = e.status,
                               ![Who(r)].expires = e.expires, ![Who(r)].quota = e.quota]
            /\ Go(r, AfterUpdate(r))
       ELSE Go(r, "done") /\ UNCHANGED accounts
    /\ Disturbing(r)
    /\ UNCHANGED <<clock, invites, uses, read>>

\* SetAccountPermanent, the form's second write.
SetPermanent(r) ==
    /\ at[r] = "permanent"
    /\ accounts' = IF accounts[Who(r)].exists
                   THEN [accounts EXCEPT ![Who(r)].permanent = Form(r).permanent]
                   ELSE accounts
    /\ Go(r, "done")
    /\ Disturbing(r)
    /\ UNCHANGED <<clock, invites, uses, read>>

DeleteAccount(r) ==
    /\ at[r] = "once" /\ What(r) = "delete"
    /\ accounts' = [accounts EXCEPT ![Who(r)] = NoAccount]
    /\ Go(r, "done")
    /\ Disturbing(r)
    /\ UNCHANGED <<clock, invites, uses, read>>

\* A mutation of Paid: a payment lets a banned account back in.
PaidLifts(a, bought) ==
    [a EXCEPT !.quota = @ + bought.quota, !.status = "active",
              !.permanent = @ \/ bought.permanent,
              !.expires = IF bought.permanent THEN 0
                          ELSE IF bought.expires > 0 /\ ~a.permanent
                               THEN Extended(@, bought.expires) ELSE @]

\* billing's grant: an account that is not permanent is renewed, storage is added,
\* and what is bought outright never expires. It leaves the status alone.
Paid(a, bought) ==
    [a EXCEPT !.quota = @ + bought.quota,
              !.permanent = @ \/ bought.permanent,
              !.expires = IF bought.permanent THEN 0
                          ELSE IF bought.expires > 0 /\ ~a.permanent
                               THEN Extended(@, bought.expires) ELSE @]

Pay(r) ==
    /\ at[r] = "once" /\ What(r) = "pay"
    /\ accounts' = [accounts EXCEPT ![Who(r)] = Paid(Ensured(@), Form(r))]
    /\ Go(r, "done")
    /\ Disturbing(r)
    /\ UNCHANGED <<clock, invites, uses, read>>

----------------------------------------------------------------------------
\* announceMember ends a join or a leave; see Membership for what it announces.
Answer(r) ==
    /\ at[r] = "announce"
    /\ Go(r, "done")
    /\ UNCHANGED <<clock, accounts, invites, uses, read, disturbed>>

Tick ==
    /\ clock < Horizon
    /\ clock' = clock + 1
    /\ UNCHANGED <<accounts, invites, uses, at, read, disturbed>>

\* The handlers at work are gone, a spent use and half an edit with them.
Restart ==
    /\ Crashes
    /\ InHand # {}
    /\ at' = [r \in Requests |-> IF r \in InHand THEN "done" ELSE at[r]]
    /\ disturbed' = disturbed \cup
          {Who(r) : r \in {q \in InHand : at[q] \in {"ensure", "update", "permanent"}}}
    /\ UNCHANGED <<clock, accounts, invites, uses, read>>

Init ==
    /\ clock = 1
    /\ accounts = [p \in Pubkeys |-> NoAccount]
    /\ invites = [c \in Codes |-> [state |-> IF c \in Issued THEN "live" ELSE "unborn",
                                   used |-> 0, expires |-> 0]]
    /\ uses = {}
    /\ at = [r \in Requests |-> First(r)]
    /\ read = [r \in Requests |-> NoAccount]
    /\ disturbed = {}

Edit(r) ==
    \/ Look(r) \/ LeaveLook(r) \/ Claim(r) \/ Ensure(r) \/ Update(r) \/ SetPermanent(r)
    \/ DeleteAccount(r) \/ Pay(r) \/ CreateInvite(r) \/ DeleteInvite(r)

Next == Tick \/ Restart \/ \E r \in Requests : Edit(r) \/ Answer(r)

Spec == Init /\ [][Next]_vars

----------------------------------------------------------------------------
(* Properties.                                                              *)

\* Every account, code and handler is what the code can make of it.
TypeOK ==
    /\ clock \in Time
    /\ accounts \in [Pubkeys -> Account]
    /\ invites \in [Codes -> Invite]
    /\ uses \subseteq Codes \X Pubkeys
    /\ at \in [Requests -> {"look", "claim", "ensure", "update", "permanent", "announce",
                            "once", "done"}]
    /\ read \in [Requests -> Account]
    /\ disturbed \subseteq Pubkeys

\* "expiry, remaining uses and duplicates are all handled inside one transaction, so it
\* never over-issues. The same person cannot burn two uses with the same code either"
\* (README.md:139): a code counts each person who used it once, and has a seat for each.
NeverOverIssued ==
    \A c \in Codes :
        LET users == {p \in Pubkeys : <<c, p>> \in uses} IN
        /\ invites[c].used = Cardinality(users)
        /\ Terms[c].seats > 0 => Cardinality(users) <= Terms[c].seats

\* A use that was spent and not yet granted.
Pending(c, p) ==
    \E r \in Requests : /\ What(r) \in {"join", "claim"} /\ Who(r) = p /\ Code(r) = c
                        /\ at[r] \in {"ensure", "update"}

\* Written by the form, or deleted: what was granted before does not count any more.
ByHand(p) == \E r \in Requests : /\ Who(r) = p /\ What(r) \in {"save", "delete"}
                                 /\ at[r] \in {"permanent", "done"}

\* The codes whose grant p has, and the payments and comps p has; and what each brings.
GrantedTo(p)  == {c \in Codes : <<c, p>> \in uses /\ ~Pending(c, p)}
CreditedTo(p) == {r \in Requests : /\ Who(r) = p /\ What(r) \in {"pay", "allow"}
                                   /\ at[r] = "done"}
GrantMB  == [c \in Codes |-> Terms[c].mb]
CreditMB == [r \in Requests |-> IF What(r) = "pay" THEN Form(r).quota ELSE AllowMB]

\* Every use that was spent is granted, once, and nothing else is: outside the edits
\* that undo one another, and the stops in between (store/invites.go:86-90, "The
\* returned invite says what the code grants; the caller applies it"), the quota of an
\* account is what its codes, its payments and the admin's comps add up to.
QuotaIsLedger ==
    \A p \in Pubkeys \ disturbed : ~ByHand(p) =>
        accounts[p].quota = SumFunctionOnSet(GrantMB, GrantedTo(p))
                          + SumFunctionOnSet(CreditMB, CreditedTo(p))

\* The admin's form or the deletion of p took this step.
HandWrites(p) ==
    \E r \in Requests : /\ Who(r) = p /\ What(r) \in {"save", "delete"}
                        /\ at[r] \in {"update", "permanent", "once"} /\ at'[r] # at[r]

\* What p has, b keeps: storage, the lifetime plan, and a term that has an end. (A term
\* without one, expires_at = 0, does not count: an invite, a comp or a payment gives the
\* account a term, store.go:53 and nip43.go:243.)
Keeps(a, b) ==
    /\ b.exists /\ b.quota >= a.quota
    /\ a.permanent => b.permanent
    /\ a.expires # 0 /\ ~b.permanent => b.expires >= a.expires

\* UpdateAccount writes absolute values (store.go:600), and yet "the paths which only
\* renew or ban a pubkey (invites, NIP-86) leave the plan alone" (store.go:586-588): in
\* whatever order joins, claims, comps, bans, leaves and payments run, only the admin's
\* form takes storage, time or a plan from an account nobody disturbed.
NothingIsTaken ==
    [][\A p \in Pubkeys \ disturbed' :
          accounts[p].exists => HandWrites(p) \/ Keeps(accounts[p], accounts'[p])]_vars

\* p, banned or gone, is let back in by this step.
LetBackIn(p) ==
    /\ accounts[p].exists /\ accounts[p].status = "banned"
    /\ accounts'[p].exists /\ accounts'[p].status = "active"

\* "An invite deliberately skips the admission fee" (nip43.go:235), and a code works once
\* for one person (README.md:139): whoever was banned, or left, is let back in by the
\* admin, who edits the form or allows the pubkey, or for a code whose grant they did not
\* have before; never by a payment, nor a second time for one code, whatever else is under
\* way, restarts and lost edits included.
ReadmissionIsSpent ==
    [][\A p \in Pubkeys : LetBackIn(p) =>
          \/ HandWrites(p)
          \/ \E r \in Requests : What(r) = "allow" /\ Who(r) = p /\ at'[r] # at[r]
          \/ ~(GrantedTo(p)' \subseteq GrantedTo(p))]_vars

\* Not so that a ban holds against whoever began before it: a join that has read the account
\* when the ban is written, between EnsureAccount and UpdateAccount (nip43.go:239, 252),
\* writes what it read, and the ban is gone.
BansAreSeen ==
    [][\A p \in Pubkeys : LetBackIn(p) =>
          \/ HandWrites(p)
          \/ \E r \in Requests : Holds(r, p) /\ at'[r] # at[r] /\ read[r].status = "banned"]_vars
==============================================================================
