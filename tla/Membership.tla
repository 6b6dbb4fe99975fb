------------------------------ MODULE Membership ------------------------------
(***************************************************************************)
(* The member list of NIP-43: what the relay has published, and when it    *)
(* publishes again. WatchMembership and PublishMembership of internal/     *)
(* relay/nip43.go, over the accounts of Accounts: a join or a leave ends   *)
(* by signalling the watcher, and the other edits do not.  A stranger who  *)
(* joins is a member before that, from the moment the account is there.    *)
(*                                                                         *)
(* RELAY_SECRET_KEY is set. Left out: the admin role, and the limit of the *)
(* list (ListAccounts returns 100 accounts for the 1000 asked for): there  *)
(* are fewer accounts than that.                                           *)
(***************************************************************************)
EXTENDS Accounts

VARIABLES
  listed,     \* the members of the newest published list, kind 13534
  dirty,      \* membershipDirty, a channel that holds one signal
  watcher,    \* WatchMembership: where it stands, and the members it has read
  unsignalled \* history: members who came or went without a signal, since the last read

listVars == <<listed, dirty, watcher, unsignalled>>
allVars  == <<vars, listVars>>

Waiting == [at |-> "wait", members |-> {}]

\* Who is on a list made of these accounts, at that time.
MembersOf(table, now) ==
    {p \in Pubkeys : /\ table[p].exists /\ table[p].status = "active"
                     /\ table[p].expires = 0 \/ table[p].expires >= now}
Members == MembersOf(accounts, clock)

\* History: whoever this step let in or out with no signal to follow.
Unsignalled(silent) ==
    unsignalled' = IF silent
                   THEN unsignalled \cup {p \in Pubkeys : (p \in Members) # (p \in Members')}
                   ELSE unsignalled

----------------------------------------------------------------------------
\* The edits of Accounts. What a join or a leave does to the account is announced when
\* it is done: a join's EnsureAccount, which lets a stranger in, as much as its update.
Signals(r) ==
    \/ What(r) = "join" /\ at[r] \in {"ensure", "update"}
    \/ What(r) = "leave" /\ at[r] = "update"

EditAccount(r) ==
    /\ Edit(r)
    /\ Unsignalled(~Signals(r))
    /\ UNCHANGED <<listed, dirty, watcher>>

\* A mutation of Announce: the notice goes out, and the list is not asked for.
AnnounceOnly(r) == Answer(r) /\ UNCHANGED listVars

\* announceMember: a notice to subscribers, and membershipChanged: a signal already
\* waiting will do for both.
Announce(r) ==
    /\ Answer(r)
    /\ dirty' = TRUE
    /\ UNCHANGED <<listed, watcher, unsignalled>>

\* A term that ends, ends without a word.
Pass ==
    /\ Tick
    /\ Unsignalled(TRUE)
    /\ UNCHANGED <<listed, dirty, watcher>>

\* WatchMembership takes the signal first, and waits for the debounce to pass.
TakeSignal ==
    /\ watcher.at = "wait" /\ dirty
    /\ dirty' = FALSE
    /\ watcher' = [watcher EXCEPT !.at = "debounce"]
    /\ UNCHANGED <<vars, listed, unsignalled>>

\* PublishMembership reads the accounts...
ReadMembers ==
    /\ watcher.at = "debounce"
    /\ watcher' = [at |-> "save", members |-> Members]
    /\ unsignalled' = {}
    /\ UNCHANGED <<vars, listed, dirty>>

\* A mutation of SaveList: whatever was signalled meanwhile is thought to be listed.
SaveListDrains ==
    /\ watcher.at = "save"
    /\ listed' = watcher.members
    /\ watcher' = Waiting
    /\ dirty' = FALSE
    /\ UNCHANGED <<vars, unsignalled>>

\* ... and saves and broadcasts the list.
SaveList ==
    /\ watcher.at = "save"
    /\ listed' = watcher.members
    /\ watcher' = Waiting
    /\ UNCHANGED <<vars, dirty, unsignalled>>

\* main publishes the list before it serves anybody. (The poll loop may grant meanwhile,
\* with no signal: as if right after.)
RestartList ==
    /\ Restart
    /\ listed' = Members
    /\ dirty' = FALSE
    /\ watcher' = Waiting
    /\ unsignalled' = {}

ListInit ==
    /\ Init
    /\ listed = {} /\ dirty = FALSE /\ watcher = Waiting /\ unsignalled = {}

Watch == TakeSignal \/ ReadMembers \/ SaveList

ListNext ==
    \/ Pass \/ RestartList \/ Watch
    \/ \E r \in Requests : EditAccount(r) \/ Announce(r)

ListSpec == ListInit /\ [][ListNext]_allVars

\* The watcher is a goroutine that always runs, and nothing cancels the statements of a
\* handler that has begun: as long as there is one, some handler goes on. Each has a few
\* statements, so all of them end.
Proceed == \E r \in InHand : EditAccount(r) \/ Announce(r)

Fairness == WF_allVars(Watch) /\ WF_allVars(Proceed)

FairListSpec == ListSpec /\ Fairness

----------------------------------------------------------------------------
(* Properties.                                                              *)

\* Every variable, those of Accounts too, is what the code can make of it.
ListTypeOK ==
    /\ TypeOK
    /\ listed \subseteq Pubkeys /\ unsignalled \subseteq Pubkeys
    /\ dirty \in BOOLEAN
    /\ watcher \in [at: {"wait", "debounce", "save"}, members: SUBSET Pubkeys]

\* The list is wrong about p.
Stale(p) == (p \in listed) # (p \in Members)

\* It will be read again after this moment, or was and is about to be saved.
Asked == dirty \/ watcher.at \in {"debounce", "save"}

\* A handler is about to ask: it announces p, or has let p in and has yet to fill in
\* the account.
WillAsk(p) ==
    \E r \in Requests : /\ Who(r) = p
                        /\ \/ at[r] = "announce"
                           \/ What(r) = "join" /\ at[r] = "update" /\ p \in Members

\* "membershipChanged asks for the list to be republished soon" and coalesces signals
\* (nip43.go:141-149), WatchMembership takes them before it waits and reads: a member who
\* joined or left by NIP-43, the stranger whose account the join has only just made
\* included, is never missing from, or left on, the list with nobody about to publish it
\* again. (Not so who came or went some other way since the last read: `unsignalled`.)
StaleIsPending ==
    \A p \in Pubkeys \ unsignalled : Stale(p) => Asked \/ WillAsk(p)

\* What is about to be saved was read when it was right, or will be replaced.
ReadIsPending ==
    watcher.at = "save" =>
        \A p \in Pubkeys \ unsignalled : (p \in watcher.members) # (p \in Members) =>
            dirty \/ WillAsk(p)

\* A join, a stranger's too, or a leave reaches the list: "republishes the member list at
\* most once per debounce window" (nip43.go:151), and at least once after it.
SignalledIsListed ==
    \A p \in Pubkeys :
        Stale(p) /\ p \notin unsignalled ~> ~Stale(p) \/ p \in unsignalled

\* The same of every way in, as api/invites.go:13-15 says of the panel's: whoever pastes a
\* code there "ends up in exactly the same place".
MembersAreListed == \A p \in Pubkeys : Stale(p) ~> ~Stale(p)
==============================================================================
