---------------------------- MODULE AccountsProofs ----------------------------
(***************************************************************************)
(* Proofs about Accounts: for any people, codes and requests, however many *)
(* handlers are at work, codes are never over-issued, and only the admin's *)
(* form takes what an account has.  The heart is HeldIsCurrent: what a     *)
(* handler has read and will write back is the account as it is, unless    *)
(* the account is disturbed.                                               *)
(*                                                                         *)
(* The second half is about Membership: the watcher and its list take no   *)
(* part in the accounts, so what is proved of Accounts holds there too;    *)
(* and the list is never stale for a member who came or went by NIP-43     *)
(* with nobody about to publish it again.                                  *)
(***************************************************************************)
EXTENDS Membership, Sums, TLAPS

Places == {"look", "claim", "ensure", "update", "permanent", "announce", "once", "done"}

\* Only some requests come to some places.
Placed ==
    \A r \in Requests :
        /\ at[r] = "claim" => What(r) \in {"join", "claim"}
        /\ at[r] = "ensure" => What(r) \in {"join", "claim", "allow", "ban", "save"}
        /\ at[r] = "update" => What(r) \in {"join", "claim", "leave", "allow", "ban", "save"}
        /\ at[r] = "permanent" => What(r) = "save"

Sound == TypeOK /\ Placed

----------------------------------------------------------------------------
\* What a request carries.
LEMMA Carried ==
    ASSUME NEW r \in Requests
    PROVE  /\ What(r) \in Kinds /\ Who(r) \in Pubkeys /\ Form(r) \in Account
           /\ What(r) \in {"join", "claim", "create", "mint", "drop"} =>
                 Code(r) \in Codes /\ Terms[Code(r)] \in Term
BY AccountsAssumption DEF What, Who, Form, Code, Request

\* Where it starts.
LEMMA FirstPlace ==
    ASSUME NEW r \in Requests
    PROVE  /\ First(r) \in {"look", "claim", "ensure", "once"}
           /\ First(r) = "claim" => What(r) = "claim"
           /\ First(r) = "ensure" => What(r) \in {"allow", "ban", "save"}
BY DEF First

\* An account that is made sure of is an account.
LEMMA EnsuredType ==
    ASSUME NEW a \in Account
    PROVE  Ensured(a) \in Account /\ Ensured(a).exists
BY DEF Ensured, FreshAccount, NoAccount, Account

\* A term is extended, never shortened.
LEMMA ExtendedGrows ==
    ASSUME NEW e \in Nat, NEW d \in Nat, clock \in Nat
    PROVE  Extended(e, d) \in Nat /\ Extended(e, d) >= e
BY DEF Extended, Larger

\* What a payment makes of an account.
LEMMA PaidKeeps ==
    ASSUME NEW a \in Account, NEW bought \in Account, clock \in Nat
    PROVE  /\ Paid(a, bought) \in Account
           /\ Paid(a, bought).exists = a.exists
           /\ Paid(a, bought).status = a.status
           /\ Paid(a, bought).quota >= a.quota
           /\ a.permanent => Paid(a, bought).permanent
           /\ ~Paid(a, bought).permanent => Paid(a, bought).expires >= a.expires
<1> DEFINE x == IF bought.expires > 0 /\ ~a.permanent
                THEN Extended(a.expires, bought.expires) ELSE a.expires
           e == IF bought.permanent THEN 0 ELSE x
           m == a.permanent \/ bought.permanent
           q == a.quota + bought.quota
<1>1. a.expires \in Nat /\ bought.expires \in Nat /\ a.quota \in Nat /\ bought.quota \in Nat
      /\ a.permanent \in BOOLEAN /\ bought.permanent \in BOOLEAN
  BY DEF Account
<1>2. x \in Nat /\ x >= a.expires
  <2>1. /\ Extended(a.expires, bought.expires) \in Nat
        /\ Extended(a.expires, bought.expires) >= a.expires
    BY <1>1, ExtendedGrows
  <2>2. QED
    BY <1>1, <2>1
<1>3. e \in Nat /\ (~bought.permanent => e >= a.expires)
  BY <1>2
<1>4. m \in BOOLEAN /\ (a.permanent => m) /\ (~m => ~bought.permanent)
  BY <1>1
<1>5. q \in Nat /\ q >= a.quota
  BY <1>1
<1>6. Paid(a, bought) = [a EXCEPT !.quota = q, !.permanent = m, !.expires = e]
  BY DEF Paid
<1> HIDE DEF x, e, m, q
<1>7. QED
  BY <1>3, <1>4, <1>5, <1>6 DEF Account

----------------------------------------------------------------------------
(* Types and places.                                                        *)

LEMMA InitSound == Init => Sound
<1> SUFFICES ASSUME Init PROVE Sound
  OBVIOUS
<1>1. clock \in Time
  BY AccountsAssumption DEF Init, Time
<1>2. accounts \in [Pubkeys -> Account] /\ read \in [Requests -> Account]
  BY DEF Init, NoAccount, Account
<1>3. invites \in [Codes -> Invite]
  BY DEF Init, Invite
<1>4. at \in [Requests -> Places] /\ Placed
  BY FirstPlace DEF Init, Placed, Places
<1>5. QED
  BY <1>1, <1>2, <1>3, <1>4 DEF Init, Sound, TypeOK, Places

\* A request goes on to a place its kind comes to.
Fits(r, place) ==
    /\ place \in Places
    /\ place = "claim" => What(r) \in {"join", "claim"}
    /\ place = "ensure" => What(r) \in {"join", "claim", "allow", "ban", "save"}
    /\ place = "update" => What(r) \in {"join", "claim", "leave", "allow", "ban", "save"}
    /\ place = "permanent" => What(r) = "save"

LEMMA GoFits ==
    ASSUME Sound, NEW r \in Requests, NEW place, Fits(r, place), Go(r, place)
    PROVE  at' \in [Requests -> Places] /\ Placed'
BY DEF Sound, TypeOK, Placed, Fits, Go, Places, What

\* One account is written over with another.
LEMMA Written ==
    ASSUME TypeOK, NEW p \in Pubkeys, NEW a \in Account,
           accounts' = [accounts EXCEPT ![p] = a]
    PROVE  accounts' \in [Pubkeys -> Account]
BY DEF TypeOK

\* Disturbing adds people.
LEMMA DisturbedType ==
    ASSUME TypeOK, NEW r \in Requests, Disturbing(r)
    PROVE  disturbed' \subseteq Pubkeys /\ disturbed \subseteq disturbed'
BY Carried DEF TypeOK, Disturbing

\* What an edit writes over what was read.
LEMMA EditedType ==
    ASSUME Sound, NEW r \in Requests, at[r] = "update"
    PROVE  /\ Edited(r).status \in {"active", "banned"}
           /\ Edited(r).expires \in Nat /\ Edited(r).quota \in Nat
           /\ What(r) # "save" =>
                 Edited(r).quota >= read[r].quota /\ Edited(r).expires >= read[r].expires
<1>1. What(r) \in {"join", "claim", "leave", "allow", "ban", "save"}
  BY DEF Sound, Placed
<1>2. clock \in Nat
  BY AccountsAssumption DEF Sound, TypeOK, Time
<1>3. read[r].expires \in Nat /\ read[r].quota \in Nat
  BY DEF Sound, TypeOK, Account
<1>4. CASE What(r) \in {"join", "claim"}
  <2>1. Terms[Code(r)].days \in Nat /\ Terms[Code(r)].mb \in Nat
    BY <1>4, Carried DEF Term
  <2>2. /\ Extended(read[r].expires, Terms[Code(r)].days) \in Nat
        /\ Extended(read[r].expires, Terms[Code(r)].days) >= read[r].expires
    BY <1>2, <1>3, <2>1, ExtendedGrows
  <2>3. Edited(r) = Invited(read[r], Terms[Code(r)])
    BY <1>4 DEF Edited
  <2>4. QED
    BY <1>3, <2>1, <2>2, <2>3 DEF Invited
<1>5. CASE What(r) = "allow"
  <2>1. AllowDays \in Nat /\ AllowMB \in Nat
    BY AccountsAssumption
  <2>2. /\ Extended(read[r].expires, AllowDays) \in Nat
        /\ Extended(read[r].expires, AllowDays) >= read[r].expires
    BY <1>2, <1>3, <2>1, ExtendedGrows
  <2>3. Edited(r) = Comped(read[r])
    BY <1>5 DEF Edited
  <2>4. QED
    BY <1>3, <2>1, <2>2, <2>3 DEF Comped
<1>6. CASE What(r) \in {"ban", "leave"}
  <2>1. Edited(r) = Revoked(read[r])
    BY <1>6 DEF Edited
  <2>2. QED
    BY <1>3, <2>1 DEF Revoked
<1>7. CASE What(r) = "save"
  BY <1>7, Carried DEF Edited, Account
<1>8. QED
  BY <1>1, <1>4, <1>5, <1>6, <1>7

\* Codes keep their types when one is made, spent or deleted.
LEMMA CodesSound ==
    ASSUME Sound, NEW r \in Requests, Claim(r) \/ CreateInvite(r) \/ DeleteInvite(r)
    PROVE  Sound'
<1>1. CASE Claim(r)
  <2>1. What(r) \in {"join", "claim"} /\ Code(r) \in Codes /\ Who(r) \in Pubkeys
    BY <1>1, Carried DEF Claim, Sound, Placed
  <2>2. invites' \in [Codes -> Invite] /\ uses' \subseteq Codes \X Pubkeys
    <3>1. invites[Code(r)] \in Invite /\ Spent(invites[Code(r)]) \in Invite
      BY <2>1 DEF Sound, TypeOK, Invite, Spent
    <3>2. QED
      BY <1>1, <2>1, <3>1 DEF Claim, Sound, TypeOK
  <2>3. at' \in [Requests -> Places] /\ Placed'
    <3>1. Fits(r, "ensure") /\ Fits(r, "done")
      BY <2>1 DEF Fits, Places
    <3>2. QED
      BY <1>1, <3>1, GoFits DEF Claim
  <2>4. QED
    BY <1>1, <2>2, <2>3 DEF Claim, Sound, TypeOK, Places
<1>2. CASE CreateInvite(r) \/ DeleteInvite(r)
  <2>1. Code(r) \in Codes /\ Terms[Code(r)] \in Term /\ clock \in Nat
    BY <1>2, Carried, AccountsAssumption
    DEF CreateInvite, DeleteInvite, Sound, TypeOK, Time
  <2>2. invites' \in [Codes -> Invite]
    <3>1. MintedByAdmin(Code(r)) \in Invite /\ MintedOnRequest(Code(r)) \in Invite
      BY <2>1 DEF MintedByAdmin, MintedOnRequest, Minted, Invite, Term
    <3>2. CASE CreateInvite(r)
      BY <2>1, <3>1, <3>2 DEF CreateInvite, Sound, TypeOK
    <3>3. CASE DeleteInvite(r)
      BY <2>1, <3>3 DEF DeleteInvite, Sound, TypeOK, Invite
    <3>4. QED
      BY <1>2, <3>2, <3>3
  <2>3. at' \in [Requests -> Places] /\ Placed'
    <3>1. Fits(r, "done")
      BY DEF Fits, Places
    <3>2. QED
      BY <1>2, <3>1, GoFits DEF CreateInvite, DeleteInvite
  <2>4. QED
    BY <1>2, <2>2, <2>3 DEF CreateInvite, DeleteInvite, Sound, TypeOK, Places
<1>3. QED
  BY <1>1, <1>2

\* So do accounts and readings when a handler looks or reads.
LEMMA ReadersSound ==
    ASSUME Sound, NEW r \in Requests, Look(r) \/ LeaveLook(r) \/ Ensure(r) \/ Answer(r)
    PROVE  Sound'
<1>1. Who(r) \in Pubkeys /\ accounts[Who(r)] \in Account
  BY Carried DEF Sound, TypeOK
<1>2. CASE Look(r)
  <2>1. Fits(r, "claim") /\ Fits(r, "done")
    BY <1>2 DEF Fits, Places, Look
  <2>2. at' \in [Requests -> Places] /\ Placed'
    BY <1>2, <2>1, GoFits DEF Look
  <2>3. QED
    BY <1>2, <2>2 DEF Look, Sound, TypeOK, Places
<1>3. CASE LeaveLook(r)
  <2>1. Fits(r, "update") /\ Fits(r, "done")
    BY <1>3 DEF Fits, Places, LeaveLook
  <2>2. at' \in [Requests -> Places] /\ Placed'
    BY <1>3, <2>1, GoFits DEF LeaveLook
  <2>3. read' \in [Requests -> Account]
    BY <1>1, <1>3 DEF LeaveLook, Sound, TypeOK
  <2>4. QED
    BY <1>3, <2>2, <2>3 DEF LeaveLook, Sound, TypeOK, Places
<1>4. CASE Ensure(r)
  <2>1. Fits(r, "update")
    BY <1>4 DEF Fits, Places, Ensure, Sound, Placed
  <2>2. at' \in [Requests -> Places] /\ Placed'
    BY <1>4, <2>1, GoFits DEF Ensure
  <2>3. Ensured(accounts[Who(r)]) \in Account
    BY <1>1, EnsuredType
  <2>4. accounts' \in [Pubkeys -> Account] /\ read' \in [Requests -> Account]
    BY <1>1, <1>4, <2>3 DEF Ensure, Sound, TypeOK
  <2>5. QED
    BY <1>4, <2>2, <2>4 DEF Ensure, Sound, TypeOK, Places
<1>5. CASE Answer(r)
  <2>1. Fits(r, "done")
    BY DEF Fits, Places
  <2>2. at' \in [Requests -> Places] /\ Placed'
    BY <1>5, <2>1, GoFits DEF Answer
  <2>3. QED
    BY <1>5, <2>2 DEF Answer, Sound, TypeOK, Places
<1>6. QED
  BY <1>2, <1>3, <1>4, <1>5

\* And when it writes.
LEMMA WritersSound ==
    ASSUME Sound, NEW r \in Requests,
           Update(r) \/ SetPermanent(r) \/ DeleteAccount(r) \/ Pay(r)
    PROVE  Sound'
<1>1. Who(r) \in Pubkeys /\ accounts[Who(r)] \in Account /\ Form(r) \in Account
  BY Carried DEF Sound, TypeOK
<1>2. disturbed' \subseteq Pubkeys
  BY DisturbedType DEF Sound, Update, SetPermanent, DeleteAccount, Pay
<1>3. Fits(r, "done")
  BY DEF Fits, Places
<1>4. CASE Update(r)
  <2>1. Fits(r, AfterUpdate(r))
    BY DEF Fits, Places, AfterUpdate
  <2>2. at' \in [Requests -> Places] /\ Placed'
    BY <1>3, <1>4, <2>1, GoFits DEF Update
  <2>3. accounts' \in [Pubkeys -> Account]
    <3>1. /\ Edited(r).status \in {"active", "banned"}
          /\ Edited(r).expires \in Nat /\ Edited(r).quota \in Nat
      BY <1>4, EditedType DEF Update
    <3>2. QED
      BY <1>1, <1>4, <3>1 DEF Update, Sound, TypeOK, Account
  <2>4. QED
    BY <1>2, <1>4, <2>2, <2>3 DEF Update, Sound, TypeOK, Places
<1>5. CASE SetPermanent(r)
  <2>1. at' \in [Requests -> Places] /\ Placed'
    BY <1>3, <1>5, GoFits DEF SetPermanent
  <2>2. accounts' \in [Pubkeys -> Account]
    BY <1>1, <1>5 DEF SetPermanent, Sound, TypeOK, Account
  <2>3. QED
    BY <1>2, <1>5, <2>1, <2>2 DEF SetPermanent, Sound, TypeOK, Places
<1>6. CASE DeleteAccount(r)
  <2>1. at' \in [Requests -> Places] /\ Placed'
    BY <1>3, <1>6, GoFits DEF DeleteAccount
  <2>2. accounts' \in [Pubkeys -> Account]
    BY <1>1, <1>6 DEF DeleteAccount, Sound, TypeOK, Account, NoAccount
  <2>3. QED
    BY <1>2, <1>6, <2>1, <2>2 DEF DeleteAccount, Sound, TypeOK, Places
<1>7. CASE Pay(r)
  <2>1. at' \in [Requests -> Places] /\ Placed'
    BY <1>3, <1>7, GoFits DEF Pay
  <2>2. clock \in Nat
    BY AccountsAssumption DEF Sound, TypeOK, Time
  <2>3. Paid(Ensured(accounts[Who(r)]), Form(r)) \in Account
    BY <1>1, <2>2, EnsuredType, PaidKeeps
  <2>4. accounts' \in [Pubkeys -> Account]
    BY <1>1, <1>7, <2>3 DEF Pay, Sound, TypeOK
  <2>5. QED
    BY <1>2, <1>7, <2>1, <2>4 DEF Pay, Sound, TypeOK, Places
<1>8. QED
  BY <1>4, <1>5, <1>6, <1>7

\* Every step of every request, the clock and the process.
LEMMA StepSound == Sound /\ [Next]_vars => Sound'
<1> SUFFICES ASSUME Sound, [Next]_vars PROVE Sound'
  OBVIOUS
<1>1. CASE Tick
  BY <1>1, AccountsAssumption DEF Sound, TypeOK, Placed, Tick, Time, What
<1>2. CASE Restart
  <2>1. at' \in [Requests -> Places] /\ Placed'
    BY <1>2 DEF Restart, Sound, TypeOK, Placed, Places
  <2>2. disturbed' \subseteq Pubkeys
    BY <1>2, Carried DEF Restart, Sound, TypeOK, InHand
  <2>3. QED
    BY <1>2, <2>1, <2>2 DEF Restart, Sound, TypeOK, Places
<1>3. CASE UNCHANGED vars
  BY <1>3 DEF Sound, TypeOK, Placed, vars
<1>4. QED
  BY <1>1, <1>2, <1>3, CodesSound, ReadersSound, WritersSound DEF Next, Edit

\* Whoever asks for whatever, in any number at once: every account, code and handler is
\* what the code can make of it.
THEOREM AccountsTypes == Spec => []TypeOK
<1>1. Sound => TypeOK
  BY DEF Sound
<1>2. QED
  BY <1>1, InitSound, StepSound, PTL DEF Spec

LEMMA AlwaysSound == Spec => []Sound
BY InitSound, StepSound, PTL DEF Spec

----------------------------------------------------------------------------
(* Codes are not over-issued.                                               *)

Users(c) == {p \in Pubkeys : <<c, p>> \in uses}

\* A code nobody has made has no use.
Seats ==
    \A c \in Codes :
        /\ invites[c].used = Cardinality(Users(c))
        /\ Terms[c].seats > 0 => Cardinality(Users(c)) <= Terms[c].seats
        /\ invites[c].state = "unborn" => invites[c].used = 0

\* The users of a code are finitely many.
LEMMA UsersFinite ==
    ASSUME NEW c
    PROVE  IsFiniteSet(Users(c)) /\ Cardinality(Users(c)) \in Nat
<1>1. Users(c) \subseteq Pubkeys /\ IsFiniteSet(Pubkeys)
  BY AccountsAssumption DEF Users
<1>2. IsFiniteSet(Users(c))
  BY <1>1, FS_Subset
<1>3. QED
  BY <1>2, FS_CardinalityType

LEMMA InitSeats == Init => Seats
<1> SUFFICES ASSUME Init, NEW c \in Codes
             PROVE  /\ invites[c].used = Cardinality(Users(c))
                    /\ Terms[c].seats > 0 => Cardinality(Users(c)) <= Terms[c].seats
                    /\ invites[c].state = "unborn" => invites[c].used = 0
  BY DEF Seats
<1>1. Users(c) = {}
  BY DEF Init, Users
<1>2. Cardinality(Users(c)) = 0
  BY <1>1, FS_EmptySet
<1>3. Terms[c].seats \in Nat
  BY AccountsAssumption DEF Term
<1>4. QED
  BY <1>2, <1>3 DEF Init

\* A claim takes a seat that was free, for somebody who had none.
LEMMA ClaimSeats ==
    ASSUME Sound, Seats, NEW r \in Requests, Claim(r)
    PROVE  Seats'
<1> DEFINE d == Code(r)
           p == Who(r)
<1>1. d \in Codes /\ p \in Pubkeys
  BY Carried DEF Claim, Sound, Placed
<1>2. CASE ~Claimable(d, p)
  BY <1>2 DEF Claim, Seats, Users
<1>3. CASE Claimable(d, p)
  <2>1. /\ uses' = uses \cup {<<d, p>>}
        /\ invites' = [invites EXCEPT ![d] = Spent(@)]
    BY <1>3 DEF Claim
  <2>2. /\ <<d, p>> \notin uses /\ invites[d].state = "live"
        /\ Terms[d].seats = 0 \/ invites[d].used < Terms[d].seats
    BY <1>3 DEF Claimable
  <2> SUFFICES ASSUME NEW c \in Codes
               PROVE  /\ invites'[c].used = Cardinality(Users(c)')
                      /\ Terms[c].seats > 0 => Cardinality(Users(c)') <= Terms[c].seats
                      /\ invites'[c].state = "unborn" => invites'[c].used = 0
    BY DEF Seats
  <2>3. CASE c # d
    <3>1. Users(c)' = Users(c)
      BY <2>1, <2>3 DEF Users
    <3>2. invites'[c] = invites[c]
      BY <2>1, <2>3 DEF Sound, TypeOK
    <3>3. QED
      BY <3>1, <3>2 DEF Seats
  <2>4. CASE c = d
    <3>1. Users(d)' = Users(d) \cup {p} /\ p \notin Users(d)
      BY <1>1, <2>1, <2>2 DEF Users
    <3>2. Cardinality(Users(d)') = Cardinality(Users(d)) + 1
      BY <3>1, UsersFinite, FS_AddElement
    <3>3. invites[d] \in Invite
      BY <1>1 DEF Sound, TypeOK
    <3>4. invites'[d].used = invites[d].used + 1 /\ invites'[d].state = "live"
      BY <1>1, <2>1, <2>2, <3>3 DEF Sound, TypeOK, Spent, Invite
    <3>5. Terms[d].seats \in Nat /\ invites[d].used \in Nat
      BY <1>1, <3>3, AccountsAssumption DEF Term, Invite
    <3>6. QED
      BY <2>2, <2>4, <3>2, <3>4, <3>5 DEF Seats
  <2>5. QED
    BY <2>3, <2>4
<1>4. QED
  BY <1>2, <1>3

\* A code is made or deleted, and those who used it stay.
LEMMA CodeSeats ==
    ASSUME Sound, Seats, NEW r \in Requests, CreateInvite(r) \/ DeleteInvite(r)
    PROVE  Seats'
<1> SUFFICES ASSUME NEW c \in Codes
             PROVE  /\ invites'[c].used = Cardinality(Users(c)')
                    /\ Terms[c].seats > 0 => Cardinality(Users(c)') <= Terms[c].seats
                    /\ invites'[c].state = "unborn" => invites'[c].used = 0
  BY DEF Seats
<1>1. Users(c)' = Users(c)
  BY DEF CreateInvite, DeleteInvite, Users
<1>2. invites'[c].used = invites[c].used
  <2>1. CASE CreateInvite(r)
    BY <2>1 DEF CreateInvite, MintedByAdmin, MintedOnRequest, Minted, Sound, TypeOK, Seats
  <2>2. CASE DeleteInvite(r)
    BY <2>2 DEF DeleteInvite, Sound, TypeOK, Invite
  <2>3. QED
    BY <2>1, <2>2
<1>3. invites'[c].state = "unborn" => invites[c].state = "unborn"
  <2>1. CASE CreateInvite(r)
    BY <2>1 DEF CreateInvite, MintedByAdmin, MintedOnRequest, Minted, Sound, TypeOK
  <2>2. CASE DeleteInvite(r)
    BY <2>2 DEF DeleteInvite, Sound, TypeOK, Invite
  <2>3. QED
    BY <2>1, <2>2
<1>4. QED
  BY <1>1, <1>2, <1>3 DEF Seats

LEMMA StepSeats == Sound /\ Seats /\ [Next]_vars => Seats'
<1> SUFFICES ASSUME Sound, Seats, [Next]_vars PROVE Seats'
  OBVIOUS
<1>1. CASE UNCHANGED <<uses, invites>>
  BY <1>1 DEF Seats, Users
<1>2. CASE \E r \in Requests : Claim(r) \/ CreateInvite(r) \/ DeleteInvite(r)
  BY <1>2, ClaimSeats, CodeSeats
<1>3. QED
  BY <1>1, <1>2 DEF Next, Edit, Tick, Restart, Answer, Look, LeaveLook, Ensure, Update,
                    SetPermanent, DeleteAccount, Pay, vars

\* Any number of people and of joins at once: a code counts each person who used it once,
\* and none beyond its seats.
THEOREM CodesAreNotOverIssued == Spec => []NeverOverIssued
<1>1. Seats => NeverOverIssued
  BY DEF Seats, NeverOverIssued, Users
<1>2. QED
  BY <1>1, AlwaysSound, InitSeats, StepSeats, PTL DEF Spec

----------------------------------------------------------------------------
(* What a handler holds is what the account is.                             *)

HeldIsCurrent ==
    \A r \in Requests : \A p \in Pubkeys \ disturbed :
        Holds(r, p) => accounts[p].exists /\ accounts[p] = read[r]

\* Nobody holds anything at first.
LEMMA InitHeld == Init => HeldIsCurrent
BY FirstPlace DEF Init, HeldIsCurrent, Holds

\* Whoever comes to hold an account has just read it; an account made sure of while
\* another holds it stays what it was.
LEMMA EnsureHeld ==
    ASSUME Sound, HeldIsCurrent, NEW r \in Requests, Ensure(r)
    PROVE  HeldIsCurrent'
<1> SUFFICES ASSUME NEW q \in Requests, NEW p \in Pubkeys, p \notin disturbed, Holds(q, p)'
             PROVE  accounts'[p].exists /\ accounts'[p] = read'[q]
  BY DEF HeldIsCurrent, Ensure
<1>1. Who(r) \in Pubkeys /\ accounts[Who(r)] \in Account
  BY Carried DEF Sound, TypeOK
<1>2. CASE q = r
  <2>1. p = Who(r)
    BY <1>2 DEF Holds, Who
  <2>2. accounts'[p] = Ensured(accounts[p]) /\ read'[q] = Ensured(accounts[p])
    BY <1>2, <2>1 DEF Ensure, Sound, TypeOK
  <2>3. QED
    BY <1>1, <2>1, <2>2, EnsuredType
<1>3. CASE q # r
  <2>1. Holds(q, p) /\ read'[q] = read[q]
    BY <1>3 DEF Holds, Ensure, Go, Sound, TypeOK, What, Who
  <2>2. accounts[p].exists /\ accounts[p] = read[q]
    BY <2>1 DEF HeldIsCurrent
  <2>3. accounts'[p] = accounts[p]
    BY <1>1, <2>2 DEF Ensure, Ensured, Sound, TypeOK
  <2>4. QED
    BY <2>1, <2>2, <2>3
<1>4. QED
  BY <1>2, <1>3

\* A leave has read the account as it is.
LEMMA LeaveHeld ==
    ASSUME Sound, HeldIsCurrent, NEW r \in Requests, LeaveLook(r)
    PROVE  HeldIsCurrent'
<1> SUFFICES ASSUME NEW q \in Requests, NEW p \in Pubkeys, p \notin disturbed, Holds(q, p)'
             PROVE  accounts[p].exists /\ accounts[p] = read'[q]
  BY DEF HeldIsCurrent, LeaveLook
<1>1. CASE q = r
  <2>1. p = Who(r)
    BY <1>1 DEF Holds, Who
  <2>2. accounts[p].exists /\ read'[q] = accounts[p]
    BY <1>1, <2>1 DEF LeaveLook, Holds, Go, Sound, TypeOK
  <2>3. QED
    BY <2>2
<1>2. CASE q # r
  <2>1. Holds(q, p) /\ read'[q] = read[q]
    BY <1>2 DEF Holds, LeaveLook, Go, Sound, TypeOK, What, Who
  <2>2. QED
    BY <2>1 DEF HeldIsCurrent
<1>3. QED
  BY <1>1, <1>2

\* A writer writes one account, and disturbs it if anybody else holds it; it holds nothing
\* afterwards.
Writes(r) ==
    /\ \A p \in Pubkeys \ {Who(r)} : accounts'[p] = accounts[p]
    /\ Disturbing(r)
    /\ read' = read
    /\ \A p \in Pubkeys : ~Holds(r, p)'
    /\ \A q \in Requests \ {r} : at'[q] = at[q]

LEMMA WriterWrites ==
    ASSUME Sound, NEW r \in Requests,
           Update(r) \/ SetPermanent(r) \/ DeleteAccount(r) \/ Pay(r)
    PROVE  Writes(r)
<1>1. \A p \in Pubkeys \ {Who(r)} : accounts'[p] = accounts[p]
  BY DEF Update, SetPermanent, DeleteAccount, Pay, Sound, TypeOK
<1>2. at'[r] # "update" /\ \A q \in Requests \ {r} : at'[q] = at[q]
  BY DEF Update, SetPermanent, DeleteAccount, Pay, Go, AfterUpdate, Sound, TypeOK
<1>3. Disturbing(r) /\ read' = read
  BY DEF Update, SetPermanent, DeleteAccount, Pay
<1>4. QED
  BY <1>1, <1>2, <1>3 DEF Writes, Holds

LEMMA WriterHeld ==
    ASSUME Sound, HeldIsCurrent, NEW r \in Requests, Writes(r)
    PROVE  HeldIsCurrent'
<1> SUFFICES ASSUME NEW q \in Requests, NEW p \in Pubkeys, p \notin disturbed', Holds(q, p)'
             PROVE  accounts'[p].exists /\ accounts'[p] = read[q]
  BY DEF HeldIsCurrent, Writes
<1>1. q # r
  BY DEF Writes
<1>2. Holds(q, p) /\ p \notin disturbed
  BY <1>1 DEF Writes, Disturbing, Holds, What, Who
<1>3. p # Who(r)
  BY <1>1, <1>2 DEF Writes, Disturbing
<1>4. accounts'[p] = accounts[p]
  BY <1>3 DEF Writes
<1>5. QED
  BY <1>2, <1>4 DEF HeldIsCurrent

LEMMA StepHeld == Sound /\ HeldIsCurrent /\ [Next]_vars => HeldIsCurrent'
<1> SUFFICES ASSUME Sound, HeldIsCurrent, [Next]_vars PROVE HeldIsCurrent'
  OBVIOUS
<1>1. CASE Restart
  <2>1. \A r \in Requests : at'[r] # "update"
    BY <1>1, FirstPlace DEF Restart, InHand
  <2>2. QED
    BY <2>1 DEF HeldIsCurrent, Holds
<1>2. CASE Tick \/ UNCHANGED vars
  BY <1>2 DEF Tick, HeldIsCurrent, Holds, vars, What, Who
<1>3. ASSUME NEW r \in Requests,
             Look(r) \/ Claim(r) \/ CreateInvite(r) \/ DeleteInvite(r) \/ Answer(r)
      PROVE  HeldIsCurrent'
  <2>1. accounts' = accounts /\ read' = read /\ disturbed' = disturbed
    BY <1>3 DEF Look, Claim, CreateInvite, DeleteInvite, Answer
  <2>2. \A q \in Requests : at'[q] = "update" => at[q] = "update"
    BY <1>3 DEF Look, Claim, CreateInvite, DeleteInvite, Answer, Go, Sound, TypeOK
  <2>3. QED
    BY <2>1, <2>2 DEF HeldIsCurrent, Holds, What, Who
<1>4. QED
  BY <1>1, <1>2, <1>3, EnsureHeld, LeaveHeld, WriterWrites, WriterHeld DEF Next, Edit

LEMMA AlwaysHeld == Spec => [](Sound /\ HeldIsCurrent)
BY InitSound, StepSound, InitHeld, StepHeld, PTL DEF Spec

----------------------------------------------------------------------------
(* The quota is what was granted.                                           *)

\* A code was used, and what it grants is not on the account yet.
Spending(r) == What(r) \in {"join", "claim"} /\ at[r] \in {"ensure", "update"}

\* Where a comp and a payment can stand.
Roles ==
    \A r \in Requests :
        /\ What(r) = "allow" => at[r] \in {"ensure", "update", "done"}
        /\ What(r) = "pay" => at[r] \in {"once", "done"}

\* Whoever spends a use has one, and nobody spends the same use twice.
OneSpends ==
    /\ \A r \in Requests : Spending(r) => <<Code(r), Who(r)>> \in uses
    /\ \A r, q \in Requests :
          Spending(r) /\ Spending(q) /\ Code(r) = Code(q) /\ Who(r) = Who(q) => r = q

\* An account that is not there brings no storage to the one made in its place.
Missing == \A p \in Pubkeys : ~accounts[p].exists => accounts[p].quota = 0

\* The account is the sum of what was granted, of finitely many grants.
Ledgered(p) ==
    /\ IsFiniteSet(GrantedTo(p)) /\ IsFiniteSet(CreditedTo(p))
    /\ accounts[p].quota = SumFunctionOnSet(GrantMB, GrantedTo(p))
                         + SumFunctionOnSet(CreditMB, CreditedTo(p))

AllLedgered == \A p \in Pubkeys \ disturbed : ~ByHand(p) => Ledgered(p)

QuotaInv == Roles /\ OneSpends /\ Missing /\ AllLedgered

\* A request moves, and no other does.
Moves(r) ==
    /\ at[r] # "done"
    /\ \A q \in Requests \ {r} : at'[q] = at[q]
    /\ What(r) = "allow" => \/ at[r] = "ensure" /\ at'[r] = "update"
                            \/ at[r] = "update" /\ at'[r] = "done"
    /\ What(r) = "pay" => at[r] = "once" /\ at'[r] = "done"
    /\ at[r] = "permanent" => at'[r] = "done"

LEMMA RequestMoves ==
    ASSUME Sound, Roles, NEW r \in Requests, Edit(r) \/ Answer(r)
    PROVE  Moves(r)
<1>1. \E place : Go(r, place)
  BY DEF Edit, Answer, Look, LeaveLook, Claim, Ensure, Update, SetPermanent, DeleteAccount,
         Pay, CreateInvite, DeleteInvite
<1>2. \A q \in Requests \ {r} : at'[q] = at[q]
  BY <1>1 DEF Go, Sound, TypeOK
<1>3. at[r] # "done" /\ (at[r] = "permanent" => at'[r] = "done")
  BY FirstPlace
  DEF Edit, Answer, Look, LeaveLook, Claim, Ensure, Update, SetPermanent, DeleteAccount,
      Pay, CreateInvite, DeleteInvite, Go, Sound, TypeOK
<1>4. What(r) = "allow" => \/ at[r] = "ensure" /\ at'[r] = "update"
                           \/ at[r] = "update" /\ at'[r] = "done"
  BY DEF Edit, Answer, Look, LeaveLook, Claim, Ensure, Update, SetPermanent, DeleteAccount,
         Pay, CreateInvite, DeleteInvite, Go, AfterUpdate, Roles, Sound, TypeOK, Placed
<1>5. What(r) = "pay" => at[r] = "once" /\ at'[r] = "done"
  BY DEF Edit, Answer, Look, LeaveLook, Claim, Ensure, Update, SetPermanent, DeleteAccount,
         Pay, CreateInvite, DeleteInvite, Go, Roles, Sound, TypeOK, Placed
<1>6. QED
  BY <1>2, <1>3, <1>4, <1>5 DEF Moves

\* A request comes to spend a use by claiming it.
LEMMA OnlyClaimsSpend ==
    ASSUME Sound, NEW r \in Requests, Edit(r) \/ Answer(r), ~Claim(r)
    PROVE  /\ Spending(r)' => Spending(r)
           /\ uses' = uses
BY FirstPlace
DEF Edit, Answer, Look, LeaveLook, Claim, Ensure, Update, SetPermanent, DeleteAccount,
    Pay, CreateInvite, DeleteInvite, Go, AfterUpdate, Sound, TypeOK, Spending, What, Placed

LEMMA OthersSpend ==
    ASSUME NEW r \in Requests, Moves(r), NEW q \in Requests, q # r
    PROVE  Spending(q)' = Spending(q)
BY DEF Moves, Spending, What

\* A claim spends a use that was not there.
LEMMA ClaimSpends ==
    ASSUME Sound, NEW r \in Requests, Claim(r)
    PROVE  /\ ~Spending(r)
           /\ \/ ~Spending(r)' /\ uses' = uses
              \/ /\ Spending(r)' /\ uses' = uses \cup {<<Code(r), Who(r)>>}
                 /\ <<Code(r), Who(r)>> \notin uses
BY DEF Claim, Claimable, Go, Sound, TypeOK, Placed, Spending, What

----------------------------------------------------------------------------
LEMMA InitRoles == Init => Roles /\ OneSpends /\ Missing
<1> SUFFICES ASSUME Init PROVE Roles /\ OneSpends /\ Missing
  OBVIOUS
<1>1. Roles
  BY DEF Init, Roles, First
<1>2. OneSpends
  BY FirstPlace DEF Init, OneSpends, Spending
<1>3. Missing
  BY DEF Init, Missing, NoAccount
<1>4. QED
  BY <1>1, <1>2, <1>3

LEMMA StepRoles == Sound /\ Roles /\ [Next]_vars => Roles'
<1> SUFFICES ASSUME Sound, Roles, [Next]_vars PROVE Roles'
  OBVIOUS
<1>1. ASSUME NEW r \in Requests, Edit(r) \/ Answer(r) PROVE Roles'
  <2>1. Moves(r)
    BY <1>1, RequestMoves
  <2>2. QED
    BY <2>1 DEF Moves, Roles, What
<1>2. CASE Restart
  BY <1>2 DEF Restart, Roles, What, Sound, TypeOK
<1>3. CASE Tick \/ UNCHANGED vars
  BY <1>3 DEF Tick, vars, Roles, What
<1>4. QED
  BY <1>1, <1>2, <1>3 DEF Next

LEMMA StepSpends == Sound /\ Roles /\ OneSpends /\ [Next]_vars => OneSpends'
<1> SUFFICES ASSUME Sound, Roles, OneSpends, [Next]_vars PROVE OneSpends'
  OBVIOUS
<1>1. ASSUME \A q \in Requests : Spending(q)' => Spending(q), uses' = uses
      PROVE  OneSpends'
  BY <1>1 DEF OneSpends, Code, Who
<1>2. ASSUME NEW r \in Requests, Edit(r) \/ Answer(r), ~Claim(r) PROVE OneSpends'
  <2>1. Moves(r)
    BY <1>2, RequestMoves
  <2>2. \A q \in Requests : Spending(q)' => Spending(q)
    BY <1>2, <2>1, OnlyClaimsSpend, OthersSpend
  <2>3. QED
    BY <1>1, <1>2, <2>2, OnlyClaimsSpend
<1>3. ASSUME NEW r \in Requests, Claim(r) PROVE OneSpends'
  <2>1. Moves(r)
    BY <1>3, RequestMoves DEF Edit
  <2>2. \A q \in Requests : q # r => Spending(q)' = Spending(q)
    BY <2>1, OthersSpend
  <2>3. CASE ~Spending(r)' /\ uses' = uses
    BY <1>1, <2>2, <2>3
  <2>4. CASE /\ Spending(r)' /\ uses' = uses \cup {<<Code(r), Who(r)>>}
             /\ <<Code(r), Who(r)>> \notin uses
    <3>1. \A q \in Requests : Spending(q)' => <<Code(q), Who(q)>> \in uses'
      BY <2>2, <2>4 DEF OneSpends
    <3>2. \A q \in Requests : q # r /\ Spending(q)' => <<Code(q), Who(q)>> # <<Code(r), Who(r)>>
      BY <2>2, <2>4 DEF OneSpends
    <3>3. ASSUME NEW q \in Requests, NEW s \in Requests, Spending(q)', Spending(s)',
                 Code(q) = Code(s), Who(q) = Who(s)
          PROVE  q = s
      BY <2>2, <3>2, <3>3 DEF OneSpends
    <3>4. QED
      BY <3>1, <3>3 DEF OneSpends, Code, Who
  <2>5. QED
    BY <1>3, <2>3, <2>4, ClaimSpends
<1>4. CASE Restart
  <2>1. \A q \in Requests : Spending(q)' => Spending(q)
    BY <1>4 DEF Restart, Spending, What
  <2>2. QED
    BY <1>1, <1>4, <2>1 DEF Restart
<1>5. CASE Tick \/ UNCHANGED vars
  <2>1. \A q \in Requests : Spending(q)' => Spending(q)
    BY <1>5 DEF Tick, vars, Spending, What
  <2>2. QED
    BY <1>1, <1>5, <2>1 DEF Tick, vars
<1>6. QED
  BY <1>2, <1>3, <1>4, <1>5 DEF Next

LEMMA StepMissing == Sound /\ Missing /\ [Next]_vars => Missing'
<1> SUFFICES ASSUME Sound, Missing, [Next]_vars,
                    NEW p \in Pubkeys, ~accounts'[p].exists
             PROVE  accounts'[p].quota = 0
  BY DEF Missing
<1>1. CASE accounts'[p] = accounts[p]
  BY <1>1 DEF Missing
<1>2. ASSUME NEW r \in Requests, Ensure(r) PROVE accounts'[p] = accounts[p]
  <2>1. CASE p = Who(r)
    <3>1. accounts'[p] = Ensured(accounts[p]) /\ accounts[p] \in Account
      BY <1>2, <2>1 DEF Ensure, Sound, TypeOK
    <3>2. QED
      BY <3>1, EnsuredType
  <2>2. CASE p # Who(r)
    BY <1>2, <2>2 DEF Ensure, Sound, TypeOK
  <2>3. QED
    BY <2>1, <2>2
<1>3. ASSUME NEW r \in Requests, Update(r) \/ SetPermanent(r) \/ DeleteAccount(r) \/ Pay(r)
      PROVE  accounts'[p] = accounts[p] \/ accounts'[p].quota = 0
  <2>1. CASE p # Who(r)
    BY <1>3, <2>1, WriterWrites DEF Writes
  <2>2. CASE p = Who(r) /\ (Update(r) \/ SetPermanent(r))
    <3>1. accounts[p] \in Account /\ (accounts[p].exists => accounts'[p].exists)
      BY <2>2 DEF Update, SetPermanent, Sound, TypeOK, Account
    <3>2. ~accounts[p].exists => accounts'[p] = accounts[p]
      BY <2>2 DEF Update, SetPermanent
    <3>3. QED
      BY <3>1, <3>2
  <2>3. CASE p = Who(r) /\ DeleteAccount(r)
    BY <2>3 DEF DeleteAccount, NoAccount, Sound, TypeOK
  <2>4. CASE p = Who(r) /\ Pay(r)
    <3>1. /\ accounts[p] \in Account /\ Form(r) \in Account /\ clock \in Nat
          /\ accounts'[p] = Paid(Ensured(accounts[p]), Form(r))
      BY <2>4, Carried, AccountsAssumption DEF Pay, Sound, TypeOK, Time
    <3>2. Ensured(accounts[p]) \in Account /\ Ensured(accounts[p]).exists
      BY <3>1, EnsuredType
    <3>3. accounts'[p].exists
      BY <3>1, <3>2, PaidKeeps
    <3>4. QED
      BY <3>3
  <2>5. QED
    BY <1>3, <2>1, <2>2, <2>3, <2>4
<1>4. QED
  BY <1>1, <1>2, <1>3 DEF Next, Edit, Tick, Restart, Answer, Look, LeaveLook, Claim,
                         CreateInvite, DeleteInvite, vars

\* What is written by hand stays written by hand, and a disturbed account disturbed.
LEMMA ExcusesStay ==
    ASSUME Sound, Roles, [Next]_vars, NEW p
    PROVE  /\ disturbed \subseteq disturbed'
           /\ ByHand(p) => ByHand(p)'
<1>1. disturbed \subseteq disturbed'
  BY DisturbedType
  DEF Next, Edit, Tick, Restart, Answer, Look, LeaveLook, Claim, Ensure, CreateInvite,
      DeleteInvite, Update, SetPermanent, DeleteAccount, Pay, vars, Sound
<1>2. \A q \in Requests :
         at[q] \in {"permanent", "done"} => at'[q] \in {"permanent", "done"}
  <2>1. ASSUME NEW r \in Requests, Edit(r) \/ Answer(r), NEW q \in Requests,
               at[q] \in {"permanent", "done"}
        PROVE  at'[q] \in {"permanent", "done"}
    <3>1. Moves(r)
      BY <2>1, RequestMoves
    <3>2. QED
      BY <2>1, <3>1 DEF Moves
  <2>2. CASE Restart
    BY <2>2 DEF Restart
  <2>3. CASE Tick \/ UNCHANGED vars
    BY <2>3 DEF Tick, vars
  <2>4. QED
    BY <2>1, <2>2, <2>3 DEF Next
<1>3. QED
  BY <1>1, <1>2 DEF ByHand, Who, What

----------------------------------------------------------------------------
\* Nothing that the sum is about changes for p.
Still(p) ==
    /\ accounts'[p].quota = accounts[p].quota
    /\ GrantedTo(p)' = GrantedTo(p) /\ CreditedTo(p)' = CreditedTo(p)

LEMMA StillLedgered ==
    ASSUME NEW p \in Pubkeys, Ledgered(p), Still(p)
    PROVE  Ledgered(p)'
BY DEF Ledgered, Still, GrantMB, CreditMB, What, Form

\* The grants of p are what they were when its uses and its spenders are.
LEMMA SameGrants ==
    ASSUME NEW p \in Pubkeys, \A c \in Codes : (<<c, p>> \in uses') = (<<c, p>> \in uses),
           \A q \in Requests : Who(q) = p => Spending(q)' = Spending(q)
    PROVE  GrantedTo(p)' = GrantedTo(p)
<1>1. \A c \in Codes : Pending(c, p)' = Pending(c, p)
  BY DEF Pending, Spending, Who, What, Code
<1>2. QED
  BY <1>1 DEF GrantedTo

\* So are its credits when the same comps and payments are through.
LEMMA SameCredits ==
    ASSUME NEW p \in Pubkeys,
           \A q \in Requests : Who(q) = p /\ What(q) \in {"pay", "allow"}
                               => (at'[q] = "done") = (at[q] = "done")
    PROVE  CreditedTo(p)' = CreditedTo(p)
BY DEF CreditedTo, Who, What

\* What others ask for.
LEMMA OthersStill ==
    ASSUME Sound, Roles, NEW r \in Requests, Edit(r) \/ Answer(r),
           NEW p \in Pubkeys, p # Who(r)
    PROVE  Still(p)
<1>1. Moves(r)
  BY RequestMoves
<1>2. accounts'[p] = accounts[p]
  <2>1. CASE Update(r) \/ SetPermanent(r) \/ DeleteAccount(r) \/ Pay(r)
    BY <2>1, WriterWrites DEF Writes
  <2>2. CASE Ensure(r)
    BY <2>2 DEF Ensure, Sound, TypeOK
  <2>3. QED
    BY <2>1, <2>2 DEF Edit, Answer, Look, LeaveLook, Claim, CreateInvite, DeleteInvite
<1>3. \A c \in Codes : (<<c, p>> \in uses') = (<<c, p>> \in uses)
  <2>1. uses' = uses \/ uses' = uses \cup {<<Code(r), Who(r)>>}
    BY OnlyClaimsSpend, ClaimSpends
  <2>2. QED
    BY <2>1
<1>4. \A q \in Requests : Who(q) = p => Spending(q)' = Spending(q)
  BY <1>1, OthersSpend
<1>5. \A q \in Requests : Who(q) = p => at'[q] = at[q]
  BY <1>1 DEF Moves
<1>6. QED
  BY <1>2, <1>3, <1>4, <1>5, SameGrants, SameCredits DEF Still

\* A request that stops spending nothing, and is no comp and no payment, leaves both sums.
LEMMA OwnStill ==
    ASSUME Sound, Roles, NEW r \in Requests, Moves(r), NEW p \in Pubkeys, p = Who(r),
           accounts'[p].quota = accounts[p].quota, Spending(r)' = Spending(r), uses' = uses,
           What(r) \notin {"pay", "allow"} \/ at'[r] # "done"
    PROVE  Still(p)
<1>1. \A q \in Requests : Spending(q)' = Spending(q)
  BY OthersSpend
<1>2. \A q \in Requests : What(q) \in {"pay", "allow"}
                          => (at'[q] = "done") = (at[q] = "done")
  BY DEF Moves
<1>3. QED
  BY <1>1, <1>2, SameGrants, SameCredits DEF Still

\* A claim by p spends a use that is not granted yet.
LEMMA ClaimStill ==
    ASSUME Sound, Roles, NEW r \in Requests, Claim(r), NEW p \in Pubkeys, p = Who(r)
    PROVE  Still(p)
<1>1. Moves(r) /\ accounts' = accounts /\ What(r) \in {"join", "claim"}
  BY RequestMoves DEF Edit, Claim, Sound, Placed
<1>2. CASE ~Spending(r)' /\ uses' = uses
  <2>1. Spending(r)' = Spending(r)
    BY <1>2, ClaimSpends DEF Spending
  <2>2. QED
    BY <1>1, <1>2, <2>1, OwnStill
<1>3. CASE /\ Spending(r)' /\ uses' = uses \cup {<<Code(r), Who(r)>>}
           /\ <<Code(r), Who(r)>> \notin uses
  <2>1. \A c \in Codes : c # Code(r) => Pending(c, p)' = Pending(c, p)
    <3>1. \A q \in Requests : q # r => Spending(q)' = Spending(q)
      BY <1>1, OthersSpend
    <3>2. QED
      BY <3>1 DEF Pending, Spending, What, Who, Code
  <2>2. \A c \in Codes : c # Code(r) => (c \in GrantedTo(p)') = (c \in GrantedTo(p))
    BY <1>3, <2>1 DEF GrantedTo
  <2>3. Pending(Code(r), p)'
    BY <1>3 DEF Pending, Spending, What, Who, Code
  <2>4. Code(r) \notin GrantedTo(p)' /\ Code(r) \notin GrantedTo(p)
    BY <1>3, <2>3 DEF GrantedTo
  <2>5. GrantedTo(p)' = GrantedTo(p)
    BY <2>2, <2>4 DEF GrantedTo
  <2>6. CreditedTo(p)' = CreditedTo(p)
    <3>1. \A q \in Requests : What(q) \in {"pay", "allow"} => at'[q] = at[q]
      BY <1>1 DEF Moves
    <3>2. QED
      BY <3>1, SameCredits
  <2>7. QED
    BY <1>1, <2>5, <2>6 DEF Still
<1>4. QED
  BY <1>2, <1>3, ClaimSpends

\* An account made sure of brings nothing.
LEMMA EnsureStill ==
    ASSUME Sound, Roles, Missing, NEW r \in Requests, Ensure(r),
           NEW p \in Pubkeys, p = Who(r)
    PROVE  Still(p)
<1>1. Moves(r) /\ at[r] = "ensure" /\ at'[r] = "update" /\ uses' = uses
  BY RequestMoves DEF Edit, Ensure, Go, Sound, TypeOK
<1>2. accounts'[p].quota = accounts[p].quota
  <2>1. accounts'[p] = Ensured(accounts[p])
    BY DEF Ensure, Sound, TypeOK
  <2>2. QED
    BY <2>1 DEF Ensured, FreshAccount, NoAccount, Missing
<1>3. Spending(r)' = Spending(r)
  BY <1>1 DEF Spending, What
<1>4. QED
  BY <1>1, <1>2, <1>3, OwnStill

\* Who only looks, makes or deletes codes, or answers, brings nothing either.
LEMMA LookStill ==
    ASSUME Sound, Roles, NEW r \in Requests,
           Look(r) \/ LeaveLook(r) \/ CreateInvite(r) \/ DeleteInvite(r) \/ Answer(r),
           NEW p \in Pubkeys, p = Who(r)
    PROVE  Still(p)
<1>1. Moves(r) /\ accounts' = accounts /\ uses' = uses
  BY RequestMoves
  DEF Edit, Look, LeaveLook, CreateInvite, DeleteInvite, Answer
<1>2. What(r) \notin {"pay", "allow"}
  BY DEF Look, LeaveLook, CreateInvite, DeleteInvite, Answer, Roles
<1>3. Spending(r)' = Spending(r)
  BY DEF Look, LeaveLook, CreateInvite, DeleteInvite, Answer, Go, Spending, What,
         Sound, TypeOK
<1>4. QED
  BY <1>1, <1>2, <1>3, OwnStill

\* The update writes over the account as it is.
LEMMA UpdateWrites ==
    ASSUME Sound, HeldIsCurrent, NEW r \in Requests, Update(r), What(r) # "save",
           NEW p \in Pubkeys, p = Who(r), p \notin disturbed
    PROVE  /\ accounts[p] \in Account /\ accounts[p] = read[r]
           /\ accounts'[p].quota = Edited(r).quota
           /\ at[r] = "update" /\ at'[r] \in {"announce", "done"} /\ uses' = uses
<1>1. at[r] = "update" /\ accounts[p] \in Account /\ uses' = uses
  BY DEF Update, Sound, TypeOK
<1>2. accounts[p].exists /\ accounts[p] = read[r]
  BY <1>1 DEF Holds, HeldIsCurrent
<1>3. accounts'[p].quota = Edited(r).quota
  BY <1>1, <1>2 DEF Update, Sound, TypeOK, Account
<1>4. at'[r] \in {"announce", "done"}
  BY DEF Update, AfterUpdate, Go, Sound, TypeOK
<1>5. QED
  BY <1>1, <1>2, <1>3, <1>4

\* A ban or a leave brings nothing and takes nothing.
LEMMA RevokeStill ==
    ASSUME Sound, HeldIsCurrent, Roles, NEW r \in Requests, Update(r),
           What(r) \in {"ban", "leave"}, NEW p \in Pubkeys, p = Who(r), p \notin disturbed
    PROVE  Still(p)
<1>1. Moves(r)
  BY RequestMoves DEF Edit
<1>2. Edited(r) = Revoked(read[r])
  BY DEF Edited
<1>3. accounts'[p].quota = accounts[p].quota
  BY <1>2, UpdateWrites DEF Revoked
<1>4. Spending(r)' = Spending(r) /\ What(r) \notin {"pay", "allow"} /\ uses' = uses
  BY DEF Update, Spending, What
<1>5. QED
  BY <1>1, <1>3, <1>4, OwnStill

\* A grant of an invite: one more code among the granted, and its storage on the account.
LEMMA InviteLedgered ==
    ASSUME Sound, HeldIsCurrent, Roles, OneSpends, NEW r \in Requests, Update(r),
           What(r) \in {"join", "claim"},
           NEW p \in Pubkeys, p = Who(r), p \notin disturbed, Ledgered(p)
    PROVE  Ledgered(p)'
<1> DEFINE d == Code(r)
<1>1. Moves(r) /\ d \in Codes /\ Terms[d] \in Term
  BY RequestMoves, Carried DEF Edit
<1>2. /\ accounts[p] \in Account /\ accounts[p] = read[r]
      /\ accounts'[p].quota = Edited(r).quota /\ uses' = uses
      /\ Spending(r) /\ ~Spending(r)'
  BY UpdateWrites DEF Spending, What
<1>3. accounts'[p].quota = accounts[p].quota + GrantMB[d]
  BY <1>1, <1>2 DEF Edited, Invited, GrantMB
<1>4. <<d, p>> \in uses
  BY <1>2 DEF OneSpends
<1>5. \A q \in Requests : q # r => Spending(q)' = Spending(q)
  BY <1>1, OthersSpend
<1>6. Pending(d, p)
  BY <1>2 DEF Pending, Spending
<1>7. ~Pending(d, p)'
  <2>1. \A q \in Requests : Who(q) = p /\ Code(q) = d => ~Spending(q)'
    BY <1>2, <1>5 DEF OneSpends
  <2>2. QED
    BY <2>1 DEF Pending, Spending, Who, What, Code
<1>8. \A c \in Codes : c # d => Pending(c, p)' = Pending(c, p)
  BY <1>5 DEF Pending, Spending, What, Who, Code
<1>9. GrantedTo(p)' = GrantedTo(p) \cup {d} /\ d \notin GrantedTo(p)
  BY <1>1, <1>2, <1>4, <1>6, <1>7, <1>8 DEF GrantedTo
<1>10. CreditedTo(p)' = CreditedTo(p)
  <2>1. \A q \in Requests : What(q) \in {"pay", "allow"} => at'[q] = at[q]
    BY <1>1 DEF Moves
  <2>2. QED
    BY <2>1, SameCredits
<1>11. GrantMB' = GrantMB /\ CreditMB' = CreditMB
  BY DEF GrantMB, CreditMB, What, Form
<1>12. /\ IsFiniteSet(GrantedTo(p)) /\ GrantedTo(p) \subseteq Codes
       /\ \A c \in Codes : GrantMB[c] \in Int
  BY AccountsAssumption DEF Ledgered, GrantedTo, GrantMB, Term
<1>13. SumFunctionOnSet(GrantMB, GrantedTo(p) \cup {d})
         = SumFunctionOnSet(GrantMB, GrantedTo(p)) + GrantMB[d]
  BY <1>1, <1>9, <1>12, SumAdds
<1>14. IsFiniteSet(GrantedTo(p) \cup {d})
  BY <1>12, FS_AddElement
<1>15. /\ SumFunctionOnSet(GrantMB, GrantedTo(p)) \in Int
       /\ SumFunctionOnSet(CreditMB, CreditedTo(p)) \in Int
  <2>1. \A q \in Requests : CreditMB[q] \in Int
    BY Carried, AccountsAssumption DEF CreditMB, Account
  <2>2. IsFiniteSet(CreditedTo(p)) /\ CreditedTo(p) \subseteq Requests
    BY DEF Ledgered, CreditedTo
  <2>3. QED
    BY <1>12, <2>1, <2>2, SumType
<1>16. QED
  BY <1>1, <1>3, <1>9, <1>10, <1>11, <1>12, <1>13, <1>14, <1>15 DEF Ledgered

\* A payment or a comp: one more among the credited.
LEMMA CreditLedgered ==
    ASSUME Sound, HeldIsCurrent, Roles, NEW r \in Requests,
           \/ Pay(r)
           \/ Update(r) /\ What(r) = "allow",
           Missing, NEW p \in Pubkeys, p = Who(r), p \notin disturbed, Ledgered(p)
    PROVE  Ledgered(p)'
<1>1. Moves(r) /\ What(r) \in {"pay", "allow"}
  BY RequestMoves DEF Edit, Pay
<1>2. at[r] # "done" /\ at'[r] = "done" /\ uses' = uses
  <2>1. CASE Pay(r)
    BY <1>1, <2>1 DEF Pay, Go, Sound, TypeOK
  <2>2. CASE Update(r) /\ What(r) = "allow"
    BY <1>1, <2>2, UpdateWrites DEF Moves
  <2>3. QED
    BY <2>1, <2>2
<1>3. accounts'[p].quota = accounts[p].quota + CreditMB[r]
  <2>1. CASE Pay(r)
    <3>1. /\ accounts'[p] = Paid(Ensured(accounts[p]), Form(r)) /\ What(r) = "pay"
          /\ accounts[p] \in Account
      BY <2>1 DEF Pay, Sound, TypeOK
    <3>2. Ensured(accounts[p]) \in Account /\ Ensured(accounts[p]).quota = accounts[p].quota
      BY <3>1, EnsuredType DEF Ensured, FreshAccount, NoAccount, Missing
    <3>3. accounts'[p].quota = Ensured(accounts[p]).quota + Form(r).quota
      BY <3>1, <3>2 DEF Paid, Account
    <3>4. QED
      BY <3>1, <3>2, <3>3 DEF CreditMB
  <2>2. CASE Update(r) /\ What(r) = "allow"
    BY <2>2, UpdateWrites DEF Edited, Comped, CreditMB
  <2>3. QED
    BY <2>1, <2>2
<1>4. GrantedTo(p)' = GrantedTo(p)
  <2>1. \A q \in Requests : Spending(q)' = Spending(q)
    BY <1>1, OthersSpend DEF Spending, What
  <2>2. QED
    BY <1>2, <2>1, SameGrants
<1>5. CreditedTo(p)' = CreditedTo(p) \cup {r} /\ r \notin CreditedTo(p)
  BY <1>1, <1>2 DEF Moves, CreditedTo, Who, What
<1>6. GrantMB' = GrantMB /\ CreditMB' = CreditMB
  BY DEF GrantMB, CreditMB, What, Form
<1>7. \A q \in Requests : CreditMB[q] \in Int
  BY Carried, AccountsAssumption DEF CreditMB, Account
<1>8. IsFiniteSet(CreditedTo(p)) /\ CreditedTo(p) \subseteq Requests
  BY DEF Ledgered, CreditedTo
<1>9. SumFunctionOnSet(CreditMB, CreditedTo(p) \cup {r})
         = SumFunctionOnSet(CreditMB, CreditedTo(p)) + CreditMB[r]
  BY <1>5, <1>7, <1>8, SumAdds
<1>10. IsFiniteSet(CreditedTo(p) \cup {r})
  BY <1>8, FS_AddElement
<1>11. /\ SumFunctionOnSet(GrantMB, GrantedTo(p)) \in Int
       /\ SumFunctionOnSet(CreditMB, CreditedTo(p)) \in Int
  <2>1. \A c \in Codes : GrantMB[c] \in Int
    BY AccountsAssumption DEF GrantMB, Term
  <2>2. IsFiniteSet(GrantedTo(p)) /\ GrantedTo(p) \subseteq Codes
    BY DEF Ledgered, GrantedTo
  <2>3. QED
    BY <1>7, <1>8, <2>1, <2>2, SumType
<1>12. QED
  BY <1>3, <1>4, <1>5, <1>6, <1>7, <1>9, <1>10, <1>11 DEF Ledgered

----------------------------------------------------------------------------
LEMMA InitLedgered == Init => AllLedgered
<1> SUFFICES ASSUME Init, NEW p \in Pubkeys PROVE Ledgered(p)
  BY DEF AllLedgered
<1>1. GrantedTo(p) = {} /\ CreditedTo(p) = {}
  BY FirstPlace DEF Init, GrantedTo, CreditedTo
<1>2. accounts[p].quota = 0
  BY DEF Init, NoAccount
<1>3. QED
  BY <1>1, <1>2, SumOfNone, FS_EmptySet DEF Ledgered

\* A request of an account nobody disturbs or writes by hand.
LEMMA RequestLedgered ==
    ASSUME Sound, HeldIsCurrent, QuotaInv, NEW r \in Requests, Edit(r) \/ Answer(r),
           NEW p \in Pubkeys, p = Who(r), p \notin disturbed, ~ByHand(p)', Ledgered(p)
    PROVE  Ledgered(p)'
<1>1. CASE Look(r) \/ LeaveLook(r) \/ CreateInvite(r) \/ DeleteInvite(r) \/ Answer(r)
  BY <1>1, LookStill, StillLedgered DEF QuotaInv
<1>2. CASE Claim(r)
  BY <1>2, ClaimStill, StillLedgered DEF QuotaInv
<1>3. CASE Ensure(r)
  BY <1>3, EnsureStill, StillLedgered DEF QuotaInv
<1>4. CASE Update(r)
  <2>1. What(r) # "save"
    <3>1. What(r) = "save" => at'[r] \in {"permanent", "done"}
      BY <1>4 DEF Update, AfterUpdate, Go, Sound, TypeOK
    <3>2. QED
      BY <3>1 DEF ByHand, Who, What
  <2>2. What(r) \in {"join", "claim", "allow", "ban", "leave"}
    BY <1>4, <2>1 DEF Update, Sound, Placed
  <2>3. CASE What(r) \in {"ban", "leave"}
    BY <1>4, <2>3, RevokeStill, StillLedgered DEF QuotaInv
  <2>4. CASE What(r) \in {"join", "claim"}
    BY <1>4, <2>4, InviteLedgered DEF QuotaInv
  <2>5. CASE What(r) = "allow"
    BY <1>4, <2>5, CreditLedgered DEF QuotaInv
  <2>6. QED
    BY <2>2, <2>3, <2>4, <2>5
<1>5. CASE SetPermanent(r) \/ DeleteAccount(r)
  <2>1. What(r) \in {"save", "delete"} /\ at'[r] = "done"
    BY <1>5 DEF SetPermanent, DeleteAccount, Go, Sound, TypeOK, Placed
  <2>2. QED
    BY <2>1 DEF ByHand, Who, What
<1>6. CASE Pay(r)
  BY <1>6, CreditLedgered DEF QuotaInv
<1>7. QED
  BY <1>1, <1>2, <1>3, <1>4, <1>5, <1>6 DEF Edit

\* A restart disturbs whoever had a grant on its way.
LEMMA RestartStill ==
    ASSUME Sound, Roles, Restart, NEW p \in Pubkeys, p \notin disturbed'
    PROVE  Still(p)
<1>1. \A q \in InHand : at[q] \in {"ensure", "update", "permanent"} => Who(q) # p
  BY DEF Restart
<1>2. \A q \in Requests : at'[q] = IF q \in InHand THEN "done" ELSE at[q]
  BY DEF Restart
<1>3. \A q \in Requests : Who(q) = p => Spending(q)' = Spending(q)
  <2> SUFFICES ASSUME NEW q \in Requests, Who(q) = p PROVE Spending(q)' = Spending(q)
    OBVIOUS
  <2>1. CASE Spending(q)
    <3>1. First(q) \in {"look", "claim"} /\ at[q] \in {"ensure", "update"}
      BY <2>1 DEF Spending, First
    <3>2. q \in InHand
      BY <3>1 DEF InHand
    <3>3. QED
      BY <1>1, <3>1, <3>2
  <2>2. CASE ~Spending(q)
    BY <1>2, <2>2 DEF Spending, What
  <2>3. QED
    BY <2>1, <2>2
<1>4. \A q \in Requests : Who(q) = p /\ What(q) \in {"pay", "allow"}
                          => (at'[q] = "done") = (at[q] = "done")
  <2> SUFFICES ASSUME NEW q \in Requests, Who(q) = p, What(q) \in {"pay", "allow"}
               PROVE  (at'[q] = "done") = (at[q] = "done")
    OBVIOUS
  <2>1. CASE q \notin InHand
    BY <1>2, <2>1
  <2>2. CASE q \in InHand
    <3>1. at[q] \in {"ensure", "update", "once", "done"} /\ at[q] \notin {First(q), "done"}
      BY <2>2 DEF Roles, InHand
    <3>2. at[q] # "once"
      BY <3>1 DEF First, Roles
    <3>3. QED
      BY <1>1, <2>2, <3>1, <3>2
  <2>3. QED
    BY <2>1, <2>2
<1>5. accounts' = accounts /\ uses' = uses
  BY DEF Restart
<1>6. QED
  BY <1>3, <1>4, <1>5, SameGrants, SameCredits DEF Still

LEMMA StepLedgered ==
    Sound /\ HeldIsCurrent /\ QuotaInv /\ [Next]_vars => AllLedgered'
<1> SUFFICES ASSUME Sound, HeldIsCurrent, QuotaInv, [Next]_vars,
                    NEW p \in Pubkeys, p \notin disturbed', ~ByHand(p)'
             PROVE  Ledgered(p)'
  BY DEF AllLedgered
<1>1. p \notin disturbed /\ ~ByHand(p)
  BY ExcusesStay DEF QuotaInv
<1>2. Ledgered(p)
  BY <1>1 DEF QuotaInv, AllLedgered
<1>3. ASSUME NEW r \in Requests, Edit(r) \/ Answer(r) PROVE Ledgered(p)'
  <2>1. CASE p = Who(r)
    BY <1>1, <1>2, <1>3, <2>1, RequestLedgered
  <2>2. CASE p # Who(r)
    BY <1>2, <1>3, <2>2, OthersStill, StillLedgered DEF QuotaInv
  <2>3. QED
    BY <2>1, <2>2
<1>4. CASE Restart
  BY <1>2, <1>4, RestartStill, StillLedgered DEF QuotaInv
<1>5. CASE Tick \/ UNCHANGED vars
  <2>1. Still(p)
    BY <1>5 DEF Tick, vars, Still, GrantedTo, CreditedTo, Pending, Who, What, Code
  <2>2. QED
    BY <1>2, <2>1, StillLedgered
<1>6. QED
  BY <1>3, <1>4, <1>5 DEF Next

LEMMA AlwaysLedgered == Spec => []QuotaInv
<1>1. Init => QuotaInv
  BY InitRoles, InitLedgered DEF QuotaInv
<1>2. Sound /\ HeldIsCurrent /\ QuotaInv /\ [Next]_vars => QuotaInv'
  BY StepRoles, StepSpends, StepMissing, StepLedgered DEF QuotaInv
<1>3. QED
  BY <1>1, <1>2, AlwaysHeld, PTL DEF Spec

\* Any number of joins, claims, comps, bans and payments at once, in any order: every use
\* that was spent is granted once, and the quota of an account nobody disturbed or wrote by
\* hand is what its codes, its payments and the admin's comps add up to.
THEOREM QuotaIsTheLedger == Spec => []QuotaIsLedger
<1>1. QuotaInv => QuotaIsLedger
  BY DEF QuotaInv, AllLedgered, Ledgered, QuotaIsLedger
<1>2. QED
  BY <1>1, AlwaysLedgered, PTL

----------------------------------------------------------------------------
(* What a step takes.                                                       *)

Spares(p) == accounts[p].exists => HandWrites(p) \/ Keeps(accounts[p], accounts'[p])

\* An account no step touches.
LEMMA UntouchedSpared ==
    ASSUME Sound, NEW p \in Pubkeys, accounts'[p] = accounts[p]
    PROVE  Spares(p)
BY DEF Sound, TypeOK, Spares, Keeps, Account

\* What is written by hand is excused.
LEMMA HandSpared ==
    ASSUME NEW p \in Pubkeys, HandWrites(p)
    PROVE  Spares(p)
BY DEF Spares

\* An update by another hand than the form's.
LEMMA UpdateSpared ==
    ASSUME Sound, HeldIsCurrent, NEW r \in Requests, Update(r), What(r) # "save",
           NEW p \in Pubkeys, p = Who(r), p \notin disturbed, accounts[p].exists
    PROVE  Spares(p)
<1> DEFINE e == Edited(r)
<1>1. /\ at[r] = "update" /\ accounts[p] \in Account
      /\ accounts' = [accounts EXCEPT ![p].status = e.status, ![p].expires = e.expires,
                                     ![p].quota = e.quota]
      /\ at' = [at EXCEPT ![r] = AfterUpdate(r)]
  BY DEF Update, Go, Sound, TypeOK
<1>2. Holds(r, p) /\ accounts[p] = read[r]
  BY <1>1 DEF Holds, HeldIsCurrent
<1>3. e.quota >= accounts[p].quota /\ e.expires >= accounts[p].expires
  BY <1>1, <1>2, EditedType
<1> HIDE DEF e
<1>5. /\ accounts'[p].exists = accounts[p].exists /\ accounts'[p].quota = e.quota
      /\ accounts'[p].permanent = accounts[p].permanent /\ accounts'[p].expires = e.expires
  BY <1>1 DEF Sound, TypeOK, Account
<1>6. Keeps(accounts[p], accounts'[p])
  BY <1>3, <1>5 DEF Keeps
<1>7. QED
  BY <1>6 DEF Spares

\* A payment takes nothing, and leaves a ban alone.
LEMMA PaySpared ==
    ASSUME Sound, NEW r \in Requests, Pay(r),
           NEW p \in Pubkeys, p = Who(r), accounts[p].exists
    PROVE  Spares(p) /\ accounts'[p].status = accounts[p].status
<1>1. accounts[p] \in Account /\ Form(r) \in Account /\ clock \in Nat
  BY Carried, AccountsAssumption DEF Sound, TypeOK, Time
<1>2. accounts'[p] = Paid(accounts[p], Form(r))
  BY DEF Pay, Ensured, Sound, TypeOK
<1>3. Keeps(accounts[p], accounts'[p])
  BY <1>1, <1>2, PaidKeeps DEF Keeps
<1>4. QED
  BY <1>1, <1>2, <1>3, PaidKeeps DEF Spares

\* The form's writes, and a deletion.
LEMMA FormWrites ==
    ASSUME Sound, NEW r \in Requests,
           SetPermanent(r) \/ DeleteAccount(r) \/ (Update(r) /\ What(r) = "save")
    PROVE  HandWrites(Who(r))
<1>1. What(r) \in {"save", "delete"} /\ at[r] \in {"update", "permanent", "once"}
  BY DEF SetPermanent, DeleteAccount, Update, Sound, Placed
<1>2. at'[r] # at[r]
  BY DEF SetPermanent, DeleteAccount, Update, Go, AfterUpdate, Sound, TypeOK
<1>3. QED
  BY <1>1, <1>2 DEF HandWrites

\* An account made sure of that was there.
LEMMA EnsureSpared ==
    ASSUME Sound, NEW r \in Requests, Ensure(r), NEW p \in Pubkeys, accounts[p].exists
    PROVE  accounts'[p] = accounts[p]
BY Carried DEF Ensure, Ensured, Sound, TypeOK

LEMMA StepSpares ==
    ASSUME Sound, HeldIsCurrent, [Next]_vars, NEW p \in Pubkeys, p \notin disturbed'
    PROVE  Spares(p)
<1> SUFFICES ASSUME accounts[p].exists PROVE Spares(p)
  BY DEF Spares
<1>1. CASE UNCHANGED accounts
  BY <1>1, UntouchedSpared
<1>2. ASSUME NEW r \in Requests, Ensure(r)
      PROVE  Spares(p)
  BY <1>2, EnsureSpared, UntouchedSpared
<1>3. ASSUME NEW r \in Requests,
             Update(r) \/ SetPermanent(r) \/ DeleteAccount(r) \/ Pay(r)
      PROVE  Spares(p)
  <2>1. Writes(r) /\ p \notin disturbed
    BY <1>3, WriterWrites DEF Writes, Disturbing
  <2>2. CASE p # Who(r)
    <3>1. accounts'[p] = accounts[p]
      BY <2>1, <2>2 DEF Writes
    <3>2. QED
      BY <3>1, UntouchedSpared
  <2>3. CASE p = Who(r) /\ Pay(r)
    BY <2>3, PaySpared
  <2>4. CASE p = Who(r) /\ Update(r) /\ What(r) # "save"
    BY <2>1, <2>4, UpdateSpared
  <2>5. CASE /\ p = Who(r)
             /\ SetPermanent(r) \/ DeleteAccount(r) \/ (Update(r) /\ What(r) = "save")
    BY <2>5, FormWrites, HandSpared
  <2>6. QED
    BY <1>3, <2>2, <2>3, <2>4, <2>5
<1>4. QED
  BY <1>1, <1>2, <1>3 DEF Next, Edit, Tick, Restart, Answer, Look, LeaveLook, Claim,
                         CreateInvite, DeleteInvite, vars

LEMMA StepTakesNothing ==
    Sound /\ HeldIsCurrent /\ [Next]_vars =>
        \A p \in Pubkeys \ disturbed' : Spares(p)
BY StepSpares

\* Whatever order joins, claims, comps, bans, leaves and payments run in, and however many
\* at once: only the admin's form takes anything from an account nobody disturbed.
THEOREM OnlyTheFormTakes == Spec => NothingIsTaken
<1>1. Sound /\ HeldIsCurrent /\ [Next]_vars =>
      [\A p \in Pubkeys \ disturbed' :
          accounts[p].exists => HandWrites(p) \/ Keeps(accounts[p], accounts'[p])]_vars
  BY StepTakesNothing DEF Spares
<1>2. QED
  BY <1>1, AlwaysHeld, PTL DEF Spec, NothingIsTaken

----------------------------------------------------------------------------
(* Whom a step lets back in.                                                *)

\* An invite's grant is the end of its use: the code was not among those granted before.
LEMMA GrantSpends ==
    ASSUME Sound, Roles, OneSpends, NEW r \in Requests, Update(r),
           What(r) \in {"join", "claim"}
    PROVE  ~(GrantedTo(Who(r))' \subseteq GrantedTo(Who(r)))
<1> DEFINE p == Who(r)
           c == Code(r)
<1>1. Moves(r) /\ c \in Codes
  BY RequestMoves, Carried DEF Edit
<1>2. Spending(r) /\ ~Spending(r)' /\ uses' = uses
  BY DEF Update, Spending, What, AfterUpdate, Go, Sound, TypeOK
<1>3. <<c, p>> \in uses /\ Pending(c, p)
  BY <1>2 DEF OneSpends, Pending, Spending
<1>4. ~Pending(c, p)'
  <2>1. \A q \in Requests : q # r => Spending(q)' = Spending(q)
    BY <1>1, OthersSpend
  <2>2. \A q \in Requests : Who(q) = p /\ Code(q) = c => ~Spending(q)'
    BY <1>2, <2>1 DEF OneSpends
  <2>3. QED
    BY <2>2 DEF Pending, Spending, Who, What, Code
<1>5. c \in GrantedTo(p)' /\ c \notin GrantedTo(p)
  BY <1>1, <1>2, <1>3, <1>4 DEF GrantedTo
<1>6. QED
  BY <1>5

\* What it takes to be let back in.
Admitted(p) ==
    \/ HandWrites(p)
    \/ \E r \in Requests : What(r) = "allow" /\ Who(r) = p /\ at'[r] # at[r]
    \/ ~(GrantedTo(p)' \subseteq GrantedTo(p))

\* An update that lets somebody in is a comp's, an invite's or the form's.
LEMMA UpdateReadmits ==
    ASSUME Sound, Roles, OneSpends, NEW r \in Requests, Update(r), LetBackIn(Who(r))
    PROVE  Admitted(Who(r))
<1>1. /\ at[r] = "update" /\ accounts[Who(r)].exists
      /\ accounts'[Who(r)].status = Edited(r).status /\ at'[r] = AfterUpdate(r)
  BY Carried DEF Update, LetBackIn, Go, Sound, TypeOK, Account
<1>2. What(r) \in {"join", "claim", "leave", "allow", "ban", "save"}
  BY <1>1 DEF Sound, Placed
<1>3. CASE What(r) \in {"join", "claim"}
  BY <1>3, GrantSpends DEF Admitted
<1>4. CASE What(r) = "allow"
  BY <1>1, <1>4 DEF AfterUpdate, Admitted
<1>5. CASE What(r) \in {"leave", "ban"}
  BY <1>1, <1>5 DEF Edited, Revoked, LetBackIn
<1>6. CASE What(r) = "save"
  BY <1>6, FormWrites DEF Admitted
<1>7. QED
  BY <1>2, <1>3, <1>4, <1>5, <1>6

LEMMA StepReadmits ==
    ASSUME Sound, Roles, OneSpends, [Next]_vars, NEW p \in Pubkeys, LetBackIn(p)
    PROVE  Admitted(p)
<1>1. accounts'[p] # accounts[p]
  BY DEF LetBackIn
<1>2. ASSUME NEW r \in Requests, Ensure(r)
      PROVE  FALSE
  BY <1>1, <1>2, EnsureSpared DEF LetBackIn
<1>3. ASSUME NEW r \in Requests,
             Update(r) \/ SetPermanent(r) \/ DeleteAccount(r) \/ Pay(r)
      PROVE  Admitted(p)
  <2>1. p = Who(r)
    BY <1>1, <1>3, WriterWrites DEF Writes
  <2>2. CASE Pay(r)
    BY <2>1, <2>2, PaySpared DEF LetBackIn
  <2>3. CASE Update(r)
    BY <2>1, <2>3, UpdateReadmits
  <2>4. CASE SetPermanent(r) \/ DeleteAccount(r)
    BY <2>1, <2>4, FormWrites DEF Admitted
  <2>5. QED
    BY <1>3, <2>2, <2>3, <2>4
<1>4. QED
  BY <1>1, <1>2, <1>3 DEF Next, Edit, Tick, Restart, Answer, Look, LeaveLook, Claim,
                         CreateInvite, DeleteInvite, vars

LEMMA StepReadmitsAny ==
    Sound /\ QuotaInv /\ [Next]_vars => \A p \in Pubkeys : LetBackIn(p) => Admitted(p)
BY StepReadmits DEF QuotaInv

\* However the handlers interleave and wherever they are cut off: whoever was banned, or
\* left, comes back by the admin's hand or for a code whose grant they did not have.
THEOREM ReadmissionCosts == Spec => ReadmissionIsSpent
<1>1. Sound /\ QuotaInv /\ [Next]_vars =>
      [\A p \in Pubkeys : LetBackIn(p) =>
          \/ HandWrites(p)
          \/ \E r \in Requests : What(r) = "allow" /\ Who(r) = p /\ at'[r] # at[r]
          \/ ~(GrantedTo(p)' \subseteq GrantedTo(p))]_vars
  BY StepReadmitsAny DEF Admitted
<1>2. QED
  BY <1>1, AlwaysSound, AlwaysLedgered, PTL DEF Spec, ReadmissionIsSpent

----------------------------------------------------------------------------
ListSound == Sound /\ ListTypeOK

----------------------------------------------------------------------------
(* The list over the accounts.                                              *)

\* Every step of the composition is a step of the accounts, or none.
LEMMA StepOfAccounts == [ListNext]_allVars => [Next]_vars
BY DEF ListNext, Pass, RestartList, Watch, TakeSignal, ReadMembers, SaveList, EditAccount,
       Announce, Next, allVars

\* The composition implements Accounts.
THEOREM ListImplementsAccounts == ListSpec => Spec
<1>1. ListInit => Init
  BY DEF ListInit
<1>2. QED
  BY <1>1, StepOfAccounts, PTL DEF ListSpec, Spec

LEMMA MembersArePeople == Members \subseteq Pubkeys
BY DEF Members, MembersOf

LEMMA InitListTypes == ListInit => ListSound
<1> SUFFICES ASSUME ListInit PROVE ListSound
  OBVIOUS
<1>1. Sound
  BY InitSound DEF ListInit
<1>2. Waiting \in [at: {"wait", "debounce", "save"}, members: SUBSET Pubkeys]
  BY DEF Waiting
<1>3. QED
  BY <1>1, <1>2 DEF ListInit, ListSound, ListTypeOK, Sound

LEMMA StepListTypes == ListSound /\ [ListNext]_allVars => ListSound'
<1> SUFFICES ASSUME ListSound, [ListNext]_allVars PROVE ListSound'
  OBVIOUS
<1>1. Sound'
  BY StepOfAccounts, StepSound DEF ListSound
<1>2. CASE \E r \in Requests : EditAccount(r) \/ Announce(r)
  BY <1>1, <1>2 DEF ListSound, ListTypeOK, Sound, EditAccount, Announce, Unsignalled
<1>3. CASE Pass
  BY <1>1, <1>3 DEF ListSound, ListTypeOK, Sound, Pass, Unsignalled
<1>4. CASE RestartList
  BY <1>1, <1>4, MembersArePeople
  DEF ListSound, ListTypeOK, Sound, RestartList, Waiting
<1>5. CASE Watch
  <2>1. watcher' \in [at: {"wait", "debounce", "save"}, members: SUBSET Pubkeys]
    BY <1>5, MembersArePeople
    DEF ListSound, ListTypeOK, Watch, TakeSignal, ReadMembers, SaveList, Waiting
  <2>2. QED
    BY <1>1, <1>5, <2>1
    DEF ListSound, ListTypeOK, Sound, Watch, TakeSignal, ReadMembers, SaveList
<1>6. CASE UNCHANGED allVars
  BY <1>1, <1>6 DEF ListSound, ListTypeOK, Sound, allVars, listVars
<1>7. QED
  BY <1>2, <1>3, <1>4, <1>5, <1>6 DEF ListNext

\* Every value of the list and its watcher, and of the accounts under it, is what the code
\* can make of it.
THEOREM ListTypes == ListSpec => []ListTypeOK
<1>1. ListSound => ListTypeOK
  BY DEF ListSound
<1>2. QED
  BY <1>1, InitListTypes, StepListTypes, PTL DEF ListSpec

LEMMA AlwaysListSound == ListSpec => []ListSound
BY InitListTypes, StepListTypes, PTL DEF ListSpec

\* What Accounts promises holds with the list beside it: no code is over-issued, ...
THEOREM ListNeverOverIssues == ListSpec => []NeverOverIssued
BY ListImplementsAccounts, CodesAreNotOverIssued, PTL

\* ... the quota is what was granted, ...
THEOREM ListQuotaIsTheLedger == ListSpec => []QuotaIsLedger
BY ListImplementsAccounts, QuotaIsTheLedger, PTL

\* ... only the form takes, ...
THEOREM ListTakesNothing == ListSpec => NothingIsTaken
BY ListImplementsAccounts, OnlyTheFormTakes, PTL

\* ... and nobody is let back in for nothing.
THEOREM ListReadmissionCosts == ListSpec => ReadmissionIsSpent
BY ListImplementsAccounts, ReadmissionCosts, PTL

----------------------------------------------------------------------------
(* Staleness.                                                               *)

Fresh == StaleIsPending /\ ReadIsPending

\* The list is right at first.
LEMMA InitFresh == ListInit => Fresh
<1> SUFFICES ASSUME ListInit PROVE Fresh
  OBVIOUS
<1>1. Members = {}
  BY DEF ListInit, Init, Members, MembersOf, NoAccount
<1>2. QED
  BY <1>1 DEF ListInit, Waiting, Fresh, StaleIsPending, ReadIsPending, Stale

\* What a step may do about p: let it come or go without a word, on record; leave a handler
\* that will ask; or leave its membership alone, when no handler was to ask before either.
Spoken(p) ==
    \/ p \in unsignalled'
    \/ WillAsk(p)'
    \/ (p \in Members) = (p \in Members') /\ ~WillAsk(p)

LEMMA SpokenFresh ==
    ASSUME Fresh, unsignalled \subseteq unsignalled', UNCHANGED <<listed, dirty, watcher>>,
           \A p \in Pubkeys : Spoken(p)
    PROVE  Fresh'
<1> SUFFICES ASSUME NEW p \in Pubkeys, p \notin unsignalled', ~WillAsk(p)'
             PROVE  /\ Stale(p)' => Asked'
                    /\ watcher'.at = "save" /\ (p \in watcher'.members) # (p \in Members')
                         => dirty'
  BY DEF Fresh, StaleIsPending, ReadIsPending
<1>1. (p \in Members) = (p \in Members') /\ ~WillAsk(p) /\ p \notin unsignalled
  BY DEF Spoken
<1>2. /\ Stale(p) => Asked
      /\ watcher.at = "save" /\ (p \in watcher.members) # (p \in Members) => dirty
  BY <1>1 DEF Fresh, StaleIsPending, ReadIsPending
<1>3. Stale(p)' = Stale(p) /\ Asked' = Asked
  BY <1>1 DEF Stale, Asked
<1>4. QED
  BY <1>1, <1>2, <1>3

\* A step that is silent, whatever it does to the accounts: whoever comes or goes is in
\* `unsignalled`, and whoever was to ask still is.
LEMMA SilentFresh ==
    ASSUME Fresh, Unsignalled(TRUE), UNCHANGED <<listed, dirty, watcher>>,
           \A r \in Requests : at[r] = "announce" \/ (What(r) = "join" /\ at[r] = "update")
                               => at'[r] = at[r]
    PROVE  Fresh'
<1>1. /\ unsignalled \subseteq unsignalled'
      /\ \A p \in Pubkeys \ unsignalled' : (p \in Members) = (p \in Members')
  BY DEF Unsignalled
<1>2. ASSUME NEW p \in Pubkeys, p \notin unsignalled', WillAsk(p)
      PROVE  WillAsk(p)'
  BY <1>1, <1>2 DEF WillAsk, Who, What
<1>3. QED
  BY <1>1, <1>2, SpokenFresh DEF Spoken

\* A step of a request that changes one account at most, moves that request alone, and
\* leaves it about to ask if its sender comes or goes.
LEMMA OneSpeaks ==
    ASSUME Fresh, UNCHANGED <<listed, dirty, watcher, unsignalled, clock>>,
           NEW r \in Requests,
           \A q \in Requests \ {r} : at'[q] = at[q],
           \A p \in Pubkeys \ {Who(r)} : accounts'[p] = accounts[p],
           Spoken(Who(r)),
           at[r] # "announce"
    PROVE  Fresh'
<1>1. ASSUME NEW p \in Pubkeys, p # Who(r)
      PROVE  Spoken(p)
  <2>1. (p \in Members) = (p \in Members')
    BY <1>1 DEF Members, MembersOf
  <2>2. WillAsk(p) => WillAsk(p)'
    BY <1>1, <2>1 DEF WillAsk, Who, What
  <2>3. QED
    BY <2>1, <2>2 DEF Spoken
<1>2. QED
  BY <1>1, SpokenFresh

\* A join makes sure of the account: whoever becomes a member by it has a handler that will
\* announce them.
LEMMA JoinFresh ==
    ASSUME ListSound, Fresh, NEW r \in Requests, Ensure(r), What(r) = "join",
           UNCHANGED <<listed, dirty, watcher, unsignalled>>
    PROVE  Fresh'
<1> DEFINE p == Who(r)
<1>1. /\ at[r] = "ensure" /\ at'[r] = "update" /\ clock' = clock
      /\ \A q \in Requests \ {r} : at'[q] = at[q]
      /\ \A o \in Pubkeys \ {p} : accounts'[o] = accounts[o]
  BY Carried DEF Ensure, Go, ListSound, Sound, TypeOK
<1>2. Spoken(p)
  <2>1. CASE p \in Members'
    BY <1>1, <2>1, Carried DEF Spoken, WillAsk, Who, What
  <2>2. CASE p \notin Members'
    <3>1. accounts[p].exists => accounts'[p] = accounts[p]
      BY Carried, EnsureSpared DEF ListSound
    <3>2. p \notin Members
      BY <1>1, <2>2, <3>1, Carried DEF Members, MembersOf
    <3>3. WillAsk(p) => WillAsk(p)'
      BY <1>1, <3>2 DEF WillAsk, Who, What
    <3>4. QED
      BY <2>2, <3>2, <3>3 DEF Spoken
  <2>3. QED
    BY <2>1, <2>2
<1>3. QED
  BY <1>1, <1>2, OneSpeaks

\* Its update, and a leave's, is followed by the announcement; without a row to update
\* nobody comes or goes.
LEMMA UpdateFresh ==
    ASSUME ListSound, Fresh, NEW r \in Requests, Update(r), What(r) \in {"join", "leave"},
           UNCHANGED <<listed, dirty, watcher, unsignalled>>
    PROVE  Fresh'
<1> DEFINE p == Who(r)
<1>1. /\ at[r] = "update" /\ clock' = clock
      /\ \A q \in Requests \ {r} : at'[q] = at[q]
      /\ \A o \in Pubkeys \ {p} : accounts'[o] = accounts[o]
  BY Carried DEF Update, Go, ListSound, Sound, TypeOK
<1>2. Spoken(p)
  <2>1. CASE accounts[p].exists
    <3>1. at'[r] = "announce"
      BY <1>1, <2>1 DEF Update, AfterUpdate, Go, ListSound, Sound, TypeOK
    <3>2. QED
      BY <3>1 DEF Spoken, WillAsk, Who, What
  <2>2. CASE ~accounts[p].exists
    <3>1. accounts' = accounts
      BY <2>2 DEF Update
    <3>2. p \notin Members /\ p \notin Members'
      BY <2>2, <3>1 DEF Members, MembersOf
    <3>3. WillAsk(p) => WillAsk(p)'
      BY <1>1, <3>2 DEF WillAsk, Who, What
    <3>4. QED
      BY <3>2, <3>3 DEF Spoken
  <2>3. QED
    BY <2>1, <2>2
<1>3. QED
  BY <1>1, <1>2, OneSpeaks

\* What a join or a leave does to an account is announced.
LEMMA SignalFresh ==
    ASSUME ListSound, Fresh, NEW r \in Requests, EditAccount(r), Signals(r)
    PROVE  Fresh'
<1>1. /\ UNCHANGED <<listed, dirty, watcher, unsignalled>> /\ Edit(r)
      /\ What(r) \in {"join", "leave"} /\ at[r] \in {"ensure", "update"}
      /\ What(r) = "leave" => at[r] = "update"
  BY DEF EditAccount, Unsignalled, Signals
<1>2. (Ensure(r) /\ What(r) = "join") \/ Update(r)
  BY <1>1 DEF Edit, Look, LeaveLook, Claim, Ensure, Update, SetPermanent, DeleteAccount,
              Pay, CreateInvite, DeleteInvite
<1>3. QED
  BY <1>1, <1>2, JoinFresh, UpdateFresh

\* The signal is there before the announcement ends.
LEMMA AnnounceFresh ==
    ASSUME Fresh, NEW r \in Requests, Announce(r)
    PROVE  Fresh'
BY DEF Announce, Fresh, StaleIsPending, ReadIsPending, Asked

\* The watcher takes a signal before it reads, and reads before it saves.
LEMMA WatchFresh ==
    ASSUME Fresh, Watch
    PROVE  Fresh'
<1>1. UNCHANGED vars /\ Members' = Members
  BY DEF Watch, TakeSignal, ReadMembers, SaveList, vars, Members, MembersOf
<1>2. CASE TakeSignal
  BY <1>2 DEF TakeSignal, Fresh, StaleIsPending, ReadIsPending, Asked
<1>3. CASE ReadMembers
  BY <1>1, <1>3 DEF ReadMembers, Fresh, StaleIsPending, ReadIsPending, Asked
<1>4. CASE SaveList
  <2>1. ~(watcher'.at = "save") /\ dirty' = dirty /\ unsignalled' = unsignalled
        /\ at' = at /\ listed' = watcher.members /\ watcher.at = "save"
    BY <1>4 DEF SaveList, Waiting, vars
  <2>2. ASSUME NEW p \in Pubkeys \ unsignalled, Stale(p)'
        PROVE  dirty \/ WillAsk(p)
    BY <1>1, <2>1, <2>2 DEF Stale, Fresh, ReadIsPending
  <2>3. QED
    BY <1>1, <2>1, <2>2 DEF Fresh, StaleIsPending, ReadIsPending, Asked, WillAsk, Who, What
<1>5. QED
  BY <1>2, <1>3, <1>4 DEF Watch

\* A start publishes the list before anybody is served.
LEMMA RestartFresh ==
    ASSUME RestartList
    PROVE  Fresh'
<1>1. Members' = Members /\ listed' = Members /\ watcher' = Waiting
  BY DEF RestartList, Restart, Members, MembersOf
<1>2. QED
  BY <1>1 DEF Fresh, StaleIsPending, ReadIsPending, Stale, Waiting

LEMMA StepFresh == ListSound /\ Fresh /\ [ListNext]_allVars => Fresh'
<1> SUFFICES ASSUME ListSound, Fresh, [ListNext]_allVars PROVE Fresh'
  OBVIOUS
<1>1. CASE Pass
  BY <1>1, SilentFresh DEF Pass, Tick
<1>2. ASSUME NEW r \in Requests, EditAccount(r), ~Signals(r)
      PROVE  Fresh'
  <2>1. Unsignalled(TRUE) /\ UNCHANGED <<listed, dirty, watcher>>
    BY <1>2 DEF EditAccount, Unsignalled
  <2>2. \A q \in Requests :
           at[q] = "announce" \/ (What(q) = "join" /\ at[q] = "update") => at'[q] = at[q]
    BY <1>2, FirstPlace
    DEF Signals, EditAccount, Edit, Look, LeaveLook, Claim, Ensure, Update, SetPermanent,
        DeleteAccount, Pay, CreateInvite, DeleteInvite, Go, ListSound, Sound, TypeOK
  <2>3. QED
    BY <2>1, <2>2, SilentFresh
<1>3. CASE UNCHANGED allVars
  <2>1. Members' = Members
    BY <1>3 DEF allVars, vars, Members, MembersOf
  <2>2. QED
    BY <1>3, <2>1
    DEF allVars, vars, listVars, Fresh, StaleIsPending, ReadIsPending, Stale, Asked, WillAsk,
        Who, What
<1>4. QED
  BY <1>1, <1>2, <1>3, SignalFresh, AnnounceFresh, WatchFresh, RestartFresh DEF ListNext

\* Whatever the people, the requests and the order in which signals, readings and saves
\* interleave: a member who came or went by NIP-43 and is listed wrongly has the list
\* about to be published again.
THEOREM JoinsReachTheList == ListSpec => []StaleIsPending
<1>1. Fresh => StaleIsPending
  BY DEF Fresh
<1>2. QED
  BY <1>1, AlwaysListSound, InitFresh, StepFresh, PTL DEF ListSpec
===============================================================================
