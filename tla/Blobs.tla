-------------------------------- MODULE Blobs --------------------------------
(***************************************************************************)
(* Uploaded files: who claims one, who pays for it, where its bytes are.   *)
(* internal/blobs, the Blossom handlers of internal/relaycore/blossom with *)
(* the hooks of internal/relay/media.go, the NIP-96 handlers of            *)
(* internal/api/media.go, mirroring, and the files of a request to vanish. *)
(*                                                                         *)
(* A claim is a kind 24242 event in the event table, a bill is one row of  *)
(* usage_events per hash, the bytes are files of the storage backend: three *)
(* places, changed one after the other, by one HTTP handler each Request.  *)
(*                                                                         *)
(* Left out: groups and used_bytes (EventUsage), authorization, downloads  *)
(* and lists, reports, the size limit, switching the storage backend, and  *)
(* a database that fails other than because the client has gone.           *)
(***************************************************************************)
EXTENDS Naturals, FiniteSets

CONSTANTS
  Users, Nobody, Admins,
  Hashes, NoHash,
  Exts,          \* extensions a file may be named with
  Quota,         \* how many files each user may be billed for; all are of one size
  Requests,      \* the handlers that may run at once
  Vanishers,     \* bound: users who ask to be forgotten
  Horizon,       \* bound: the last unit of time
  Outages,       \* BOOLEAN: the storage backend may fail
  Disconnects    \* BOOLEAN: a client may go away before it is answered

Time == 1 .. Horizon

\* An index event; the same owner may have two for one file, of different times.
Claim == [owner: Users, hash: Hashes, at: Time]

ASSUME BlobsAssumption ==
    /\ Nobody \notin Users /\ NoHash \notin Hashes
    /\ Admins \subseteq Users /\ Vanishers \subseteq Users
    /\ Quota \in [Users -> Nat]
    /\ Horizon \in Nat \ {0} /\ Outages \in BOOLEAN /\ Disconnects \in BOOLEAN

VARIABLES
  clock,
  claims,     \* kind 24242 events
  payer,      \* who the row "blob:<hash>" of usage_events bills
  files,      \* the extensions under which the backend holds the bytes
  requests,
  disturbed   \* history: files whose bookkeeping was torn, see below

vars == <<clock, claims, payer, files, requests, disturbed>>

\* A handler: what it does, where it stands, for whom, on which file; when it was
\* uploaded, whether the user was found to own it, and the claims left to drop.
Request ==
    [what: {"none", "upload", "nip96 upload", "delete", "nip96 delete", "purge", "forget"},
     at: {"idle", "look", "index", "charge", "write", "owned", "unindex", "refund",
          "shared", "remove", "list", "next"},
     user: Users \cup {Nobody}, hash: Hashes \cup {NoHash}, ext: Exts \cup {NoHash},
     uploaded: Time, owned: BOOLEAN, todo: SUBSET Claim]
Idle == [what |-> "none", at |-> "idle", user |-> Nobody, hash |-> NoHash, ext |-> NoHash,
         uploaded |-> 1, owned |-> FALSE, todo |-> {}]

ClaimsOn(h)    == {c \in claims : c.hash = h}
ClaimsOf(u, h) == {c \in ClaimsOn(h) : c.owner = u}
Owners(h)      == {c.owner : c \in ClaimsOn(h)}
OwnedBy(u, h)  == ClaimsOf(u, h) # {}
Used(u)        == Cardinality({h \in Hashes : payer[h] = u})

\* CheckQuota
CheckQuota(u) == Used(u) + 1 <= Quota[u]

----------------------------------------------------------------------------
(* History: a file is disturbed when two handlers have it in hand at once, *)
(* when a restart, an outage or a client that goes away cuts a handler     *)
(* short, when it is stored under a second name, and when a claim that is  *)
(* deleted as an event tears its books: see Torn.                          *)

Held(h) == \E r \in Requests : requests[r].hash = h

Disturbing(more) ==
    disturbed' = disturbed \cup more
        \cup {h \in Hashes : \E p, q \in Requests :
                 p # q /\ requests'[p].hash = h /\ requests'[q].hash = h}

\* A claim is deleted as an event (kind 5, a ban, a request to vanish), so that these are
\* left, and that tears the books of h: a handler has it in hand, or it was the last one on
\* bytes that are stored, or the last one of whoever pays.
Torn(h, left) ==
    LET owners == {c.owner : c \in {d \in left : d.hash = h}} IN
    \/ Held(h)
    \/ files[h] # {} /\ owners = {}
    \/ payer[h] # Nobody /\ payer[h] \notin owners

Start(r, req) ==
    /\ requests[r] = Idle
    /\ requests' = [requests EXCEPT ![r] = req]
    /\ Disturbing({})

Go(r, place) == requests' = [requests EXCEPT ![r].at = place]
Done(r)      == requests' = [requests EXCEPT ![r] = Idle]

----------------------------------------------------------------------------
(* Uploads.                                                                *)

\* PUT /upload: index and charge first, bytes last.
Upload(r, u, h, x) ==
    /\ CheckQuota(u)
    /\ Start(r, [Idle EXCEPT !.what = "upload", !.at = "look",
                             !.user = u, !.hash = h, !.ext = x])
    /\ UNCHANGED <<clock, claims, payer, files>>

\* POST /nip96 and PUT /mirror: bytes first.
UploadNIP96(r, u, h, x) ==
    /\ CheckQuota(u)
    /\ Start(r, [Idle EXCEPT !.what = "nip96 upload", !.at = "write",
                             !.user = u, !.hash = h, !.ext = x])
    /\ UNCHANGED <<clock, claims, payer, files>>

\* Keep asks whether the user has the file already...
Look(r) ==
    LET req == requests[r] IN
    /\ req.at = "look"
    /\ requests' = [requests EXCEPT ![r].uploaded = clock,
                       ![r].at = IF OwnedBy(req.user, req.hash) THEN "charge" ELSE "index"]
    /\ UNCHANGED <<clock, claims, payer, files, disturbed>>

\* A mutation of KeepClaim: saving fails, and nobody looks at the error.
KeepClaimLost(r) ==
    /\ requests[r].at = "index"
    /\ Go(r, "charge")
    /\ UNCHANGED <<clock, claims, payer, files, disturbed>>

\* ... and saves the claim if not.
KeepClaim(r) ==
    LET req == requests[r] IN
    /\ req.at = "index"
    /\ claims' = claims \cup {[owner |-> req.user, hash |-> req.hash, at |-> req.uploaded]}
    /\ Go(r, "charge")
    /\ UNCHANGED <<clock, payer, files, disturbed>>

\* AddUsage of "blob:<hash>": the first uploader pays.
Charged(h, u) == IF payer[h] = Nobody THEN u ELSE payer[h]

Charge(r) ==
    LET req == requests[r] IN
    /\ req.at = "charge"
    /\ payer' = [payer EXCEPT ![req.hash] = Charged(req.hash, req.user)]
    /\ IF req.what = "upload" THEN Go(r, "write") ELSE Done(r)
    /\ UNCHANGED <<clock, claims, files, disturbed>>

Write(r) ==
    LET req == requests[r] IN
    /\ req.at = "write"
    /\ files' = [files EXCEPT ![req.hash] = @ \cup {req.ext}]
    /\ IF req.what = "upload" THEN Done(r) ELSE Go(r, "look")
    /\ Disturbing(IF files[req.hash] \subseteq {req.ext} THEN {} ELSE {req.hash})
    /\ UNCHANGED <<clock, claims, payer>>

\* The upload is answered with an error; a Blossom upload stays claimed and billed.
WriteFails(r) ==
    /\ Outages /\ requests[r].at = "write"
    /\ Done(r)
    /\ UNCHANGED <<clock, claims, payer, files, disturbed>>

----------------------------------------------------------------------------
(* Deletions, the purge and forgetting.                                    *)

MayDelete(u, h) == u \in Admins \/ OwnedBy(u, h)

\* DELETE /<sha256>: the claim first, the bytes when nobody else claims them.
Delete(r, u, h) ==
    /\ MayDelete(u, h)
    /\ Start(r, [Idle EXCEPT !.what = "delete", !.at = "owned", !.user = u, !.hash = h])
    /\ UNCHANGED <<clock, claims, payer, files>>

\* DELETE /nip96/<sha256>: the bytes first, whoever else claims them.
DeleteNIP96(r, u, h) ==
    /\ MayDelete(u, h)
    /\ Start(r, [Idle EXCEPT !.what = "nip96 delete", !.at = "remove", !.user = u, !.hash = h])
    /\ UNCHANGED <<clock, claims, payer, files>>

\* The panel's purge reads the owners, and drops each one's claim.
Purge(r, h) ==
    /\ Start(r, [Idle EXCEPT !.what = "purge", !.hash = h, !.todo = ClaimsOn(h),
                             !.at = IF ClaimsOn(h) = {} THEN "refund" ELSE "unindex"])
    /\ UNCHANGED <<clock, claims, payer, files>>

\* store.Vanish deletes every event up to the cutoff, claims among them...
Vanish(r, u, cutoff) ==
    LET gone == {c \in claims : c.owner = u /\ c.at <= cutoff} IN
    /\ u \in Vanishers /\ cutoff <= clock
    /\ requests[r] = Idle
    /\ requests' = [requests EXCEPT ![r] = [Idle EXCEPT !.what = "forget", !.at = "list",
                                                        !.user = u]]
    /\ claims' = claims \ gone
    /\ Disturbing({h \in {c.hash : c \in gone} : Torn(h, claims \ gone)})
    /\ UNCHANGED <<clock, payer, files>>

\* ... and then Forget lists the claims that are left.
ListClaims(r) ==
    LET owned == {c \in claims : c.owner = requests[r].user} IN
    /\ requests[r].at = "list"
    /\ requests' = [requests EXCEPT ![r].todo = owned, ![r].at = "next"]
    /\ UNCHANGED <<clock, claims, payer, files, disturbed>>

NextFile(r) ==
    LET req == requests[r] IN
    /\ req.at = "next"
    /\ \/ req.todo = {} /\ Done(r)
       \/ \E c \in req.todo :
             requests' = [requests EXCEPT ![r].todo = @ \ {c}, ![r].hash = c.hash,
                                          ![r].at = "owned"]
    /\ Disturbing({})
    /\ UNCHANGED <<clock, claims, payer, files>>

\* Index.Delete asks whether the user holds the file...
CheckOwned(r) ==
    LET req == requests[r] IN
    /\ req.at = "owned"
    /\ requests' = [requests EXCEPT ![r].owned = OwnedBy(req.user, req.hash),
                                    ![r].at = "unindex"]
    /\ UNCHANGED <<clock, claims, payer, files, disturbed>>

\* What follows the index: only a NIP-96 DELETE is done.
AfterIndex(r) ==
    IF requests[r].what = "nip96 delete" THEN Done(r) ELSE Go(r, "shared")

\* The newest claim of a user; the query is limited to one.
Newest(cs) == {c \in cs : \A d \in cs : d.at <= c.at}

\* ... deletes one claim...
DropClaim(r) ==
    LET req == requests[r] IN
    /\ req.at = "unindex" /\ req.what # "purge"
    /\ claims' = claims \ Newest(ClaimsOf(req.user, req.hash))
    /\ IF req.owned THEN Go(r, "refund") ELSE AfterIndex(r)
    /\ UNCHANGED <<clock, payer, files, disturbed>>

\* ... for the purge, one after the other...
PurgeClaim(r) ==
    LET req == requests[r] IN
    /\ req.at = "unindex" /\ req.what = "purge"
    /\ \E c \in req.todo :
          /\ claims' = claims \ Newest(ClaimsOf(c.owner, req.hash))
          /\ requests' = [requests EXCEPT ![r].todo = @ \ {c},
                             ![r].at = IF req.todo = {c} THEN "refund" ELSE "unindex"]
    /\ UNCHANGED <<clock, payer, files, disturbed>>

\* A mutation of Refunded: nothing is given back.
RefundedNothing(h) == payer[h]

\* ... and RemoveUsage gives the bytes back to whoever pays for them.
Refunded(h) == Nobody

Refund(r) ==
    LET req == requests[r] IN
    /\ req.at = "refund"
    /\ payer' = [payer EXCEPT ![req.hash] = Refunded(req.hash)]
    /\ IF req.what = "purge" THEN Go(r, "remove") ELSE AfterIndex(r)
    /\ UNCHANGED <<clock, claims, files, disturbed>>

\* Forget goes on to the next file.
AfterFile(r) == IF requests[r].what = "forget" THEN Go(r, "next") ELSE Done(r)

\* A mutation of Shared: nobody asks who else claims the file.
SharedIgnored(h) == FALSE

\* Get, Owners: somebody still claims the file.
Shared(h) == Owners(h) # {}

CheckShared(r) ==
    /\ requests[r].at = "shared"
    /\ IF Shared(requests[r].hash) THEN AfterFile(r) ELSE Go(r, "remove")
    /\ UNCHANGED <<clock, claims, payer, files, disturbed>>

\* A NIP-96 DELETE has the index still to do.
AfterRemove(r) == IF requests[r].what = "nip96 delete" THEN Go(r, "owned") ELSE AfterFile(r)

\* Backend.Remove takes one copy away: the one asked for or else the first it finds.
Remove(r) ==
    LET req == requests[r] IN
    /\ req.at = "remove"
    /\ \/ files[req.hash] = {} /\ UNCHANGED files
       \/ \E x \in files[req.hash] : files' = [files EXCEPT ![req.hash] = @ \ {x}]
    /\ AfterRemove(r)
    /\ UNCHANGED <<clock, claims, payer, disturbed>>

\* The handler gives up, Forget on every file that is left; or Exists could not look,
\* which is taken for a file that is not there.
RemoveFails(r) ==
    /\ Outages /\ requests[r].at = "remove"
    /\ Done(r) \/ AfterRemove(r)
    /\ Disturbing({requests[r].hash})
    /\ UNCHANGED <<clock, claims, payer, files>>

----------------------------------------------------------------------------
(* Clients that go away.                                                   *)

\* Where a handler goes on by mistake: nobody looks whether a claim was saved, and a query
\* that is cut off finds nothing, so that a file is taken for new, a claim there for none to
\* drop, or none that is left. What it asks after that fails: it takes up no other file.
\* (One that leaves the claim where it is and refunds it gets no further than `shared`.)
Misled(req) ==
    LET last == [req EXCEPT !.todo = {}] IN
    CASE req.at \in {"look", "index"} -> {[req EXCEPT !.at = "charge"]}
      [] req.at = "unindex" /\ (IF req.what = "purge"
                                THEN req.todo = ClaimsOn(req.hash) \/ Cardinality(req.todo) = 1
                                ELSE req.owned) ->
            {[last EXCEPT !.at = "refund"]}
      [] req.at = "shared" -> {[last EXCEPT !.at = "remove"]}
      [] OTHER -> {}

\* The connection closes, and with it the context of the request: the next statement on the
\* event table fails, and the handler gives up or goes wrong. (Bills take no context.)
Disconnect(r) ==
    LET req == requests[r] IN
    /\ Disconnects
    /\ req.at \in {"look", "index", "owned", "unindex", "shared", "list"}
    /\ \/ req.at # "index" /\ Done(r)
       \/ \E wrong \in Misled(req) : requests' = [requests EXCEPT ![r] = wrong]
    /\ Disturbing({req.hash} \ {NoHash})
    /\ UNCHANGED <<clock, claims, payer, files>>

----------------------------------------------------------------------------
\* A claim is an event like any other: its owner may delete it by kind 5, an admin ban it.
Erase ==
    /\ \E c \in claims :
          /\ claims' = claims \ {c}
          /\ disturbed' = disturbed \cup {h \in {c.hash} : Torn(h, claims \ {c})}
    /\ UNCHANGED <<clock, payer, files, requests>>

Tick == clock < Horizon /\ clock' = clock + 1
        /\ UNCHANGED <<claims, payer, files, requests, disturbed>>

\* The process stops and starts again.
Restart ==
    /\ \E r \in Requests : requests[r] # Idle
    /\ requests' = [r \in Requests |-> Idle]
    /\ disturbed' = disturbed \cup {h \in Hashes : Held(h)}
    /\ UNCHANGED <<clock, claims, payer, files>>

Init ==
    /\ clock = 1 /\ claims = {} /\ disturbed = {}
    /\ payer = [h \in Hashes |-> Nobody]
    /\ files = [h \in Hashes |-> {}]
    /\ requests = [r \in Requests |-> Idle]

Uploading(r) == Look(r) \/ KeepClaim(r) \/ Charge(r) \/ Write(r) \/ WriteFails(r)

Dropping(r) ==
    \/ ListClaims(r) \/ NextFile(r) \/ CheckOwned(r) \/ DropClaim(r) \/ PurgeClaim(r)
    \/ Refund(r) \/ CheckShared(r) \/ Remove(r) \/ RemoveFails(r)

Starting(r) ==
    \/ \E u \in Users, h \in Hashes :
          \/ \E x \in Exts : Upload(r, u, h, x) \/ UploadNIP96(r, u, h, x)
          \/ Delete(r, u, h) \/ DeleteNIP96(r, u, h)
    \/ \E h \in Hashes : Purge(r, h)
    \/ \E u \in Users, cutoff \in Time : Vanish(r, u, cutoff)

Next == (\E r \in Requests : Starting(r) \/ Uploading(r) \/ Dropping(r) \/ Disconnect(r))
        \/ Erase \/ Tick \/ Restart

Spec == Init /\ [][Next]_vars

----------------------------------------------------------------------------
(* Properties.                                                             *)

TypeOK ==
    /\ clock \in Time /\ claims \in SUBSET Claim
    /\ payer \in [Hashes -> Users \cup {Nobody}]
    /\ files \in [Hashes -> SUBSET Exts]
    /\ requests \in [Requests -> Request]
    /\ disturbed \in SUBSET Hashes

\* "we will actually only delete the file if no one else owns it" (blossom/handlers.go:373):
\* bytes nobody claims are removed. No sequence of uploads, deletions and purges, by however
\* many users, leaves an orphan behind, as long as no two of them met at the same file and
\* none was cut short; nor does a claim that is deleted as an event, by kind 5, a ban or a
\* request to vanish, unless it was the last one on the file (Torn): then nobody removes the
\* bytes, and VanishRefundsFiles shows what a request to vanish leaves.
FilesAreClaimed ==
    \A h \in Hashes \ disturbed : ~Held(h) /\ files[h] # {} => Owners(h) # {}

\* "The quota is only released when that owner really held the blob" (blobs.go:156-158), and
\* whenever a claim is dropped: nobody pays for a file that is no longer theirs, as long as no
\* two handlers met at it and none was cut short. But for claims deleted as events, by kind 5,
\* a ban or a request to vanish: whoever pays goes on paying when their last one on the file
\* goes that way (Torn).
PayersAreOwners ==
    \A h \in Hashes \ disturbed :
        ~Held(h) /\ payer[h] # Nobody => OwnedBy(payer[h], h)

\* "Bytes that another uploader still claims stay on disk" (blobs.go:207), whichever
\* handler takes a claim away, but for a NIP-96 DELETE, which removes the bytes first.
ClaimedBytesStay ==
    [][\A h \in Hashes \ disturbed :
          files[h] # {} /\ files'[h] = {} =>
             \/ Owners(h) = {}
             \/ \E r \in Requests : requests[r].hash = h /\ requests[r].what = "nip96 delete"]_vars

\* What README.md:160 says of a request to vanish: "this user's share of the quota is
\* refunded".
VanishRefundsFiles ==
    [][\A r \in Requests :
          requests[r].at = "next" /\ requests[r].todo = {} /\ requests'[r] = Idle =>
             \A h \in Hashes : payer'[h] # requests[r].user]_vars

===============================================================================
