----------------------------- MODULE BlobsProofs -----------------------------
(***************************************************************************)
(* Proofs about Blobs.  A file that no two handlers met at, and that none  *)
(* left half done, has at most one handler at work on it; where that one   *)
(* stands says which of its claim, its bill and its bytes are out of step. *)
(***************************************************************************)
EXTENDS Blobs, TLAPS

\* A handler's fields fit what it does.
Shape(req) ==
    /\ req.at = "idle" => req = Idle
    /\ req.at \in {"look", "index", "charge", "write"} =>
          /\ req.what \in {"upload", "nip96 upload"}
          /\ req.user \in Users /\ req.hash \in Hashes /\ req.ext \in Exts
    /\ req.at \in {"owned", "unindex", "refund", "shared", "remove"} =>
          /\ req.what \in {"delete", "nip96 delete", "purge", "forget"}
          /\ req.hash \in Hashes
    /\ req.at \in {"owned", "shared"} => req.what # "purge"
    /\ req.at = "shared" => req.what # "nip96 delete"
    /\ req.at \in {"list", "next"} => req.what = "forget"
    /\ req.what \in {"delete", "nip96 delete", "forget"} => req.user \in Users
    /\ req.what \notin {"purge", "forget"} => req.todo = {}
    /\ req.what = "purge" => \A c \in req.todo : c.hash = req.hash

\* The file a handler has in hand.
InHand(req) == {req.hash} \ {NoHash}

\* Two handlers have no file in hand but a disturbed one.
Exclusive ==
    \A h \in Hashes \ disturbed : \A p, q \in Requests :
        h \in InHand(requests[p]) /\ h \in InHand(requests[q]) => p = q

\* What the handler at work on h knows, by where it stands.
Knows(req, h) ==
    /\ req.at = "index" => ~OwnedBy(req.user, h)
    /\ req.at = "charge" => OwnedBy(req.user, h)
    /\ req.at = "write" /\ req.what = "upload" => OwnedBy(req.user, h)
    /\ req.at = "unindex" /\ req.what # "purge" => (req.owned <=> OwnedBy(req.user, h))
    /\ req.at = "unindex" /\ req.what = "purge" => req.todo = ClaimsOn(h)
    /\ req.at \in {"refund", "remove"} /\ req.what = "purge" => ClaimsOn(h) = {}
    /\ req.at = "remove" /\ req.what \in {"delete", "forget"} => ClaimsOn(h) = {}
    /\ req.at \in {"owned", "unindex", "refund"} /\ req.what = "nip96 delete" => files[h] = {}

\* The bill is about to be dropped.
Refunding(req) == req.at = "refund" \/ (req.at = "unindex" /\ req.what = "purge")

\* The claim is about to come, or the bytes are about to go.
Settling(req) ==
    \/ req.what = "nip96 upload" /\ req.at \in {"look", "index"}
    \/ req.what \in {"delete", "forget"} /\ req.at \in {"refund", "shared", "remove"}
    \/ req.what = "purge" /\ req.at \in {"unindex", "refund", "remove"}

Sound(h) ==
    /\ \A c, d \in ClaimsOn(h) : c.owner = d.owner => c = d
    /\ \A x, y \in files[h] : x = y
    /\ \A r \in Requests : requests[r].hash = h => Knows(requests[r], h)
    /\ payer[h] # Nobody /\ ~OwnedBy(payer[h], h) =>
          \E r \in Requests : requests[r].hash = h /\ Refunding(requests[r])
    /\ files[h] # {} /\ ClaimsOn(h) = {} =>
          \E r \in Requests : requests[r].hash = h /\ Settling(requests[r])

IInv ==
    /\ TypeOK
    /\ \A r \in Requests : Shape(requests[r])
    /\ Exclusive
    /\ \A h \in Hashes \ disturbed : Sound(h)

\* Sound, when only req is at work on h.
SoundWith(req, h) ==
    /\ \A c, d \in ClaimsOn(h) : c.owner = d.owner => c = d
    /\ \A x, y \in files[h] : x = y
    /\ Knows(req, h)
    /\ payer[h] # Nobody /\ ~OwnedBy(payer[h], h) => Refunding(req)
    /\ files[h] # {} /\ ClaimsOn(h) = {} => Settling(req)

\* The request that stands for r at h: its own, or none.
AtWork(req, h) == IF req.hash = h THEN req ELSE Idle

----------------------------------------------------------------------------
LEMMA IdleKnows == ASSUME NEW h PROVE Knows(Idle, h) /\ ~Refunding(Idle) /\ ~Settling(Idle)
  BY DEF Knows, Refunding, Settling, Idle

LEMMA AloneSound ==
  ASSUME NEW h, NEW r \in Requests,
         \A q \in Requests \ {r} : requests[q].hash # h
  PROVE  Sound(h) <=> SoundWith(AtWork(requests[r], h), h)
  <1>1. CASE requests[r].hash = h
    BY <1>1 DEF Sound, SoundWith, AtWork
  <1>2. CASE requests[r].hash # h
    BY <1>2, IdleKnows DEF Sound, SoundWith, AtWork
  <1> QED BY <1>1, <1>2

LEMMA FrameSound ==
  ASSUME NEW h \in Hashes, Sound(h),
         ClaimsOn(h)' = ClaimsOn(h), payer'[h] = payer[h], files'[h] = files[h],
         \A q \in Requests : \/ requests'[q] = requests[q]
                             \/ requests[q].hash # h /\ requests'[q].hash # h
  PROVE  Sound(h)'
  <1>2. (\A q \in Requests : requests[q].hash = h => Knows(requests[q], h))'
    <2> SUFFICES ASSUME NEW q \in Requests, requests'[q].hash = h
                 PROVE  Knows(requests[q], h)'
      OBVIOUS
    <2>1. requests'[q] = requests[q] /\ Knows(requests[q], h)
      BY DEF Sound
    <2> QED BY <2>1 DEF Knows, OwnedBy, ClaimsOf
  <1>3. (\A c, d \in ClaimsOn(h) : c.owner = d.owner => c = d)' /\ (\A x, y \in files[h] : x = y)'
    BY DEF Sound
  <1>4. (payer[h] # Nobody /\ ~OwnedBy(payer[h], h) =>
            \E r \in Requests : requests[r].hash = h /\ Refunding(requests[r]))'
    BY DEF Sound, Refunding, OwnedBy, ClaimsOf
  <1>5. (files[h] # {} /\ ClaimsOn(h) = {} =>
            \E r \in Requests : requests[r].hash = h /\ Settling(requests[r]))'
    BY DEF Sound, Settling
  <1> QED BY <1>2, <1>3, <1>4, <1>5 DEF Sound

\* A step of one handler disturbs nothing but the file it leaves and the file it takes.
LEMMA StepSound ==
  ASSUME NEW r \in Requests, Exclusive, Exclusive', disturbed \subseteq disturbed',
         NoHash \notin Hashes,
         \A q \in Requests \ {r} : requests'[q] = requests[q],
         \A h \in Hashes \ disturbed : Sound(h),
         \A h \in Hashes \ disturbed' :
            h # requests[r].hash /\ h # requests'[r].hash =>
               ClaimsOn(h)' = ClaimsOn(h) /\ payer'[h] = payer[h] /\ files'[h] = files[h],
         \A h \in Hashes \ disturbed' :
            (h = requests[r].hash \/ h = requests'[r].hash) /\ SoundWith(AtWork(requests[r], h), h)
            => SoundWith(AtWork(requests[r], h), h)'
  PROVE  (\A h \in Hashes \ disturbed : Sound(h))'
  <1> SUFFICES ASSUME NEW h \in Hashes \ disturbed' PROVE Sound(h)'
    OBVIOUS
  <1>1. CASE h # requests[r].hash /\ h # requests'[r].hash
    <2>1. Sound(h)
      OBVIOUS
    <2>2. \A q \in Requests : \/ requests'[q] = requests[q]
                              \/ requests[q].hash # h /\ requests'[q].hash # h
      BY <1>1
    <2>3. ClaimsOn(h)' = ClaimsOn(h) /\ payer'[h] = payer[h] /\ files'[h] = files[h]
      BY <1>1
    <2> QED BY <2>1, <2>2, <2>3, FrameSound
  <1>2. CASE h = requests[r].hash \/ h = requests'[r].hash
    <2>1. \A q \in Requests \ {r} : requests[q].hash # h
      <3> SUFFICES ASSUME NEW q \in Requests \ {r}, requests[q].hash = h PROVE FALSE
        OBVIOUS
      <3>1. h \in InHand(requests[q]) /\ h \in InHand(requests'[q])
        BY DEF InHand
      <3>2. h \in InHand(requests[r]) \/ h \in InHand(requests'[r])
        BY <1>2 DEF InHand
      <3> QED BY <3>1, <3>2 DEF Exclusive
    <2>2. (\A q \in Requests \ {r} : requests[q].hash # h)'
      BY <2>1
    <2>3. SoundWith(AtWork(requests[r], h), h)
      BY <2>1, AloneSound
    <2>4. SoundWith(AtWork(requests[r], h), h)'
      BY <1>2, <2>3
    <2>5. (Sound(h) <=> SoundWith(AtWork(requests[r], h), h))'
      BY <2>2, AloneSound, PTL
    <2> QED BY <2>4, <2>5
  <1> QED BY <1>1, <1>2

LEMMA Disturbed ==
  ASSUME NEW more, Disturbing(more)
  PROVE  Exclusive' /\ disturbed \subseteq disturbed'
  BY DEF Disturbing, Exclusive, InHand

LEMMA Undisturbed ==
  ASSUME NEW r \in Requests, Exclusive, disturbed' = disturbed,
         \A q \in Requests \ {r} : requests'[q] = requests[q],
         InHand(requests'[r]) \subseteq InHand(requests[r])
  PROVE  Exclusive' /\ disturbed \subseteq disturbed'
  <1>1. \A q \in Requests : InHand(requests'[q]) \subseteq InHand(requests[q])
    <2> SUFFICES ASSUME NEW q \in Requests, q # r PROVE InHand(requests'[q]) \subseteq InHand(requests[q])
      OBVIOUS
    <2> QED BY DEF InHand
  <1> QED BY <1>1 DEF Exclusive

\* A request alone changes nothing about what is sound.
LEMMA SameBooks ==
  ASSUME NEW req, NEW h, UNCHANGED <<claims, payer, files>>, SoundWith(req, h)
  PROVE  SoundWith(req, h)'
  <1>1. ClaimsOn(h)' = ClaimsOn(h)
    BY DEF ClaimsOn
  <1>2. Knows(req, h)'
    BY <1>1 DEF SoundWith, Knows, OwnedBy, ClaimsOf
  <1>3. (payer[h] # Nobody /\ ~OwnedBy(payer[h], h) => Refunding(req))'
    BY <1>1 DEF SoundWith, OwnedBy, ClaimsOf, Refunding
  <1>4. (files[h] # {} /\ ClaimsOn(h) = {} => Settling(req))'
    BY <1>1 DEF SoundWith, Settling
  <1> QED BY <1>1, <1>2, <1>3, <1>4 DEF SoundWith

----------------------------------------------------------------------------
(* Types and shapes.                                                       *)

LEMMA IdleType == ASSUME BlobsAssumption PROVE Idle \in Request /\ Shape(Idle)
  BY DEF BlobsAssumption, Idle, Request, Shape, Time

\* Handlers that start: the hook lets them in, the rest is theirs.
LEMMA StartTypes ==
  ASSUME TypeOK, \A q \in Requests : Shape(requests[q]), BlobsAssumption,
         NEW r \in Requests, NEW req, Start(r, req), req \in Request, Shape(req),
         UNCHANGED <<clock, claims, payer, files>>
  PROVE  TypeOK' /\ (\A q \in Requests : Shape(requests[q]))'
  <1>1. requests' \in [Requests -> Request]
    BY DEF Start, TypeOK
  <1>2. disturbed' \subseteq Hashes
    BY DEF Start, Disturbing, TypeOK
  <1>3. (\A q \in Requests : Shape(requests[q]))'
    BY DEF Start, TypeOK
  <1> QED BY <1>1, <1>2, <1>3 DEF TypeOK

----------------------------------------------------------------------------
(* One lemma for each step of a handler.                                   *)

\* What a handler that starts has to know: what every handler knows of a file that
\* nobody is at work on.
LEMMA StartInv ==
  ASSUME IInv, BlobsAssumption, NEW r \in Requests, NEW req, Start(r, req),
         UNCHANGED <<clock, claims, payer, files>>, req \in Request, Shape(req),
         \A k \in Hashes : req.hash = k => Knows(req, k)
  PROVE  IInv'
  <1>1. TypeOK' /\ (\A q \in Requests : Shape(requests[q]))'
    BY StartTypes DEF IInv
  <1>2. Exclusive' /\ disturbed \subseteq disturbed'
    BY Disturbed DEF Start
  <1>3. requests[r] = Idle /\ requests'[r] = req /\ \A q \in Requests \ {r} : requests'[q] = requests[q]
    BY DEF Start, IInv, TypeOK
  <1>4. \A k \in Hashes \ disturbed' :
            SoundWith(AtWork(requests[r], k), k) => SoundWith(AtWork(requests[r], k), k)'
    <2> SUFFICES ASSUME NEW k \in Hashes \ disturbed', SoundWith(AtWork(Idle, k), k)
                 PROVE  SoundWith(AtWork(requests[r], k), k)'
      BY <1>3
    <2>1. AtWork(Idle, k) = Idle
      BY DEF AtWork
    <2>2. CASE req.hash = k
      <3>1. SoundWith(req, k)
        BY <2>1, <2>2, IdleKnows DEF SoundWith
      <3>2. SoundWith(req, k)'
        BY <3>1, SameBooks
      <3> QED BY <3>2, <2>2, <1>3 DEF AtWork
    <2>3. CASE req.hash # k
      <3>1. SoundWith(Idle, k)'
        BY <2>1, SameBooks
      <3> QED BY <3>1, <2>3, <1>3 DEF AtWork
    <2> QED BY <2>2, <2>3
  <1>5. \A k \in Hashes : ClaimsOn(k)' = ClaimsOn(k) /\ payer'[k] = payer[k] /\ files'[k] = files[k]
    BY DEF ClaimsOn
  <1>6. (\A k \in Hashes \ disturbed : Sound(k))'
    BY <1>2, <1>3, <1>4, <1>5, StepSound DEF IInv, BlobsAssumption
  <1> QED BY <1>1, <1>2, <1>6 DEF IInv

LEMMA UploadInv ==
  ASSUME IInv, BlobsAssumption, NEW r \in Requests, NEW u \in Users, NEW h \in Hashes, NEW x \in Exts,
         Upload(r, u, h, x) \/ UploadNIP96(r, u, h, x)
  PROVE  IInv'
  <1> DEFINE one == [Idle EXCEPT !.what = "upload", !.at = "look",
                                 !.user = u, !.hash = h, !.ext = x]
             two == [Idle EXCEPT !.what = "nip96 upload", !.at = "write",
                                 !.user = u, !.hash = h, !.ext = x]
  <1>1. one \in Request /\ two \in Request
    BY IdleType DEF Request
  <1>2. Shape(one) /\ \A k \in Hashes : Knows(one, k)
    BY DEF Shape, Knows, Idle
  <1>3. Shape(two) /\ \A k \in Hashes : Knows(two, k)
    BY DEF Shape, Knows, Idle
  <1>4. Start(r, one) \/ Start(r, two)
    BY DEF Upload, UploadNIP96
  <1>5. UNCHANGED <<clock, claims, payer, files>>
    BY DEF Upload, UploadNIP96
  <1> HIDE DEF one, two
  <1> QED BY <1>1, <1>2, <1>3, <1>4, <1>5, StartInv

LEMMA DeleteInv ==
  ASSUME IInv, BlobsAssumption, NEW r \in Requests, NEW u \in Users, NEW h \in Hashes,
         Delete(r, u, h) \/ DeleteNIP96(r, u, h)
  PROVE  IInv'
  <1> DEFINE one == [Idle EXCEPT !.what = "delete", !.at = "owned", !.user = u, !.hash = h]
             two == [Idle EXCEPT !.what = "nip96 delete", !.at = "remove", !.user = u, !.hash = h]
  <1>1. one \in Request /\ two \in Request
    BY IdleType DEF Request
  <1>2. Shape(one) /\ \A k \in Hashes : Knows(one, k)
    BY DEF Shape, Knows, Idle
  <1>3. Shape(two) /\ \A k \in Hashes : Knows(two, k)
    BY DEF Shape, Knows, Idle
  <1>4. Start(r, one) \/ Start(r, two)
    BY DEF Delete, DeleteNIP96
  <1>5. UNCHANGED <<clock, claims, payer, files>>
    BY DEF Delete, DeleteNIP96
  <1> HIDE DEF one, two
  <1> QED BY <1>1, <1>2, <1>3, <1>4, <1>5, StartInv

LEMMA PurgeInv ==
  ASSUME IInv, BlobsAssumption, NEW r \in Requests, NEW h \in Hashes, Purge(r, h)
  PROVE  IInv'
  <1> DEFINE req == [Idle EXCEPT !.what = "purge", !.hash = h, !.todo = ClaimsOn(h),
                                 !.at = IF ClaimsOn(h) = {} THEN "refund" ELSE "unindex"]
  <1>1. ClaimsOn(h) \in SUBSET Claim /\ \A c \in ClaimsOn(h) : c.hash = h
    BY DEF ClaimsOn, IInv, TypeOK
  <1>2. req \in Request
    BY <1>1, IdleType DEF Request
  <1>3. Shape(req)
    BY <1>1 DEF Shape, Idle
  <1>4. Knows(req, h) /\ req.hash = h
    BY DEF Knows, Idle
  <1>5. Start(r, req) /\ UNCHANGED <<clock, claims, payer, files>>
    BY DEF Purge
  <1> HIDE DEF req
  <1> QED BY <1>2, <1>3, <1>4, <1>5, StartInv

\* A handler that goes on, or is done, with the file it is at work on.
LEMMA WorkInv ==
  ASSUME IInv, BlobsAssumption, NEW r \in Requests, TypeOK', disturbed' = disturbed,
         \A q \in Requests \ {r} : requests'[q] = requests[q],
         Shape(requests[r])', InHand(requests'[r]) \subseteq InHand(requests[r]),
         requests'[r].hash \in {requests[r].hash, NoHash},
         \A k \in Hashes \ {requests[r].hash} :
            ClaimsOn(k)' = ClaimsOn(k) /\ payer'[k] = payer[k] /\ files'[k] = files[k],
         \A k \in Hashes : requests[r].hash = k /\ SoundWith(requests[r], k) =>
            SoundWith(AtWork(requests[r], k), k)'
  PROVE  IInv'
  <1>1. (\A q \in Requests : Shape(requests[q]))'
    BY DEF IInv
  <1>2. Exclusive' /\ disturbed \subseteq disturbed'
    BY Undisturbed DEF IInv
  <1>3. \A k \in Hashes \ disturbed' :
            (k = requests[r].hash \/ k = requests'[r].hash) /\ SoundWith(AtWork(requests[r], k), k)
            => SoundWith(AtWork(requests[r], k), k)'
    <2> SUFFICES ASSUME NEW k \in Hashes \ disturbed', k = requests[r].hash \/ k = requests'[r].hash,
                        SoundWith(AtWork(requests[r], k), k)
                 PROVE  SoundWith(AtWork(requests[r], k), k)'
      OBVIOUS
    <2>1. k = requests[r].hash
      BY DEF BlobsAssumption
    <2>2. SoundWith(requests[r], k)
      BY <2>1 DEF AtWork
    <2> QED BY <2>1, <2>2
  <1>4. (\A k \in Hashes \ disturbed : Sound(k))'
    BY <1>2, <1>3, StepSound DEF IInv, BlobsAssumption
  <1> QED BY <1>1, <1>2, <1>4 DEF IInv

\* The same, when the books stay as they are.
LEMMA GoSound ==
  ASSUME NEW r \in Requests, NEW k,
         ClaimsOn(k)' = ClaimsOn(k), payer'[k] = payer[k], files'[k] = files[k],
         SoundWith(requests[r], k), requests'[r].hash = k, Knows(requests[r], k)',
         Refunding(requests[r]) => Refunding(requests[r])',
         ClaimsOn(k) = {} /\ Settling(requests[r]) => Settling(requests[r])'
  PROVE  SoundWith(AtWork(requests[r], k), k)'
  <1>1. (payer[k] # Nobody /\ ~OwnedBy(payer[k], k) => Refunding(requests[r]))'
    BY DEF SoundWith, OwnedBy, ClaimsOf
  <1>2. (files[k] # {} /\ ClaimsOn(k) = {} => Settling(requests[r]))'
    BY DEF SoundWith
  <1>3. (\A c, d \in ClaimsOn(k) : c.owner = d.owner => c = d)' /\ (\A x, y \in files[k] : x = y)'
    BY DEF SoundWith
  <1>4. AtWork(requests[r], k)' = requests'[r]
    BY DEF AtWork
  <1> QED BY <1>1, <1>2, <1>3, <1>4 DEF SoundWith, AtWork

LEMMA LookInv ==
  ASSUME IInv, BlobsAssumption, NEW r \in Requests, Look(r)
  PROVE  IInv'
  <1> DEFINE h == requests[r].hash
  <1>1. /\ requests[r] \in Request /\ Shape(requests[r])
        /\ requests'[r] = [requests[r] EXCEPT !.uploaded = clock,
                             !.at = IF OwnedBy(requests[r].user, h) THEN "charge" ELSE "index"]
        /\ \A q \in Requests \ {r} : requests'[q] = requests[q]
    BY DEF Look, IInv, TypeOK
  <1>2. TypeOK'
    <2>1. requests'[r] \in Request
      BY <1>1 DEF Request, IInv, TypeOK
    <2> QED BY <2>1 DEF Look, IInv, TypeOK
  <1>7. requests[r].at = "look"
    BY DEF Look
  <1>3. /\ requests'[r].what = requests[r].what /\ requests'[r].user = requests[r].user
        /\ requests'[r].hash = h /\ requests'[r].ext = requests[r].ext
        /\ requests'[r].todo = requests[r].todo
    BY <1>1 DEF Request
  <1>0. \/ OwnedBy(requests[r].user, h) /\ requests'[r].at = "charge"
        \/ ~OwnedBy(requests[r].user, h) /\ requests'[r].at = "index"
    BY <1>1 DEF Request
  <1>4. Shape(requests[r])' /\ InHand(requests'[r]) \subseteq InHand(requests[r])
    BY <1>1, <1>7, <1>3, <1>0 DEF Shape, InHand
  <1>5. \A k \in Hashes : ClaimsOn(k)' = ClaimsOn(k) /\ payer'[k] = payer[k] /\ files'[k] = files[k]
    BY DEF Look, ClaimsOn
  <1>6. ASSUME NEW k \in Hashes, h = k, SoundWith(requests[r], k)
        PROVE  SoundWith(AtWork(requests[r], k), k)'
    <2>1. Knows(requests[r], k)'
      BY <1>3, <1>0, <1>5, <1>6 DEF Knows, OwnedBy, ClaimsOf
    <2>2. ~Refunding(requests[r])
      BY <1>7 DEF Refunding
    <2>3. ClaimsOn(k) = {} /\ Settling(requests[r]) => Settling(requests[r])'
      BY <1>3, <1>0, <1>7, <1>6 DEF Settling, OwnedBy, ClaimsOf
    <2> QED BY <2>1, <2>2, <2>3, <1>3, <1>5, <1>6, GoSound
  <1> HIDE DEF h
  <1> QED BY <1>1, <1>2, <1>3, <1>4, <1>5, <1>6, WorkInv DEF Look, h

----------------------------------------------------------------------------
\* A handler that only moves, and one that ends.
LEMMA GoFacts ==
  ASSUME TypeOK, NEW r \in Requests, NEW place, Go(r, place),
         place \in {"charge", "write", "shared", "remove", "refund", "owned", "next"}
  PROVE  /\ requests' \in [Requests -> Request]
         /\ \A q \in Requests \ {r} : requests'[q] = requests[q]
         /\ requests'[r].at = place
         /\ requests'[r].what = requests[r].what /\ requests'[r].user = requests[r].user
         /\ requests'[r].hash = requests[r].hash /\ requests'[r].ext = requests[r].ext
         /\ requests'[r].todo = requests[r].todo /\ requests'[r].owned = requests[r].owned
         /\ InHand(requests'[r]) \subseteq InHand(requests[r])
  <1>1. requests \in [Requests -> Request] /\ requests[r] \in Request
    BY DEF TypeOK
  <1>2. requests'[r] = [requests[r] EXCEPT !.at = place]
    BY <1>1 DEF Go
  <1>3. \A q \in Requests \ {r} : requests'[q] = requests[q]
    BY <1>1 DEF Go
  <1>4. requests'[r] \in Request
    BY <1>1, <1>2 DEF Request
  <1>5. requests' \in [Requests -> Request]
    BY <1>1, <1>4 DEF Go
  <1>6. /\ requests'[r].at = place
        /\ requests'[r].what = requests[r].what /\ requests'[r].user = requests[r].user
        /\ requests'[r].hash = requests[r].hash /\ requests'[r].ext = requests[r].ext
        /\ requests'[r].todo = requests[r].todo /\ requests'[r].owned = requests[r].owned
    BY <1>1, <1>2 DEF Request
  <1> QED BY <1>3, <1>5, <1>6 DEF InHand

LEMMA DoneFacts ==
  ASSUME TypeOK, BlobsAssumption, NEW r \in Requests, Done(r)
  PROVE  /\ requests' \in [Requests -> Request]
         /\ \A q \in Requests \ {r} : requests'[q] = requests[q]
         /\ requests'[r] = Idle /\ Shape(requests'[r])
         /\ InHand(requests'[r]) \subseteq InHand(requests[r])
         /\ requests'[r].hash = NoHash
  <1>1. requests'[r] = Idle /\ \A q \in Requests \ {r} : requests'[q] = requests[q]
    BY DEF Done, TypeOK
  <1>2. requests' \in [Requests -> Request]
    BY IdleType DEF Done, TypeOK
  <1>3. InHand(Idle) = {} /\ Idle.hash = NoHash
    BY DEF InHand, Idle
  <1> QED BY <1>1, <1>2, <1>3, IdleType

\* A handler may end at a file whose books are in order.
LEMMA DoneSound ==
  ASSUME NEW r \in Requests, NEW k \in Hashes, BlobsAssumption,
         requests'[r] = Idle,
         (\A c, d \in ClaimsOn(k) : c.owner = d.owner => c = d)',
         (\A x, y \in files[k] : x = y)',
         payer'[k] # Nobody => OwnedBy(payer[k], k)',
         files'[k] # {} => ClaimsOn(k)' # {}
  PROVE  SoundWith(AtWork(requests[r], k), k)'
  <1>1. AtWork(requests[r], k)' = Idle
    BY DEF AtWork
  <1>2. Knows(Idle, k)'
    BY DEF Knows, Idle
  <1> QED BY <1>1, <1>2 DEF SoundWith, AtWork

LEMMA KeepClaimInv ==
  ASSUME IInv, BlobsAssumption, NEW r \in Requests, KeepClaim(r)
  PROVE  IInv'
  <1> DEFINE req == requests[r]
             c   == [owner |-> req.user, hash |-> req.hash, at |-> req.uploaded]
  <1>1. req \in Request /\ Shape(req) /\ req.at = "index" /\ TypeOK
    BY DEF KeepClaim, IInv, TypeOK
  <1>2. Go(r, "charge") /\ claims' = claims \cup {c} /\ UNCHANGED <<clock, payer, files, disturbed>>
    BY DEF KeepClaim
  <1>3. req.what \in {"upload", "nip96 upload"} /\ req.user \in Users /\ req.hash \in Hashes /\ c \in Claim
    BY <1>1 DEF Shape, Request, Claim
  <1>9. /\ requests' \in [Requests -> Request]
        /\ \A q \in Requests \ {r} : requests'[q] = requests[q]
        /\ InHand(requests'[r]) \subseteq InHand(requests[r])
        /\ requests'[r].at = "charge"
        /\ requests'[r].what = req.what /\ requests'[r].user = req.user
        /\ requests'[r].hash = req.hash /\ requests'[r].ext = req.ext
        /\ requests'[r].todo = req.todo
    BY <1>1, <1>2, GoFacts
  <1>4. TypeOK'
    BY <1>1, <1>2, <1>3, <1>9 DEF TypeOK
  <1>5. Shape(requests[r])'
    BY <1>1, <1>3, <1>9 DEF Shape
  <1>6. \A k \in Hashes : req.hash = k => ClaimsOn(k)' = ClaimsOn(k) \cup {c}
    BY <1>2 DEF ClaimsOn
  <1>7. \A k \in Hashes \ {req.hash} : ClaimsOn(k)' = ClaimsOn(k) /\ payer'[k] = payer[k] /\ files'[k] = files[k]
    BY <1>2 DEF ClaimsOn
  <1>8. ASSUME NEW k \in Hashes, req.hash = k, SoundWith(req, k)
        PROVE  SoundWith(AtWork(requests[r], k), k)'
    <2>1. AtWork(requests[r], k)' = requests'[r]
      BY <1>8, <1>9 DEF AtWork
    <2>2. \A d \in ClaimsOn(k) : d.owner # req.user
      BY <1>1, <1>8 DEF SoundWith, Knows, OwnedBy, ClaimsOf
    <2>3. (\A d, e \in ClaimsOn(k) : d.owner = e.owner => d = e)'
      BY <1>6, <1>8, <2>2 DEF SoundWith
    <2>0. ClaimsOn(k)' = ClaimsOn(k) \cup {c}
      BY <1>6, <1>8
    <2>4. (\A x, y \in files[k] : x = y)' /\ ClaimsOn(k)' # {}
      <3>1. (\A x, y \in files[k] : x = y)'
        BY <1>2, <1>8 DEF SoundWith
      <3> QED BY <3>1, <2>0
    <2>5. OwnedBy(requests[r].user, k)' /\ (payer'[k] # Nobody => OwnedBy(payer[k], k)')
      <3>1. payer[k] # Nobody => OwnedBy(payer[k], k)
        BY <1>1, <1>8 DEF SoundWith, Refunding
      <3>2. payer'[k] # Nobody => OwnedBy(payer[k], k)'
        BY <3>1, <1>2, <2>0 DEF OwnedBy, ClaimsOf
      <3>3. c.owner = requests'[r].user
        BY <1>9
      <3>4. OwnedBy(requests[r].user, k)'
        BY <3>3, <2>0 DEF OwnedBy, ClaimsOf
      <3> QED BY <3>2, <3>4
    <2>6. Knows(requests[r], k)'
      BY <1>9, <2>5 DEF Knows, OwnedBy, ClaimsOf
    <2> QED BY <2>1, <2>3, <2>4, <2>5, <2>6 DEF SoundWith, AtWork
  <1> HIDE DEF req, c
  <1> QED BY <1>1, <1>2, <1>4, <1>5, <1>7, <1>8, <1>9, WorkInv DEF req

LEMMA ChargeInv ==
  ASSUME IInv, BlobsAssumption, NEW r \in Requests, Charge(r)
  PROVE  IInv'
  <1> DEFINE req == requests[r]
  <1>1. req \in Request /\ Shape(req) /\ req.at = "charge" /\ TypeOK
    BY DEF Charge, IInv, TypeOK
  <1>2. /\ payer' = [payer EXCEPT ![req.hash] = Charged(req.hash, req.user)]
        /\ UNCHANGED <<clock, claims, files, disturbed>>
    BY DEF Charge
  <1>3. req.what \in {"upload", "nip96 upload"} /\ req.user \in Users /\ req.hash \in Hashes /\ req.ext \in Exts
    BY <1>1 DEF Shape
  <1>4. payer' \in [Hashes -> Users \cup {Nobody}]
    BY <1>1, <1>2, <1>3 DEF TypeOK, Charged
  <1>5. \A k \in Hashes \ {req.hash} : ClaimsOn(k)' = ClaimsOn(k) /\ payer'[k] = payer[k] /\ files'[k] = files[k]
    BY <1>1, <1>2 DEF ClaimsOn, TypeOK
  <1>6. ASSUME NEW k \in Hashes, req.hash = k, SoundWith(req, k)
        PROVE  /\ ClaimsOn(k)' = ClaimsOn(k)
               /\ (\A c, d \in ClaimsOn(k) : c.owner = d.owner => c = d)'
               /\ (\A x, y \in files[k] : x = y)'
               /\ payer'[k] # Nobody => OwnedBy(payer[k], k)'
               /\ ClaimsOn(k)' # {}
               /\ OwnedBy(req.user, k)
    <2>1. ClaimsOn(k)' = ClaimsOn(k)
      BY <1>2 DEF ClaimsOn
    <2>2. OwnedBy(req.user, k) /\ ClaimsOn(k) # {}
      BY <1>1, <1>6 DEF SoundWith, Knows, OwnedBy, ClaimsOf
    <2>3. payer[k] # Nobody => OwnedBy(payer[k], k)
      BY <1>1, <1>6 DEF SoundWith, Refunding
    <2>4. payer'[k] = payer[k] \/ payer'[k] = req.user
      BY <1>1, <1>2, <1>6 DEF TypeOK, Charged
    <2>5. payer'[k] # Nobody => OwnedBy(payer[k], k)'
      BY <2>1, <2>2, <2>3, <2>4 DEF OwnedBy, ClaimsOf
    <2> QED BY <1>2, <1>6, <2>1, <2>2, <2>5 DEF SoundWith
  <1>7. CASE req.what = "upload"
    <2>1. Go(r, "write")
      BY <1>7 DEF Charge
    <2>2. /\ requests' \in [Requests -> Request]
          /\ \A q \in Requests \ {r} : requests'[q] = requests[q]
          /\ InHand(requests'[r]) \subseteq InHand(requests[r])
          /\ requests'[r].at = "write"
          /\ requests'[r].what = req.what /\ requests'[r].user = req.user
          /\ requests'[r].hash = req.hash /\ requests'[r].ext = req.ext
          /\ requests'[r].todo = req.todo
      BY <1>1, <2>1, GoFacts
    <2>3. TypeOK' /\ Shape(requests[r])'
      <3>1. TypeOK'
        BY <1>1, <1>2, <1>4, <2>2 DEF TypeOK
      <3>2. Shape(requests[r])'
        BY <1>1, <1>3, <2>2 DEF Shape
      <3> QED BY <3>1, <3>2
    <2>4. ASSUME NEW k \in Hashes, req.hash = k, SoundWith(req, k)
          PROVE  SoundWith(AtWork(requests[r], k), k)'
      <3>1. AtWork(requests[r], k)' = requests'[r]
        BY <2>2, <2>4 DEF AtWork
      <3>2. Knows(requests[r], k)'
        BY <2>2, <2>4, <1>6 DEF Knows, OwnedBy, ClaimsOf
      <3> QED BY <3>1, <3>2, <2>4, <1>6 DEF SoundWith, AtWork
    <2> HIDE DEF req
    <2> QED BY <1>1, <1>2, <1>5, <2>2, <2>3, <2>4, WorkInv DEF req
  <1>8. CASE req.what # "upload"
    <2>1. Done(r)
      BY <1>8 DEF Charge
    <2>2. TypeOK'
      BY <1>1, <1>2, <1>4, <2>1, DoneFacts DEF TypeOK
    <2>4. ASSUME NEW k \in Hashes, req.hash = k, SoundWith(req, k)
          PROVE  SoundWith(AtWork(requests[r], k), k)'
      BY <1>1, <2>1, <2>4, <1>6, DoneFacts, DoneSound
    <2> HIDE DEF req
    <2> QED BY <1>1, <1>2, <1>5, <2>1, <2>2, <2>4, DoneFacts, WorkInv DEF req
  <1> QED BY <1>7, <1>8

LEMMA WriteFailsInv ==
  ASSUME IInv, BlobsAssumption, NEW r \in Requests, WriteFails(r)
  PROVE  IInv'
  <1> DEFINE req == requests[r]
  <1>1. req \in Request /\ Shape(req) /\ req.at = "write" /\ TypeOK
    BY DEF WriteFails, IInv, TypeOK
  <1>2. Done(r) /\ UNCHANGED <<clock, claims, payer, files, disturbed>>
    BY DEF WriteFails
  <1>3. TypeOK'
    BY <1>1, <1>2, DoneFacts DEF TypeOK
  <1>4. \A k \in Hashes : ClaimsOn(k)' = ClaimsOn(k) /\ payer'[k] = payer[k] /\ files'[k] = files[k]
    BY <1>2 DEF ClaimsOn
  <1>5. ASSUME NEW k \in Hashes, req.hash = k, SoundWith(req, k)
        PROVE  SoundWith(AtWork(requests[r], k), k)'
    <2>1. ~Refunding(req) /\ ~Settling(req)
      <3>1. ~Refunding(req)
        BY <1>1 DEF Refunding
      <3>2. ~Settling(req)
        BY <1>1 DEF Settling, Shape
      <3> QED BY <3>1, <3>2
    <2>2. payer'[k] # Nobody => OwnedBy(payer[k], k)'
      BY <2>1, <1>4, <1>5 DEF SoundWith, OwnedBy, ClaimsOf
    <2>3. files'[k] # {} => ClaimsOn(k)' # {}
      BY <2>1, <1>4, <1>5 DEF SoundWith
    <2>4. (\A c, d \in ClaimsOn(k) : c.owner = d.owner => c = d)' /\ (\A x, y \in files[k] : x = y)'
      BY <1>4, <1>5 DEF SoundWith
    <2> QED BY <1>1, <1>2, <2>2, <2>3, <2>4, DoneFacts, DoneSound
  <1> HIDE DEF req
  <1> QED BY <1>1, <1>2, <1>3, <1>4, <1>5, DoneFacts, WorkInv DEF req

LEMMA CheckOwnedInv ==
  ASSUME IInv, BlobsAssumption, NEW r \in Requests, CheckOwned(r)
  PROVE  IInv'
  <1> DEFINE req == requests[r]
  <1>1. req \in Request /\ Shape(req) /\ req.at = "owned" /\ TypeOK
    BY DEF CheckOwned, IInv, TypeOK
  <1>2. /\ requests' = [requests EXCEPT ![r].owned = OwnedBy(req.user, req.hash), ![r].at = "unindex"]
        /\ UNCHANGED <<clock, claims, payer, files, disturbed>>
    BY DEF CheckOwned
  <1>3. /\ requests'[r] = [req EXCEPT !.owned = OwnedBy(req.user, req.hash), !.at = "unindex"]
        /\ \A q \in Requests \ {r} : requests'[q] = requests[q]
    BY <1>1, <1>2 DEF TypeOK
  <1>4. requests'[r] \in Request
    BY <1>1, <1>3 DEF Request, OwnedBy
  <1>5. /\ requests'[r].at = "unindex" /\ requests'[r].owned = OwnedBy(req.user, req.hash)
        /\ requests'[r].what = req.what /\ requests'[r].user = req.user
        /\ requests'[r].hash = req.hash /\ requests'[r].ext = req.ext
        /\ requests'[r].todo = req.todo
    BY <1>1, <1>3 DEF Request
  <1>6. TypeOK'
    BY <1>1, <1>2, <1>4 DEF TypeOK
  <1>7. Shape(requests[r])' /\ InHand(requests'[r]) \subseteq InHand(requests[r])
    <2>1. Shape(requests[r])'
      BY <1>1, <1>5 DEF Shape
    <2> QED BY <2>1, <1>5 DEF InHand
  <1>8. \A k \in Hashes : ClaimsOn(k)' = ClaimsOn(k) /\ payer'[k] = payer[k] /\ files'[k] = files[k]
    BY <1>2 DEF ClaimsOn
  <1>9. ASSUME NEW k \in Hashes, req.hash = k, SoundWith(req, k)
        PROVE  SoundWith(AtWork(requests[r], k), k)'
    <2>1. ~Refunding(req) /\ ~Settling(req)
      <3>1. ~Refunding(req)
        BY <1>1 DEF Refunding
      <3>2. ~Settling(req)
        BY <1>1 DEF Settling, Shape
      <3> QED BY <3>1, <3>2
    <2>2. Knows(requests[r], k)'
      <3>1. req.what = "nip96 delete" => files[k] = {}
        BY <1>1, <1>9 DEF SoundWith, Knows
      <3>2. requests'[r].owned <=> OwnedBy(requests[r].user, k)'
        <4>1. requests'[r].user = req.user /\ ClaimsOn(k)' = ClaimsOn(req.hash)
          BY <1>5, <1>8, <1>9
        <4>2. ClaimsOf(requests[r].user, k)' = ClaimsOf(req.user, req.hash)
          BY <4>1 DEF ClaimsOf
        <4>3. requests'[r].owned = OwnedBy(req.user, req.hash)
          BY <1>5
        <4> QED BY <4>2, <4>3 DEF OwnedBy
      <3>3. req.what # "purge"
        BY <1>1 DEF Shape
      <3> QED BY <3>1, <3>2, <3>3, <1>5, <1>8 DEF Knows
    <2> QED BY <2>1, <2>2, <1>5, <1>8, <1>9, GoSound
  <1> HIDE DEF req
  <1> QED BY <1>1, <1>2, <1>3, <1>5, <1>6, <1>7, <1>8, <1>9, WorkInv DEF req

\* An owner with one claim loses it, one with none loses nothing.
LEMMA NewestIsOnly ==
  ASSUME TypeOK, BlobsAssumption, NEW u, NEW k \in Hashes,
         \A c, d \in ClaimsOn(k) : c.owner = d.owner => c = d
  PROVE  Newest(ClaimsOf(u, k)) = ClaimsOf(u, k)
  <1>1. \A c \in ClaimsOf(u, k) : c.at \in Nat
    BY DEF ClaimsOf, ClaimsOn, TypeOK, Claim, Time
  <1>2. \A c, d \in ClaimsOf(u, k) : c = d
    BY DEF ClaimsOf
  <1>3. \A c, d \in ClaimsOf(u, k) : d.at <= c.at
    BY <1>1, <1>2
  <1> QED BY <1>3 DEF Newest

\* What a handler leaves of a file when it drops a user's claims.
LEMMA Dropped ==
  ASSUME TypeOK, NEW u, NEW h, claims' = claims \ Newest(ClaimsOf(u, h))
  PROVE  /\ claims' \in SUBSET Claim
         /\ ClaimsOn(h)' = ClaimsOn(h) \ Newest(ClaimsOf(u, h))
         /\ \A k \in Hashes \ {h} : ClaimsOn(k)' = ClaimsOn(k)
  <1>1. \A c \in Newest(ClaimsOf(u, h)) : c.hash = h
    BY DEF Newest, ClaimsOf, ClaimsOn
  <1> QED BY <1>1 DEF ClaimsOn, TypeOK

LEMMA DropClaimInv ==
  ASSUME IInv, BlobsAssumption, NEW r \in Requests, DropClaim(r)
  PROVE  IInv'
  <1> DEFINE req == requests[r]
  <1>1. req \in Request /\ Shape(req) /\ req.at = "unindex" /\ req.what # "purge" /\ TypeOK
    BY DEF DropClaim, IInv, TypeOK
  <1>2. /\ claims' = claims \ Newest(ClaimsOf(req.user, req.hash))
        /\ UNCHANGED <<clock, payer, files, disturbed>>
    BY DEF DropClaim
  <1>3. /\ req.what \in {"delete", "nip96 delete", "forget"}
        /\ req.hash \in Hashes /\ req.user \in Users
    BY <1>1 DEF Shape
  <1>4. \/ req.owned /\ Go(r, "refund")
        \/ ~req.owned /\ req.what = "nip96 delete" /\ Done(r)
        \/ ~req.owned /\ req.what # "nip96 delete" /\ Go(r, "shared")
    BY DEF DropClaim, AfterIndex
  <1>5. \A k \in Hashes \ {req.hash} : ClaimsOn(k)' = ClaimsOn(k) /\ payer'[k] = payer[k] /\ files'[k] = files[k]
    BY <1>1, <1>2, Dropped
  <1>6. ASSUME NEW k \in Hashes, req.hash = k, SoundWith(req, k)
        PROVE  /\ ClaimsOn(k)' = ClaimsOn(k) \ ClaimsOf(req.user, k)
               /\ (\A c, d \in ClaimsOn(k) : c.owner = d.owner => c = d)'
               /\ (\A x, y \in files[k] : x = y)'
               /\ req.owned <=> OwnedBy(req.user, k)
               /\ payer[k] # Nobody => OwnedBy(payer[k], k)
               /\ req.what = "nip96 delete" => files[k] = {}
               /\ ~req.owned => ClaimsOn(k)' = ClaimsOn(k)
    <2>1. ClaimsOn(k)' = ClaimsOn(k) \ ClaimsOf(req.user, k)
      <3>1. Newest(ClaimsOf(req.user, k)) = ClaimsOf(req.user, k)
        BY <1>1, <1>6, NewestIsOnly DEF SoundWith
      <3> QED BY <3>1, <1>1, <1>2, <1>6, Dropped
    <2>2. (\A c, d \in ClaimsOn(k) : c.owner = d.owner => c = d)'
      BY <2>1, <1>6 DEF SoundWith
    <2>3. (\A x, y \in files[k] : x = y)'
      BY <1>2, <1>6 DEF SoundWith
    <2>4. (req.owned <=> OwnedBy(req.user, k)) /\ (req.what = "nip96 delete" => files[k] = {})
      BY <1>1, <1>6 DEF SoundWith, Knows
    <2>5. payer[k] # Nobody => OwnedBy(payer[k], k)
      BY <1>1, <1>6 DEF SoundWith, Refunding
    <2>6. ASSUME ~req.owned PROVE ClaimsOn(k)' = ClaimsOn(k)
      <3>1. ClaimsOf(req.user, k) = {}
        BY <2>4, <2>6 DEF OwnedBy
      <3>2. \A S : S \ {} = S
        OBVIOUS
      <3> QED BY <2>1, <3>1, <3>2
    <2> QED BY <2>1, <2>2, <2>3, <2>4, <2>5, <2>6
  <1>7. ASSUME NEW place \in {"refund", "shared"}, Go(r, place),
               place = "shared" => ~req.owned /\ req.what # "nip96 delete"
        PROVE  IInv'
    <2>1. /\ requests' \in [Requests -> Request]
          /\ \A q \in Requests \ {r} : requests'[q] = requests[q]
          /\ InHand(requests'[r]) \subseteq InHand(requests[r])
          /\ requests'[r].at = place
          /\ requests'[r].what = req.what /\ requests'[r].user = req.user
          /\ requests'[r].hash = req.hash /\ requests'[r].ext = req.ext
          /\ requests'[r].todo = req.todo
      BY <1>1, <1>7, GoFacts
    <2>2. TypeOK'
      BY <1>1, <1>2, <2>1, Dropped DEF TypeOK
    <2>3. Shape(requests[r])'
      BY <1>1, <1>3, <1>7, <2>1 DEF Shape
    <2>4. ASSUME NEW k \in Hashes, req.hash = k, SoundWith(req, k)
          PROVE  SoundWith(AtWork(requests[r], k), k)'
      <3>1. AtWork(requests[r], k)' = requests'[r]
        BY <2>1, <2>4 DEF AtWork
      <3>2. Knows(requests[r], k)'
        BY <1>2, <1>3, <2>1, <2>4, <1>6 DEF Knows
      <3>3. (payer[k] # Nobody /\ ~OwnedBy(payer[k], k) => Refunding(requests[r]))'
        <4>1. CASE place = "refund"
          BY <4>1, <2>1 DEF Refunding
        <4>2. CASE place = "shared"
          <5>1. ClaimsOn(k)' = ClaimsOn(k)
            BY <4>2, <1>7, <1>6, <2>4
          <5>2. payer[k] # Nobody => OwnedBy(payer[k], k)
            BY <1>6, <2>4
          <5> QED BY <5>1, <5>2, <1>2 DEF OwnedBy, ClaimsOf
        <4> QED BY <4>1, <4>2, <1>7
      <3>4. (files[k] # {} /\ ClaimsOn(k) = {} => Settling(requests[r]))'
        <4>1. CASE req.what = "nip96 delete"
          BY <4>1, <1>2, <1>6, <2>4
        <4>2. CASE req.what # "nip96 delete"
          BY <4>2, <1>3, <1>7, <2>1 DEF Settling
        <4> QED BY <4>1, <4>2
      <3>5. (\A c, d \in ClaimsOn(k) : c.owner = d.owner => c = d)' /\ (\A x, y \in files[k] : x = y)'
        BY <2>4, <1>6
      <3> QED BY <3>1, <3>2, <3>3, <3>4, <3>5 DEF SoundWith, AtWork
    <2> HIDE DEF req
    <2> QED BY <1>1, <1>2, <1>5, <2>1, <2>2, <2>3, <2>4, WorkInv DEF req
  <1>8. ASSUME ~req.owned, req.what = "nip96 delete", Done(r)
        PROVE  IInv'
    <2>1. TypeOK'
      BY <1>1, <1>2, <1>8, Dropped, DoneFacts DEF TypeOK
    <2>2. ASSUME NEW k \in Hashes, req.hash = k, SoundWith(req, k)
          PROVE  SoundWith(AtWork(requests[r], k), k)'
      <3>2. ClaimsOn(k)' = ClaimsOn(k)
        BY <1>8, <1>6, <2>2
      <3>3. payer'[k] # Nobody => OwnedBy(payer[k], k)'
        <4>1. payer[k] # Nobody => OwnedBy(payer[k], k)
          BY <1>6, <2>2
        <4> QED BY <4>1, <3>2, <1>2 DEF OwnedBy, ClaimsOf
      <3>4. files'[k] = {}
        BY <1>2, <1>6, <1>8, <2>2
      <3>5. requests'[r] = Idle
        BY <1>1, <1>8, DoneFacts
      <3> QED BY <3>3, <3>4, <3>5, <1>6, <2>2, DoneSound
    <2> HIDE DEF req
    <2> QED BY <1>1, <1>2, <1>5, <1>8, <2>1, <2>2, DoneFacts, WorkInv DEF req
  <1> QED BY <1>4, <1>7, <1>8

LEMMA PurgeClaimInv ==
  ASSUME IInv, BlobsAssumption, NEW r \in Requests, PurgeClaim(r)
  PROVE  IInv'
  <1> DEFINE req == requests[r]
  <1>1. req \in Request /\ Shape(req) /\ req.at = "unindex" /\ req.what = "purge" /\ TypeOK
    BY DEF PurgeClaim, IInv, TypeOK
  <1>2. req.hash \in Hashes
    BY <1>1 DEF Shape
  <1>3. PICK c \in req.todo :
           /\ claims' = claims \ Newest(ClaimsOf(c.owner, req.hash))
           /\ requests' = [requests EXCEPT ![r].todo = @ \ {c},
                              ![r].at = IF req.todo = {c} THEN "refund" ELSE "unindex"]
    BY DEF PurgeClaim
  <1>4. UNCHANGED <<clock, payer, files, disturbed>>
    BY DEF PurgeClaim
  <1>5. /\ requests'[r] = [req EXCEPT !.todo = req.todo \ {c},
                              !.at = IF req.todo = {c} THEN "refund" ELSE "unindex"]
        /\ \A q \in Requests \ {r} : requests'[q] = requests[q]
    BY <1>1, <1>3 DEF TypeOK
  <1>6. /\ requests'[r].todo = req.todo \ {c}
        /\ requests'[r].what = "purge" /\ requests'[r].hash = req.hash
        /\ \/ requests'[r].at = "refund" /\ req.todo = {c}
           \/ requests'[r].at = "unindex"
    BY <1>1, <1>5 DEF Request
  <1>7. requests'[r] \in Request
    BY <1>1, <1>5 DEF Request
  <1>8. TypeOK'
    <2>1. claims' \in SUBSET Claim
      BY <1>1, <1>3 DEF TypeOK
    <2>2. requests' \in [Requests -> Request]
      BY <1>1, <1>3, <1>7 DEF TypeOK
    <2> QED BY <2>1, <2>2, <1>1, <1>4 DEF TypeOK
  <1>9. Shape(requests[r])' /\ InHand(requests'[r]) \subseteq InHand(requests[r])
    BY <1>1, <1>6 DEF Shape, InHand
  <1>10. \A k \in Hashes \ {req.hash} : ClaimsOn(k)' = ClaimsOn(k) /\ payer'[k] = payer[k] /\ files'[k] = files[k]
    BY <1>1, <1>3, <1>4, Dropped
  <1>11. ASSUME NEW k \in Hashes, req.hash = k, SoundWith(req, k)
         PROVE  SoundWith(AtWork(requests[r], k), k)'
    <2>1. req.todo = ClaimsOn(k) /\ \A d, e \in ClaimsOn(k) : d.owner = e.owner => d = e
      BY <1>1, <1>11 DEF SoundWith, Knows
    <2>2. ClaimsOf(c.owner, k) = {c}
      BY <2>1, <1>3 DEF ClaimsOf
    <2>3. Newest(ClaimsOf(c.owner, k)) = {c}
      BY <2>1, <2>2, <1>1, NewestIsOnly
    <2>4. ClaimsOn(k)' = req.todo \ {c}
      BY <2>1, <2>3, <1>1, <1>3, <1>11, Dropped
    <2>5. AtWork(requests[r], k)' = requests'[r]
      BY <1>6, <1>11 DEF AtWork
    <2>6. Knows(requests[r], k)'
      <3>1. requests'[r].todo = ClaimsOn(k)'
        BY <2>4, <1>6
      <3>2. requests'[r].at = "refund" => ClaimsOn(k)' = {}
        BY <2>4, <1>6
      <3> QED BY <3>1, <3>2, <1>6 DEF Knows
    <2>7. Refunding(requests[r])' /\ Settling(requests[r])'
      <3>1. Refunding(requests[r])'
        BY <1>6 DEF Refunding
      <3>2. Settling(requests[r])'
        BY <1>6 DEF Settling
      <3> QED BY <3>1, <3>2
    <2>8. (\A d, e \in ClaimsOn(k) : d.owner = e.owner => d = e)' /\ (\A x, y \in files[k] : x = y)'
      <3>1. (\A d, e \in ClaimsOn(k) : d.owner = e.owner => d = e)'
        BY <2>1, <2>4
      <3> QED BY <3>1, <1>4, <1>11 DEF SoundWith
    <2> QED BY <2>5, <2>6, <2>7, <2>8 DEF SoundWith, AtWork
  <1> HIDE DEF req
  <1> QED BY <1>1, <1>4, <1>5, <1>6, <1>8, <1>9, <1>10, <1>11, WorkInv DEF req

LEMMA RefundInv ==
  ASSUME IInv, BlobsAssumption, NEW r \in Requests, Refund(r)
  PROVE  IInv'
  <1> DEFINE req == requests[r]
  <1>1. req \in Request /\ Shape(req) /\ req.at = "refund" /\ TypeOK
    BY DEF Refund, IInv, TypeOK
  <1>2. payer' = [payer EXCEPT ![req.hash] = Nobody] /\ UNCHANGED <<clock, claims, files, disturbed>>
    BY DEF Refund, Refunded
  <1>3. req.what \in {"delete", "nip96 delete", "purge", "forget"} /\ req.hash \in Hashes
    BY <1>1 DEF Shape
  <1>4. \/ req.what = "purge" /\ Go(r, "remove")
        \/ req.what = "nip96 delete" /\ Done(r)
        \/ req.what \in {"delete", "forget"} /\ Go(r, "shared")
    BY <1>3 DEF Refund, AfterIndex
  <1>5. \A k \in Hashes \ {req.hash} : ClaimsOn(k)' = ClaimsOn(k) /\ payer'[k] = payer[k] /\ files'[k] = files[k]
    BY <1>1, <1>2 DEF ClaimsOn, TypeOK
  <1>6. payer' \in [Hashes -> Users \cup {Nobody}]
    BY <1>1, <1>2 DEF TypeOK
  <1>7. ASSUME NEW k \in Hashes, req.hash = k, SoundWith(req, k)
        PROVE  /\ payer'[k] = Nobody /\ ClaimsOn(k)' = ClaimsOn(k) /\ files'[k] = files[k]
               /\ (\A c, d \in ClaimsOn(k) : c.owner = d.owner => c = d)'
               /\ (\A x, y \in files[k] : x = y)'
               /\ req.what = "purge" => ClaimsOn(k) = {}
               /\ req.what = "nip96 delete" => files[k] = {}
    <2>1. ClaimsOn(k)' = ClaimsOn(k) /\ files'[k] = files[k]
      BY <1>2 DEF ClaimsOn
    <2>2. payer'[k] = Nobody
      BY <1>1, <1>2, <1>7 DEF TypeOK
    <2>3. /\ req.what = "purge" => ClaimsOn(k) = {}
          /\ req.what = "nip96 delete" => files[k] = {}
      BY <1>1, <1>7 DEF SoundWith, Knows
    <2>4. (\A c, d \in ClaimsOn(k) : c.owner = d.owner => c = d)'
      BY <2>1, <1>7 DEF SoundWith
    <2>5. (\A x, y \in files[k] : x = y)'
      BY <2>1, <1>7 DEF SoundWith
    <2> QED BY <2>1, <2>2, <2>3, <2>4, <2>5
  <1>8. ASSUME NEW place \in {"remove", "shared"}, Go(r, place),
               place = "remove" => req.what = "purge",
               place = "shared" => req.what \in {"delete", "forget"}
        PROVE  IInv'
    <2>1. /\ requests' \in [Requests -> Request]
          /\ \A q \in Requests \ {r} : requests'[q] = requests[q]
          /\ InHand(requests'[r]) \subseteq InHand(requests[r])
          /\ requests'[r].at = place
          /\ requests'[r].what = req.what /\ requests'[r].user = req.user
          /\ requests'[r].hash = req.hash /\ requests'[r].todo = req.todo
      BY <1>1, <1>8, GoFacts
    <2>2. TypeOK'
      BY <1>1, <1>2, <1>6, <2>1 DEF TypeOK
    <2>3. Shape(requests[r])'
      BY <1>1, <1>3, <1>8, <2>1 DEF Shape
    <2>4. ASSUME NEW k \in Hashes, req.hash = k, SoundWith(req, k)
          PROVE  SoundWith(AtWork(requests[r], k), k)'
      <3>1. AtWork(requests[r], k)' = requests'[r]
        BY <2>1, <2>4 DEF AtWork
      <3>2. Knows(requests[r], k)'
        <4>1. (req.what = "purge" => ClaimsOn(k)' = {}) /\ (req.what = "purge" \/ place = "shared")
          BY <1>7, <1>8, <2>4
        <4> QED BY <4>1, <1>8, <2>1 DEF Knows
      <3>3. Settling(requests[r])'
        BY <1>8, <2>1 DEF Settling
      <3>4. payer'[k] = Nobody
        BY <1>7, <2>4
      <3>5. (\A c, d \in ClaimsOn(k) : c.owner = d.owner => c = d)' /\ (\A x, y \in files[k] : x = y)'
        BY <1>7, <2>4
      <3> QED BY <3>1, <3>2, <3>3, <3>4, <3>5 DEF SoundWith, AtWork
    <2> HIDE DEF req
    <2> QED BY <1>1, <1>2, <1>5, <2>1, <2>2, <2>3, <2>4, WorkInv DEF req
  <1>9. ASSUME req.what = "nip96 delete", Done(r) PROVE IInv'
    <2>1. TypeOK'
      BY <1>1, <1>2, <1>6, <1>9, DoneFacts DEF TypeOK
    <2>2. ASSUME NEW k \in Hashes, req.hash = k, SoundWith(req, k)
          PROVE  SoundWith(AtWork(requests[r], k), k)'
      <3>1. payer'[k] = Nobody /\ files'[k] = {}
        BY <1>7, <1>9, <2>2
      <3>2. requests'[r] = Idle
        BY <1>1, <1>9, DoneFacts
      <3>3. (\A c, d \in ClaimsOn(k) : c.owner = d.owner => c = d)' /\ (\A x, y \in files[k] : x = y)'
        BY <1>7, <2>2
      <3> QED BY <3>1, <3>2, <3>3, DoneSound
    <2> HIDE DEF req
    <2> QED BY <1>1, <1>2, <1>5, <1>9, <2>1, <2>2, DoneFacts, WorkInv DEF req
  <1> QED BY <1>4, <1>8, <1>9

LEMMA CheckSharedInv ==
  ASSUME IInv, BlobsAssumption, NEW r \in Requests, CheckShared(r)
  PROVE  IInv'
  <1> DEFINE req == requests[r]
  <1>1. req \in Request /\ Shape(req) /\ req.at = "shared" /\ TypeOK
    BY DEF CheckShared, IInv, TypeOK
  <1>2. UNCHANGED <<clock, claims, payer, files, disturbed>>
    BY DEF CheckShared
  <1>3. req.what \in {"delete", "forget"} /\ req.hash \in Hashes
    BY <1>1 DEF Shape
  <1>4. \A k \in Hashes : ClaimsOn(k)' = ClaimsOn(k) /\ payer'[k] = payer[k] /\ files'[k] = files[k]
    BY <1>2 DEF ClaimsOn
  <1>5. \/ ClaimsOn(req.hash) # {} /\ req.what = "forget" /\ Go(r, "next")
        \/ ClaimsOn(req.hash) # {} /\ req.what = "delete" /\ Done(r)
        \/ ClaimsOn(req.hash) = {} /\ Go(r, "remove")
    BY <1>3 DEF CheckShared, Shared, Owners, AfterFile
  <1>6. ASSUME NEW k \in Hashes, req.hash = k, SoundWith(req, k)
        PROVE  /\ (\A c, d \in ClaimsOn(k) : c.owner = d.owner => c = d)'
               /\ (\A x, y \in files[k] : x = y)'
               /\ payer'[k] # Nobody => OwnedBy(payer[k], k)'
    <2>1. payer[k] # Nobody => OwnedBy(payer[k], k)
      BY <1>1, <1>6 DEF SoundWith, Refunding
    <2>2. payer'[k] # Nobody => OwnedBy(payer[k], k)'
      BY <2>1, <1>4 DEF OwnedBy, ClaimsOf
    <2>3. (\A c, d \in ClaimsOn(k) : c.owner = d.owner => c = d)' /\ (\A x, y \in files[k] : x = y)'
      BY <1>4, <1>6 DEF SoundWith
    <2> QED BY <2>2, <2>3
  <1>7. ASSUME NEW place \in {"next", "remove"}, Go(r, place),
               place = "next" => req.what = "forget" /\ ClaimsOn(req.hash) # {},
               place = "remove" => ClaimsOn(req.hash) = {}
        PROVE  IInv'
    <2>1. /\ requests' \in [Requests -> Request]
          /\ \A q \in Requests \ {r} : requests'[q] = requests[q]
          /\ InHand(requests'[r]) \subseteq InHand(requests[r])
          /\ requests'[r].at = place
          /\ requests'[r].what = req.what /\ requests'[r].user = req.user
          /\ requests'[r].hash = req.hash /\ requests'[r].todo = req.todo
      BY <1>1, <1>7, GoFacts
    <2>2. TypeOK'
      BY <1>1, <1>2, <2>1 DEF TypeOK
    <2>3. Shape(requests[r])'
      BY <1>1, <1>3, <1>7, <2>1 DEF Shape
    <2>4. ASSUME NEW k \in Hashes, req.hash = k, SoundWith(req, k)
          PROVE  SoundWith(AtWork(requests[r], k), k)'
      <3>1. AtWork(requests[r], k)' = requests'[r]
        BY <2>1, <2>4 DEF AtWork
      <3>2. Knows(requests[r], k)'
        BY <1>3, <1>4, <1>7, <2>1, <2>4 DEF Knows
      <3>3. ClaimsOn(k)' # {} \/ Settling(requests[r])'
        BY <1>3, <1>4, <1>7, <2>1, <2>4 DEF Settling
      <3> QED BY <3>1, <3>2, <3>3, <2>4, <1>6 DEF SoundWith, AtWork
    <2> HIDE DEF req
    <2> QED BY <1>1, <1>2, <1>4, <2>1, <2>2, <2>3, <2>4, WorkInv DEF req
  <1>8. ASSUME ClaimsOn(req.hash) # {}, Done(r) PROVE IInv'
    <2>1. TypeOK'
      BY <1>1, <1>2, <1>8, DoneFacts DEF TypeOK
    <2>2. ASSUME NEW k \in Hashes, req.hash = k, SoundWith(req, k)
          PROVE  SoundWith(AtWork(requests[r], k), k)'
      <3>1. ClaimsOn(k)' # {} /\ requests'[r] = Idle
        BY <1>1, <1>4, <1>8, <2>2, DoneFacts
      <3> QED BY <3>1, <2>2, <1>6, DoneSound
    <2> HIDE DEF req
    <2> QED BY <1>1, <1>2, <1>4, <1>8, <2>1, <2>2, DoneFacts, WorkInv DEF req
  <1> QED BY <1>5, <1>7, <1>8

LEMMA RemoveInv ==
  ASSUME IInv, BlobsAssumption, NEW r \in Requests, Remove(r)
  PROVE  IInv'
  <1> DEFINE req == requests[r]
  <1>1. req \in Request /\ Shape(req) /\ req.at = "remove" /\ TypeOK
    BY DEF Remove, IInv, TypeOK
  <1>2. UNCHANGED <<clock, claims, payer, disturbed>>
    BY DEF Remove
  <1>3. req.what \in {"delete", "nip96 delete", "purge", "forget"} /\ req.hash \in Hashes
    BY <1>1 DEF Shape
  <1>4. \/ files[req.hash] = {} /\ files' = files
        \/ \E x \in files[req.hash] : files' = [files EXCEPT ![req.hash] = files[req.hash] \ {x}]
    BY DEF Remove
  <1>5. /\ files' \in [Hashes -> SUBSET Exts]
        /\ \A k \in Hashes \ {req.hash} : ClaimsOn(k)' = ClaimsOn(k) /\ payer'[k] = payer[k] /\ files'[k] = files[k]
    <2>1. \A k \in Hashes : ClaimsOn(k)' = ClaimsOn(k) /\ payer'[k] = payer[k]
      BY <1>2 DEF ClaimsOn
    <2>2. files' \in [Hashes -> SUBSET Exts] /\ \A k \in Hashes \ {req.hash} : files'[k] = files[k]
      <3>1. files \in [Hashes -> SUBSET Exts]
        BY <1>1 DEF TypeOK
      <3>2. ASSUME NEW x \in files[req.hash],
                   files' = [files EXCEPT ![req.hash] = files[req.hash] \ {x}]
            PROVE  /\ files' \in [Hashes -> SUBSET Exts]
                   /\ \A k \in Hashes \ {req.hash} : files'[k] = files[k]
        <4>1. files[req.hash] \ {x} \in SUBSET Exts
          BY <1>3, <3>1
        <4> HIDE DEF req
        <4> QED BY <1>3, <3>1, <3>2, <4>1
      <3> QED BY <1>4, <3>1, <3>2
    <2> QED BY <2>1, <2>2
  <1>6. \/ req.what = "nip96 delete" /\ Go(r, "owned")
        \/ req.what = "forget" /\ Go(r, "next")
        \/ req.what \in {"delete", "purge"} /\ Done(r)
    BY <1>3 DEF Remove, AfterRemove, AfterFile
  <1>7. ASSUME NEW k \in Hashes, req.hash = k, SoundWith(req, k)
        PROVE  /\ (\A c, d \in ClaimsOn(k) : c.owner = d.owner => c = d)'
               /\ files'[k] = {}
               /\ payer'[k] # Nobody => OwnedBy(payer[k], k)'
    <2>1. payer[k] # Nobody => OwnedBy(payer[k], k)
      BY <1>1, <1>7 DEF SoundWith, Refunding
    <2>2. payer'[k] # Nobody => OwnedBy(payer[k], k)'
      BY <2>1, <1>2 DEF OwnedBy, ClaimsOf, ClaimsOn
    <2>3. (\A c, d \in ClaimsOn(k) : c.owner = d.owner => c = d)'
      BY <1>2, <1>7 DEF SoundWith, ClaimsOn
    <2>4. files'[k] = {}
      <3>1. \A x, y \in files[k] : x = y
        BY <1>7 DEF SoundWith
      <3> QED BY <3>1, <1>1, <1>4, <1>7 DEF TypeOK
    <2> QED BY <2>2, <2>3, <2>4
  <1>8. ASSUME NEW place \in {"owned", "next"}, Go(r, place),
               place = "owned" => req.what = "nip96 delete",
               place = "next" => req.what = "forget"
        PROVE  IInv'
    <2>1. /\ requests' \in [Requests -> Request]
          /\ \A q \in Requests \ {r} : requests'[q] = requests[q]
          /\ InHand(requests'[r]) \subseteq InHand(requests[r])
          /\ requests'[r].at = place
          /\ requests'[r].what = req.what /\ requests'[r].user = req.user
          /\ requests'[r].hash = req.hash /\ requests'[r].todo = req.todo
      BY <1>1, <1>8, GoFacts
    <2>2. TypeOK'
      BY <1>1, <1>2, <1>5, <2>1 DEF TypeOK
    <2>3. Shape(requests[r])'
      BY <1>1, <1>3, <1>8, <2>1 DEF Shape
    <2>4. ASSUME NEW k \in Hashes, req.hash = k, SoundWith(req, k)
          PROVE  SoundWith(AtWork(requests[r], k), k)'
      <3>1. AtWork(requests[r], k)' = requests'[r]
        BY <2>1, <2>4 DEF AtWork
      <3>2. Knows(requests[r], k)'
        BY <1>7, <1>8, <2>1, <2>4 DEF Knows
      <3> QED BY <3>1, <3>2, <2>4, <1>7 DEF SoundWith, AtWork
    <2> HIDE DEF req
    <2> QED BY <1>1, <1>2, <1>5, <2>1, <2>2, <2>3, <2>4, WorkInv DEF req
  <1>9. ASSUME Done(r) PROVE IInv'
    <2>1. TypeOK'
      BY <1>1, <1>2, <1>5, <1>9, DoneFacts DEF TypeOK
    <2>2. ASSUME NEW k \in Hashes, req.hash = k, SoundWith(req, k)
          PROVE  SoundWith(AtWork(requests[r], k), k)'
      BY <1>1, <1>7, <1>9, <2>2, DoneFacts, DoneSound
    <2> HIDE DEF req
    <2> QED BY <1>1, <1>2, <1>5, <1>9, <2>1, <2>2, DoneFacts, WorkInv DEF req
  <1> QED BY <1>6, <1>8, <1>9

----------------------------------------------------------------------------
\* Steps that disturb a file, or take up another one.

LEMMA WriteInv ==
  ASSUME IInv, BlobsAssumption, NEW r \in Requests, Write(r)
  PROVE  IInv'
  <1> DEFINE req  == requests[r]
             more == IF files[req.hash] \subseteq {req.ext} THEN {} ELSE {req.hash}
  <1>1. req \in Request /\ Shape(req) /\ req.at = "write" /\ TypeOK /\ Exclusive
    BY DEF Write, IInv, TypeOK
  <1>2. /\ files' = [files EXCEPT ![req.hash] = files[req.hash] \cup {req.ext}]
        /\ UNCHANGED <<clock, claims, payer>> /\ Disturbing(more)
    BY DEF Write
  <1>3. req.what \in {"upload", "nip96 upload"} /\ req.hash \in Hashes /\ req.ext \in Exts
    BY <1>1 DEF Shape
  <1>4. \/ req.what = "upload" /\ Done(r)
        \/ req.what = "nip96 upload" /\ Go(r, "look")
    BY <1>3 DEF Write
  <1>5. /\ files' \in [Hashes -> SUBSET Exts]
        /\ \A k \in Hashes \ {req.hash} : files'[k] = files[k]
        /\ files'[req.hash] = files[req.hash] \cup {req.ext}
    BY <1>1, <1>2, <1>3 DEF TypeOK
  <1>6. \A k \in Hashes : ClaimsOn(k)' = ClaimsOn(k) /\ payer'[k] = payer[k]
    BY <1>2 DEF ClaimsOn
  <1>7. /\ requests' \in [Requests -> Request]
        /\ \A q \in Requests \ {r} : requests'[q] = requests[q]
        /\ Shape(requests'[r])
        /\ \/ req.what = "upload" /\ requests'[r] = Idle
           \/ /\ req.what = "nip96 upload" /\ requests'[r].what = "nip96 upload"
              /\ requests'[r].at = "look" /\ requests'[r].hash = req.hash
    <2>1. CASE req.what = "upload" /\ Done(r)
      BY <2>1, <1>1, DoneFacts
    <2>2. CASE req.what = "nip96 upload" /\ Go(r, "look")
      <3>1. requests'[r] = [req EXCEPT !.at = "look"] /\ \A q \in Requests \ {r} : requests'[q] = requests[q]
        BY <2>2, <1>1 DEF Go, TypeOK
      <3>2. requests'[r] \in Request
        BY <3>1, <1>1 DEF Request
      <3>3. /\ requests'[r].at = "look" /\ requests'[r].what = req.what
            /\ requests'[r].user = req.user /\ requests'[r].hash = req.hash
            /\ requests'[r].ext = req.ext /\ requests'[r].todo = req.todo
        BY <3>1, <1>1 DEF Request
      <3>4. Shape(requests'[r])
        BY <3>3, <1>1, <2>2 DEF Shape
      <3>5. requests' \in [Requests -> Request]
        BY <3>2, <2>2, <1>1 DEF Go, TypeOK
      <3> QED BY <2>2, <3>1, <3>3, <3>4, <3>5
    <2> QED BY <1>4, <2>1, <2>2
  <1>8. disturbed' \subseteq Hashes
    BY <1>1, <1>2, <1>3 DEF Disturbing, TypeOK
  <1>9. TypeOK'
    BY <1>1, <1>2, <1>5, <1>7, <1>8 DEF TypeOK
  <1>10. Exclusive' /\ disturbed \subseteq disturbed' /\ more \subseteq disturbed'
    <2>1. Exclusive' /\ disturbed \subseteq disturbed'
      BY <1>2, Disturbed
    <2> QED BY <2>1, <1>2 DEF Disturbing
  <1>11. requests'[r].hash \in {req.hash, NoHash}
    <2>1. Idle.hash = NoHash
      BY DEF Idle
    <2> QED BY <2>1, <1>7
  <1>12. ASSUME NEW k \in Hashes \ disturbed', k = req.hash \/ k = requests'[r].hash,
                SoundWith(AtWork(requests[r], k), k)
         PROVE  SoundWith(AtWork(requests[r], k), k)'
    <2>1. k = req.hash /\ files[k] \subseteq {req.ext} /\ files'[k] = {req.ext}
      <3>1. k = req.hash
        BY <1>11, <1>12 DEF BlobsAssumption
      <3>2. files[k] \subseteq {req.ext}
        BY <3>1, <1>10
      <3> QED BY <3>1, <3>2, <1>5
    <2>2. SoundWith(req, k)
      BY <2>1, <1>12 DEF AtWork
    <2>3. (\A c, d \in ClaimsOn(k) : c.owner = d.owner => c = d)' /\ (\A x, y \in files[k] : x = y)'
      BY <2>1, <2>2, <1>6 DEF SoundWith
    <2>4. payer'[k] # Nobody => OwnedBy(payer[k], k)'
      <3>1. payer[k] # Nobody => OwnedBy(payer[k], k)
        BY <2>2, <1>1 DEF SoundWith, Refunding
      <3> QED BY <3>1, <1>6 DEF OwnedBy, ClaimsOf
    <2>5. CASE req.what = "upload" /\ requests'[r] = Idle
      <3>1. ClaimsOn(k)' # {}
        BY <2>2, <2>5, <1>1, <1>6 DEF SoundWith, Knows, OwnedBy, ClaimsOf
      <3> QED BY <3>1, <2>3, <2>4, <2>5, DoneSound
    <2>6. CASE requests'[r].what = "nip96 upload" /\ requests'[r].at = "look" /\ requests'[r].hash = req.hash
      <3>1. AtWork(requests[r], k)' = requests'[r]
        BY <2>1, <2>6 DEF AtWork
      <3>2. Knows(requests[r], k)'
        BY <2>6 DEF Knows
      <3>3. Settling(requests[r])'
        BY <2>6 DEF Settling
      <3> QED BY <3>1, <3>2, <3>3, <2>3, <2>4 DEF SoundWith, AtWork
    <2> QED BY <1>7, <2>5, <2>6
  <1>13. \A k \in Hashes \ disturbed' : k # req.hash /\ k # requests'[r].hash =>
            ClaimsOn(k)' = ClaimsOn(k) /\ payer'[k] = payer[k] /\ files'[k] = files[k]
    BY <1>5, <1>6
  <1> HIDE DEF req, more
  <1>14. (\A k \in Hashes \ disturbed : Sound(k))'
    BY <1>1, <1>7, <1>10, <1>12, <1>13, StepSound DEF IInv, BlobsAssumption, req
  <1>15. (\A q \in Requests : Shape(requests[q]))'
    BY <1>7 DEF IInv
  <1> QED BY <1>9, <1>10, <1>14, <1>15 DEF IInv

LEMMA RemoveFailsInv ==
  ASSUME IInv, BlobsAssumption, NEW r \in Requests, RemoveFails(r)
  PROVE  IInv'
  <1> DEFINE req == requests[r]
  <1>1. req \in Request /\ Shape(req) /\ req.at = "remove" /\ TypeOK /\ Exclusive
    BY DEF RemoveFails, IInv, TypeOK
  <1>2. Disturbing({req.hash}) /\ UNCHANGED <<clock, claims, payer, files>>
    BY DEF RemoveFails
  <1>3. req.what \in {"delete", "nip96 delete", "purge", "forget"} /\ req.hash \in Hashes
    BY <1>1 DEF Shape
  <1>4. \/ req.what = "nip96 delete" /\ Go(r, "owned")
        \/ req.what = "forget" /\ Go(r, "next")
        \/ Done(r)
    BY <1>3 DEF RemoveFails, AfterRemove, AfterFile
  <1>5. /\ requests' \in [Requests -> Request]
        /\ \A q \in Requests \ {r} : requests'[q] = requests[q]
        /\ Shape(requests'[r]) /\ requests'[r].hash \in {req.hash, NoHash}
    <2>1. CASE Done(r)
      BY <2>1, <1>1, DoneFacts
    <2>2. ASSUME NEW place \in {"owned", "next"}, Go(r, place),
                 place = "owned" => req.what = "nip96 delete",
                 place = "next" => req.what = "forget"
          PROVE  /\ requests' \in [Requests -> Request]
                 /\ \A q \in Requests \ {r} : requests'[q] = requests[q]
                 /\ Shape(requests'[r]) /\ requests'[r].hash \in {req.hash, NoHash}
      <3>1. /\ requests' \in [Requests -> Request]
            /\ \A q \in Requests \ {r} : requests'[q] = requests[q]
            /\ requests'[r].at = place
            /\ requests'[r].what = req.what /\ requests'[r].user = req.user
            /\ requests'[r].hash = req.hash /\ requests'[r].todo = req.todo
        BY <1>1, <2>2, GoFacts
      <3>2. Shape(requests'[r])
        BY <3>1, <2>2, <1>1, <1>3 DEF Shape
      <3> QED BY <3>1, <3>2
    <2> QED BY <1>4, <2>1, <2>2
  <1>6. Exclusive' /\ disturbed \subseteq disturbed' /\ req.hash \in disturbed'
    <2>1. Exclusive' /\ disturbed \subseteq disturbed'
      BY <1>2, Disturbed
    <2> QED BY <2>1, <1>2 DEF Disturbing
  <1>7. TypeOK'
    BY <1>1, <1>2, <1>3, <1>5 DEF Disturbing, TypeOK
  <1>8. \A k \in Hashes : ClaimsOn(k)' = ClaimsOn(k) /\ payer'[k] = payer[k] /\ files'[k] = files[k]
    BY <1>2 DEF ClaimsOn
  <1>9. (\A k \in Hashes \ disturbed : Sound(k))'
    BY <1>1, <1>5, <1>6, <1>8, StepSound DEF IInv, BlobsAssumption
  <1>10. (\A q \in Requests : Shape(requests[q]))'
    BY <1>5 DEF IInv
  <1> QED BY <1>6, <1>7, <1>9, <1>10 DEF IInv

LEMMA ListClaimsInv ==
  ASSUME IInv, BlobsAssumption, NEW r \in Requests, ListClaims(r)
  PROVE  IInv'
  <1> DEFINE req == requests[r]
             owned == {c \in claims : c.owner = req.user}
  <1>1. req \in Request /\ Shape(req) /\ req.at = "list" /\ TypeOK /\ Exclusive
    BY DEF ListClaims, IInv, TypeOK
  <1>2. /\ requests' = [requests EXCEPT ![r].todo = owned, ![r].at = "next"]
        /\ UNCHANGED <<clock, claims, payer, files, disturbed>>
    BY DEF ListClaims
  <1>3. /\ requests'[r] = [req EXCEPT !.todo = owned, !.at = "next"]
        /\ \A q \in Requests \ {r} : requests'[q] = requests[q]
    BY <1>1, <1>2 DEF TypeOK
  <1>4. owned \in SUBSET Claim
    BY <1>1 DEF TypeOK
  <1> HIDE DEF owned
  <1>5. requests'[r] \in Request
    BY <1>1, <1>3, <1>4 DEF Request
  <1>6. /\ requests'[r].at = "next" /\ requests'[r].what = req.what
        /\ requests'[r].user = req.user /\ requests'[r].hash = req.hash
    BY <1>1, <1>3 DEF Request
  <1>7. Shape(requests'[r])
    BY <1>1, <1>6 DEF Shape
  <1>8. Exclusive' /\ disturbed \subseteq disturbed'
    BY <1>1, <1>2, <1>3, <1>6, Undisturbed DEF InHand
  <1>9. TypeOK'
    BY <1>1, <1>2, <1>5 DEF TypeOK
  <1>10. \A k \in Hashes : ClaimsOn(k)' = ClaimsOn(k) /\ payer'[k] = payer[k] /\ files'[k] = files[k]
    BY <1>2 DEF ClaimsOn
  <1>11. ASSUME NEW k \in Hashes, SoundWith(AtWork(requests[r], k), k)
         PROVE  SoundWith(AtWork(requests[r], k), k)'
    <2>1. CASE req.hash # k
      BY <2>1, <1>2, <1>6, <1>11, IdleKnows, SameBooks DEF AtWork
    <2>2. CASE req.hash = k
      <3>1. SoundWith(req, k)
        BY <2>2, <1>11 DEF AtWork
      <3>2. Knows(requests[r], k)'
        BY <1>6 DEF Knows
      <3>3. ~Refunding(req)
        BY <1>1 DEF Refunding
      <3>4. ~Settling(req)
        BY <1>1 DEF Settling, Shape
      <3> QED BY <3>1, <3>2, <3>3, <3>4, <2>2, <1>6, <1>10, GoSound
    <2> QED BY <2>1, <2>2
  <1> HIDE DEF req
  <1>12. (\A k \in Hashes \ disturbed : Sound(k))'
    BY <1>1, <1>3, <1>8, <1>10, <1>11, StepSound DEF IInv, BlobsAssumption
  <1>13. (\A q \in Requests : Shape(requests[q]))'
    BY <1>3, <1>7 DEF IInv
  <1> QED BY <1>8, <1>9, <1>12, <1>13 DEF IInv

LEMMA NextFileInv ==
  ASSUME IInv, BlobsAssumption, NEW r \in Requests, NextFile(r)
  PROVE  IInv'
  <1> DEFINE req == requests[r]
  <1>1. req \in Request /\ Shape(req) /\ req.at = "next" /\ req.what = "forget" /\ TypeOK /\ Exclusive
    <2>1. req \in Request /\ Shape(req) /\ req.at = "next" /\ TypeOK /\ Exclusive
      BY DEF NextFile, IInv, TypeOK
    <2> QED BY <2>1 DEF Shape
  <1>2. Disturbing({}) /\ UNCHANGED <<clock, claims, payer, files>>
    BY DEF NextFile
  <1>3. \A k \in Hashes : ClaimsOn(k)' = ClaimsOn(k) /\ payer'[k] = payer[k] /\ files'[k] = files[k]
    BY <1>2 DEF ClaimsOn
  <1>4. /\ requests'[r] \in Request /\ Shape(requests'[r])
        /\ \A q \in Requests \ {r} : requests'[q] = requests[q]
        /\ requests' \in [Requests -> Request]
        /\ \/ requests'[r] = Idle
           \/ requests'[r].at = "owned" /\ requests'[r].what = "forget"
    <2>1. CASE Done(r)
      BY <2>1, <1>1, DoneFacts, IdleType
    <2>2. ASSUME NEW c \in req.todo,
                 requests' = [requests EXCEPT ![r].todo = @ \ {c}, ![r].hash = c.hash, ![r].at = "owned"]
          PROVE  /\ requests'[r] \in Request /\ Shape(requests'[r])
                 /\ \A q \in Requests \ {r} : requests'[q] = requests[q]
                 /\ requests' \in [Requests -> Request]
                 /\ requests'[r].at = "owned" /\ requests'[r].what = "forget"
      <3>1. /\ requests'[r] = [req EXCEPT !.todo = req.todo \ {c}, !.hash = c.hash, !.at = "owned"]
            /\ \A q \in Requests \ {r} : requests'[q] = requests[q]
        BY <2>2, <1>1 DEF TypeOK
      <3>2. c.hash \in Hashes
        BY <1>1 DEF Request, Claim
      <3>3. requests'[r] \in Request
        BY <3>1, <3>2, <1>1 DEF Request
      <3>4. /\ requests'[r].at = "owned" /\ requests'[r].what = "forget"
            /\ requests'[r].user = req.user /\ requests'[r].hash = c.hash
            /\ requests'[r].todo = req.todo \ {c}
        BY <3>1, <1>1 DEF Request
      <3>5. Shape(requests'[r])
        BY <3>2, <3>4, <1>1 DEF Shape
      <3>7. requests' \in [Requests -> Request]
        BY <2>2, <3>3, <1>1 DEF TypeOK
      <3> QED BY <3>1, <3>3, <3>4, <3>5, <3>7
    <2> QED BY <2>1, <2>2 DEF NextFile
  <1>5. TypeOK'
    BY <1>1, <1>2, <1>4 DEF TypeOK, Disturbing
  <1>6. Exclusive' /\ disturbed \subseteq disturbed'
    BY <1>2, Disturbed
  <1>7. ASSUME NEW k \in Hashes, SoundWith(AtWork(requests[r], k), k)
        PROVE  SoundWith(AtWork(requests[r], k), k)'
    <2>1. /\ \A c, d \in ClaimsOn(k) : c.owner = d.owner => c = d
          /\ \A x, y \in files[k] : x = y
          /\ payer[k] # Nobody => OwnedBy(payer[k], k)
          /\ files[k] # {} => ClaimsOn(k) # {}
      <3>1. ~Refunding(req) /\ ~Refunding(Idle) /\ ~Settling(Idle)
        BY <1>1, IdleKnows DEF Refunding
      <3>2. ~Settling(req)
        BY <1>1 DEF Settling
      <3> QED BY <3>1, <3>2, <1>7 DEF SoundWith, AtWork
    <2>2. /\ (\A c, d \in ClaimsOn(k) : c.owner = d.owner => c = d)'
          /\ (\A x, y \in files[k] : x = y)'
          /\ payer'[k] # Nobody => OwnedBy(payer[k], k)'
          /\ files'[k] # {} => ClaimsOn(k)' # {}
      <3>1. payer'[k] # Nobody => OwnedBy(payer[k], k)'
        BY <2>1, <1>3 DEF OwnedBy, ClaimsOf
      <3> QED BY <3>1, <2>1, <1>3
    <2>3. Knows(requests[r], k)' /\ Knows(Idle, k)'
      <3>1. Knows(Idle, k)'
        BY DEF Knows, Idle
      <3>2. CASE requests'[r] = Idle
        BY <3>1, <3>2 DEF Knows
      <3>3. CASE requests'[r].at = "owned" /\ requests'[r].what = "forget"
        BY <3>1, <3>3 DEF Knows
      <3> QED BY <3>2, <3>3, <1>4
    <2> QED BY <2>2, <2>3 DEF SoundWith, AtWork
  <1> HIDE DEF req
  <1>8. (\A k \in Hashes \ disturbed : Sound(k))'
    BY <1>1, <1>3, <1>4, <1>6, <1>7, StepSound DEF IInv, BlobsAssumption
  <1>9. (\A q \in Requests : Shape(requests[q]))'
    BY <1>4 DEF IInv
  <1> QED BY <1>5, <1>6, <1>8, <1>9 DEF IInv

\* A claim that goes without tearing the books of its file leaves them sound.
LEMMA SparedSound ==
  ASSUME NEW k \in Hashes, NEW gone, Sound(k), ~Torn(k, claims \ gone),
         claims' = claims \ gone, payer'[k] = payer[k], files'[k] = files[k],
         \A q \in Requests : \/ requests'[q] = requests[q]
                             \/ requests[q].hash # k /\ requests'[q].hash # k
  PROVE  Sound(k)'
  <1>1. \A q \in Requests : requests[q].hash # k /\ requests'[q].hash # k
    BY DEF Torn, Held
  <1>2. ClaimsOn(k)' = {c \in claims \ gone : c.hash = k} /\ ClaimsOn(k)' \subseteq ClaimsOn(k)
    BY DEF ClaimsOn
  <1>3. files[k] # {} => ClaimsOn(k)' # {}
    BY <1>2 DEF Torn
  <1>4. payer[k] # Nobody => \E c \in ClaimsOn(k)' : c.owner = payer[k]
    BY <1>2 DEF Torn
  <1>5. payer'[k] # Nobody => OwnedBy(payer[k], k)'
    BY <1>4 DEF OwnedBy, ClaimsOf
  <1>6. /\ (\A c, d \in ClaimsOn(k) : c.owner = d.owner => c = d)'
        /\ (\A x, y \in files[k] : x = y)'
    BY <1>2 DEF Sound
  <1> QED BY <1>1, <1>3, <1>5, <1>6 DEF Sound

LEMMA VanishInv ==
  ASSUME IInv, BlobsAssumption, NEW r \in Requests, NEW u \in Users, NEW cutoff \in Time,
         Vanish(r, u, cutoff)
  PROVE  IInv'
  <1> DEFINE gone == {c \in claims : c.owner = u /\ c.at <= cutoff}
             req  == [Idle EXCEPT !.what = "forget", !.at = "list", !.user = u]
  <1>1. /\ requests[r] = Idle /\ requests' = [requests EXCEPT ![r] = req]
        /\ claims' = claims \ gone
        /\ Disturbing({h \in {c.hash : c \in gone} : Torn(h, claims \ gone)})
        /\ UNCHANGED <<clock, payer, files>>
    BY DEF Vanish
  <1>2. TypeOK /\ Exclusive
    BY DEF IInv
  <1>3. req \in Request /\ Shape(req) /\ req.hash = NoHash
    <2>1. req \in Request
      BY IdleType DEF Request
    <2>2. Shape(req) /\ req.hash = NoHash
      BY DEF Shape, Idle
    <2> QED BY <2>1, <2>2
  <1> HIDE DEF req
  <1>4. /\ requests'[r] = req /\ \A q \in Requests \ {r} : requests'[q] = requests[q]
        /\ requests' \in [Requests -> Request]
    BY <1>1, <1>2, <1>3 DEF TypeOK
  <1> DEFINE torn == {h \in {c.hash : c \in gone} : Torn(h, claims \ gone)}
  <1>5. claims' \in SUBSET Claim /\ gone \subseteq claims /\ torn \subseteq Hashes
    BY <1>1, <1>2 DEF TypeOK, Claim
  <1>6. Exclusive' /\ disturbed \subseteq disturbed' /\ torn \subseteq disturbed'
    <2>1. Exclusive' /\ disturbed \subseteq disturbed'
      BY <1>1, Disturbed
    <2> QED BY <2>1, <1>1 DEF Disturbing
  <1>7. disturbed' \subseteq Hashes
    BY <1>1, <1>2, <1>5 DEF Disturbing, TypeOK
  <1>8. TypeOK'
    BY <1>1, <1>2, <1>4, <1>5, <1>7 DEF TypeOK
  <1>9. ASSUME NEW k \in Hashes, k \notin disturbed' PROVE Sound(k)'
    <2>1. Sound(k)
      BY <1>6, <1>9 DEF IInv
    <2>2. \A q \in Requests : \/ requests'[q] = requests[q]
                              \/ requests[q].hash # k /\ requests'[q].hash # k
      BY <1>1, <1>3, <1>4, <1>9 DEF Idle, BlobsAssumption
    <2>3. payer'[k] = payer[k] /\ files'[k] = files[k]
      BY <1>1
    <2>4. CASE k \in {c.hash : c \in gone}
      <3>1. ~Torn(k, claims \ gone)
        BY <1>6, <1>9, <2>4
      <3> QED BY <1>1, <1>5, <2>1, <2>2, <2>3, <3>1, SparedSound
    <2>5. CASE k \notin {c.hash : c \in gone}
      <3>1. ClaimsOn(k)' = ClaimsOn(k)
        BY <1>1, <2>5 DEF ClaimsOn
      <3> QED BY <2>1, <2>2, <2>3, <3>1, FrameSound
    <2> QED BY <2>4, <2>5
  <1>11. (\A k \in Hashes \ disturbed : Sound(k))'
    BY <1>9
  <1>12. (\A q \in Requests : Shape(requests[q]))'
    BY <1>3, <1>4 DEF IInv
  <1> QED BY <1>6, <1>8, <1>11, <1>12 DEF IInv

LEMMA EraseInv == ASSUME IInv, BlobsAssumption, Erase PROVE IInv'
  <1>1. PICK c \in claims :
           /\ claims' = claims \ {c}
           /\ disturbed' = disturbed \cup {h \in {c.hash} : Torn(h, claims \ {c})}
    BY DEF Erase
  <1>2. UNCHANGED <<clock, payer, files, requests>>
    BY DEF Erase
  <1>3. c.hash \in Hashes /\ claims' \in SUBSET Claim
    BY <1>1 DEF IInv, TypeOK, Claim
  <1>4. TypeOK'
    BY <1>1, <1>2, <1>3 DEF IInv, TypeOK
  <1>5. (\A q \in Requests : Shape(requests[q]))' /\ Exclusive'
    BY <1>1, <1>2 DEF IInv, Exclusive
  <1>6. ASSUME NEW k \in Hashes \ disturbed' PROVE Sound(k)'
    <2>1. Sound(k)
      BY <1>1 DEF IInv
    <2>2. CASE k # c.hash
      <3>1. ClaimsOn(k)' = ClaimsOn(k) /\ payer'[k] = payer[k] /\ files'[k] = files[k]
        BY <1>1, <1>2, <2>2 DEF ClaimsOn
      <3> QED BY <1>2, <2>1, <3>1, FrameSound
    <2>3. CASE k = c.hash
      <3>1. ~Torn(k, claims \ {c})
        BY <1>1, <2>3
      <3> QED BY <1>1, <1>2, <2>1, <3>1, SparedSound
    <2> QED BY <2>2, <2>3
  <1> QED BY <1>4, <1>5, <1>6 DEF IInv

\* A client that goes away: what its handler has in hand is disturbed, and stays in hand or
\* is let go.
LEMMA DisconnectInv ==
  ASSUME IInv, BlobsAssumption, NEW r \in Requests, Disconnect(r)
  PROVE  IInv'
  <1> DEFINE req == requests[r]
             last == [req EXCEPT !.todo = {}]
  <1>1. req \in Request /\ Shape(req) /\ TypeOK /\ Exclusive
    BY DEF IInv, TypeOK
  <1>2. /\ Disturbing({req.hash} \ {NoHash}) /\ UNCHANGED <<clock, claims, payer, files>>
        /\ req.at \in {"look", "index", "owned", "unindex", "shared", "list"}
    BY DEF Disconnect
  <1>3. \/ Done(r)
        \/ \E wrong \in Misled(req) : requests' = [requests EXCEPT ![r] = wrong]
    BY DEF Disconnect
  <1>4. ASSUME NEW wrong \in Misled(req)
        PROVE  wrong \in Request /\ Shape(wrong) /\ wrong.hash = req.hash
    <2>1. \/ req.at \in {"look", "index"} /\ wrong = [req EXCEPT !.at = "charge"]
          \/ req.at = "unindex" /\ wrong = [last EXCEPT !.at = "refund"]
          \/ req.at = "shared" /\ wrong = [last EXCEPT !.at = "remove"]
      BY <1>2, <1>4 DEF Misled
    <2>2. last \in Request /\ last.todo = {}
      BY <1>1 DEF Request
    <2>3. wrong \in Request
      <3>1. \A one \in Request, place \in {"charge", "refund", "remove"} :
               [one EXCEPT !.at = place] \in Request
        BY DEF Request
      <3> HIDE DEF req, last
      <3> QED BY <1>1, <2>1, <2>2, <3>1
    <2>4. /\ wrong.what = req.what /\ wrong.user = req.user /\ wrong.hash = req.hash
          /\ wrong.ext = req.ext /\ wrong.todo \in {req.todo, {}}
          /\ \/ req.at \in {"look", "index"} /\ wrong.at = "charge"
             \/ req.at = "unindex" /\ wrong.at = "refund"
             \/ req.at = "shared" /\ wrong.at = "remove"
      BY <1>1, <2>1 DEF Request
    <2>5. Shape(wrong)
      BY <1>1, <2>4 DEF Shape
    <2> QED BY <2>3, <2>4, <2>5
  <1>5. /\ requests' \in [Requests -> Request]
        /\ \A q \in Requests \ {r} : requests'[q] = requests[q]
        /\ Shape(requests'[r]) /\ requests'[r].hash \in {req.hash, NoHash}
    <2>1. CASE Done(r)
      BY <2>1, <1>1, DoneFacts
    <2>2. CASE \E wrong \in Misled(req) : requests' = [requests EXCEPT ![r] = wrong]
      BY <1>1, <1>4, <2>2 DEF TypeOK
    <2> QED BY <1>3, <2>1, <2>2
  <1>6. Exclusive' /\ disturbed \subseteq disturbed' /\ {req.hash} \ {NoHash} \subseteq disturbed'
    <2>1. Exclusive' /\ disturbed \subseteq disturbed'
      BY <1>2, Disturbed
    <2> QED BY <2>1, <1>2 DEF Disturbing
  <1>7. TypeOK'
    BY <1>1, <1>2, <1>5 DEF Disturbing, TypeOK, Request
  <1>8. \A k \in Hashes : ClaimsOn(k)' = ClaimsOn(k) /\ payer'[k] = payer[k] /\ files'[k] = files[k]
    BY <1>2 DEF ClaimsOn
  <1> HIDE DEF req, last
  <1>9. ASSUME NEW k \in Hashes \ disturbed' PROVE Sound(k)'
    <2>1. Sound(k) /\ k # NoHash /\ req.hash # k
      BY <1>6, <1>9 DEF IInv, BlobsAssumption
    <2>2. requests[r].hash # k /\ requests'[r].hash # k
      BY <1>5, <2>1 DEF req
    <2> QED BY <1>5, <1>8, <2>1, <2>2, FrameSound
  <1>10. (\A q \in Requests : Shape(requests[q]))'
    BY <1>5 DEF IInv
  <1> QED BY <1>6, <1>7, <1>9, <1>10 DEF IInv

LEMMA TickInv == ASSUME IInv, BlobsAssumption, Tick PROVE IInv'
  <1>1. TypeOK'
    BY DEF Tick, IInv, TypeOK, Time, BlobsAssumption
  <1>2. (\A q \in Requests : Shape(requests[q]))' /\ Exclusive'
    BY DEF Tick, IInv, Exclusive
  <1>3. ASSUME NEW k \in Hashes \ disturbed' PROVE Sound(k)'
    <2>1. Sound(k)
      BY DEF Tick, IInv
    <2>2. ClaimsOn(k)' = ClaimsOn(k) /\ payer'[k] = payer[k] /\ files'[k] = files[k] /\ requests' = requests
      BY DEF Tick, ClaimsOn
    <2> QED BY <2>1, <2>2, FrameSound
  <1> QED BY <1>1, <1>2, <1>3 DEF IInv

LEMMA RestartInv == ASSUME IInv, BlobsAssumption, Restart PROVE IInv'
  <1>1. \A q \in Requests : requests'[q] = Idle
    BY DEF Restart
  <1>2. TypeOK'
    BY IdleType DEF Restart, IInv, TypeOK
  <1>3. (\A q \in Requests : Shape(requests[q]))'
    BY <1>1, IdleType
  <1>4. InHand(Idle) = {} /\ Idle.hash = NoHash
    BY DEF InHand, Idle
  <1>5. Exclusive'
    BY <1>1, <1>4 DEF Exclusive
  <1>6. ASSUME NEW k \in Hashes \ disturbed' PROVE Sound(k)'
    <2>1. Sound(k) /\ ~Held(k)
      BY DEF Restart, IInv
    <2>2. ClaimsOn(k)' = ClaimsOn(k) /\ payer'[k] = payer[k] /\ files'[k] = files[k]
      BY DEF Restart, ClaimsOn
    <2>3. \A q \in Requests : requests[q].hash # k
      BY <2>1 DEF Held, InHand, BlobsAssumption
    <2>4. \A q \in Requests : requests'[q].hash # k
      BY <1>1, <1>4 DEF BlobsAssumption
    <2> QED BY <2>1, <2>2, <2>3, <2>4, FrameSound
  <1> QED BY <1>2, <1>3, <1>5, <1>6 DEF IInv

----------------------------------------------------------------------------
(* The theorems.                                                           *)

LEMMA InitInv == ASSUME BlobsAssumption, Init PROVE IInv
  <1>1. TypeOK
    BY IdleType DEF Init, TypeOK, Time, BlobsAssumption
  <1>2. \A q \in Requests : requests[q] = Idle /\ Shape(requests[q])
    BY IdleType DEF Init
  <1>3. InHand(Idle) = {}
    BY DEF InHand, Idle
  <1>4. Exclusive
    BY <1>2, <1>3 DEF Exclusive
  <1>5. \A h \in Hashes : Sound(h)
    <2> SUFFICES ASSUME NEW h \in Hashes PROVE Sound(h)
      OBVIOUS
    <2>1. ClaimsOn(h) = {} /\ files[h] = {} /\ payer[h] = Nobody
      BY DEF Init, ClaimsOn
    <2>2. \A r \in Requests : Knows(requests[r], h)
      BY <1>2, IdleKnows
    <2> QED BY <2>1, <2>2 DEF Sound
  <1> QED BY <1>1, <1>2, <1>4, <1>5 DEF IInv

LEMMA StutterInv == ASSUME IInv, UNCHANGED vars PROVE IInv'
  <1>1. TypeOK'
    BY DEF vars, IInv, TypeOK
  <1>2. (\A q \in Requests : Shape(requests[q]))' /\ Exclusive'
    BY DEF vars, IInv, Exclusive
  <1>3. ASSUME NEW k \in Hashes \ disturbed' PROVE Sound(k)'
    <2>1. Sound(k)
      BY DEF vars, IInv
    <2>2. ClaimsOn(k)' = ClaimsOn(k) /\ payer'[k] = payer[k] /\ files'[k] = files[k] /\ requests' = requests
      BY DEF vars, ClaimsOn
    <2> QED BY <2>1, <2>2, FrameSound
  <1> QED BY <1>1, <1>2, <1>3 DEF IInv

LEMMA NextInv == ASSUME IInv, BlobsAssumption, [Next]_vars PROVE IInv'
  <1>1. CASE UNCHANGED vars
    BY <1>1, StutterInv
  <1>2. CASE Erase \/ Tick \/ Restart
    BY <1>2, EraseInv, TickInv, RestartInv
  <1>3. ASSUME NEW r \in Requests, Starting(r) PROVE IInv'
    BY <1>3, UploadInv, DeleteInv, PurgeInv, VanishInv DEF Starting
  <1>4. ASSUME NEW r \in Requests, Uploading(r) PROVE IInv'
    BY <1>4, LookInv, KeepClaimInv, ChargeInv, WriteInv, WriteFailsInv DEF Uploading
  <1>5. ASSUME NEW r \in Requests, Dropping(r) PROVE IInv'
    BY <1>5, ListClaimsInv, NextFileInv, CheckOwnedInv, DropClaimInv, PurgeClaimInv,
       RefundInv, CheckSharedInv, RemoveInv, RemoveFailsInv DEF Dropping
  <1>6. ASSUME NEW r \in Requests, Disconnect(r) PROVE IInv'
    BY <1>6, DisconnectInv
  <1> QED BY <1>1, <1>2, <1>3, <1>4, <1>5, <1>6 DEF Next

THEOREM Invariance == Spec => []IInv
  <1>1. BlobsAssumption
    BY BlobsAssumption
  <1>2. Init => IInv
    BY <1>1, InitInv
  <1>3. IInv /\ [Next]_vars => IInv'
    BY <1>1, NextInv
  <1> QED BY <1>2, <1>3, PTL DEF Spec

\* Every request, claim and bill has its type.
THEOREM TypeCorrect == Spec => []TypeOK
  <1>1. IInv => TypeOK
    BY DEF IInv
  <1> QED BY <1>1, Invariance, PTL

\* A file nobody is at work on has nobody to settle what its books leave open.
LEMMA Unheld ==
  ASSUME IInv, BlobsAssumption, NEW h \in Hashes \ disturbed, ~Held(h)
  PROVE  /\ payer[h] # Nobody => OwnedBy(payer[h], h)
         /\ files[h] # {} => ClaimsOn(h) # {}
  <1>1. \A r \in Requests : requests[r].hash # h
    BY DEF Held, InHand, BlobsAssumption
  <1>2. Sound(h)
    BY DEF IInv
  <1> QED BY <1>1, <1>2 DEF Sound

\* For any users, files and handlers at once: nobody pays for a file they do not own, unless
\* their last claim on it went as an event, or somebody met there or was cut short.
THEOREM OwnersPay == Spec => []PayersAreOwners
  <1>1. BlobsAssumption
    BY BlobsAssumption
  <1>2. IInv => PayersAreOwners
    BY <1>1, Unheld DEF PayersAreOwners
  <1> QED BY <1>2, Invariance, PTL

\* No bytes are left that nobody claims, with the same exceptions.
THEOREM NoOrphans == Spec => []FilesAreClaimed
  <1>1. BlobsAssumption
    BY BlobsAssumption
  <1>2. IInv => FilesAreClaimed
    BY <1>1, Unheld DEF FilesAreClaimed, Owners
  <1> QED BY <1>2, Invariance, PTL

\* A step takes bytes away only by Remove, which knows that nobody claims them.
LEMMA StepKeepsBytes ==
  ASSUME IInv, BlobsAssumption, [Next]_vars, NEW h \in Hashes \ disturbed,
         files[h] # {}, files'[h] = {}
  PROVE  \/ Owners(h) = {}
         \/ \E r \in Requests : requests[r].hash = h /\ requests[r].what = "nip96 delete"
  <1>1. ASSUME NEW r \in Requests, Remove(r) PROVE requests[r].hash = h
    BY <1>1 DEF Remove, IInv, TypeOK
  <1>2. ASSUME NEW r \in Requests, Remove(r)
        PROVE  Owners(h) = {} \/ requests[r].what = "nip96 delete"
    <2>1. requests[r].hash = h /\ requests[r].at = "remove" /\ Shape(requests[r])
      BY <1>1, <1>2 DEF Remove, IInv
    <2>2. Knows(requests[r], h)
      BY <2>1 DEF IInv, Sound
    <2>3. requests[r].what # "nip96 delete" => ClaimsOn(h) = {}
      BY <2>1, <2>2 DEF Knows, Shape
    <2> QED BY <2>3 DEF Owners
  <1>3. ASSUME NEW r \in Requests, Write(r) PROVE FALSE
    <2>1. requests[r].hash \in Hashes /\ files \in [Hashes -> SUBSET Exts]
      BY <1>3 DEF Write, IInv, Shape, TypeOK
    <2> QED BY <1>3, <2>1 DEF Write
  <1>4. ASSUME NEW r \in Requests, Starting(r) PROVE FALSE
    BY <1>4 DEF Starting, Upload, UploadNIP96, Delete, DeleteNIP96, Purge, Vanish
  <1>5. ASSUME NEW r \in Requests, Uploading(r) PROVE FALSE
    BY <1>3, <1>5 DEF Uploading, Look, KeepClaim, Charge, WriteFails
  <1>6. ASSUME NEW r \in Requests, Dropping(r) PROVE Remove(r)
    BY <1>6 DEF Dropping, ListClaims, NextFile, CheckOwned, DropClaim, PurgeClaim, Refund,
                CheckShared, RemoveFails
  <1>7. ~Erase /\ ~Tick /\ ~Restart /\ ~UNCHANGED vars /\ \A r \in Requests : ~Disconnect(r)
    BY DEF Erase, Tick, Restart, vars, Disconnect
  <1> QED BY <1>1, <1>2, <1>4, <1>5, <1>6, <1>7 DEF Next

\* No handler takes bytes away that somebody claims, but for a NIP-96 DELETE.
THEOREM BytesStay == Spec => ClaimedBytesStay
  <1>1. BlobsAssumption
    BY BlobsAssumption
  <1>2. IInv /\ [Next]_vars =>
          [\A h \in Hashes \ disturbed :
              files[h] # {} /\ files'[h] = {} =>
                 \/ Owners(h) = {}
                 \/ \E r \in Requests : requests[r].hash = h /\ requests[r].what = "nip96 delete"]_vars
    BY <1>1, StepKeepsBytes
  <1> QED BY <1>2, Invariance, PTL DEF Spec, ClaimedBytesStay
===============================================================================
