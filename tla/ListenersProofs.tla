---------------------------- MODULE ListenersProofs ----------------------------
(***************************************************************************)
(* Proofs about Listeners.  While a handler holds the mutex, where it      *)
(* stands says by how much the map and the slice disagree; what a broadcast *)
(* has still to reach lies ahead of it in the array it reads.              *)
(***************************************************************************)
EXTENDS Listeners, SequenceTheorems, FiniteSetTheorems, TLAPS

\* The handler that holds the mutex, and where it stands.
Me    == handlers[holder]
Phase == IF holder = None THEN "free" ELSE Me.at

\* A handler in the middle of the critical section holds the mutex, and nobody else.
LockInv ==
    \A h \in Handlers : handlers[h].at \in {"fill", "walk", "shrink"} <=> holder = h

\* A handler's fields fit where it stands.
Shape(me) ==
    /\ me.at # "idle" => me.ws \in Sockets
    /\ me.at \in {"add", "fill"} => me.id \in Ids /\ me.filters # <<>>
    /\ me.at \in {"fill", "walk", "shrink"} => link[me.ws] = "open"
    /\ me.at \in {"walk", "shrink"} => me.what \in {"close", "kill"}

\* How far a walk has come: a CLOSE leaves nothing of its subscription behind it.
WalkInv ==
    LET specs == clients[Me.ws] IN
    /\ Phase = "walk" /\ Me.what = "kill" => Me.s \in 1 .. Len(specs) + 1
    /\ Phase = "walk" /\ Me.what = "close" =>
          /\ Me.s \in 0 .. Len(specs)
          /\ \A p \in 1 .. Len(specs) : p > Me.s => specs[p].id # Me.id
    /\ Phase = "shrink" => len > 0
    /\ Phase = "shrink" /\ Me.what = "kill" => Me.s \in 1 .. Len(specs)
    /\ Phase = "shrink" /\ Me.what = "close" =>
          /\ Me.s \in 1 .. Len(specs) + 1
          /\ \A p \in 1 .. Len(specs) : p >= Me.s => specs[p].id # Me.id

\* The listeners there are: one to be given up is gone, one to be written is there.
Top   == IF Phase = "shrink" THEN len - 1 ELSE len
Owner == [i \in 1 .. len |-> IF Phase = "fill" /\ i = len
                             THEN [ws |-> Me.ws, id |-> Me.id]
                             ELSE [ws |-> slots[i].ws, id |-> slots[i].id]]

\* How many specs of a socket kill has deleted.
Deleted == [ws \in Sockets |->
    IF Phase \in {"walk", "shrink"} /\ Me.what = "kill" /\ Me.ws = ws
    THEN IF Phase = "walk" THEN Me.s - 1 ELSE Me.s
    ELSE 0]

\* The map and the slice describe the same listeners, one to one: those at the indexes
\* `used`, owned as `owner` says; of the m[ws] specs of ws the first gone[ws] are deleted.
Agreement(specs, m, used, owner, gone) ==
    /\ \A ws \in Sockets : \A p \in 1 .. m[ws] : p > gone[ws] =>
          /\ specs[ws][p].index \in used
          /\ owner[specs[ws][p].index].ws = ws
          /\ owner[specs[ws][p].index].id = specs[ws][p].id
    /\ \A ws \in Sockets : \A p, q \in 1 .. m[ws] :
          p > gone[ws] /\ q > gone[ws] /\ specs[ws][p].index = specs[ws][q].index => p = q
    /\ \A ws \in Sockets : \A p \in 1 .. m[ws] :
          p <= gone[ws] => specs[ws][p].index \notin used
    /\ \A i \in used :
          /\ owner[i].ws \in Sockets
          /\ \E p \in 1 .. m[owner[i].ws] :
                p > gone[owner[i].ws] /\ specs[owner[i].ws][p].index = i

Held == [ws \in Sockets |-> Len(clients[ws])]

Agree == Agreement(clients, Held, 1 .. Top, Owner, Deleted)

\* The map has no specs for who is not in it.
LinkInv == \A ws \in Sockets : ~Connected(ws) => clients[ws] = <<>>

IInv ==
    /\ TypeOK /\ Len(slots) >= 1 /\ LockInv /\ \A h \in Handlers : Shape(handlers[h])
    /\ WalkInv /\ Agree /\ LinkInv

----------------------------------------------------------------------------
(* Facts about sequences.                                                  *)

LEMMA SwapDelete ==
    ASSUME NEW S, NEW specs \in Seq(S), NEW s \in 1 .. Len(specs),
           NEW rest, rest = SubSeq([specs EXCEPT ![s] = specs[Len(specs)]], 1, Len(specs) - 1)
    PROVE  /\ rest \in Seq(S) /\ Len(rest) = Len(specs) - 1
           /\ \A p \in 1 .. Len(rest) :
                 rest[p] = IF p = s THEN specs[Len(specs)] ELSE specs[p]
PROOF
  <1> DEFINE swapped == [specs EXCEPT ![s] = specs[Len(specs)]]
  <1>1. swapped \in Seq(S) /\ Len(swapped) = Len(specs)
    OBVIOUS
  <1>2. \A p \in 1 .. Len(specs) : swapped[p] = IF p = s THEN specs[Len(specs)] ELSE specs[p]
    OBVIOUS
  <1> HIDE DEF swapped
  <1>3. Len(specs) \in Nat /\ Len(specs) >= 1
    OBVIOUS
  <1>4. rest = SubSeq(swapped, 1, Len(specs) - 1)
    BY DEF swapped
  <1>5. rest \in Seq(S) /\ Len(rest) = Len(specs) - 1
    BY <1>1, <1>3, <1>4
  <1>6. \A p \in 1 .. Len(rest) : rest[p] = swapped[p]
    BY <1>1, <1>3, <1>4, <1>5
  <1> QED
    BY <1>2, <1>3, <1>5, <1>6

LEMMA TailOfTwo ==
    ASSUME NEW S, NEW q \in Seq(S), q # <<>>, Len(q) # 1
    PROVE  Tail(q) \in Seq(S) /\ Tail(q) # <<>>
PROOF
  <1>1. Len(q) \in Nat /\ Len(q) # 0
    OBVIOUS
  <1>2. Tail(q) \in Seq(S) /\ Len(Tail(q)) = Len(q) - 1
    BY <1>1
  <1>3. Len(Tail(q)) # 0
    BY <1>1, <1>2
  <1>4. Tail(q) # <<>>
    <2>1. Len(<<>>) = 0
      OBVIOUS
    <2> DEFINE t == Tail(q)
    <2>2. Len(t) # 0
      BY <1>3
    <2> HIDE DEF t
    <2>3. t # <<>>
      BY <2>1, <2>2
    <2> QED
      BY <2>3 DEF t
  <1> QED
    BY <1>2, <1>4

\* The spec that swap-delete must tell about the move is found when there is but one.
LEMMA FirstOfOne ==
    ASSUME NEW specs \in Seq(Spec0), NEW i, NEW p \in 1 .. Len(specs), specs[p].index = i,
           \A q \in 1 .. Len(specs) : specs[q].index = i => q = p
    PROVE  IndexOf(specs, i) = p
PROOF
  <1>1. DOMAIN specs = 1 .. Len(specs)
    OBVIOUS
  <1>2. \A q \in 1 .. p - 1 : specs[q].index # i
    OBVIOUS
  <1>3. \A x \in DOMAIN specs :
           specs[x].index = i /\ (\A q \in 1 .. x - 1 : specs[q].index # i) => x = p
    BY <1>1
  <1> QED
    BY <1>1, <1>2, <1>3 DEF IndexOf

LEMMA RepointedSpecs ==
    ASSUME NEW specs \in Seq(Spec0), NEW from, NEW to \in Nat, NEW p \in 1 .. Len(specs),
           specs[p].index = from, \A q \in 1 .. Len(specs) : specs[q].index = from => q = p
    PROVE  /\ Repointed(specs, from, to) \in Seq(Spec0)
           /\ Len(Repointed(specs, from, to)) = Len(specs)
           /\ \A q \in 1 .. Len(specs) :
                 /\ Repointed(specs, from, to)[q].id = specs[q].id
                 /\ Repointed(specs, from, to)[q].index = IF q = p THEN to ELSE specs[q].index
PROOF
  <1>1. IndexOf(specs, from) = p
    BY FirstOfOne
  <1>2. Repointed(specs, from, to) = [specs EXCEPT ![p].index = to]
    BY <1>1 DEF Repointed
  <1>3. \A q \in 1 .. Len(specs) : specs[q] \in Spec0
    OBVIOUS
  <1>4. [specs[p] EXCEPT !.index = to] \in Spec0
    BY <1>3 DEF Spec0
  <1>5. \A q \in 1 .. Len(specs) :
           Repointed(specs, from, to)[q] = IF q = p THEN [specs[p] EXCEPT !.index = to] ELSE specs[q]
    BY <1>2
  <1>6. Repointed(specs, from, to) \in Seq(Spec0) /\ Len(Repointed(specs, from, to)) = Len(specs)
    BY <1>2, <1>4
  <1> QED
    BY <1>3, <1>5, <1>6 DEF Spec0

----------------------------------------------------------------------------
(* How an agreement changes.                                               *)

LEMMA AgreementKept ==
    ASSUME NEW specs, NEW m, NEW used, NEW owner, NEW owner2, NEW gone,
           Agreement(specs, m, used, owner, gone), \A i \in used : owner2[i] = owner[i]
    PROVE  Agreement(specs, m, used, owner2, gone)
BY DEF Agreement

\* Socket ws gets a new spec, and the slice a new listener.
Added(specs, specs2, m, m2, n, owner, owner2, ws) ==
    /\ ws \in Sockets /\ n \in Nat /\ \A u \in Sockets : m[u] \in Nat
    /\ \A u \in Sockets : m2[u] = IF u = ws THEN m[u] + 1 ELSE m[u]
    /\ \A u \in Sockets : \A p \in 1 .. m[u] : specs2[u][p] = specs[u][p]
    /\ specs2[ws][m[ws] + 1].index = n + 1
    /\ \A i \in 1 .. n : owner2[i] = owner[i]
    /\ owner2[n + 1].ws = ws /\ owner2[n + 1].id = specs2[ws][m[ws] + 1].id

LEMMA AgreementAdds ==
    ASSUME NEW specs, NEW specs2, NEW m, NEW m2, NEW n, NEW owner, NEW owner2, NEW gone, NEW ws,
           Agreement(specs, m, 1 .. n, owner, gone), \A u \in Sockets : gone[u] = 0,
           Added(specs, specs2, m, m2, n, owner, owner2, ws)
    PROVE  Agreement(specs2, m2, 1 .. n + 1, owner2, gone)
PROOF
  <1> USE DEF Added
  <1>1. \A u \in Sockets : \A p \in 1 .. m2[u] :
           p \in 1 .. m[u] \/ (u = ws /\ p = m[ws] + 1)
    OBVIOUS
  <1>2. \A u \in Sockets : \A p \in 1 .. m[u] :
           /\ specs[u][p].index \in 1 .. n
           /\ owner[specs[u][p].index].ws = u /\ owner[specs[u][p].index].id = specs[u][p].id
    BY DEF Agreement
  <1>3. \A u \in Sockets : \A p, q \in 1 .. m[u] :
           specs[u][p].index = specs[u][q].index => p = q
    BY DEF Agreement
  <1>4. \A i \in 1 .. n : /\ owner[i].ws \in Sockets
                          /\ \E p \in 1 .. m[owner[i].ws] : specs[owner[i].ws][p].index = i
    BY DEF Agreement
  <1>5. ASSUME NEW u \in Sockets, NEW p \in 1 .. m2[u]
        PROVE  /\ specs2[u][p].index \in 1 .. n + 1
               /\ owner2[specs2[u][p].index].ws = u
               /\ owner2[specs2[u][p].index].id = specs2[u][p].id
    <2>1. CASE p \in 1 .. m[u]
      <3>1. specs2[u][p] = specs[u][p]
        BY <2>1
      <3>2. /\ specs[u][p].index \in 1 .. n
            /\ owner[specs[u][p].index].ws = u /\ owner[specs[u][p].index].id = specs[u][p].id
        BY <2>1, <1>2
      <3> QED
        BY <3>1, <3>2
    <2>2. CASE u = ws /\ p = m[ws] + 1
      BY <2>2
    <2> QED
      BY <1>1, <2>1, <2>2
  <1>6. ASSUME NEW u \in Sockets, NEW p \in 1 .. m2[u], NEW q \in 1 .. m2[u],
               specs2[u][p].index = specs2[u][q].index
        PROVE  p = q
    <2>1. ASSUME NEW x \in 1 .. m[u]
          PROVE  specs2[u][x] = specs[u][x] /\ specs[u][x].index \in 1 .. n
      BY <1>2
    <2>2. p \in 1 .. m[u] <=> q \in 1 .. m[u]
      <3>1. ~(p \in 1 .. m[u]) => specs2[u][p].index = n + 1
        BY <1>1
      <3>2. ~(q \in 1 .. m[u]) => specs2[u][q].index = n + 1
        BY <1>1
      <3> QED
        BY <1>6, <2>1, <3>1, <3>2
    <2>3. CASE p \in 1 .. m[u]
      <3>1. p \in 1 .. m[u] /\ q \in 1 .. m[u]
        BY <2>2, <2>3
      <3>2. specs[u][p].index = specs[u][q].index
        BY <1>6, <2>1, <3>1
      <3> QED
        BY <1>3, <3>1, <3>2
    <2>4. CASE p \notin 1 .. m[u]
      BY <1>1, <2>2, <2>4
    <2> QED
      BY <2>3, <2>4
  <1>7. ASSUME NEW i \in 1 .. n + 1
        PROVE  /\ owner2[i].ws \in Sockets
               /\ \E p \in 1 .. m2[owner2[i].ws] : specs2[owner2[i].ws][p].index = i
    <2>1. CASE i \in 1 .. n
      <3>1. owner2[i] = owner[i] /\ owner[i].ws \in Sockets
        BY <2>1, <1>4
      <3>2. PICK p \in 1 .. m[owner[i].ws] : specs[owner[i].ws][p].index = i
        BY <2>1, <1>4
      <3>3. p \in 1 .. m2[owner[i].ws] /\ specs2[owner[i].ws][p] = specs[owner[i].ws][p]
        BY <3>1, <3>2
      <3> QED
        BY <3>1, <3>2, <3>3
    <2>2. CASE i = n + 1
      <3>1. m[ws] + 1 \in 1 .. m2[ws]
        OBVIOUS
      <3> QED
        BY <2>2, <3>1
    <2> QED
      BY <2>1, <2>2
  <1> QED
    BY <1>5, <1>6, <1>7 DEF Agreement

\* The spec at s has been dropped, and the last one of its socket is in its place.
Dropped(specs, specs2, m, m2, ws, s) ==
    /\ ws \in Sockets /\ s \in 1 .. m[ws] /\ \A u \in Sockets : m[u] \in Nat
    /\ \A u \in Sockets : m2[u] = IF u = ws THEN m[u] - 1 ELSE m[u]
    /\ \A u \in Sockets : u # ws => specs2[u] = specs[u]
    /\ \A p \in 1 .. m2[ws] :
          specs2[ws][p] = IF p = s THEN specs[ws][m[ws]] ELSE specs[ws][p]

LEMMA AgreementDrops ==
    ASSUME NEW specs, NEW specs2, NEW m, NEW m2, NEW used, NEW owner, NEW gone, NEW ws, NEW s,
           Agreement(specs, m, used, owner, gone), \A u \in Sockets : gone[u] = 0,
           Dropped(specs, specs2, m, m2, ws, s)
    PROVE  Agreement(specs2, m2, used \ {specs[ws][s].index}, owner, gone)
PROOF
  <1> USE DEF Dropped
  <1> DEFINE k == specs[ws][s].index
             from(u, p) == IF u = ws /\ p = s THEN m[ws] ELSE p
  <1>1. \A u \in Sockets : \A p \in 1 .. m[u] :
           /\ specs[u][p].index \in used
           /\ owner[specs[u][p].index].ws = u /\ owner[specs[u][p].index].id = specs[u][p].id
    BY DEF Agreement
  <1>2. \A u \in Sockets : \A p, q \in 1 .. m[u] :
           specs[u][p].index = specs[u][q].index => p = q
    BY DEF Agreement
  <1>3. \A i \in used : /\ owner[i].ws \in Sockets
                        /\ \E p \in 1 .. m[owner[i].ws] : specs[owner[i].ws][p].index = i
    BY DEF Agreement
  <1>4. ASSUME NEW u \in Sockets, NEW p \in 1 .. m2[u]
        PROVE  /\ from(u, p) \in 1 .. m[u] /\ specs2[u][p] = specs[u][from(u, p)]
               /\ u = ws => from(u, p) # s
    BY <1>4
  <1>5. ASSUME NEW u \in Sockets, NEW p \in 1 .. m2[u]
        PROVE  specs2[u][p].index # k
    <2>1. /\ owner[specs2[u][p].index].ws = u /\ owner[k].ws = ws
      BY <1>1, <1>4
    <2>2. u = ws => specs2[u][p].index # k
      BY <1>2, <1>4
    <2> QED
      BY <2>1, <2>2
  <1>6. ASSUME NEW u \in Sockets, NEW p \in 1 .. m2[u]
        PROVE  /\ specs2[u][p].index \in used \ {k}
               /\ owner[specs2[u][p].index].ws = u
               /\ owner[specs2[u][p].index].id = specs2[u][p].id
    <2>1. from(u, p) \in 1 .. m[u] /\ specs2[u][p] = specs[u][from(u, p)]
      BY <1>4
    <2>2. specs2[u][p].index # k
      BY <1>5
    <2> HIDE DEF from, k
    <2>3. /\ specs[u][from(u, p)].index \in used
          /\ owner[specs[u][from(u, p)].index].ws = u
          /\ owner[specs[u][from(u, p)].index].id = specs[u][from(u, p)].id
      BY <1>1, <2>1
    <2> QED
      BY <2>1, <2>2, <2>3
  <1>7. ASSUME NEW u \in Sockets, NEW p \in 1 .. m2[u], NEW q \in 1 .. m2[u],
               specs2[u][p].index = specs2[u][q].index
        PROVE  p = q
    <2>1. from(u, p) = from(u, q)
      BY <1>2, <1>4, <1>7
    <2> QED
      BY <2>1
  <1>8. ASSUME NEW i \in used \ {k}
        PROVE  /\ owner[i].ws \in Sockets
               /\ \E p \in 1 .. m2[owner[i].ws] : specs2[owner[i].ws][p].index = i
    <2>1. PICK p \in 1 .. m[owner[i].ws] : specs[owner[i].ws][p].index = i
      BY <1>3
    <2>2. owner[i].ws \in Sockets
      BY <1>3
    <2>3. CASE owner[i].ws # ws
      BY <2>1, <2>2, <2>3
    <2>4. CASE owner[i].ws = ws
      <3>1. p # s
        BY <2>1, <2>4
      <3>2. CASE p = m[ws]
        BY <2>1, <2>4, <3>1, <3>2
      <3>3. CASE p # m[ws]
        BY <2>1, <2>4, <3>1, <3>3
      <3> QED
        BY <3>2, <3>3
    <2> QED
      BY <2>2, <2>3, <2>4
  <1> QED
    BY <1>6, <1>7, <1>8 DEF Agreement

\* The next spec of ws is deleted, and no longer has an index in use.
Marked(specs, specs2, m, used, gone, gone2, ws, s) ==
    /\ ws \in Sockets /\ s \in 1 .. m[ws]
    /\ \A u \in Sockets : m[u] \in Nat /\ gone[u] \in Nat
    /\ gone[ws] = s - 1
    /\ \A u \in Sockets : gone2[u] = IF u = ws THEN s ELSE gone[u]
    /\ \A u \in Sockets : \A p \in 1 .. m[u] : (u = ws /\ p = s) \/ specs2[u][p] = specs[u][p]
    /\ specs2[ws][s].index \notin used \ {specs[ws][s].index}

LEMMA AgreementMarks ==
    ASSUME NEW specs, NEW specs2, NEW m, NEW used, NEW owner, NEW gone, NEW gone2, NEW ws, NEW s,
           Agreement(specs, m, used, owner, gone),
           Marked(specs, specs2, m, used, gone, gone2, ws, s)
    PROVE  Agreement(specs2, m, used \ {specs[ws][s].index}, owner, gone2)
PROOF
  <1> USE DEF Marked
  <1> DEFINE k == specs[ws][s].index
  <1>0. k \in used /\ owner[k].ws = ws
    BY DEF Agreement
  <1>1. \A u \in Sockets : \A p \in 1 .. m[u] : p > gone[u] =>
           /\ specs[u][p].index \in used
           /\ owner[specs[u][p].index].ws = u /\ owner[specs[u][p].index].id = specs[u][p].id
    BY DEF Agreement
  <1>2. \A u \in Sockets : \A p, q \in 1 .. m[u] :
           p > gone[u] /\ q > gone[u] /\ specs[u][p].index = specs[u][q].index => p = q
    BY DEF Agreement
  <1>3. \A i \in used : /\ owner[i].ws \in Sockets
                        /\ \E p \in 1 .. m[owner[i].ws] :
                              p > gone[owner[i].ws] /\ specs[owner[i].ws][p].index = i
    BY DEF Agreement
  <1>4. \A u \in Sockets : \A p \in 1 .. m[u] : p <= gone[u] => specs[u][p].index \notin used
    BY DEF Agreement
  <1>5. ASSUME NEW u \in Sockets, NEW p \in 1 .. m[u], p > gone2[u]
        PROVE  specs2[u][p] = specs[u][p] /\ p > gone[u] /\ (u = ws => p # s)
    BY <1>5
  <1>6. ASSUME NEW u \in Sockets, NEW p \in 1 .. m[u], p > gone2[u]
        PROVE  /\ specs2[u][p].index \in used \ {k}
               /\ owner[specs2[u][p].index].ws = u
               /\ owner[specs2[u][p].index].id = specs2[u][p].id
    <2>1. /\ specs2[u][p].index \in used
          /\ owner[specs2[u][p].index].ws = u
          /\ owner[specs2[u][p].index].id = specs2[u][p].id
      BY <1>1, <1>5, <1>6
    <2>2. CASE u = ws
      BY <2>1, <2>2, <1>2, <1>5, <1>6
    <2>3. CASE u # ws
      BY <2>1, <2>3, <1>0
    <2> QED
      BY <2>1, <2>2, <2>3
  <1>7. ASSUME NEW u \in Sockets, NEW p \in 1 .. m[u], NEW q \in 1 .. m[u],
               p > gone2[u], q > gone2[u], specs2[u][p].index = specs2[u][q].index
        PROVE  p = q
    BY <1>2, <1>5, <1>7
  <1>8. ASSUME NEW u \in Sockets, NEW p \in 1 .. m[u], p <= gone2[u]
        PROVE  specs2[u][p].index \notin used \ {k}
    <2>1. CASE u = ws /\ p = s
      BY <2>1
    <2>2. CASE ~(u = ws /\ p = s)
      BY <2>2, <1>4, <1>8
    <2> QED
      BY <2>1, <2>2
  <1>9. ASSUME NEW i \in used \ {k}
        PROVE  /\ owner[i].ws \in Sockets
               /\ \E p \in 1 .. m[owner[i].ws] :
                     p > gone2[owner[i].ws] /\ specs2[owner[i].ws][p].index = i
    <2>1. owner[i].ws \in Sockets
      BY <1>3
    <2>2. PICK p \in 1 .. m[owner[i].ws] :
             p > gone[owner[i].ws] /\ specs[owner[i].ws][p].index = i
      BY <1>3
    <2>3. ~(owner[i].ws = ws /\ p = s)
      BY <2>2
    <2>4. p > gone2[owner[i].ws] /\ specs2[owner[i].ws][p] = specs[owner[i].ws][p]
      BY <2>1, <2>2, <2>3
    <2> QED
      BY <2>1, <2>2, <2>4
  <1> QED
    BY <1>6, <1>7, <1>8, <1>9 DEF Agreement

\* The last listener fills the hole, and its spec is told.
Moved(specs, specs2, m, n, k, owner, owner2) ==
    /\ n \in Nat /\ k \in 1 .. n /\ k # n /\ \A u \in Sockets : m[u] \in Nat
    /\ \A u \in Sockets : \A p \in 1 .. m[u] :
          /\ specs[u][p].index # k
          /\ specs2[u][p].id = specs[u][p].id
          /\ specs2[u][p].index = IF u = owner[n].ws /\ specs[u][p].index = n
                                  THEN k ELSE specs[u][p].index
    /\ \A i \in 1 .. n - 1 : owner2[i] = IF i = k THEN owner[n] ELSE owner[i]

LEMMA AgreementMoves ==
    ASSUME NEW specs, NEW specs2, NEW m, NEW n, NEW k, NEW owner, NEW owner2, NEW gone,
           Agreement(specs, m, (1 .. n) \ {k}, owner, gone), \A u \in Sockets : gone[u] \in Nat,
           Moved(specs, specs2, m, n, k, owner, owner2)
    PROVE  Agreement(specs2, m, 1 .. n - 1, owner2, gone)
PROOF
  <1> USE DEF Moved
  <1> DEFINE used == (1 .. n) \ {k}
  <1>1. \A u \in Sockets : \A p \in 1 .. m[u] : p > gone[u] =>
           /\ specs[u][p].index \in used
           /\ owner[specs[u][p].index].ws = u /\ owner[specs[u][p].index].id = specs[u][p].id
    BY DEF Agreement
  <1>2. \A u \in Sockets : \A p, q \in 1 .. m[u] :
           p > gone[u] /\ q > gone[u] /\ specs[u][p].index = specs[u][q].index => p = q
    BY DEF Agreement
  <1>3. \A i \in used : /\ owner[i].ws \in Sockets
                        /\ \E p \in 1 .. m[owner[i].ws] :
                              p > gone[owner[i].ws] /\ specs[owner[i].ws][p].index = i
    BY DEF Agreement
  <1>4. \A u \in Sockets : \A p \in 1 .. m[u] : p <= gone[u] => specs[u][p].index \notin used
    BY DEF Agreement
  <1>5. ASSUME NEW u \in Sockets, NEW p \in 1 .. m[u], p > gone[u]
        PROVE  /\ specs2[u][p].index \in 1 .. n - 1
               /\ owner2[specs2[u][p].index].ws = u
               /\ owner2[specs2[u][p].index].id = specs2[u][p].id
    <2>1. CASE specs[u][p].index = n
      BY <2>1, <1>1, <1>5
    <2>2. CASE specs[u][p].index # n
      BY <2>2, <1>1, <1>5
    <2> QED
      BY <2>1, <2>2
  <1>6. ASSUME NEW u \in Sockets, NEW p \in 1 .. m[u], NEW q \in 1 .. m[u],
               p > gone[u], q > gone[u], specs2[u][p].index = specs2[u][q].index
        PROVE  p = q
    <2>1. specs[u][p].index = specs[u][q].index
      BY <1>6
    <2> QED
      BY <2>1, <1>2, <1>6
  <1>7. ASSUME NEW u \in Sockets, NEW p \in 1 .. m[u], p <= gone[u]
        PROVE  specs2[u][p].index \notin 1 .. n - 1
    BY <1>4, <1>7
  <1>8. ASSUME NEW i \in 1 .. n - 1
        PROVE  /\ owner2[i].ws \in Sockets
               /\ \E p \in 1 .. m[owner2[i].ws] :
                     p > gone[owner2[i].ws] /\ specs2[owner2[i].ws][p].index = i
    <2>1. CASE i = k
      <3>1. owner2[i] = owner[n] /\ n \in used
        BY <2>1
      <3> QED
        BY <2>1, <3>1, <1>3
    <2>2. CASE i # k
      <3>1. owner2[i] = owner[i] /\ i \in used /\ i # n
        BY <2>2
      <3> QED
        BY <3>1, <1>3
    <2> QED
      BY <2>1, <2>2
  <1> QED
    BY <1>5, <1>6, <1>7, <1>8 DEF Agreement

----------------------------------------------------------------------------
(* Steps that leave the agreement alone.                                   *)

LEMMA Holder ==
    ASSUME IInv, NEW h \in Handlers
    PROVE  /\ handlers[h].at \in {"fill", "walk", "shrink"} =>
                 holder = h /\ Me = handlers[h] /\ Phase = handlers[h].at
           /\ handlers[h].at \in {"idle", "add"} => holder # h
           /\ holder = None => Phase = "free"
           /\ holder = None \/ (holder \in Handlers /\ Phase \in {"fill", "walk", "shrink"})
BY ListenersAssumption DEF IInv, LockInv, Me, Phase, TypeOK

\* A handler outside the critical section changes its own fields.
LEMMA Aside ==
    ASSUME IInv, NEW h \in Handlers, handlers[h].at \in {"idle", "add"},
           NEW me \in Handler, me.at \in {"idle", "add"}, Shape(me),
           handlers' = [handlers EXCEPT ![h] = me],
           UNCHANGED <<link, clients, slots, len, holder, casts>>, asked' \in Nat
    PROVE  IInv'
PROOF
  <1>1. holder # h
    BY Holder
  <1>2. \A k \in Handlers : handlers'[k] = IF k = h THEN me ELSE handlers[k]
    BY DEF IInv, TypeOK
  <1>3. TypeOK' /\ Len(slots') >= 1
    BY DEF IInv, TypeOK
  <1>4. LockInv'
    BY <1>1, <1>2 DEF IInv, LockInv
  <1>5. \A k \in Handlers : Shape(handlers[k])'
    BY <1>2 DEF IInv, Shape
  <1>6. Phase' = Phase /\ (Phase # "free" => Me' = Me)
    <2>1. CASE holder = None
      BY <2>1 DEF Phase
    <2>2. CASE holder \in Handlers
      BY <2>2, <1>1, <1>2, ListenersAssumption DEF Phase, Me
    <2> QED
      BY <2>1, <2>2 DEF IInv, TypeOK
  <1>7. WalkInv'
    BY <1>6 DEF IInv, WalkInv
  <1>8. Top' = Top /\ Deleted' = Deleted /\ Owner' = Owner /\ Held' = Held
    BY <1>6 DEF Top, Deleted, Owner, Held
  <1>10. Agree'
    BY <1>8 DEF IInv, Agree
  <1>11. LinkInv'
    BY DEF IInv, LinkInv, Connected
  <1> QED
    BY <1>3, <1>4, <1>5, <1>7, <1>10, <1>11 DEF IInv

LEMMA IdleShape == Idle \in Handler /\ Idle.at = "idle" /\ Shape(Idle)
BY DEF Idle, Handler, Shape, Filter

\* What NextFilter makes of a handler.
NextOf(me) == IF Len(me.filters) = 1 THEN Idle
              ELSE [me EXCEPT !.at = "add", !.filters = Tail(me.filters)]

LEMMA NextOfShape ==
    ASSUME NEW me \in Handler, me.at \in {"add", "fill"}, Shape(me)
    PROVE  NextOf(me) \in Handler /\ NextOf(me).at \in {"idle", "add"} /\ Shape(NextOf(me))
PROOF
  <1>1. CASE Len(me.filters) = 1
    BY <1>1, IdleShape DEF NextOf
  <1>2. CASE Len(me.filters) # 1
    <2>1. me.filters \in Seq(Filter) /\ me.filters # <<>>
      BY DEF Shape, Handler
    <2>2. Tail(me.filters) \in Seq(Filter) /\ Tail(me.filters) # <<>>
      BY <1>2, <2>1, TailOfTwo
    <2>3. NextOf(me) = [me EXCEPT !.at = "add", !.filters = Tail(me.filters)]
      BY <1>2 DEF NextOf
    <2>4. NextOf(me) \in Handler
      BY <2>2, <2>3 DEF Handler
    <2>5. /\ NextOf(me).at = "add" /\ NextOf(me).filters # <<>>
          /\ NextOf(me).ws = me.ws /\ NextOf(me).id = me.id
      BY <2>2, <2>3 DEF Handler
    <2> QED
      BY <2>4, <2>5 DEF Shape
  <1> QED
    BY <1>1, <1>2

LEMMA ReqStep ==
    ASSUME IInv, NEW h \in Handlers, NEW ws \in Sockets, NEW sub \in Subscriptions, Req(h, ws, sub)
    PROVE  IInv'
PROOF
  <1> DEFINE me == [Idle EXCEPT !.what = "req", !.at = "add", !.ws = ws, !.id = sub.id,
                                !.filters = sub.filters]
  <1>1. sub.id \in Ids /\ sub.filters \in Seq(Filter) /\ sub.filters # <<>>
    BY ListenersAssumption DEF Filter
  <1>2. me \in Handler /\ me.at = "add" /\ Shape(me)
    BY <1>1 DEF Idle, Handler, Shape
  <1>3. handlers[h].at = "idle" /\ handlers' = [handlers EXCEPT ![h] = me]
    BY IdleShape DEF Req
  <1>4. asked' \in Nat
    BY DEF Req, IInv, TypeOK
  <1> HIDE DEF me
  <1> QED
    BY <1>2, <1>3, <1>4, Aside DEF Req

LEMMA RefuseStep ==
    ASSUME IInv, NEW h \in Handlers, RefuseFilter(h)
    PROVE  IInv'
PROOF
  <1>1. asked' \in Nat
    BY DEF RefuseFilter, IInv, TypeOK
  <1> QED
    BY <1>1, IdleShape, Aside DEF RefuseFilter, Ends

LEMMA AddNothingStep ==
    ASSUME IInv, NEW h \in Handlers, AddNothing(h)
    PROVE  IInv'
PROOF
  <1>1. handlers[h] \in Handler /\ handlers[h].at = "add" /\ Shape(handlers[h])
    BY DEF AddNothing, IInv, TypeOK
  <1>2. handlers' = [handlers EXCEPT ![h] = NextOf(handlers[h])]
    BY DEF AddNothing, NextFilter, NextOf
  <1>3. asked' \in Nat
    BY DEF AddNothing, IInv, TypeOK
  <1> QED
    BY <1>1, <1>2, <1>3, NextOfShape, Aside DEF AddNothing

LEMMA ConnectStep ==
    ASSUME IInv, NEW ws \in Sockets, Connect(ws)
    PROVE  IInv'
PROOF
  <1>1. TypeOK' /\ Len(slots') >= 1
    BY DEF IInv, TypeOK, Connect
  <1>2. LockInv'
    BY DEF IInv, LockInv, Connect
  <1>3. \A u \in Sockets : link[u] = "open" => link'[u] = "open"
    BY DEF IInv, TypeOK, Connect
  <1>4. \A h \in Handlers : Shape(handlers[h])'
    BY <1>3 DEF IInv, Shape, Connect
  <1>5. Phase = "free" /\ Phase' = "free"
    BY DEF Phase, Connect
  <1>6. WalkInv'
    BY <1>5 DEF WalkInv
  <1>7. Top' = Top /\ Deleted' = Deleted /\ Owner' = Owner /\ Held' = Held
    BY <1>5 DEF Top, Deleted, Owner, Held, Connect
  <1>9. Agree'
    BY <1>7 DEF IInv, Agree, Connect
  <1>10. LinkInv'
    BY <1>3 DEF IInv, LinkInv, Connected, Connect
  <1> QED
    BY <1>1, <1>2, <1>4, <1>6, <1>9, <1>10 DEF IInv

----------------------------------------------------------------------------
(* Adding a listener.                                                      *)

LEMMA Shaped ==
    ASSUME IInv, NEW h \in Handlers
    PROVE  handlers[h] \in Handler /\ Shape(handlers[h])
BY DEF IInv, TypeOK

LEMMA GrownSlots ==
    ASSUME IInv, NEW h \in Handlers, AddListener(h)
    PROVE  /\ slots' \in Seq(Slot) /\ len' = len + 1 /\ len' \in 1 .. Len(slots')
           /\ \A i \in 1 .. len : slots'[i] = slots[i]
PROOF
  <1>1. /\ slots \in Seq(Slot) /\ Len(slots) \in Nat /\ Len(slots) >= 1
        /\ len \in Nat /\ len <= Len(slots)
    BY DEF IInv, TypeOK
  <1>2. len' = len + 1
    BY DEF AddListener
  <1>3. CASE Grows
    <2> DEFINE new == [i \in 1 .. len |-> Unwritten]
    <2>1. slots' = slots \o new
      BY <1>3 DEF AddListener
    <2>2. Unwritten \in Slot
      BY DEF Slot
    <2>3. new \in Seq(Slot) /\ Len(new) = len
      BY <1>1, <2>2
    <2> HIDE DEF new
    <2>4. /\ slots \o new \in Seq(Slot) /\ Len(slots \o new) = Len(slots) + len
          /\ \A i \in 1 .. Len(slots) : (slots \o new)[i] = slots[i]
      BY <1>1, <2>3
    <2> QED
      BY <1>1, <1>2, <1>3, <2>1, <2>4 DEF Grows
  <1>4. CASE ~Grows
    <2>1. slots' = slots
      BY <1>4 DEF AddListener
    <2> QED
      BY <1>1, <1>2, <1>4, <2>1 DEF Grows
  <1> QED
    BY <1>3, <1>4

LEMMA AddTypes ==
    ASSUME IInv, NEW h \in Handlers, AddListener(h)
    PROVE  TypeOK'
PROOF
  <1>1. handlers[h] \in Handler /\ handlers[h].at = "add" /\ Shape(handlers[h])
    BY Shaped DEF AddListener
  <1>2. handlers[h].ws \in Sockets /\ handlers[h].id \in Ids
    BY <1>1 DEF Shape
  <1>3. slots' \in Seq(Slot) /\ len' \in 0 .. Len(slots') /\ len \in Nat
    BY GrownSlots DEF IInv, TypeOK
  <1>4. link' \in [Sockets -> {"fresh", "open", "gone"}] /\ asked' \in Nat /\ holder' \in Handlers
    BY DEF AddListener, IInv, TypeOK
  <1>5. handlers' \in [Handlers -> Handler]
    <2>1. [handlers[h] EXCEPT !.at = "fill"] \in Handler
      BY <1>1 DEF Handler
    <2> QED
      BY <2>1 DEF AddListener, Goes, IInv, TypeOK
  <1>6. clients' \in [Sockets -> Seq(Spec0)]
    <2>1. [id |-> handlers[h].id, index |-> len + 1] \in Spec0
      BY <1>2, <1>3 DEF Spec0
    <2>2. clients' = [clients EXCEPT ![handlers[h].ws] =
                        Append(@, [id |-> handlers[h].id, index |-> len + 1])]
      BY DEF AddListener
    <2> QED
      BY <1>2, <2>1, <2>2 DEF IInv, TypeOK
  <1>7. casts' \in [Casters -> Cast]
    <2>1. \A b \in Casters : casts[b] \in Cast
      BY DEF IInv, TypeOK
    <2>2. slots \in Seq(Slot)
      BY DEF IInv, TypeOK
    <2>3. \A b \in Casters : [casts[b] EXCEPT !.detached = TRUE, !.old = slots] \in Cast
      BY <2>1, <2>2 DEF Cast
    <2> QED
      BY <2>1, <2>3 DEF AddListener
  <1> QED
    BY <1>3, <1>4, <1>5, <1>6, <1>7 DEF TypeOK

LEMMA AddStep ==
    ASSUME IInv, NEW h \in Handlers, AddListener(h)
    PROVE  IInv'
PROOF
  <1> DEFINE ws == handlers[h].ws
             id == handlers[h].id
  <1>1. handlers[h] \in Handler /\ handlers[h].at = "add" /\ Shape(handlers[h])
    BY Shaped DEF AddListener
  <1>2. /\ ws \in Sockets /\ id \in Ids /\ handlers[h].filters # <<>> /\ link[ws] = "open"
    BY <1>1 DEF Shape, AddListener, Connected
  <1>3. /\ holder = None /\ holder' = h /\ link' = link
        /\ handlers' = [handlers EXCEPT ![h].at = "fill"]
        /\ clients' = [clients EXCEPT ![ws] = Append(@, [id |-> id, index |-> len + 1])]
    BY DEF AddListener, Goes
  <1>4. /\ slots' \in Seq(Slot) /\ len' = len + 1 /\ len' \in 1 .. Len(slots')
        /\ \A i \in 1 .. len : slots'[i] = slots[i]
    BY GrownSlots
  <1>5. /\ handlers'[h].at = "fill" /\ handlers'[h].ws = ws /\ handlers'[h].id = id
        /\ handlers'[h].what = handlers[h].what /\ handlers'[h].filters = handlers[h].filters
        /\ \A k \in Handlers : k # h => handlers'[k] = handlers[k]
    BY <1>1, <1>3 DEF IInv, TypeOK, Handler
  <1>6. h # None /\ Phase = "free" /\ Phase' = "fill" /\ Me' = handlers'[h]
    BY <1>3, <1>5, ListenersAssumption DEF Phase, Me
  <1>7. TypeOK' /\ Len(slots') >= 1
    BY AddTypes, <1>4
  <1>8. LockInv'
    BY <1>3, <1>5, ListenersAssumption DEF IInv, LockInv
  <1>9. \A k \in Handlers : Shape(handlers[k])'
    <2>1. Shape(handlers[h])'
      BY <1>2, <1>3, <1>5 DEF Shape
    <2>2. ASSUME NEW k \in Handlers, k # h
          PROVE  Shape(handlers[k])'
      BY <2>2, <1>3, <1>5 DEF IInv, Shape
    <2> QED
      BY <2>1, <2>2
  <1>10. WalkInv'
    BY <1>6 DEF WalkInv
  <1>11. Agree'
    <2>1. /\ Top = len /\ Top' = len + 1 /\ len \in Nat
          /\ \A u \in Sockets : Deleted[u] = 0 /\ Deleted'[u] = 0
      BY <1>4, <1>6 DEF Top, Deleted, IInv, TypeOK
    <2>2. Deleted' = Deleted
      BY <1>6 DEF Deleted
    <2>3. Agreement(clients, Held, 1 .. len, Owner, Deleted)
      BY <2>1 DEF IInv, Agree
    <2>4. \A u \in Sockets : clients[u] \in Seq(Spec0) /\ Held[u] = Len(clients[u]) /\ Held[u] \in Nat
      BY DEF IInv, TypeOK, Held
    <2>5. /\ \A u \in Sockets : u # ws => clients'[u] = clients[u]
          /\ clients'[ws] = Append(clients[ws], [id |-> id, index |-> len + 1])
      BY <1>2, <1>3 DEF IInv, TypeOK
    <2>6. [id |-> id, index |-> len + 1] \in Spec0
      BY <1>2, <2>1 DEF Spec0
    <2>7. /\ Len(clients'[ws]) = Held[ws] + 1
          /\ \A p \in 1 .. Held[ws] : clients'[ws][p] = clients[ws][p]
          /\ clients'[ws][Held[ws] + 1] = [id |-> id, index |-> len + 1]
      BY <1>2, <2>4, <2>5, <2>6
    <2>8. /\ clients'[ws][Held[ws] + 1].index = len + 1
          /\ clients'[ws][Held[ws] + 1].id = id
      BY <2>7
    <2>9. \A u \in Sockets : Held'[u] = IF u = ws THEN Held[u] + 1 ELSE Held[u]
      BY <2>4, <2>5, <2>7 DEF Held
    <2>10. \A u \in Sockets : \A p \in 1 .. Held[u] : clients'[u][p] = clients[u][p]
      BY <2>5, <2>7
    <2>11. \A i \in 1 .. len : Owner'[i] = Owner[i]
      <3>1. \A i \in 1 .. len : Owner[i] = [ws |-> slots[i].ws, id |-> slots[i].id]
        BY <1>6 DEF Owner
      <3>2. \A i \in 1 .. len : Owner'[i] = [ws |-> slots'[i].ws, id |-> slots'[i].id]
        BY <1>4, <1>6, <2>1 DEF Owner
      <3> QED
        BY <3>1, <3>2, <1>4
    <2>12. Owner'[len + 1].ws = ws /\ Owner'[len + 1].id = id
      BY <1>4, <1>5, <1>6, <2>1 DEF Owner
    <2> HIDE DEF ws, id
    <2>13. Added(clients, clients', Held, Held', len, Owner, Owner', ws)
      BY <1>2, <2>1, <2>4, <2>8, <2>9, <2>10, <2>11, <2>12 DEF Added
    <2>14. Agreement(clients', Held', 1 .. len + 1, Owner', Deleted)
      BY <2>1, <2>3, <2>13, AgreementAdds
    <2> QED
      BY <2>1, <2>2, <2>14 DEF Agree
  <1>12. LinkInv'
    BY <1>2, <1>3 DEF IInv, LinkInv, Connected, TypeOK
  <1> QED
    BY <1>7, <1>8, <1>9, <1>10, <1>11, <1>12 DEF IInv

LEMMA FillStep ==
    ASSUME IInv, NEW h \in Handlers, Fill(h)
    PROVE  IInv'
PROOF
  <1> DEFINE me == handlers[h]
             l  == [ws |-> me.ws, id |-> me.id, filter |-> Head(me.filters)]
  <1>1. me \in Handler /\ me.at = "fill" /\ Shape(me)
    BY Shaped DEF Fill
  <1>2. me.ws \in Sockets /\ me.id \in Ids /\ me.filters # <<>> /\ me.filters \in Seq(Filter)
    BY <1>1 DEF Shape, Handler
  <1>3. /\ slots' = [slots EXCEPT ![len] = l] /\ holder' = None
        /\ handlers' = [handlers EXCEPT ![h] = NextOf(me)]
        /\ UNCHANGED <<link, clients, len, casts, asked>>
    BY DEF Fill, NextFilter, NextOf
  <1>4. holder = h /\ Me = me /\ Phase = "fill" /\ Phase' = "free"
    BY <1>1, <1>3, Holder DEF Phase
  <1>5. NextOf(me) \in Handler /\ NextOf(me).at \in {"idle", "add"} /\ Shape(NextOf(me))
    BY <1>1, NextOfShape
  <1>6. \A k \in Handlers : handlers'[k] = IF k = h THEN NextOf(me) ELSE handlers[k]
    BY <1>3 DEF IInv, TypeOK
  <1>7. l \in Slot
    BY <1>2 DEF Slot, Listener
  <1> HIDE DEF me
  <1>8. slots \in Seq(Slot) /\ slots' \in Seq(Slot) /\ Len(slots') = Len(slots)
    <2>1. slots \in Seq(Slot) /\ slots' = [slots EXCEPT ![len] = l]
      BY <1>3 DEF IInv, TypeOK
    <2> HIDE DEF l
    <2>2. Len(slots) \in Nat /\ DOMAIN slots = 1 .. Len(slots) /\ slots \in [1 .. Len(slots) -> Slot]
      BY <2>1
    <2>3. slots' \in [1 .. Len(slots) -> Slot]
      BY <2>1, <2>2, <1>7
    <2> QED
      BY <2>1, <2>2, <2>3
  <1>9. TypeOK' /\ Len(slots') >= 1
    BY <1>3, <1>5, <1>8 DEF IInv, TypeOK
  <1>10. LockInv'
    BY <1>3, <1>4, <1>5, <1>6, ListenersAssumption DEF IInv, LockInv
  <1>11. \A k \in Handlers : Shape(handlers[k])'
    BY <1>3, <1>5, <1>6 DEF IInv, Shape
  <1>12. WalkInv'
    BY <1>4 DEF WalkInv
  <1>13. Agree'
    <2>1. Top' = Top /\ Held' = Held /\ Deleted' = Deleted
      BY <1>3, <1>4 DEF Top, Held, Deleted
    <2>2. ASSUME NEW i \in 1 .. len
          PROVE  Owner'[i] = Owner[i]
      <3>1. Owner'[i] = [ws |-> slots'[i].ws, id |-> slots'[i].id]
        BY <1>3, <1>4 DEF Owner
      <3>2. i \in 1 .. Len(slots)
        BY DEF IInv, TypeOK
      <3>3. CASE i = len
        BY <3>1, <3>2, <3>3, <1>3, <1>4, <1>8 DEF Owner
      <3>4. CASE i # len
        BY <3>1, <3>2, <3>4, <1>3, <1>4, <1>8 DEF Owner
      <3> QED
        BY <3>3, <3>4
    <2>3. Top = len
      BY <1>4 DEF Top
    <2>4. Agreement(clients, Held, 1 .. Top, Owner, Deleted)
      BY DEF IInv, Agree
    <2>5. \A i \in 1 .. Top : Owner'[i] = Owner[i]
      BY <2>2, <2>3
    <2>6. Agreement(clients, Held, 1 .. Top, Owner', Deleted)
      BY <2>4, <2>5, AgreementKept
    <2> QED
      BY <2>1, <2>6, <1>3 DEF Agree
  <1>14. LinkInv'
    BY <1>3 DEF IInv, LinkInv, Connected
  <1> QED
    BY <1>9, <1>10, <1>11, <1>12, <1>13, <1>14 DEF IInv

----------------------------------------------------------------------------
(* Walking the specs of a socket.                                          *)

LEMMA WalkStep ==
    ASSUME IInv, NEW h \in Handlers, NEW what \in {"close", "kill"}, NEW ws \in Sockets,
           NEW id \in Ids \cup {NoId}, Walk(h, what, ws, id)
    PROVE  IInv'
PROOF
  <1> DEFINE me == [Idle EXCEPT !.what = what, !.at = "walk", !.ws = ws, !.id = id,
                                !.s = IF Upward(what) THEN 1 ELSE Len(clients[ws])]
  <1>1. /\ handlers' = [handlers EXCEPT ![h] = me] /\ holder' = h /\ holder = None
        /\ link[ws] = "open" /\ UNCHANGED <<link, clients, slots, len, casts, asked>>
    BY DEF Walk, Connected
  <1>2. clients[ws] \in Seq(Spec0) /\ Len(clients[ws]) \in Nat
    BY DEF IInv, TypeOK
  <1>3. /\ me \in Handler /\ me.at = "walk" /\ me.what = what /\ me.ws = ws /\ me.id = id
        /\ me.s = IF what = "kill" THEN 1 ELSE Len(clients[ws])
    <2> DEFINE s == IF Upward(what) THEN 1 ELSE Len(clients[ws])
    <2>1. s \in Nat /\ s = IF what = "kill" THEN 1 ELSE Len(clients[ws])
      BY <1>2 DEF Upward
    <2>2. me = [Idle EXCEPT !.what = what, !.at = "walk", !.ws = ws, !.id = id, !.s = s]
      OBVIOUS
    <2> HIDE DEF me, s
    <2>3. me \in Handler /\ me.s = s
      BY <2>1, <2>2, IdleShape DEF Handler
    <2> QED
      BY <2>1, <2>2, <2>3, IdleShape DEF Handler
  <1> HIDE DEF me
  <1>4. \A k \in Handlers : handlers'[k] = IF k = h THEN me ELSE handlers[k]
    BY <1>1 DEF IInv, TypeOK
  <1>5. Phase = "free" /\ Phase' = "walk" /\ Me' = me
    BY <1>1, <1>3, <1>4, ListenersAssumption DEF Phase, Me
  <1>6. TypeOK' /\ Len(slots') >= 1
    BY <1>1, <1>3 DEF IInv, TypeOK
  <1>7. LockInv'
    BY <1>1, <1>3, <1>4, ListenersAssumption DEF IInv, LockInv
  <1>8. \A k \in Handlers : Shape(handlers[k])'
    BY <1>1, <1>3, <1>4 DEF IInv, Shape
  <1>9. WalkInv'
    BY <1>1, <1>2, <1>3, <1>5 DEF WalkInv
  <1>10. Agree'
    <2>1. Top' = Top /\ Held' = Held /\ Owner' = Owner
      BY <1>1, <1>5 DEF Top, Held, Owner
    <2>2. Deleted' = Deleted
      BY <1>3, <1>5 DEF Deleted
    <2> QED
      BY <1>1, <2>1, <2>2 DEF IInv, Agree
  <1>11. LinkInv'
    BY <1>1 DEF IInv, LinkInv, Connected
  <1> QED
    BY <1>6, <1>7, <1>8, <1>9, <1>10, <1>11 DEF IInv

\* What walking handlers have in common.
LEMMA Walker ==
    ASSUME IInv, NEW h \in Handlers, handlers[h].at \in {"walk", "shrink"}
    PROVE  /\ handlers[h] \in Handler /\ holder = h /\ Me = handlers[h] /\ Phase = handlers[h].at
           /\ handlers[h].ws \in Sockets /\ link[handlers[h].ws] = "open"
           /\ handlers[h].what \in {"close", "kill"} /\ h # None
           /\ clients[handlers[h].ws] \in Seq(Spec0) /\ Len(clients[handlers[h].ws]) \in Nat
           /\ DOMAIN clients[handlers[h].ws] = 1 .. Len(clients[handlers[h].ws])
PROOF
  <1>1. handlers[h] \in Handler /\ Shape(handlers[h])
    BY Shaped
  <1>2. holder = h /\ Me = handlers[h] /\ Phase = handlers[h].at
    BY Holder
  <1>3. handlers[h].ws \in Sockets /\ link[handlers[h].ws] = "open" /\ handlers[h].what \in {"close", "kill"}
    BY <1>1 DEF Shape
  <1>4. clients[handlers[h].ws] \in Seq(Spec0)
    BY <1>3 DEF IInv, TypeOK
  <1> QED
    BY <1>1, <1>2, <1>3, <1>4, ListenersAssumption

LEMMA ShrinkStep ==
    ASSUME IInv, NEW h \in Handlers, Shrink(h)
    PROVE  IInv'
PROOF
  <1> DEFINE me == handlers[h]
             me2 == [me EXCEPT !.at = "walk", !.s = Step(me)]
  <1>1. /\ me.at = "shrink" /\ len' = len - 1 /\ UNCHANGED <<link, clients, slots, holder, casts, asked>>
    BY DEF Shrink
  <1>2. /\ me \in Handler /\ holder = h /\ Me = me /\ Phase = "shrink" /\ me.ws \in Sockets
        /\ link[me.ws] = "open" /\ me.what \in {"close", "kill"} /\ h # None
        /\ Len(clients[me.ws]) \in Nat
    BY <1>1, Walker
  <1>3. /\ len > 0
        /\ me.what = "kill" => me.s \in 1 .. Len(clients[me.ws])
        /\ me.what = "close" =>
              /\ me.s \in 1 .. Len(clients[me.ws]) + 1
              /\ \A p \in 1 .. Len(clients[me.ws]) : p >= me.s => clients[me.ws][p].id # me.id
    BY <1>2 DEF IInv, WalkInv
  <1>4. Step(me) \in Nat
    BY <1>2, <1>3 DEF Step, Upward
  <1>5. /\ me2 \in Handler /\ me2.at = "walk" /\ me2.what = me.what /\ me2.ws = me.ws
        /\ me2.id = me.id /\ me2.s = Step(me)
    BY <1>2, <1>4 DEF Handler
  <1>6. handlers' = [handlers EXCEPT ![h] = me2]
    BY <1>2 DEF Shrink, IInv, TypeOK
  <1> HIDE DEF me2
  <1>7. \A k \in Handlers : handlers'[k] = IF k = h THEN me2 ELSE handlers[k]
    BY <1>6 DEF IInv, TypeOK
  <1>8. Phase' = "walk" /\ Me' = me2
    BY <1>1, <1>2, <1>5, <1>7 DEF Phase, Me
  <1>9. TypeOK' /\ Len(slots') >= 1
    BY <1>1, <1>3, <1>5, <1>6 DEF IInv, TypeOK
  <1>10. LockInv'
    BY <1>1, <1>2, <1>5, <1>7 DEF IInv, LockInv
  <1>11. \A k \in Handlers : Shape(handlers[k])'
    BY <1>1, <1>2, <1>5, <1>7 DEF IInv, Shape
  <1>12. WalkInv'
    <2>1. clients'[Me'.ws] = clients[me.ws]
      BY <1>1, <1>5, <1>8
    <2>2. CASE me.what = "kill"
      <3>1. me2.s = me.s + 1
        BY <2>2, <1>5 DEF Step, Upward
      <3> QED
        BY <2>1, <2>2, <3>1, <1>2, <1>3, <1>5, <1>8 DEF WalkInv
    <2>3. CASE me.what = "close"
      <3>1. me2.s = me.s - 1
        BY <2>3, <1>5 DEF Step, Upward
      <3>2. \A p \in 1 .. Len(clients[me.ws]) : p > me2.s => p >= me.s
        BY <2>3, <3>1, <1>3
      <3>3. me2.s \in 0 .. Len(clients[me.ws])
        BY <2>3, <3>1, <1>2, <1>3
      <3>4. \A p \in 1 .. Len(clients[me.ws]) : p > me2.s => clients[me.ws][p].id # me.id
        BY <2>3, <3>2, <1>3
      <3> QED
        BY <2>1, <2>3, <3>3, <3>4, <1>5, <1>8 DEF WalkInv
    <2> QED
      BY <2>2, <2>3, <1>2
  <1>13. Agree'
    <2>1. Top' = Top /\ Held' = Held
      BY <1>1, <1>2, <1>8 DEF Top, Held
    <2>2. Deleted' = Deleted
      <3>1. ASSUME me.what = "kill"
            PROVE  me2.s - 1 = me.s
        BY <3>1, <1>3, <1>5 DEF Step, Upward
      <3> QED
        BY <1>2, <1>5, <1>8, <3>1 DEF Deleted
    <2>3. ASSUME NEW i \in 1 .. Top
          PROVE  Owner'[i] = Owner[i]
      <3>1. i \in 1 .. len /\ i \in 1 .. len'
        BY <1>1, <1>2, <1>3 DEF Top, IInv, TypeOK
      <3> QED
        BY <1>1, <1>2, <1>8, <3>1 DEF Owner
    <2> QED
      BY <1>1, <2>1, <2>2, <2>3, AgreementKept DEF IInv, Agree
  <1>14. LinkInv'
    BY <1>1 DEF IInv, LinkInv, Connected
  <1> QED
    BY <1>9, <1>10, <1>11, <1>12, <1>13, <1>14 DEF IInv

LEMMA SkipStep ==
    ASSUME IInv, NEW h \in Handlers, SkipSpec(h)
    PROVE  IInv'
PROOF
  <1> DEFINE me == handlers[h]
             me2 == [me EXCEPT !.s = Step(me)]
  <1>1. /\ me.at = "walk" /\ me.what = "close" /\ me.s \in DOMAIN clients[me.ws]
        /\ clients[me.ws][me.s].id # me.id
        /\ UNCHANGED <<link, clients, slots, len, holder, casts, asked>>
    BY DEF SkipSpec
  <1>2. /\ me \in Handler /\ holder = h /\ Me = me /\ Phase = "walk" /\ me.ws \in Sockets
        /\ link[me.ws] = "open" /\ h # None /\ Len(clients[me.ws]) \in Nat
        /\ me.s \in 1 .. Len(clients[me.ws])
    BY <1>1, Walker
  <1>3. \A p \in 1 .. Len(clients[me.ws]) : p > me.s => clients[me.ws][p].id # me.id
    BY <1>1, <1>2 DEF IInv, WalkInv
  <1>4. Step(me) = me.s - 1 /\ Step(me) \in Nat
    BY <1>1, <1>2 DEF Step, Upward
  <1>5. /\ me2 \in Handler /\ me2.at = "walk" /\ me2.what = "close" /\ me2.ws = me.ws
        /\ me2.id = me.id /\ me2.s = me.s - 1
    BY <1>1, <1>2, <1>4 DEF Handler
  <1>6. handlers' = [handlers EXCEPT ![h] = me2]
    BY DEF SkipSpec
  <1> HIDE DEF me2
  <1>7. \A k \in Handlers : handlers'[k] = IF k = h THEN me2 ELSE handlers[k]
    BY <1>6 DEF IInv, TypeOK
  <1>8. Phase' = "walk" /\ Me' = me2
    BY <1>1, <1>2, <1>5, <1>7 DEF Phase, Me
  <1>9. TypeOK' /\ Len(slots') >= 1
    BY <1>1, <1>5, <1>6 DEF IInv, TypeOK
  <1>10. LockInv'
    BY <1>1, <1>2, <1>5, <1>7 DEF IInv, LockInv
  <1>11. \A k \in Handlers : Shape(handlers[k])'
    BY <1>1, <1>2, <1>5, <1>7 DEF IInv, Shape
  <1>12. WalkInv'
    <2>1. clients'[Me'.ws] = clients[me.ws]
      BY <1>1, <1>5, <1>8
    <2>2. me2.s \in 0 .. Len(clients[me.ws])
      BY <1>2, <1>5
    <2>3. \A p \in 1 .. Len(clients[me.ws]) : p > me2.s => clients[me.ws][p].id # me.id
      <3>1. \A p \in 1 .. Len(clients[me.ws]) : p > me2.s => p > me.s \/ p = me.s
        BY <1>2, <1>5
      <3> QED
        BY <3>1, <1>1, <1>3
    <2> QED
      BY <2>1, <2>2, <2>3, <1>5, <1>8 DEF WalkInv
  <1>13. Agree'
    <2>1. Top' = Top /\ Held' = Held /\ Owner' = Owner
      BY <1>1, <1>2, <1>8 DEF Top, Held, Owner
    <2>2. Deleted' = Deleted
      BY <1>1, <1>2, <1>5, <1>8 DEF Deleted
    <2> QED
      BY <1>1, <2>1, <2>2 DEF IInv, Agree
  <1>14. LinkInv'
    BY <1>1 DEF IInv, LinkInv, Connected
  <1> QED
    BY <1>9, <1>10, <1>11, <1>12, <1>13, <1>14 DEF IInv

\* `new` is `rest` with the spec of the last listener told about its move to k.
Told(rest, new, m, n, k, owner, owner2) ==
    /\ n \in Nat /\ k \in 1 .. n /\ k # n
    /\ \A u \in Sockets : /\ rest[u] \in Seq(Spec0) /\ m[u] = Len(rest[u])
                          /\ \A p \in 1 .. m[u] : rest[u][p].index # k
                          /\ new[u] = IF u = owner[n].ws THEN Repointed(rest[u], n, k) ELSE rest[u]
    /\ \A i \in 1 .. n - 1 : owner2[i] = IF i = k THEN owner[n] ELSE owner[i]

LEMMA ToldSpecs ==
    ASSUME NEW rest, NEW new, NEW m, NEW n, NEW k, NEW owner, NEW owner2, NEW gone,
           Agreement(rest, m, (1 .. n) \ {k}, owner, gone), \A u \in Sockets : gone[u] \in Nat,
           Told(rest, new, m, n, k, owner, owner2)
    PROVE  /\ Agreement(new, m, 1 .. n - 1, owner2, gone)
           /\ owner[n].ws \in Sockets
           /\ \A u \in Sockets : /\ new[u] \in Seq(Spec0) /\ Len(new[u]) = m[u]
                                 /\ rest[u] = <<>> => new[u] = <<>>
                                 /\ \A p \in 1 .. m[u] : new[u][p].id = rest[u][p].id
PROOF
  <1> DEFINE u0 == owner[n].ws
  <1>1. /\ n \in Nat /\ k \in 1 .. n /\ k # n /\ n \in (1 .. n) \ {k}
        /\ \A u \in Sockets : /\ rest[u] \in Seq(Spec0) /\ m[u] = Len(rest[u]) /\ m[u] \in Nat
                              /\ new[u] = IF u = u0 THEN Repointed(rest[u], n, k) ELSE rest[u]
    BY DEF Told
  <1>2. /\ u0 \in Sockets
        /\ \E p \in 1 .. m[u0] : p > gone[u0] /\ rest[u0][p].index = n
    BY <1>1 DEF Agreement
  <1>3. PICK p0 \in 1 .. m[u0] : p0 > gone[u0] /\ rest[u0][p0].index = n
    BY <1>2
  <1>4. ASSUME NEW q \in 1 .. m[u0], rest[u0][q].index = n
        PROVE  q = p0
    <2>1. \A u \in Sockets : \A p \in 1 .. m[u] :
             p <= gone[u] => rest[u][p].index \notin (1 .. n) \ {k}
      BY DEF Agreement
    <2>2. q > gone[u0]
      BY <1>1, <1>2, <1>4, <2>1
    <2> QED
      BY <1>2, <1>3, <1>4, <2>2 DEF Agreement
  <1> HIDE DEF u0
  <1>5. /\ Repointed(rest[u0], n, k) \in Seq(Spec0) /\ Len(Repointed(rest[u0], n, k)) = m[u0]
        /\ \A q \in 1 .. m[u0] :
              /\ Repointed(rest[u0], n, k)[q].id = rest[u0][q].id
              /\ Repointed(rest[u0], n, k)[q].index = IF q = p0 THEN k ELSE rest[u0][q].index
    <2>1. rest[u0] \in Seq(Spec0) /\ k \in Nat /\ p0 \in 1 .. Len(rest[u0])
      BY <1>1, <1>2
    <2>2. \A q \in 1 .. Len(rest[u0]) : rest[u0][q].index = n => q = p0
      BY <1>1, <1>2, <1>4
    <2> DEFINE specs == rest[u0]
    <2>3. /\ specs \in Seq(Spec0) /\ p0 \in 1 .. Len(specs) /\ specs[p0].index = n
          /\ \A q \in 1 .. Len(specs) : specs[q].index = n => q = p0
      BY <1>3, <2>1, <2>2
    <2>4. m[u0] = Len(specs) /\ k \in Nat
      BY <1>1, <1>2, <2>1
    <2> HIDE DEF specs
    <2>5. /\ Repointed(specs, n, k) \in Seq(Spec0) /\ Len(Repointed(specs, n, k)) = Len(specs)
          /\ \A q \in 1 .. Len(specs) :
                /\ Repointed(specs, n, k)[q].id = specs[q].id
                /\ Repointed(specs, n, k)[q].index = IF q = p0 THEN k ELSE specs[q].index
      BY <2>3, <2>4, RepointedSpecs
    <2> QED
      BY <2>4, <2>5 DEF specs
  <1>6. \A u \in Sockets : /\ new[u] \in Seq(Spec0) /\ Len(new[u]) = m[u]
                           /\ \A p \in 1 .. m[u] : new[u][p].id = rest[u][p].id
    BY <1>1, <1>5
  <1>7. ASSUME NEW u \in Sockets, rest[u] = <<>>
        PROVE  new[u] = <<>>
    <2>1. m[u] = 0
      BY <1>1, <1>7
    <2>2. u # u0
      BY <2>1, <1>3
    <2> QED
      BY <1>1, <1>7, <2>2
  <1>8. Moved(rest, new, m, n, k, owner, owner2)
    <2>1. ASSUME NEW u \in Sockets, NEW p \in 1 .. m[u]
          PROVE  /\ rest[u][p].index # k
                 /\ new[u][p].id = rest[u][p].id
                 /\ new[u][p].index = IF u = owner[n].ws /\ rest[u][p].index = n
                                      THEN k ELSE rest[u][p].index
      <3>1. rest[u][p].index # k
        BY DEF Told
      <3>2. CASE u = u0
        BY <3>1, <3>2, <1>1, <1>3, <1>4, <1>5, <1>6 DEF u0
      <3>3. CASE u # u0
        BY <3>1, <3>3, <1>1 DEF u0
      <3> QED
        BY <3>2, <3>3
    <2>2. \A i \in 1 .. n - 1 : owner2[i] = IF i = k THEN owner[n] ELSE owner[i]
      BY DEF Told
    <2> QED
      BY <1>1, <2>1, <2>2 DEF Moved
  <1> QED
    BY <1>2, <1>6, <1>7, <1>8, AgreementMoves DEF u0

\* A removal, but for what it does to the specs.
Removal(h, me, k) ==
    /\ me.s \in 1 .. Len(clients[me.ws]) /\ len \in Nat /\ k \in 1 .. len
    /\ Phase = "walk" /\ Phase' = "shrink" /\ Me = me /\ Me' = [me EXCEPT !.at = "shrink"]
    /\ UNCHANGED <<link, len, holder, asked>>
    /\ slots' \in Seq(Slot) /\ Len(slots') = Len(slots)
    /\ handlers' = [handlers EXCEPT ![h].at = "shrink"]
    /\ \A i \in 1 .. len - 1 : Owner'[i] = IF i = k THEN Owner[len] ELSE Owner[i]
    /\ slots[len].ws = Owner[len].ws
    /\ k = len => UNCHANGED slots

LEMMA Removing ==
    ASSUME IInv, NEW h \in Handlers, RemoveSpec(h),
           NEW me, me = handlers[h], NEW k, k = clients[me.ws][me.s].index
    PROVE  Removal(h, me, k)
PROOF
  <1>1. /\ me.at = "walk" /\ me.s \in DOMAIN clients[me.ws]
        /\ handlers' = [handlers EXCEPT ![h].at = "shrink"]
        /\ UNCHANGED <<link, len, holder, asked>>
        /\ k # len => slots' = [slots EXCEPT ![k] = slots[len]]
        /\ k = len => UNCHANGED slots
    BY DEF RemoveSpec, Goes
  <1>2. /\ me \in Handler /\ holder = h /\ Me = me /\ Phase = "walk" /\ me.ws \in Sockets /\ h # None
        /\ DOMAIN clients[me.ws] = 1 .. Len(clients[me.ws])
        /\ me.what \in {"close", "kill"}
    BY <1>1, Walker
  <1>3. me.s \in 1 .. Len(clients[me.ws]) /\ me.s \in Nat
    BY <1>1, <1>2
  <1>4. Phase' = "shrink" /\ Me' = [me EXCEPT !.at = "shrink"]
    BY <1>1, <1>2 DEF Phase, Me, IInv, TypeOK, Handler
  <1>5. len \in Nat /\ Top = len /\ slots \in Seq(Slot) /\ len \in 0 .. Len(slots)
    BY <1>2 DEF Top, IInv, TypeOK
  <1>6. k \in 1 .. len
    <2>1. Agreement(clients, Held, 1 .. len, Owner, Deleted)
      BY <1>5 DEF IInv, Agree
    <2>2. Held[me.ws] = Len(clients[me.ws])
      BY <1>2 DEF Held
    <2>3. me.s > Deleted[me.ws]
      BY <1>2, <1>3 DEF Deleted
    <2> QED
      BY <1>2, <1>3, <2>1, <2>2, <2>3 DEF Agreement
  <1>7. /\ Len(slots) \in Nat /\ DOMAIN slots = 1 .. Len(slots) /\ slots \in [1 .. Len(slots) -> Slot]
        /\ slots[len] \in Slot
    BY <1>5, <1>6
  <1>8. slots' \in [1 .. Len(slots) -> Slot]
    BY <1>1, <1>7
  <1>9. slots' \in Seq(Slot) /\ Len(slots') = Len(slots)
    BY <1>7, <1>8
  <1>10. \A i \in 1 .. len : /\ Owner[i] = [ws |-> slots[i].ws, id |-> slots[i].id]
                             /\ Owner'[i] = [ws |-> slots'[i].ws, id |-> slots'[i].id]
    BY <1>1, <1>2, <1>4 DEF Owner
  <1>11. \A i \in 1 .. len - 1 : slots'[i] = IF i = k THEN slots[len] ELSE slots[i]
    BY <1>1, <1>5, <1>6, <1>7
  <1>12. \A i \in 1 .. len - 1 : Owner'[i] = IF i = k THEN Owner[len] ELSE Owner[i]
    <2>1. ASSUME NEW i \in 1 .. len - 1
          PROVE  Owner'[i] = IF i = k THEN Owner[len] ELSE Owner[i]
      <3>1. i \in 1 .. len /\ len \in 1 .. len
        BY <1>5
      <3>2. /\ Owner[len] = [ws |-> slots[len].ws, id |-> slots[len].id]
            /\ Owner[i] = [ws |-> slots[i].ws, id |-> slots[i].id]
            /\ Owner'[i] = [ws |-> slots'[i].ws, id |-> slots'[i].id]
        BY <3>1, <1>10
      <3> QED
        BY <3>2, <1>11
    <2> QED
      BY <2>1
  <1>13. slots[len].ws = Owner[len].ws
    <2>1. len \in 1 .. len
      BY <1>5, <1>6
    <2>2. Owner[len] = [ws |-> slots[len].ws, id |-> slots[len].id]
      BY <2>1, <1>10
    <2> QED
      BY <2>2
  <1> QED
    BY <1>1, <1>2, <1>3, <1>4, <1>5, <1>6, <1>9, <1>12, <1>13 DEF Removal

\* What becomes of the specs once the hole at k is filled.
Refills(rest, m, k, gone) ==
    /\ rest \in [Sockets -> Seq(Spec0)] /\ len \in Nat /\ k \in 1 .. len
    /\ Agreement(rest, m, (1 .. len) \ {k}, Owner, gone)
    /\ \A u \in Sockets :
          /\ gone[u] \in Nat /\ m[u] = Len(rest[u])
          /\ k # len => \A p \in 1 .. m[u] : rest[u][p].index # k
    /\ \A i \in 1 .. len - 1 : Owner'[i] = IF i = k THEN Owner[len] ELSE Owner[i]
    /\ k # len => clients' = [rest EXCEPT ![Owner[len].ws] = Repointed(@, len, k)]
    /\ k = len => clients' = rest

LEMMA Refilled ==
    ASSUME NEW rest, NEW m, NEW k, NEW gone, Refills(rest, m, k, gone)
    PROVE  /\ clients' \in [Sockets -> Seq(Spec0)]
           /\ Agreement(clients', m, 1 .. len - 1, Owner', gone)
           /\ \A u \in Sockets : /\ Len(clients'[u]) = m[u]
                                 /\ rest[u] = <<>> => clients'[u] = <<>>
                                 /\ \A p \in 1 .. m[u] : clients'[u][p].id = rest[u][p].id
PROOF
  <1> USE DEF Refills
  <1>1. CASE k = len
    <2>1. (1 .. len) \ {k} = 1 .. len - 1
      BY <1>1
    <2>2. \A i \in 1 .. len - 1 : Owner'[i] = Owner[i]
      BY <1>1
    <2>3. Agreement(rest, m, 1 .. len - 1, Owner, gone)
      BY <2>1
    <2>4. Agreement(rest, m, 1 .. len - 1, Owner', gone)
      BY <2>2, <2>3, AgreementKept
    <2> QED
      BY <1>1, <2>4
  <1>2. CASE k # len
    <2>1. \A u \in Sockets :
             clients'[u] = IF u = Owner[len].ws THEN Repointed(rest[u], len, k) ELSE rest[u]
      BY <1>2
    <2>2. Told(rest, clients', m, len, k, Owner, Owner')
      <3>1. ASSUME NEW u \in Sockets
            PROVE  /\ rest[u] \in Seq(Spec0) /\ m[u] = Len(rest[u])
                   /\ \A p \in 1 .. m[u] : rest[u][p].index # k
        BY <1>2
      <3> QED
        BY <1>2, <2>1, <3>1 DEF Told
    <2>3. /\ Agreement(clients', m, 1 .. len - 1, Owner', gone)
          /\ Owner[len].ws \in Sockets
          /\ \A u \in Sockets : /\ clients'[u] \in Seq(Spec0) /\ Len(clients'[u]) = m[u]
                                /\ rest[u] = <<>> => clients'[u] = <<>>
                                /\ \A p \in 1 .. m[u] : clients'[u][p].id = rest[u][p].id
      <3>1. \A u \in Sockets : gone[u] \in Nat
        OBVIOUS
      <3> QED
        BY <2>2, <3>1, ToldSpecs
    <2>4. clients' = [u \in Sockets |-> clients'[u]]
      BY <1>2
    <2>5. clients' \in [Sockets -> Seq(Spec0)]
      BY <2>3, <2>4
    <2> QED
      BY <2>3, <2>5
  <1> QED
    BY <1>1, <1>2

\* What a removal does to the map and the slice, whoever removes.
Removed(me) ==
    /\ clients' \in [Sockets -> Seq(Spec0)]
    /\ Agreement(clients', Held', 1 .. len - 1, Owner', Deleted')
    /\ \A u \in Sockets : clients[u] = <<>> => clients'[u] = <<>>
    /\ me.what = "kill" => me.s \in 1 .. Len(clients'[me.ws])
    /\ me.what = "close" =>
          /\ me.s \in 1 .. Len(clients'[me.ws]) + 1
          /\ \A p \in 1 .. Len(clients'[me.ws]) : p >= me.s => clients'[me.ws][p].id # me.id

LEMMA RemoveByClose ==
    ASSUME IInv, NEW h \in Handlers, RemoveSpec(h), NEW me, me = handlers[h], me.what = "close"
    PROVE  Removed(me)
PROOF
  <1> DEFINE ws    == me.ws
             specs == clients[ws]
             k     == specs[me.s].index
             rest  == SpecDropped(me)
             m     == [u \in Sockets |-> Len(rest[u])]
  <1>1. /\ me.s \in 1 .. Len(specs) /\ len \in Nat /\ k \in 1 .. len
        /\ Phase = "walk" /\ Phase' = "shrink" /\ Me = me /\ Me' = [me EXCEPT !.at = "shrink"]
        /\ \A i \in 1 .. len - 1 : Owner'[i] = IF i = k THEN Owner[len] ELSE Owner[i]
        /\ slots[len].ws = Owner[len].ws
    <2>1. Removal(h, me, k)
      BY Removing
    <2> QED
      BY <2>1 DEF Removal
  <1>2. /\ me \in Handler /\ ws \in Sockets /\ specs \in Seq(Spec0) /\ Len(specs) \in Nat
        /\ clients \in [Sockets -> Seq(Spec0)] /\ me.at = "walk"
    BY Walker DEF RemoveSpec, IInv, TypeOK
  <1>3. /\ k # len => clients' = [rest EXCEPT ![Owner[len].ws] = Repointed(@, len, k)]
        /\ k = len => clients' = rest
    BY <1>1 DEF RemoveSpec
  <1>4. \A p \in 1 .. Len(specs) : p > me.s => specs[p].id # me.id
    BY <1>1 DEF IInv, WalkInv
  <1>5. /\ rest \in [Sockets -> Seq(Spec0)] /\ Len(rest[ws]) = Len(specs) - 1
        /\ \A p \in 1 .. Len(rest[ws]) :
              rest[ws][p] = IF p = me.s THEN specs[Len(specs)] ELSE specs[p]
        /\ \A u \in Sockets : u # ws => rest[u] = clients[u]
    <2> DEFINE new == SubSeq([specs EXCEPT ![me.s] = specs[Len(specs)]], 1, Len(specs) - 1)
    <2>1. /\ new \in Seq(Spec0) /\ Len(new) = Len(specs) - 1
          /\ \A p \in 1 .. Len(new) : new[p] = IF p = me.s THEN specs[Len(specs)] ELSE specs[p]
      BY <1>1, <1>2, SwapDelete
    <2>2. rest = [clients EXCEPT ![ws] = new]
      BY DEF SpecDropped
    <2> HIDE DEF new, rest
    <2> QED
      BY <1>2, <2>1, <2>2
  <1>6. \A u \in Sockets : Deleted[u] = 0 /\ Deleted'[u] = 0
    BY <1>1 DEF Deleted
  <1>7. Deleted' = Deleted
    BY <1>1 DEF Deleted
  <1> HIDE DEF rest
  <1>8. Dropped(clients, rest, Held, m, ws, me.s)
    BY <1>1, <1>2, <1>5 DEF Dropped, Held
  <1>9. Agreement(clients, Held, 1 .. len, Owner, Deleted)
    BY <1>1 DEF IInv, Agree, Top
  <1>10. Agreement(rest, m, (1 .. len) \ {k}, Owner, Deleted)
    <2>1. \A u \in Sockets : Deleted[u] = 0
      BY <1>6
    <2>2. Agreement(rest, m, (1 .. len) \ {clients[ws][me.s].index}, Owner, Deleted)
      BY <2>1, <1>8, <1>9, AgreementDrops
    <2> QED
      BY <2>2
  <1>11. ASSUME NEW u \in Sockets
         PROVE  /\ Deleted[u] \in Nat /\ m[u] = Len(rest[u])
                /\ k # len => \A p \in 1 .. m[u] : rest[u][p].index # k
    <2>1. \A p \in 1 .. m[u] : p > Deleted[u]
      BY <1>6
    <2>2. \A p \in 1 .. m[u] : rest[u][p].index \in (1 .. len) \ {k}
      BY <2>1, <1>10 DEF Agreement
    <2> QED
      BY <2>2, <1>6
  <1> HIDE DEF m, k
  <1>12. /\ clients' \in [Sockets -> Seq(Spec0)]
         /\ Agreement(clients', m, 1 .. len - 1, Owner', Deleted)
         /\ \A u \in Sockets : /\ Len(clients'[u]) = m[u]
                               /\ rest[u] = <<>> => clients'[u] = <<>>
                               /\ \A p \in 1 .. m[u] : clients'[u][p].id = rest[u][p].id
    <2>1. Refills(rest, m, k, Deleted)
      BY <1>1, <1>3, <1>5, <1>10, <1>11 DEF Refills
    <2> QED
      BY <2>1, Refilled
  <1>13. Held' = m
    BY <1>12 DEF Held, m
  <1>14. \A u \in Sockets : clients[u] = <<>> => clients'[u] = <<>>
    BY <1>1, <1>5, <1>12
  <1>15. Len(clients'[ws]) = Len(specs) - 1
    BY <1>2, <1>5, <1>12 DEF m
  <1>16. ASSUME NEW p \in 1 .. Len(clients'[ws]), p >= me.s
         PROVE  clients'[ws][p].id # me.id
    <2>1. /\ p \in 1 .. Len(rest[ws]) /\ p \in 1 .. Len(specs) /\ Len(specs) \in 1 .. Len(specs)
          /\ Len(specs) > me.s /\ m[ws] = Len(rest[ws])
      BY <1>1, <1>2, <1>5, <1>15, <1>16 DEF m
    <2>2. clients'[ws][p].id = rest[ws][p].id
      BY <1>2, <1>12, <2>1
    <2>3. CASE p = me.s
      BY <2>1, <2>2, <2>3, <1>4, <1>5
    <2>4. CASE p # me.s
      <3>1. p > me.s
        BY <1>1, <1>16, <2>1, <2>4
      <3> QED
        BY <2>1, <2>2, <2>4, <3>1, <1>4, <1>5
    <2> QED
      BY <2>3, <2>4
  <1>17. me.s \in 1 .. Len(clients'[ws]) + 1
    BY <1>1, <1>2, <1>15
  <1> QED
    BY <1>7, <1>12, <1>13, <1>14, <1>16, <1>17 DEF Removed

LEMMA RemoveByKill ==
    ASSUME IInv, NEW h \in Handlers, RemoveSpec(h), NEW me, me = handlers[h], me.what = "kill"
    PROVE  Removed(me)
PROOF
  <1> DEFINE ws    == me.ws
             specs == clients[ws]
             k     == specs[me.s].index
             rest  == IF k = len THEN clients ELSE SpecMarked(me)
  <1>1. /\ me.s \in 1 .. Len(specs) /\ len \in Nat /\ k \in 1 .. len
        /\ Phase = "walk" /\ Phase' = "shrink" /\ Me = me /\ Me' = [me EXCEPT !.at = "shrink"]
        /\ \A i \in 1 .. len - 1 : Owner'[i] = IF i = k THEN Owner[len] ELSE Owner[i]
        /\ slots[len].ws = Owner[len].ws
    <2>1. Removal(h, me, k)
      BY Removing
    <2> QED
      BY <2>1 DEF Removal
  <1>2. /\ me \in Handler /\ ws \in Sockets /\ specs \in Seq(Spec0) /\ Len(specs) \in Nat
        /\ clients \in [Sockets -> Seq(Spec0)] /\ me.at = "walk"
    BY Walker DEF RemoveSpec, IInv, TypeOK
  <1>3. /\ k # len => clients' = [rest EXCEPT ![Owner[len].ws] = Repointed(@, len, k)]
        /\ k = len => clients' = rest
    BY <1>1 DEF RemoveSpec
  <1>4. /\ rest \in [Sockets -> Seq(Spec0)]
        /\ \A u \in Sockets : Len(rest[u]) = Len(clients[u])
        /\ \A u \in Sockets : \A p \in 1 .. Len(clients[u]) :
              (u = ws /\ p = me.s) \/ rest[u][p] = clients[u][p]
        /\ k # len => rest[ws][me.s].index = 0
    <2>1. CASE k = len
      BY <2>1, <1>2
    <2>2. CASE k # len
      <3> DEFINE spec0 == [specs[me.s] EXCEPT !.index = 0]
                 new   == [specs EXCEPT ![me.s] = spec0]
      <3>1. specs[me.s] \in Spec0
        BY <1>1, <1>2
      <3>2. spec0 \in Spec0 /\ spec0.index = 0
        BY <3>1 DEF Spec0
      <3>3. rest = [clients EXCEPT ![ws] = new]
        BY <2>2 DEF SpecMarked
      <3> HIDE DEF spec0, rest
      <3>4. DOMAIN specs = 1 .. Len(specs) /\ specs \in [1 .. Len(specs) -> Spec0]
        BY <1>2
      <3>5. new \in [1 .. Len(specs) -> Spec0]
        BY <3>2, <3>4
      <3>6. new \in Seq(Spec0) /\ Len(new) = Len(specs)
        BY <1>2, <3>5
      <3>7. /\ \A p \in 1 .. Len(specs) : p = me.s \/ new[p] = specs[p]
            /\ new[me.s] = spec0
        BY <1>1, <3>4
      <3> HIDE DEF new
      <3> QED
        BY <1>2, <3>2, <3>3, <3>6, <3>7
    <2> QED
      BY <2>1, <2>2
  <1>5. /\ \A u \in Sockets : Deleted[u] = IF u = ws THEN me.s - 1 ELSE 0
        /\ \A u \in Sockets : Deleted'[u] = IF u = ws THEN me.s ELSE 0
    BY <1>1, <1>2 DEF Deleted, Handler
  <1>6. Agreement(clients, Held, 1 .. len, Owner, Deleted)
    BY <1>1 DEF IInv, Agree, Top
  <1>7. \A u \in Sockets : Held[u] = Len(clients[u]) /\ Held[u] \in Nat
    BY <1>2 DEF Held
  <1> HIDE DEF rest
  <1>8. Marked(clients, rest, Held, 1 .. len, Deleted, Deleted', ws, me.s)
    <2>1. \A u \in Sockets : Deleted[u] \in Nat
      BY <1>1, <1>5
    <2>2. \A u \in Sockets : Deleted'[u] = IF u = ws THEN me.s ELSE Deleted[u]
      BY <1>5
    <2>3. rest[ws][me.s].index \notin (1 .. len) \ {k}
      <3>1. CASE k = len
        BY <3>1 DEF rest
      <3>2. CASE k # len
        BY <3>2, <1>4
      <3> QED
        BY <3>1, <3>2
    <2>4. /\ me.s \in 1 .. Held[ws] /\ Deleted[ws] = me.s - 1
          /\ \A u \in Sockets : \A p \in 1 .. Held[u] :
                (u = ws /\ p = me.s) \/ rest[u][p] = clients[u][p]
      BY <1>1, <1>2, <1>4, <1>5, <1>7
    <2> HIDE DEF k
    <2>5. rest[ws][me.s].index \notin (1 .. len) \ {clients[ws][me.s].index}
      BY <2>3 DEF k
    <2> QED
      BY <1>2, <1>7, <2>1, <2>2, <2>4, <2>5 DEF Marked
  <1>9. Agreement(rest, Held, (1 .. len) \ {k}, Owner, Deleted')
    BY <1>6, <1>8, AgreementMarks
  <1>10. ASSUME NEW u \in Sockets
         PROVE  /\ Deleted'[u] \in Nat /\ Held[u] = Len(rest[u])
                /\ k # len => \A p \in 1 .. Held[u] : rest[u][p].index # k
    <2>1. Deleted'[u] \in Nat /\ Held[u] = Len(rest[u])
      BY <1>1, <1>4, <1>5, <1>7
    <2>2. ASSUME k # len, NEW p \in 1 .. Held[u]
          PROVE  rest[u][p].index # k
      <3>1. CASE p > Deleted'[u]
        BY <3>1, <1>9 DEF Agreement
      <3>2. CASE u = ws /\ p = me.s
        BY <3>2, <2>2, <1>1, <1>4
      <3>3. CASE ~(p > Deleted'[u]) /\ ~(u = ws /\ p = me.s)
        <4>1. p <= Deleted[u] /\ rest[u][p] = clients[u][p]
          BY <3>3, <1>1, <1>4, <1>5, <1>7
        <4>2. clients[u][p].index \notin 1 .. len
          BY <4>1, <1>6 DEF Agreement
        <4> QED
          BY <4>1, <4>2, <1>1
      <3> QED
        BY <3>1, <3>2, <3>3
    <2> QED
      BY <2>1, <2>2
  <1> HIDE DEF k
  <1>11. /\ clients' \in [Sockets -> Seq(Spec0)]
         /\ Agreement(clients', Held, 1 .. len - 1, Owner', Deleted')
         /\ \A u \in Sockets : /\ Len(clients'[u]) = Held[u]
                               /\ rest[u] = <<>> => clients'[u] = <<>>
                               /\ \A p \in 1 .. Held[u] : clients'[u][p].id = rest[u][p].id
    <2>1. Refills(rest, Held, k, Deleted')
      BY <1>1, <1>3, <1>4, <1>9, <1>10 DEF Refills
    <2> QED
      BY <2>1, Refilled
  <1>12. Held' = Held
    BY <1>7, <1>11 DEF Held
  <1>13. ASSUME NEW u \in Sockets, clients[u] = <<>>
         PROVE  clients'[u] = <<>>
    <2>1. rest[u] \in Seq(Spec0) /\ Len(rest[u]) = 0
      BY <1>4, <1>13
    <2>2. rest[u] = <<>>
      BY <2>1
    <2> QED
      BY <1>11, <2>2
  <1>14. me.s \in 1 .. Len(clients'[ws])
    BY <1>1, <1>2, <1>7, <1>11
  <1> QED
    BY <1>11, <1>12, <1>13, <1>14 DEF Removed

LEMMA RemoveStep ==
    ASSUME IInv, NEW h \in Handlers, RemoveSpec(h)
    PROVE  IInv'
PROOF
  <1> DEFINE me  == handlers[h]
             k   == clients[me.ws][me.s].index
             me2 == [me EXCEPT !.at = "shrink"]
  <1>1. /\ k \in 1 .. len /\ len \in Nat
        /\ Phase = "walk" /\ Phase' = "shrink" /\ Me = me /\ Me' = me2
        /\ UNCHANGED <<link, len, holder, asked>>
        /\ slots' \in Seq(Slot) /\ Len(slots') = Len(slots)
        /\ handlers' = [handlers EXCEPT ![h].at = "shrink"]
    <2>1. Removal(h, me, k)
      BY Removing
    <2> QED
      BY <2>1 DEF Removal
  <1>2. /\ me \in Handler /\ holder = h /\ me.ws \in Sockets
        /\ link[me.ws] = "open" /\ me.what \in {"close", "kill"} /\ h # None /\ me.at = "walk"
    BY Walker DEF RemoveSpec
  <1>3. Removed(me)
    BY <1>2, RemoveByClose, RemoveByKill
  <1>4. /\ me2 \in Handler /\ me2.at = "shrink" /\ me2.what = me.what /\ me2.ws = me.ws
        /\ me2.id = me.id /\ me2.s = me.s
    BY <1>2 DEF Handler
  <1> HIDE DEF me2
  <1>5. \A j \in Handlers : handlers'[j] = IF j = h THEN me2 ELSE handlers[j]
    BY <1>1 DEF IInv, TypeOK, me2
  <1>6. handlers' \in [Handlers -> Handler]
    BY <1>1, <1>4 DEF IInv, TypeOK, me2
  <1>7. casts' \in [Casters -> Cast]
    <2>1. casts' = [b \in Casters |-> [casts[b] EXCEPT !.owed = @ \ Forgiven(casts[b],
                                          slots[k], slots[len], k)]]
      BY DEF RemoveSpec
    <2>2. ASSUME NEW c \in Cast, NEW f
          PROVE  [c EXCEPT !.owed = @ \ f] \in Cast
      BY DEF Cast
    <2>3. \A b \in Casters : casts[b] \in Cast
      BY DEF IInv, TypeOK
    <2> QED
      BY <2>1, <2>2, <2>3
  <1>8. TypeOK' /\ Len(slots') >= 1
    BY <1>1, <1>3, <1>6, <1>7 DEF IInv, TypeOK, Removed
  <1>9. LockInv'
    BY <1>1, <1>2, <1>4, <1>5 DEF IInv, LockInv
  <1>10. \A j \in Handlers : Shape(handlers[j])'
    BY <1>1, <1>2, <1>4, <1>5 DEF IInv, Shape
  <1>11. WalkInv'
    <2>1. len' > 0
      BY <1>1
    <2>2. /\ me.what = "kill" => me.s \in 1 .. Len(clients'[me.ws])
          /\ me.what = "close" =>
                /\ me.s \in 1 .. Len(clients'[me.ws]) + 1
                /\ \A p \in 1 .. Len(clients'[me.ws]) : p >= me.s => clients'[me.ws][p].id # me.id
      BY <1>3 DEF Removed
    <2> HIDE DEF me
    <2> QED
      BY <1>1, <1>4, <2>1, <2>2 DEF WalkInv
  <1>12. Agree'
    BY <1>1, <1>3 DEF Agree, Top, Removed
  <1>13. LinkInv'
    BY <1>1, <1>3 DEF IInv, LinkInv, Connected, Removed
  <1> QED
    BY <1>8, <1>9, <1>10, <1>11, <1>12, <1>13 DEF IInv

\* A socket whose specs are all deleted is forgotten.
Ended(specs, specs2, m, m2, gone, gone2, ws) ==
    /\ \A u \in Sockets : m[u] \in Nat
    /\ \A u \in Sockets : IF u = ws THEN gone[u] = m[u] ELSE gone[u] = 0
    /\ \A u \in Sockets : gone2[u] = 0
    /\ \A u \in Sockets : m2[u] = IF u = ws THEN 0 ELSE m[u]
    /\ \A u \in Sockets : u # ws => specs2[u] = specs[u]

LEMMA AgreementEnds ==
    ASSUME NEW specs, NEW specs2, NEW m, NEW m2, NEW used, NEW owner, NEW gone, NEW gone2, NEW ws,
           Agreement(specs, m, used, owner, gone), Ended(specs, specs2, m, m2, gone, gone2, ws)
    PROVE  Agreement(specs2, m2, used, owner, gone2) /\ \A i \in used : owner[i].ws # ws
PROOF
  <1> USE DEF Ended
  <1>1. ASSUME NEW i \in used
        PROVE  owner[i].ws # ws /\ owner[i].ws \in Sockets
    BY DEF Agreement
  <1>2. ASSUME NEW u \in Sockets, NEW p \in 1 .. m2[u]
        PROVE  u # ws /\ p \in 1 .. m[u] /\ p > gone[u] /\ p > gone2[u] /\ specs2[u] = specs[u]
    BY <1>2
  <1>3. ASSUME NEW u \in Sockets, NEW p \in 1 .. m2[u]
        PROVE  /\ specs2[u][p].index \in used
               /\ owner[specs2[u][p].index].ws = u
               /\ owner[specs2[u][p].index].id = specs2[u][p].id
    BY <1>2 DEF Agreement
  <1>4. ASSUME NEW u \in Sockets, NEW p \in 1 .. m2[u], NEW q \in 1 .. m2[u],
               specs2[u][p].index = specs2[u][q].index
        PROVE  p = q
    BY <1>2, <1>4 DEF Agreement
  <1>5. ASSUME NEW i \in used
        PROVE  /\ owner[i].ws \in Sockets
               /\ \E p \in 1 .. m2[owner[i].ws] :
                     p > gone2[owner[i].ws] /\ specs2[owner[i].ws][p].index = i
    <2>1. PICK p \in 1 .. m[owner[i].ws] : specs[owner[i].ws][p].index = i
      BY DEF Agreement
    <2>2. p \in 1 .. m2[owner[i].ws] /\ p > gone2[owner[i].ws] /\ specs2[owner[i].ws] = specs[owner[i].ws]
      BY <1>1, <2>1
    <2> QED
      BY <1>1, <2>1, <2>2
  <1>6. \A u \in Sockets : \A p \in 1 .. m2[u] : ~(p <= gone2[u])
    BY <1>2
  <1> QED
    BY <1>1, <1>3, <1>4, <1>5, <1>6 DEF Agreement

LEMMA UnlockStep ==
    ASSUME IInv, NEW h \in Handlers, Unlock(h)
    PROVE  IInv'
PROOF
  <1> DEFINE me == handlers[h]
             ws == me.ws
  <1>1. /\ me.at = "walk" /\ me.s \notin DOMAIN clients[ws] /\ holder' = None
        /\ handlers' = [handlers EXCEPT ![h] = Idle] /\ UNCHANGED <<slots, len, casts, asked>>
    BY DEF Unlock, Ends
  <1>2. /\ me \in Handler /\ holder = h /\ Me = me /\ Phase = "walk" /\ Phase' = "free"
        /\ ws \in Sockets /\ link[ws] = "open" /\ me.what \in {"close", "kill"}
        /\ clients[ws] \in Seq(Spec0) /\ Len(clients[ws]) \in Nat
        /\ me.s \notin 1 .. Len(clients[ws]) /\ h # None
    BY <1>1, Walker DEF Phase
  <1>3. /\ me.what = "kill" => /\ link' = [link EXCEPT ![ws] = "gone"]
                               /\ clients' = [clients EXCEPT ![ws] = <<>>]
        /\ me.what = "close" => link' = link /\ clients' = clients
    BY DEF Unlock
  <1>4. \A k \in Handlers : handlers'[k] = IF k = h THEN Idle ELSE handlers[k]
    BY <1>1 DEF IInv, TypeOK
  <1>5. link' \in [Sockets -> {"fresh", "open", "gone"}] /\ clients' \in [Sockets -> Seq(Spec0)]
    <2>1. <<>> \in Seq(Spec0)
      OBVIOUS
    <2>2. link \in [Sockets -> {"fresh", "open", "gone"}] /\ clients \in [Sockets -> Seq(Spec0)]
      BY DEF IInv, TypeOK
    <2> HIDE DEF ws
    <2>3. CASE me.what = "kill"
      BY <2>1, <2>2, <2>3, <1>2, <1>3
    <2>4. CASE me.what = "close"
      BY <2>2, <2>4, <1>3
    <2> QED
      BY <2>3, <2>4, <1>2
  <1>6. TypeOK' /\ Len(slots') >= 1
    BY <1>1, <1>5, IdleShape DEF IInv, TypeOK
  <1>7. LockInv'
    BY <1>1, <1>2, <1>4, IdleShape, ListenersAssumption DEF IInv, LockInv
  <1>8. \A k \in Handlers : Shape(handlers[k])'
    <2>1. ASSUME NEW k \in Handlers, k # h
          PROVE  Shape(handlers[k])'
      <3>1. handlers'[k] = handlers[k] /\ ~(handlers[k].at \in {"fill", "walk", "shrink"})
        BY <2>1, <1>2, <1>4 DEF IInv, LockInv
      <3> QED
        BY <3>1 DEF IInv, Shape
    <2>2. Shape(handlers[h])'
      BY <1>4 DEF Shape, Idle
    <2> QED
      BY <2>1, <2>2
  <1>9. WalkInv'
    BY <1>2 DEF WalkInv
  <1>10. Agreement(clients, Held, 1 .. len, Owner, Deleted)
    BY <1>2 DEF IInv, Agree, Top
  <1>11. Owner' = Owner /\ Top' = len /\ \A u \in Sockets : Deleted'[u] = 0
    BY <1>1, <1>2 DEF Owner, Top, Deleted
  <1>12. Agree'
    <2>1. CASE me.what = "close"
      <3>1. Deleted' = Deleted /\ Held' = Held
        BY <2>1, <1>2, <1>3 DEF Deleted, Held
      <3> QED
        BY <2>1, <3>1, <1>3, <1>10, <1>11 DEF Agree
    <2>2. CASE me.what = "kill"
      <3>1. me.s = Len(clients[ws]) + 1
        BY <2>2, <1>2 DEF IInv, WalkInv
      <3>2. \A u \in Sockets : Deleted[u] = IF u = ws THEN Len(clients[u]) ELSE 0
        BY <2>2, <3>1, <1>2 DEF Deleted, Handler
      <3>3. \A u \in Sockets : Held[u] = Len(clients[u]) /\ Held[u] \in Nat
        BY DEF Held, IInv, TypeOK
      <3>4. \A u \in Sockets : clients'[u] = IF u = ws THEN <<>> ELSE clients[u]
        BY <2>2, <1>3 DEF IInv, TypeOK
      <3>5. \A u \in Sockets : Held'[u] = IF u = ws THEN 0 ELSE Held[u]
        BY <3>3, <3>4 DEF Held
      <3>6. Ended(clients, clients', Held, Held', Deleted, Deleted', ws)
        BY <1>11, <3>2, <3>3, <3>4, <3>5 DEF Ended
      <3> QED
        BY <1>10, <1>11, <3>6, AgreementEnds DEF Agree
    <2> QED
      BY <2>1, <2>2, <1>2
  <1>13. LinkInv'
    BY <1>2, <1>3 DEF IInv, LinkInv, Connected, TypeOK
  <1> QED
    BY <1>6, <1>7, <1>8, <1>9, <1>12, <1>13 DEF IInv

----------------------------------------------------------------------------
(* Broadcasts change nothing the invariant speaks of, and a crash forgets  *)
(* everything.                                                             *)

LEMMA CastsAside ==
    ASSUME IInv, casts' \in [Casters -> Cast],
           UNCHANGED <<link, clients, slots, len, holder, handlers, asked>>
    PROVE  IInv'
PROOF
  <1>1. TypeOK' /\ Len(slots') >= 1
    BY DEF IInv, TypeOK
  <1>2. LockInv' /\ LinkInv'
    BY DEF IInv, LockInv, LinkInv, Connected
  <1>3. \A k \in Handlers : Shape(handlers[k])'
    BY DEF IInv, Shape
  <1>4. Phase' = Phase /\ Me' = Me
    BY DEF Phase, Me
  <1>5. WalkInv'
    BY <1>4 DEF IInv, WalkInv
  <1>6. Top' = Top /\ Deleted' = Deleted /\ Owner' = Owner /\ Held' = Held
    BY <1>4 DEF Top, Deleted, Owner, Held
  <1>7. Agree'
    BY <1>6 DEF IInv, Agree
  <1> QED
    BY <1>1, <1>2, <1>3, <1>5, <1>7 DEF IInv

LEMMA NoCastTyped == NoCast \in Cast
PROOF
  <1>1. AnyEvent \in Events
    BY ListenersAssumption DEF AnyEvent
  <1> QED
    BY <1>1 DEF NoCast, Cast, Filter

LEMMA SlotAtTyped ==
    ASSUME TypeOK, NEW c \in Cast
    PROVE  SlotAt(c) \in Slot /\ SlotAt(c).id \in Ids \cup {NoId} /\ SlotAt(c).filter \in Filter
PROOF
  <1>1. Unwritten \in Slot
    BY DEF Slot
  <1>2. c.old \in Seq(Slot) /\ slots \in Seq(Slot) /\ c.i \in Nat \ {0}
    BY DEF Cast, TypeOK
  <1>3. SlotAt(c) \in Slot
    BY <1>1, <1>2 DEF SlotAt
  <1>4. \A l \in Slot : l.id \in Ids \cup {NoId} /\ l.filter \in Filter
    BY DEF Slot, Listener, Unwritten, Filter
  <1> QED
    BY <1>3, <1>4

\* The slots that hold a listener: not the one to be written, nor the one to be given up.
Sure == IF Phase \in {"fill", "shrink"} THEN len - 1 ELSE len

LEMMA SureSlots ==
    ASSUME IInv
    PROVE  /\ Sure \in Int /\ Sure <= len /\ len \in Nat /\ len <= Len(slots)
           /\ Registered = {slots[i] : i \in 1 .. Sure}
           /\ \A i \in 1 .. Sure : slots[i] \in Listener /\ Owner[i].ws = slots[i].ws /\ Owner[i].id = slots[i].id
           /\ Sure = Top \/ Phase = "fill"
PROOF
  <1>1. len \in Nat /\ len <= Len(slots) /\ slots \in Seq(Slot) /\ Len(slots) \in Nat
    BY DEF IInv, TypeOK
  <1>2. Unsettled <=> Phase \in {"fill", "shrink"}
    <2>1. CASE holder = None
      BY <2>1, ListenersAssumption DEF Phase, Unsettled, IInv, LockInv
    <2>2. CASE holder # None
      <3>1. holder \in Handlers /\ Phase = handlers[holder].at
        BY <2>2 DEF IInv, TypeOK, Phase, Me
      <3> QED
        BY <3>1 DEF Unsettled, IInv, LockInv
    <2> QED
      BY <2>1, <2>2
  <1>3. Sure \in Int /\ Sure <= len /\ Registered = {slots[i] : i \in 1 .. Sure}
    BY <1>1, <1>2 DEF Sure, Registered, Settled
  <1>4. Top = len \/ Phase = "shrink"
    BY DEF Top
  <1>5. ASSUME NEW i \in 1 .. Sure
        PROVE  slots[i] \in Listener /\ Owner[i].ws = slots[i].ws /\ Owner[i].id = slots[i].id
    <2>1. i \in 1 .. len /\ i \in 1 .. Top /\ ~(Phase = "fill" /\ i = len)
      BY <1>1, <1>3 DEF Sure, Top
    <2>2. Owner[i] = [ws |-> slots[i].ws, id |-> slots[i].id]
      BY <2>1 DEF Owner
    <2>3. Owner[i].ws \in Sockets
      BY <2>1 DEF IInv, Agree, Agreement
    <2>4. slots[i] \in Slot
      BY <1>1, <2>1
    <2>5. slots[i].ws \in Sockets
      BY <2>2, <2>3
    <2>6. slots[i] # Unwritten
      BY <2>5, ListenersAssumption DEF Unwritten
    <2> QED
      BY <2>2, <2>4, <2>6 DEF Slot
  <1>6. Sure = Top \/ Phase = "fill"
    BY DEF Sure, Top
  <1> QED
    BY <1>1, <1>3, <1>5, <1>6

\* What a broadcast does, short of a crash.
Notify(b) == \/ \E e \in Events : Broadcast(b, e)
             \/ LoadLength(b) \/ Match(b) \/ Send(b) \/ Finish(b)

LEMMA NotifyTypes ==
    ASSUME IInv, NEW b \in Casters, Notify(b)
    PROVE  /\ casts' \in [Casters -> Cast]
           /\ UNCHANGED <<link, clients, slots, len, holder, handlers, asked>>
PROOF
  <1> DEFINE c == casts[b]
             l == SlotAt(c)
  <1>1. c \in Cast /\ casts \in [Casters -> Cast] /\ len \in Nat /\ TypeOK
    BY DEF IInv, TypeOK
  <1>2. l.id \in Ids \cup {NoId} /\ l.filter \in Filter
    BY <1>1, SlotAtTyped
  <1>3. CASE \E e \in Events : Broadcast(b, e)
    <2>1. PICK e \in Events : Broadcast(b, e)
      BY <1>3
    <2> DEFINE owed == {x \in Registered : e \in x.filter}
               c2 == [NoCast EXCEPT !.at = "length", !.event = e, !.owed = owed]
    <2>2. casts' = [casts EXCEPT ![b] = c2]
      BY <2>1 DEF Broadcast
    <2>3. owed \subseteq Listener
      BY SureSlots
    <2> HIDE DEF owed
    <2>4. c2 \in Cast
      BY <2>3, NoCastTyped DEF Cast
    <2> HIDE DEF c2
    <2> QED
      BY <2>1, <2>2, <2>4, <1>1 DEF Broadcast
  <1>4. CASE LoadLength(b)
    <2> DEFINE c2 == [c EXCEPT !.at = "read", !.n = len, !.i = 1]
    <2>1. casts' = [casts EXCEPT ![b] = c2]
      BY <1>4 DEF LoadLength
    <2> HIDE DEF c
    <2>2. c2 \in Cast
      <3>1. 1 \in Nat \ {0}
        OBVIOUS
      <3>2. [c EXCEPT !.at = "read", !.n = len] \in Cast
        BY <1>1 DEF Cast
      <3>3. c2 = [[c EXCEPT !.at = "read", !.n = len] EXCEPT !.i = 1]
        BY <1>1 DEF Cast
      <3>4. \A x \in Cast : [x EXCEPT !.i = 1] \in Cast
        BY <3>1 DEF Cast
      <3> QED
        BY <3>2, <3>3, <3>4
    <2> HIDE DEF c2
    <2> QED
      BY <2>1, <2>2, <1>1, <1>4 DEF LoadLength, c
  <1>5. CASE Match(b)
    <2> DEFINE c2 == IF c.event \in l.filter
                     THEN [c EXCEPT !.at = "send", !.id = l.id, !.filter = l.filter]
                     ELSE [c EXCEPT !.i = c.i + 1]
    <2>1. casts' = [casts EXCEPT ![b] = c2]
      BY <1>5 DEF Match
    <2> HIDE DEF l, c
    <2>2. [c EXCEPT !.at = "send", !.id = l.id, !.filter = l.filter] \in Cast
      BY <1>1, <1>2 DEF Cast
    <2>3. c.i + 1 \in Nat \ {0}
      BY <1>1 DEF Cast
    <2>4. [c EXCEPT !.i = c.i + 1] \in Cast
      BY <1>1, <2>3 DEF Cast
    <2>5. c2 \in Cast
      BY <2>2, <2>4
    <2> HIDE DEF c2
    <2> QED
      BY <2>1, <2>5, <1>1, <1>5 DEF Match, c
  <1>6. CASE Send(b)
    <2> DEFINE sent == {[ws |-> l.ws, id |-> c.id, filter |-> c.filter]}
               c2 == [c EXCEPT !.at = "read", !.i = c.i + 1, !.id = NoId, !.filter = {},
                               !.owed = @ \ sent]
    <2>1. casts' = [casts EXCEPT ![b] = c2]
      BY <1>6 DEF Send
    <2> HIDE DEF sent, c
    <2>2. c.i + 1 \in Nat \ {0} /\ {} \in Filter /\ c.owed \ sent \in SUBSET Listener
      BY <1>1 DEF Cast, Filter
    <2>3. c2 \in Cast
      BY <1>1, <2>2 DEF Cast
    <2> HIDE DEF c2
    <2> QED
      BY <2>1, <2>3, <1>1, <1>6 DEF Send, c
  <1>7. CASE Finish(b)
    BY <1>1, <1>7, NoCastTyped DEF Finish
  <1> QED
    BY <1>3, <1>4, <1>5, <1>6, <1>7 DEF Notify

LEMMA NotifyStep ==
    ASSUME IInv, NEW b \in Casters, Notify(b)
    PROVE  IInv'
BY NotifyTypes, CastsAside

\* The process has just started.
Blank ==
    /\ link = [ws \in Sockets |-> "fresh"] /\ clients = [ws \in Sockets |-> <<>>]
    /\ slots = [i \in 1 .. Capacity |-> Unwritten] /\ len = 0 /\ holder = None
    /\ handlers = [h \in Handlers |-> Idle] /\ casts = [b \in Casters |-> NoCast]
    /\ asked \in Nat

LEMMA BlankInv == Blank => IInv
PROOF
  <1> SUFFICES ASSUME Blank PROVE IInv
    OBVIOUS
  <1> USE DEF Blank
  <1>1. Capacity \in Nat /\ Capacity >= 1
    BY ListenersAssumption
  <1>2. slots \in Seq(Slot) /\ Len(slots) = Capacity
    <2>1. Unwritten \in Slot
      BY DEF Slot
    <2> QED
      BY <1>1, <2>1
  <1>3. TypeOK /\ Len(slots) >= 1
    BY <1>1, <1>2, IdleShape, NoCastTyped DEF TypeOK
  <1>4. LockInv
    BY IdleShape, ListenersAssumption DEF LockInv
  <1>5. \A h \in Handlers : Shape(handlers[h])
    BY IdleShape
  <1>6. Phase = "free"
    BY DEF Phase
  <1>7. WalkInv
    BY <1>6 DEF WalkInv
  <1>8. Agree
    <2>1. Top = 0 /\ \A ws \in Sockets : Held[ws] = 0
      BY <1>6 DEF Top, Held
    <2> QED
      BY <2>1 DEF Agree, Agreement
  <1>9. LinkInv
    BY DEF LinkInv
  <1> QED
    BY <1>3, <1>4, <1>5, <1>7, <1>8, <1>9 DEF IInv

LEMMA InitInv == Init => IInv
BY BlankInv DEF Init, Blank

LEMMA CrashStep ==
    ASSUME IInv, NEW b \in Casters, Crash(b)
    PROVE  IInv'
PROOF
  <1>1. Blank'
    BY DEF Crash, Blank, IInv, TypeOK
  <1> QED
    BY <1>1, BlankInv, PTL

----------------------------------------------------------------------------
(* The invariant, and what follows from it.                                *)

LEMMA NextInv == IInv /\ [Next]_vars => IInv'
PROOF
  <1> SUFFICES ASSUME IInv, [Next]_vars PROVE IInv'
    OBVIOUS
  <1>1. ASSUME NEW ws \in Sockets, Connect(ws) PROVE IInv'
    BY <1>1, ConnectStep
  <1>2. ASSUME NEW h \in Handlers, Subscribing(h) PROVE IInv'
    BY <1>2, ReqStep, RefuseStep, AddStep, FillStep, AddNothingStep DEF Subscribing
  <1>3. ASSUME NEW h \in Handlers, Unsubscribing(h) PROVE IInv'
    <2>1. ASSUME NEW ws \in Sockets, Kill(h, ws) PROVE IInv'
      BY <2>1, WalkStep DEF Kill
    <2>2. ASSUME NEW ws \in Sockets, NEW id \in Ids, Close(h, ws, id) PROVE IInv'
      BY <2>2, WalkStep DEF Close
    <2> QED
      BY <1>3, <2>1, <2>2, RemoveStep, ShrinkStep, SkipStep, UnlockStep DEF Unsubscribing
  <1>4. ASSUME NEW b \in Casters, Notifying(b) PROVE IInv'
    BY <1>4, NotifyStep, CrashStep DEF Notifying, Notify
  <1>5. CASE UNCHANGED vars
    <2>1. casts' \in [Casters -> Cast]
      BY <1>5 DEF vars, IInv, TypeOK
    <2> QED
      BY <1>5, <2>1, CastsAside DEF vars
  <1> QED
    BY <1>1, <1>2, <1>3, <1>4, <1>5 DEF Next

LEMMA Invariance == Spec => []IInv
BY InitInv, NextInv, PTL DEF Spec

\* Every variable keeps its type: in particular the code never indexes an array outside
\* its bounds, nor loses a field of a handler or of a broadcast.
THEOREM TypeCorrect == Spec => []TypeOK
PROOF
  <1>1. IInv => TypeOK
    BY DEF IInv
  <1> QED
    BY <1>1, Invariance, PTL

LEMMA LiveSpecs ==
    ASSUME IInv, ~Unsettled, NEW ws \in Sockets, NEW p
    PROVE  p \in Live(ws) <=> p \in 1 .. Held[ws] /\ p > Deleted[ws]
PROOF
  <1>1. clients[ws] \in Seq(Spec0) /\ Held[ws] = Len(clients[ws]) /\ Held[ws] \in Nat
        /\ DOMAIN clients[ws] = 1 .. Len(clients[ws])
    BY DEF Held, IInv, TypeOK
  <1>2. CASE holder = None
    <2>1. \A h \in Handlers : handlers[h].at \notin {"walk", "shrink"}
      BY <1>2, Holder, ListenersAssumption
    <2>2. Deleted[ws] = 0
      BY <1>2 DEF Phase, Deleted
    <2> QED
      BY <1>1, <2>1, <2>2 DEF Live
  <1>3. CASE holder # None
    <2>1. /\ holder \in Handlers /\ Phase = handlers[holder].at /\ Me = handlers[holder]
          /\ handlers[holder] \in Handler
      BY <1>3 DEF IInv, TypeOK, Phase, Me
    <2>2. Phase = "walk"
      BY <2>1, <1>3, Holder DEF Unsettled
    <2>3. \A h \in Handlers : handlers[h].at \in {"walk", "shrink"} <=> h = holder
      BY <2>1, <2>2, Holder
    <2>4. p \in Live(ws) <=> p \in 1 .. Held[ws] /\ (Me.what = "kill" /\ Me.ws = ws => p >= Me.s)
      BY <1>1, <2>1, <2>3 DEF Live
    <2>5. Deleted[ws] = IF Me.what = "kill" /\ Me.ws = ws THEN Me.s - 1 ELSE 0
      BY <2>2 DEF Deleted
    <2>6. Me.s \in Nat
      BY <2>1 DEF Handler
    <2> QED
      BY <1>1, <2>4, <2>5, <2>6
  <1> QED
    BY <1>2, <1>3

\* Whatever the number of sockets, handlers, subscriptions and listeners, the map and
\* the slice describe the same listeners between two removals or additions.
THEOREM MapAndSliceAgree == Spec => []IndexesAgree
PROOF
  <1>1. IInv => IndexesAgree
    <2> SUFFICES ASSUME IInv, ~Unsettled
                 PROVE  /\ \A ws \in Sockets : \A p \in Live(ws) :
                              /\ clients[ws][p].index \in 1 .. len
                              /\ slots[clients[ws][p].index].ws = ws
                              /\ slots[clients[ws][p].index].id = clients[ws][p].id
                              /\ \A q \in Live(ws) : clients[ws][q].index = clients[ws][p].index => p = q
                        /\ \A i \in 1 .. len : \E p \in Live(slots[i].ws) : clients[slots[i].ws][p].index = i
      BY DEF IndexesAgree
    <2>1. Phase \notin {"fill", "shrink"}
      <3>1. CASE holder = None
        BY <3>1 DEF Phase
      <3>2. CASE holder # None
        BY <3>2, ListenersAssumption DEF IInv, TypeOK, Phase, Me, Unsettled
      <3> QED
        BY <3>1, <3>2
    <2>2. Top = len /\ Sure = len /\ len \in Nat
      BY <2>1, SureSlots DEF Top, Sure
    <2>3. Agreement(clients, Held, 1 .. len, Owner, Deleted)
      BY <2>2 DEF IInv, Agree
    <2>4. \A i \in 1 .. len : Owner[i].ws = slots[i].ws /\ Owner[i].id = slots[i].id
      BY <2>2, SureSlots
    <2>5. ASSUME NEW ws \in Sockets, NEW p \in Live(ws)
          PROVE  /\ clients[ws][p].index \in 1 .. len
                 /\ slots[clients[ws][p].index].ws = ws
                 /\ slots[clients[ws][p].index].id = clients[ws][p].id
                 /\ \A q \in Live(ws) : clients[ws][q].index = clients[ws][p].index => p = q
      <3>1. p \in 1 .. Held[ws] /\ p > Deleted[ws]
        BY LiveSpecs
      <3>2. \A q \in Live(ws) : q \in 1 .. Held[ws] /\ q > Deleted[ws]
        BY LiveSpecs
      <3>3. /\ clients[ws][p].index \in 1 .. len
            /\ Owner[clients[ws][p].index].ws = ws
            /\ Owner[clients[ws][p].index].id = clients[ws][p].id
        BY <2>3, <3>1 DEF Agreement
      <3>4. \A q \in Live(ws) : clients[ws][q].index = clients[ws][p].index => p = q
        BY <2>3, <3>1, <3>2 DEF Agreement
      <3> QED
        BY <2>4, <3>3, <3>4
    <2>6. ASSUME NEW i \in 1 .. len
          PROVE  \E p \in Live(slots[i].ws) : clients[slots[i].ws][p].index = i
      <3>1. Owner[i].ws \in Sockets
        BY <2>3 DEF Agreement
      <3>2. PICK p \in 1 .. Held[Owner[i].ws] : p > Deleted[Owner[i].ws] /\ clients[Owner[i].ws][p].index = i
        BY <2>3 DEF Agreement
      <3>3. p \in Live(Owner[i].ws)
        BY <3>1, <3>2, LiveSpecs
      <3> QED
        BY <2>4, <3>2, <3>3
    <2> QED
      BY <2>5, <2>6
  <1> QED
    BY <1>1, Invariance, PTL

\* A connection that ended leaves nothing behind, whatever is still being answered on it.
THEOREM NothingIsLeft == Spec => []GoneAreForgotten
PROOF
  <1>1. IInv => GoneAreForgotten
    <2> SUFFICES ASSUME IInv, NEW ws \in Sockets, link[ws] = "gone"
                 PROVE  clients[ws] = <<>> /\ \A l \in Registered : l.ws # ws
      BY DEF GoneAreForgotten
    <2>1. clients[ws] = <<>>
      BY DEF IInv, LinkInv, Connected
    <2>2. ASSUME NEW i \in 1 .. Sure, slots[i].ws = ws
          PROVE  FALSE
      <3>1. i \in 1 .. Top
        <4>1. Sure \in Int /\ Sure <= len /\ len \in Nat /\ (Sure = Top \/ Phase = "fill")
          BY SureSlots
        <4>2. Phase = "fill" => Top = len
          BY DEF Top
        <4> QED
          BY <4>1, <4>2
      <3>2. Owner[i].ws = ws
        BY <2>2, SureSlots
      <3>3. Agreement(clients, Held, 1 .. Top, Owner, Deleted)
        BY DEF IInv, Agree
      <3>4. PICK p \in 1 .. Held[ws] : clients[ws][p].index = i
        BY <3>1, <3>2, <3>3 DEF Agreement
      <3>5. Held[ws] = 0
        BY <2>1 DEF Held
      <3> QED
        BY <3>4, <3>5
    <2> QED
      BY <2>1, <2>2, SureSlots
  <1> QED
    BY <1>1, Invariance, PTL

\* A CLOSE that is carried out leaves no listener of its subscription.
THEOREM ClosedStaysNowhere == Spec => ClosedIsGone
PROOF
  <1> DEFINE Done == \A h \in Handlers :
                        handlers[h].at = "walk" /\ handlers[h].what = "close"
                             /\ holder' = None /\ link' = link =>
                          \A i \in 1 .. len : <<slots[i].ws, slots[i].id>>
                                              # <<handlers[h].ws, handlers[h].id>>
  <1>1. IInv /\ [Next]_vars => [Done]_vars
    <2> SUFFICES ASSUME IInv, Next, NEW h \in Handlers,
                        handlers[h].at = "walk", handlers[h].what = "close",
                        holder' = None, link' = link,
                        NEW i \in 1 .. len,
                        slots[i].ws = handlers[h].ws, slots[i].id = handlers[h].id
                 PROVE  FALSE
      OBVIOUS
    <2>1. /\ holder = h /\ Me = handlers[h] /\ Phase = "walk" /\ h # None
          /\ handlers[h].ws \in Sockets /\ link[handlers[h].ws] = "open"
          /\ DOMAIN clients[handlers[h].ws] = 1 .. Len(clients[handlers[h].ws])
      BY Walker
    <2>2. \A k \in Handlers : k # h => ~(handlers[k].at \in {"fill", "walk", "shrink"})
      BY <2>1 DEF IInv, LockInv
    <2>3. Unlock(h)
      <3>1. ASSUME NEW ws \in Sockets, Connect(ws) PROVE FALSE
        BY <3>1, <2>1 DEF Connect
      <3>2. ASSUME NEW k \in Handlers, Subscribing(k) PROVE FALSE
        BY <3>2, <2>1, <2>2 DEF Subscribing, Req, RefuseFilter, AddListener, Fill, AddNothing
      <3>3. ASSUME NEW k \in Handlers, Unsubscribing(k) PROVE Unlock(h)
        <4>1. CASE Unlock(k)
          BY <4>1, <2>2 DEF Unlock
        <4>2. CASE RemoveSpec(k) \/ Shrink(k) \/ SkipSpec(k)
          BY <4>2, <2>1 DEF RemoveSpec, Shrink, SkipSpec
        <4>3. CASE \E ws \in Sockets : Kill(k, ws) \/ \E id \in Ids : Close(k, ws, id)
          BY <4>3, <2>1 DEF Kill, Close, Walk
        <4> QED
          BY <3>3, <4>1, <4>2, <4>3 DEF Unsubscribing
      <3>4. ASSUME NEW b \in Casters, Notifying(b) PROVE FALSE
        <4>1. CASE Crash(b)
          BY <4>1, <2>1 DEF Crash
        <4>2. CASE ~Crash(b)
          BY <3>4, <4>2, <2>1 DEF Notifying, Broadcast, LoadLength, Match, Send, Finish
        <4> QED
          BY <4>1, <4>2
      <3> QED
        BY <3>1, <3>2, <3>3, <3>4 DEF Next
    <2>4. Me.s \notin 1 .. Len(clients[Me.ws])
      BY <2>1, <2>3 DEF Unlock
    <2>5. \A p \in 1 .. Len(clients[Me.ws]) : clients[Me.ws][p].id # Me.id
      <3>1. /\ Me.s \in 0 .. Len(clients[Me.ws])
            /\ \A p \in 1 .. Len(clients[Me.ws]) : p > Me.s => clients[Me.ws][p].id # Me.id
        BY <2>1 DEF IInv, WalkInv
      <3>2. Me.s = 0
        BY <2>4, <3>1
      <3> QED
        BY <3>1, <3>2
    <2>6. Top = len /\ Sure = len
      BY <2>1 DEF Top, Sure
    <2>7. Owner[i].ws = Me.ws /\ Owner[i].id = Me.id
      BY <2>1, <2>6, SureSlots
    <2>8. Agreement(clients, Held, 1 .. len, Owner, Deleted)
      BY <2>6 DEF IInv, Agree
    <2>9. PICK p \in 1 .. Held[Me.ws] : p > Deleted[Me.ws] /\ clients[Me.ws][p].index = i
      BY <2>7, <2>8 DEF Agreement
    <2>10. Owner[i].id = clients[Me.ws][p].id
      BY <2>1, <2>8, <2>9 DEF Agreement
    <2>11. Held[Me.ws] = Len(clients[Me.ws])
      BY <2>1 DEF Held
    <2> QED
      BY <2>5, <2>7, <2>9, <2>10, <2>11
  <1> QED
    BY <1>1, Invariance, PTL DEF Spec, ClosedIsGone

----------------------------------------------------------------------------
(* Broadcasts: a listener still owed the event lies ahead, in the array    *)
(* the broadcast reads, and will be seen whole.                            *)

\* Broadcast c finds listener l at index j; `array` is the current one, in which the
\* first `sure` slots hold listeners.
Lies(c, l, j, array, sure) ==
    /\ j >= 1
    /\ IF c.detached THEN j <= Len(c.old) /\ c.old[j] = l ELSE j <= sure /\ array[j] = l
    /\ c.at = "length" => j <= sure /\ array[j] = l
    /\ c.at \in {"read", "send"} => c.i <= j /\ j <= c.n
    /\ c.at = "send" /\ j = c.i => c.id = l.id /\ c.filter = l.filter

Ahead(c, array, sure) ==
    \A l \in c.owed : c.event \in l.filter /\ \E j \in Nat : Lies(c, l, j, array, sure)

CastInv == \A b \in Casters : Ahead(casts[b], slots, Sure)

LEMMA AheadKept ==
    ASSUME NEW c, NEW array, NEW array2, NEW sure \in Int, NEW sure2 \in Int, sure <= sure2,
           \A j \in 1 .. sure : array2[j] = array[j], Ahead(c, array, sure)
    PROVE  Ahead(c, array2, sure2)
PROOF
  <1>1. ASSUME NEW l \in c.owed
        PROVE  c.event \in l.filter /\ \E j \in Nat : Lies(c, l, j, array2, sure2)
    <2>1. c.event \in l.filter
      BY DEF Ahead
    <2>2. PICK j \in Nat : Lies(c, l, j, array, sure)
      BY DEF Ahead
    <2>3. Lies(c, l, j, array2, sure2)
      BY <2>2 DEF Lies
    <2> QED
      BY <2>1, <2>3
  <1> QED
    BY <1>1 DEF Ahead

LEMMA AheadDetached ==
    ASSUME NEW c \in Cast, ~c.detached, NEW array \in Seq(Slot), NEW array2, NEW sure \in Int,
           sure <= Len(array), \A j \in 1 .. sure : array2[j] = array[j], Ahead(c, array, sure),
           NEW c2, c2 = [c EXCEPT !.detached = TRUE, !.old = array]
    PROVE  Ahead(c2, array2, sure)
PROOF
  <1>1. /\ c2.detached = TRUE /\ c2.old = array /\ c2.owed = c.owed /\ c2.event = c.event
        /\ c2.at = c.at /\ c2.i = c.i /\ c2.n = c.n /\ c2.id = c.id /\ c2.filter = c.filter
    BY DEF Cast
  <1>2. ASSUME NEW l \in c2.owed
        PROVE  c2.event \in l.filter /\ \E j \in Nat : Lies(c2, l, j, array2, sure)
    <2>1. c2.event \in l.filter
      BY <1>1 DEF Ahead
    <2>2. PICK j \in Nat : Lies(c, l, j, array, sure)
      BY <1>1 DEF Ahead
    <2>3. Lies(c2, l, j, array2, sure)
      BY <2>2, <1>1 DEF Lies
    <2> QED
      BY <2>1, <2>3
  <1> QED
    BY <1>2 DEF Ahead

\* The listener at k is removed, and the last one moved there.
LEMMA AheadRemoved ==
    ASSUME NEW c \in Cast, NEW n \in Nat, NEW k \in 1 .. n, NEW array, NEW array2,
           \A j \in 1 .. n - 1 : array2[j] = IF j = k THEN array[n] ELSE array[j],
           Ahead(c, array, n),
           NEW c2, c2 = [c EXCEPT !.owed = @ \ Forgiven(c, array[k], array[n], k)]
    PROVE  Ahead(c2, array2, n - 1)
PROOF
  <1>1. /\ c2.owed = c.owed \ Forgiven(c, array[k], array[n], k)
        /\ c2.detached = c.detached /\ c2.old = c.old /\ c2.event = c.event
        /\ c2.at = c.at /\ c2.i = c.i /\ c2.n = c.n /\ c2.id = c.id /\ c2.filter = c.filter
    BY DEF Cast
  <1>2. c.i \in Nat /\ c.n \in Nat
    BY DEF Cast
  <1>3. ASSUME NEW l \in c2.owed
        PROVE  c2.event \in l.filter /\ \E j \in Nat : Lies(c2, l, j, array2, n - 1)
    <2>1. l \in c.owed /\ l \notin Forgiven(c, array[k], array[n], k)
      BY <1>1
    <2>2. c2.event \in l.filter
      BY <2>1, <1>1 DEF Ahead
    <2>3. PICK j \in Nat : Lies(c, l, j, array, n)
      BY <2>1 DEF Ahead
    <2>4. /\ l # array[k]
          /\ c.detached /\ c.at = "length" => l # array[n]
          /\ ~c.detached /\ (k < c.i \/ (k = c.i /\ c.at = "send")) => l # array[n]
      BY <2>1 DEF Forgiven
    <2>5. CASE c.detached /\ c.at # "length"
      BY <2>2, <2>3, <2>5, <1>1 DEF Lies
    <2>6. CASE ~c.detached \/ c.at = "length"
      <3>1. j \in 1 .. n /\ array[j] = l /\ j # k
        BY <2>3, <2>4, <2>6 DEF Lies
      <3>2. CASE j # n
        <4>1. j <= n - 1 /\ array2[j] = l
          BY <3>1, <3>2
        <4>2. Lies(c2, l, j, array2, n - 1)
          BY <4>1, <2>3, <1>1 DEF Lies
        <4> QED
          BY <4>2, <2>2
      <3>3. CASE j = n
        <4>1. /\ k <= n - 1 /\ array2[k] = l /\ ~(c.detached /\ c.at = "length")
              /\ ~(~c.detached /\ (k < c.i \/ (k = c.i /\ c.at = "send")))
          BY <3>1, <3>3, <2>4
        <4>2. ~c.detached /\ k >= c.i /\ ~(k = c.i /\ c.at = "send")
          BY <4>1, <2>6, <1>2
        <4>3. Lies(c2, l, k, array2, n - 1)
          BY <4>1, <4>2, <3>3, <2>3, <1>1, <1>2 DEF Lies
        <4> QED
          BY <4>3, <2>2
      <3> QED
        BY <3>2, <3>3
    <2> QED
      BY <2>5, <2>6
  <1> QED
    BY <1>3 DEF Ahead

\* Whoever does not touch the settled slots disturbs no broadcast.
LEMMA Undisturbed ==
    ASSUME IInv, CastInv, IInv', casts' = casts, Sure <= Sure',
           \A j \in 1 .. Sure : slots'[j] = slots[j]
    PROVE  CastInv'
PROOF
  <1>1. Sure \in Int
    BY SureSlots
  <1>2. Sure' \in Int
    BY DEF Sure, IInv, TypeOK
  <1>3. ASSUME NEW b \in Casters
        PROVE  Ahead(casts'[b], slots', Sure')
    <2>1. Ahead(casts[b], slots, Sure)
      BY DEF CastInv
    <2> QED
      BY <2>1, <1>1, <1>2, AheadKept
  <1> QED
    BY <1>3 DEF CastInv

LEMMA PhaseAside ==
    ASSUME IInv, NEW h \in Handlers, handlers[h].at \in {"idle", "add"},
           NEW me, handlers' = [handlers EXCEPT ![h] = me], UNCHANGED <<slots, len, holder>>
    PROVE  Sure' = Sure
PROOF
  <1>1. holder # h
    BY Holder
  <1>2. \A k \in Handlers : k # h => handlers'[k] = handlers[k]
    BY DEF IInv, TypeOK
  <1>3. Phase' = Phase
    BY <1>1, <1>2 DEF Phase, Me, IInv, TypeOK
  <1> QED
    BY <1>3 DEF Sure

LEMMA SubscribingCasts ==
    ASSUME IInv, CastInv, IInv', NEW h \in Handlers, Subscribing(h)
    PROVE  CastInv'
PROOF
  <1>1. Sure \in Int /\ Sure <= len /\ len \in Nat /\ len <= Len(slots)
    BY SureSlots
  <1>2. CASE \E ws \in Sockets, sub \in Subscriptions : Req(h, ws, sub)
    <2>1. PICK ws \in Sockets, sub \in Subscriptions : Req(h, ws, sub)
      BY <1>2
    <2>2. Sure' = Sure
      BY <2>1, IdleShape, PhaseAside DEF Req
    <2> QED
      BY <2>1, <2>2, <1>1, Undisturbed DEF Req
  <1>3. CASE RefuseFilter(h)
    <2>1. Sure' = Sure
      BY <1>3, PhaseAside DEF RefuseFilter, Ends
    <2> QED
      BY <1>3, <2>1, <1>1, Undisturbed DEF RefuseFilter
  <1>4. CASE AddNothing(h)
    <2>1. Sure' = Sure
      BY <1>4, PhaseAside DEF AddNothing, NextFilter
    <2> QED
      BY <1>4, <2>1, <1>1, Undisturbed DEF AddNothing
  <1>5. CASE Fill(h)
    <2>1. Phase = "fill" /\ Phase' = "free" /\ len' = len
      BY <1>5, Holder DEF Fill, Phase
    <2>2. Sure = len - 1 /\ Sure' = len
      BY <2>1 DEF Sure
    <2>3. \A j \in 1 .. Sure : slots'[j] = slots[j]
      <3>1. slots \in Seq(Slot) /\ DOMAIN slots = 1 .. Len(slots) /\ Len(slots) \in Nat
        BY DEF IInv, TypeOK
      <3>2. \A j \in 1 .. Sure : j \in DOMAIN slots /\ j # len
        BY <3>1, <1>1, <2>2
      <3> QED
        BY <3>2, <1>5 DEF Fill
    <2> QED
      BY <1>1, <1>5, <2>2, <2>3, Undisturbed DEF Fill
  <1>6. CASE AddListener(h)
    <2>1. Phase = "free" /\ Phase' = "fill"
      <3>1. holder = None /\ holder' = h /\ handlers'[h].at = "fill" /\ h # None
        BY <1>6, ListenersAssumption DEF AddListener, Goes, IInv, TypeOK, Handler
      <3> QED
        BY <3>1 DEF Phase, Me
    <2>2. Sure = len /\ Sure' = Sure
      <3>1. len' = len + 1
        BY <1>6, GrownSlots
      <3> QED
        BY <3>1, <2>1, <1>1 DEF Sure
    <2>3. \A j \in 1 .. Sure : slots'[j] = slots[j]
      BY <1>6, <2>2, GrownSlots
    <2>4. ASSUME NEW b \in Casters
          PROVE  Ahead(casts'[b], slots', Sure)
      <3>1. Ahead(casts[b], slots, Sure) /\ casts[b] \in Cast /\ slots \in Seq(Slot)
        BY DEF CastInv, IInv, TypeOK
      <3>2. CASE Grows /\ casts[b].at # "idle" /\ ~casts[b].detached
        <4> DEFINE c2 == [casts[b] EXCEPT !.detached = TRUE, !.old = slots]
        <4>1. casts'[b] = c2
          BY <1>6, <3>2 DEF AddListener
        <4>2. Ahead(c2, slots', Sure)
          <5> DEFINE c == casts[b]
          <5>1. c2 = [c EXCEPT !.detached = TRUE, !.old = slots] /\ c \in Cast /\ ~c.detached
            BY <3>1, <3>2
          <5>2. Sure <= Len(slots) /\ Sure \in Int
            BY <1>1, <2>2, <3>1
          <5>3. Ahead(c, slots, Sure)
            BY <3>1
          <5> HIDE DEF c, c2
          <5> QED
            BY <2>3, <3>1, <5>1, <5>2, <5>3, AheadDetached
        <4> QED
          BY <4>1, <4>2
      <3>3. CASE ~(Grows /\ casts[b].at # "idle" /\ ~casts[b].detached)
        <4>1. casts'[b] = casts[b]
          BY <1>6, <3>3 DEF AddListener
        <4> QED
          BY <1>1, <2>3, <3>1, <4>1, AheadKept
      <3> QED
        BY <3>2, <3>3
    <2> QED
      BY <2>2, <2>4 DEF CastInv
  <1> QED
    BY <1>2, <1>3, <1>4, <1>5, <1>6 DEF Subscribing

LEMMA UnsubscribingCasts ==
    ASSUME IInv, CastInv, IInv', NEW h \in Handlers, Unsubscribing(h)
    PROVE  CastInv'
PROOF
  <1>1. Sure \in Int /\ Sure <= len /\ len \in Nat /\ len <= Len(slots)
    BY SureSlots
  <1>2. ASSUME NEW what, NEW ws, NEW id, Walk(h, what, ws, id)
        PROVE  CastInv'
    <2>1. holder = None /\ holder' = h /\ handlers'[h].at = "walk" /\ h # None
      BY <1>2, ListenersAssumption DEF Walk, Idle, IInv, TypeOK
    <2>2. Phase = "free" /\ Phase' = "walk"
      BY <2>1 DEF Phase, Me
    <2>3. Sure' = Sure /\ casts' = casts /\ slots' = slots
      BY <1>2, <2>2 DEF Sure, Walk
    <2> QED
      BY <1>1, <2>3, Undisturbed
  <1>3. CASE Shrink(h)
    <2>1. Phase = "shrink" /\ holder = h /\ h # None
      BY <1>3, Walker DEF Shrink
    <2>2. holder' = h /\ handlers'[h].at = "walk" /\ len' = len - 1 /\ casts' = casts /\ slots' = slots
      BY <1>3, <2>1 DEF Shrink, IInv, TypeOK, Handler
    <2>3. Phase' = "walk"
      BY <2>1, <2>2 DEF Phase, Me
    <2>4. Sure' = Sure
      BY <2>1, <2>2, <2>3 DEF Sure
    <2> QED
      BY <1>1, <2>2, <2>4, Undisturbed
  <1>4. CASE SkipSpec(h)
    <2>1. Phase = "walk" /\ holder = h /\ h # None
      BY <1>4, Walker DEF SkipSpec
    <2>2. holder' = h /\ handlers'[h].at = "walk" /\ len' = len /\ casts' = casts /\ slots' = slots
      BY <1>4, <2>1 DEF SkipSpec, IInv, TypeOK, Handler
    <2>3. Phase' = "walk"
      BY <2>1, <2>2 DEF Phase, Me
    <2>4. Sure' = Sure
      BY <2>1, <2>2, <2>3 DEF Sure
    <2> QED
      BY <1>1, <2>2, <2>4, Undisturbed
  <1>5. CASE Unlock(h)
    <2>1. Phase = "walk" /\ Phase' = "free" /\ len' = len /\ casts' = casts /\ slots' = slots
      BY <1>5, Walker DEF Unlock, Phase
    <2>2. Sure' = Sure
      BY <2>1 DEF Sure
    <2> QED
      BY <1>1, <2>1, <2>2, Undisturbed
  <1>6. CASE RemoveSpec(h)
    <2> DEFINE me == handlers[h]
               k  == clients[me.ws][me.s].index
    <2>1. /\ k \in 1 .. len /\ Phase = "walk" /\ Phase' = "shrink" /\ len' = len
      <3>1. Removal(h, me, k)
        BY <1>6, Removing
      <3> QED
        BY <3>1 DEF Removal
    <2>2. Sure = len /\ Sure' = len - 1
      BY <2>1 DEF Sure
    <2>3. \A j \in 1 .. len - 1 : slots'[j] = IF j = k THEN slots[len] ELSE slots[j]
      <3>1. slots \in Seq(Slot) /\ DOMAIN slots = 1 .. Len(slots) /\ Len(slots) \in Nat
        BY DEF IInv, TypeOK
      <3>2. \A j \in 1 .. len - 1 : j \in DOMAIN slots
        BY <3>1, <1>1
      <3> QED
        BY <1>1, <1>6, <2>1, <3>2 DEF RemoveSpec
    <2>4. casts' = [b \in Casters |-> [casts[b] EXCEPT !.owed = @ \ Forgiven(casts[b],
                                          slots[k], slots[len], k)]]
      BY <1>6 DEF RemoveSpec
    <2> HIDE DEF k
    <2>5. ASSUME NEW b \in Casters
          PROVE  Ahead(casts'[b], slots', len - 1)
      <3>1. Ahead(casts[b], slots, len) /\ casts[b] \in Cast
        BY <2>2 DEF CastInv, IInv, TypeOK
      <3>2. casts'[b] = [casts[b] EXCEPT !.owed = @ \ Forgiven(casts[b], slots[k], slots[len], k)]
        BY <2>4
      <3> QED
        BY <1>1, <2>1, <2>3, <3>1, <3>2, AheadRemoved
    <2> QED
      BY <2>2, <2>5 DEF CastInv
  <1> QED
    BY <1>2, <1>3, <1>4, <1>5, <1>6 DEF Unsubscribing, Kill, Close

LEMMA AheadOwed ==
    ASSUME NEW c, NEW array, NEW sure, Ahead(c, array, sure), NEW l \in c.owed
    PROVE  c.event \in l.filter /\ \E j \in Nat : Lies(c, l, j, array, sure)
BY DEF Ahead

\* A broadcast that goes on does not lose sight of a listener it owes.
LEMMA NotifyCasts ==
    ASSUME IInv, CastInv, NEW b \in Casters, Notify(b)
    PROVE  CastInv'
PROOF
  <1> DEFINE c  == casts[b]
             c2 == casts'[b]
             s  == SlotAt(c)
  <1>1. UNCHANGED <<link, clients, slots, len, holder, handlers, asked>> /\ Sure' = Sure
    BY NotifyTypes DEF Sure, Phase, Me
  <1>2. /\ Sure \in Int /\ Sure <= len /\ len \in Nat /\ len <= Len(slots)
        /\ Registered = {slots[i] : i \in 1 .. Sure}
    BY SureSlots
  <1>3. /\ c \in Cast /\ c.i \in Nat /\ c.n \in Nat /\ casts \in [Casters -> Cast]
        /\ Ahead(c, slots, Sure)
    BY DEF IInv, TypeOK, Cast, CastInv
  <1>4. \A x \in Casters : x # b => casts'[x] = casts[x]
    BY <1>3 DEF Notify, Broadcast, LoadLength, Match, Send, Finish
  <1>5. ASSUME NEW l \in c.owed
        PROVE  l \in Listener /\ l = [ws |-> l.ws, id |-> l.id, filter |-> l.filter]
    BY <1>3 DEF Cast, Listener
  <1>6. SUFFICES Ahead(c2, slots, Sure)
    BY <1>1, <1>3, <1>4 DEF CastInv
  <1>7. ASSUME NEW l, NEW j \in Nat, Lies(c, l, j, slots, Sure), c.at \in {"read", "send"}, j = c.i
        PROVE  s = l
    BY <1>2, <1>7 DEF Lies, SlotAt
  <1>8. CASE \E e \in Events : Broadcast(b, e)
    <2>1. PICK e \in Events : Broadcast(b, e)
      BY <1>8
    <2> DEFINE owed == {x \in Registered : e \in x.filter}
    <2>2. c2 = [NoCast EXCEPT !.at = "length", !.event = e, !.owed = owed]
      BY <2>1, <1>3 DEF Broadcast
    <2>3. c2.owed = owed /\ c2.event = e /\ c2.at = "length" /\ c2.detached = FALSE
      BY <2>2 DEF NoCast
    <2>4. ASSUME NEW l \in owed
          PROVE  e \in l.filter /\ \E j \in Nat : Lies(c2, l, j, slots, Sure)
      <3>1. PICK j \in 1 .. Sure : slots[j] = l
        BY <1>2
      <3>2. j \in Nat /\ j >= 1 /\ j <= Sure
        BY <1>2
      <3> HIDE DEF c2
      <3>3. Lies(c2, l, j, slots, Sure)
        BY <2>3, <3>1, <3>2 DEF Lies
      <3> QED
        BY <3>2, <3>3
    <2> QED
      BY <2>3, <2>4 DEF Ahead
  <1>9. CASE LoadLength(b)
    <2>1. c2 = [c EXCEPT !.at = "read", !.n = len, !.i = 1] /\ c.at = "length"
      BY <1>3, <1>9 DEF LoadLength
    <2> HIDE DEF c, c2
    <2>2. /\ c2.at = "read" /\ c2.n = len /\ c2.i = 1 /\ c2.owed = c.owed /\ c2.event = c.event
          /\ c2.detached = c.detached /\ c2.old = c.old
      BY <2>1, <1>3 DEF Cast
    <2>3. ASSUME NEW l \in c.owed
          PROVE  c.event \in l.filter /\ \E j \in Nat : Lies(c2, l, j, slots, Sure)
      <3>1. PICK j \in Nat : Lies(c, l, j, slots, Sure)
        BY <1>3, AheadOwed
      <3>2. Lies(c2, l, j, slots, Sure)
        BY <1>2, <2>1, <2>2, <3>1 DEF Lies
      <3> QED
        BY <1>3, <3>2, AheadOwed
    <2> QED
      BY <2>2, <2>3 DEF Ahead
  <1>10. CASE Match(b)
    <2>1. /\ c.at = "read" /\ c.i <= c.n
          /\ c2 = IF c.event \in s.filter
                  THEN [c EXCEPT !.at = "send", !.id = s.id, !.filter = s.filter]
                  ELSE [c EXCEPT !.i = c.i + 1]
      BY <1>3, <1>10 DEF Match
    <2> HIDE DEF c, c2, s
    <2>2. CASE c.event \in s.filter
      <3>1. /\ c2.at = "send" /\ c2.n = c.n /\ c2.i = c.i /\ c2.owed = c.owed /\ c2.event = c.event
            /\ c2.detached = c.detached /\ c2.old = c.old /\ c2.id = s.id /\ c2.filter = s.filter
        BY <2>1, <2>2, <1>3 DEF Cast
      <3>2. ASSUME NEW l \in c.owed
            PROVE  c.event \in l.filter /\ \E j \in Nat : Lies(c2, l, j, slots, Sure)
        <4>1. PICK j \in Nat : Lies(c, l, j, slots, Sure)
          BY <1>3, AheadOwed
        <4>2. j = c.i => s = l
          BY <1>7, <2>1, <4>1
        <4>3. Lies(c2, l, j, slots, Sure)
          BY <2>1, <3>1, <4>1, <4>2 DEF Lies
        <4> QED
          BY <1>3, <4>3, AheadOwed
      <3> QED
        BY <3>1, <3>2 DEF Ahead
    <2>3. CASE c.event \notin s.filter
      <3>1. /\ c2.at = "read" /\ c2.n = c.n /\ c2.i = c.i + 1 /\ c2.owed = c.owed
            /\ c2.event = c.event /\ c2.detached = c.detached /\ c2.old = c.old
        BY <2>1, <2>3, <1>3 DEF Cast
      <3>2. ASSUME NEW l \in c.owed
            PROVE  c.event \in l.filter /\ \E j \in Nat : Lies(c2, l, j, slots, Sure)
        <4>1. PICK j \in Nat : Lies(c, l, j, slots, Sure)
          BY <1>3, AheadOwed
        <4>2. c.event \in l.filter
          BY <1>3, AheadOwed
        <4>3. j # c.i
          BY <1>7, <2>1, <2>3, <4>1, <4>2
        <4>4. c.i + 1 <= j
          BY <1>3, <2>1, <4>1, <4>3 DEF Lies
        <4>5. Lies(c2, l, j, slots, Sure)
          BY <2>1, <3>1, <4>1, <4>4 DEF Lies
        <4> QED
          BY <4>2, <4>5
      <3> QED
        BY <3>1, <3>2 DEF Ahead
    <2> QED
      BY <2>2, <2>3
  <1>11. CASE Send(b)
    <2> DEFINE sent == [ws |-> s.ws, id |-> c.id, filter |-> c.filter]
    <2>1. /\ c.at = "send"
          /\ c2 = [c EXCEPT !.at = "read", !.i = c.i + 1, !.id = NoId, !.filter = {},
                            !.owed = @ \ {sent}]
      BY <1>3, <1>11 DEF Send
    <2> HIDE DEF c, c2, sent
    <2>2. /\ c2.at = "read" /\ c2.n = c.n /\ c2.i = c.i + 1 /\ c2.owed = c.owed \ {sent}
          /\ c2.event = c.event /\ c2.detached = c.detached /\ c2.old = c.old
      BY <2>1, <1>3 DEF Cast
    <2>3. ASSUME NEW l \in c.owed, l # sent
          PROVE  c.event \in l.filter /\ \E j \in Nat : Lies(c2, l, j, slots, Sure)
      <3>1. PICK j \in Nat : Lies(c, l, j, slots, Sure)
        BY <1>3, AheadOwed
      <3>2. j # c.i
        <4>1. ASSUME j = c.i
              PROVE  FALSE
          <5>1. s = l
            BY <1>7, <2>1, <3>1, <4>1
          <5>2. c.id = l.id /\ c.filter = l.filter
            BY <2>1, <3>1, <4>1 DEF Lies
          <5> QED
            BY <1>5, <2>3, <5>1, <5>2 DEF sent
        <4> QED
          BY <4>1
      <3>3. c.i + 1 <= j
        BY <1>3, <2>1, <3>1, <3>2 DEF Lies
      <3>4. Lies(c2, l, j, slots, Sure)
        BY <2>1, <2>2, <3>1, <3>3 DEF Lies
      <3> QED
        BY <1>3, <3>4, AheadOwed
    <2> QED
      BY <2>2, <2>3 DEF Ahead
  <1>12. CASE Finish(b)
    <2>1. c2 = NoCast
      BY <1>3, <1>12 DEF Finish
    <2> QED
      BY <2>1 DEF NoCast, Ahead
  <1> QED
    BY <1>8, <1>9, <1>10, <1>11, <1>12 DEF Notify

LEMMA BlankCasts == Blank => CastInv
BY DEF Blank, CastInv, Ahead, NoCast

LEMMA NextCasts == IInv /\ CastInv /\ IInv' /\ [Next]_vars => CastInv'
PROOF
  <1> SUFFICES ASSUME IInv, CastInv, IInv', [Next]_vars PROVE CastInv'
    OBVIOUS
  <1>1. ASSUME NEW ws \in Sockets, Connect(ws) PROVE CastInv'
    <2>1. Sure' = Sure /\ Sure \in Int
      BY <1>1, SureSlots DEF Connect, Sure, Phase, Me
    <2> QED
      BY <1>1, <2>1, Undisturbed DEF Connect
  <1>2. ASSUME NEW b \in Casters, Notifying(b) PROVE CastInv'
    <2>1. CASE Crash(b)
      <3>1. Blank'
        BY <2>1 DEF Crash, Blank, IInv, TypeOK
      <3> QED
        BY <3>1, BlankCasts, PTL
    <2>2. CASE ~Crash(b)
      BY <1>2, <2>2, NotifyCasts DEF Notifying, Notify
    <2> QED
      BY <2>1, <2>2
  <1>3. CASE UNCHANGED vars
    <2>1. Sure' = Sure /\ Sure \in Int
      BY <1>3, SureSlots DEF vars, Sure, Phase, Me
    <2> QED
      BY <1>3, <2>1, Undisturbed DEF vars
  <1> QED
    BY <1>1, <1>2, <1>3, SubscribingCasts, UnsubscribingCasts DEF Next

\* A broadcast reaches every listener that was registered when it began, stayed, and was
\* not moved behind it, whatever comes, goes and grows meanwhile, and without the mutex.
THEOREM BroadcastsReach == Spec => []BroadcastReachesAll
PROOF
  <1>1. Init => CastInv
    BY BlankCasts DEF Init, Blank
  <1>2. Spec => []CastInv
    BY <1>1, NextCasts, Invariance, PTL DEF Spec
  <1>3. IInv /\ CastInv => BroadcastReachesAll
    <2> SUFFICES ASSUME IInv, CastInv, NEW b \in Casters, casts[b].at = "read",
                        casts[b].i > casts[b].n, NEW l \in casts[b].owed
                 PROVE  FALSE
      BY DEF BroadcastReachesAll
    <2>1. PICK j \in Nat : Lies(casts[b], l, j, slots, Sure)
      BY AheadOwed DEF CastInv
    <2>2. casts[b].i \in Nat /\ casts[b].n \in Nat
      BY DEF IInv, TypeOK, Cast
    <2> QED
      BY <2>1, <2>2 DEF Lies
  <1> QED
    BY <1>2, <1>3, Invariance, PTL

----------------------------------------------------------------------------
(* What Subscribers promises.  The number of slots that hold a listener is *)
(* what changes: an append adds one, a swap-delete takes one.              *)

Count(array, n, l) == Cardinality({i \in 1 .. n : array[i] = l})

LEMMA CountKept ==
    ASSUME NEW n, NEW array, NEW array2, \A i \in 1 .. n : array2[i] = array[i], NEW l
    PROVE  Count(array2, n, l) = Count(array, n, l)
PROOF
  <1>1. {i \in 1 .. n : array2[i] = l} = {i \in 1 .. n : array[i] = l}
    OBVIOUS
  <1> QED
    BY <1>1 DEF Count

LEMMA CountType ==
    ASSUME NEW n \in Int, NEW array, NEW l
    PROVE  /\ IsFiniteSet({i \in 1 .. n : array[i] = l})
           /\ Count(array, n, l) \in Nat
           /\ Count(array, n, l) = 0 <=> \A i \in 1 .. n : array[i] # l
PROOF
  <1> DEFINE those == {i \in 1 .. n : array[i] = l}
  <1>1. IsFiniteSet(1 .. n)
    BY FS_Interval
  <1>2. IsFiniteSet(those)
    BY <1>1, FS_Subset
  <1>3. Cardinality(those) \in Nat /\ (Cardinality(those) = 0 <=> those = {})
    BY <1>2, FS_CardinalityType, FS_EmptySet
  <1> QED
    BY <1>2, <1>3 DEF Count

\* A listener is appended.
LEMMA CountAdds ==
    ASSUME NEW n \in Nat, n >= 1, NEW array, NEW array2, NEW l,
           \A i \in 1 .. n - 1 : array2[i] = array[i]
    PROVE  Count(array2, n, l) = IF array2[n] = l THEN Count(array, n - 1, l) + 1
                                                  ELSE Count(array, n - 1, l)
PROOF
  <1> DEFINE before == {i \in 1 .. n - 1 : array[i] = l}
             after  == {i \in 1 .. n : array2[i] = l}
  <1>1. IsFiniteSet(before) /\ n \notin before
    <2>1. n - 1 \in Int
      OBVIOUS
    <2>2. IsFiniteSet(before)
      BY <2>1, CountType
    <2> QED
      BY <2>2
  <1>2. CASE array2[n] = l
    <2>1. after = before \cup {n}
      BY <1>2
    <2>2. Cardinality(before \cup {n}) = Cardinality(before) + 1
      BY <1>1, FS_AddElement
    <2> QED
      BY <1>2, <2>1, <2>2 DEF Count
  <1>3. CASE array2[n] # l
    <2>1. after = before
      BY <1>3
    <2> QED
      BY <1>3, <2>1 DEF Count
  <1> QED
    BY <1>2, <1>3

\* The listener at k is deleted, and the last one moved there.
LEMMA CountSwaps ==
    ASSUME NEW n \in Nat, NEW k \in 1 .. n, NEW array, NEW array2, NEW l,
           \A i \in 1 .. n - 1 : array2[i] = IF i = k THEN array[n] ELSE array[i]
    PROVE  Count(array2, n - 1, l) = IF array[k] = l THEN Count(array, n, l) - 1
                                                     ELSE Count(array, n, l)
PROOF
  <1> DEFINE before == {i \in 1 .. n : array[i] = l}
             after  == {i \in 1 .. n - 1 : array2[i] = l}
             rest   == before \ {k}
  <1>1. /\ IsFiniteSet(before) /\ Cardinality(before) \in Nat
        /\ IsFiniteSet(rest)
        /\ Cardinality(rest) = IF k \in before THEN Cardinality(before) - 1 ELSE Cardinality(before)
    <2>1. n \in Int
      OBVIOUS
    <2>2. IsFiniteSet(before) /\ Count(array, n, l) \in Nat
      BY <2>1, CountType
    <2>3. IsFiniteSet(before) /\ Cardinality(before) \in Nat
      BY <2>2 DEF Count
    <2> QED
      BY <2>3, FS_RemoveElement
  <1>2. k \in before <=> array[k] = l
    OBVIOUS
  <1>3. Cardinality(after) = Cardinality(rest)
    <2>1. CASE k = n \/ array[n] # l
      <3>1. after = rest
        BY <2>1
      <3> QED
        BY <3>1
    <2>2. CASE k # n /\ array[n] = l
      <3>1. n \in rest /\ k \notin rest \ {n} /\ after = (rest \ {n}) \cup {k}
        BY <2>2
      <3>2. IsFiniteSet(rest \ {n}) /\ Cardinality(rest \ {n}) = Cardinality(rest) - 1
        BY <1>1, <3>1, FS_RemoveElement
      <3>3. Cardinality((rest \ {n}) \cup {k}) = Cardinality(rest \ {n}) + 1
        BY <3>1, <3>2, FS_AddElement
      <3>4. Cardinality(rest) \in Nat
        BY <1>1, FS_CardinalityType
      <3> QED
        BY <3>1, <3>2, <3>3, <3>4
    <2> QED
      BY <2>1, <2>2
  <1> QED
    BY <1>1, <1>2, <1>3 DEF Count
\* The registrations are counted in the settled slots.
LEMMA SettledIsSure == IInv => Settled = Sure
PROOF
  <1> SUFFICES ASSUME IInv PROVE Settled = Sure
    OBVIOUS
  <1>1. Unsettled <=> Phase \in {"fill", "shrink"}
    <2>1. CASE holder = None
      BY <2>1, ListenersAssumption DEF Phase, Unsettled, IInv, LockInv
    <2>2. CASE holder # None
      <3>1. holder \in Handlers /\ Phase = handlers[holder].at
        BY <2>2 DEF IInv, TypeOK, Phase, Me
      <3> QED
        BY <3>1 DEF Unsettled, IInv, LockInv
    <2> QED
      BY <2>1, <2>2
  <1> QED
    BY <1>1 DEF Settled, Sure

LEMMA RegistrationsAre ==
    ASSUME IInv, IInv'
    PROVE  /\ Registrations = [l \in Listener |-> Count(slots, Sure, l)]
           /\ Registrations' = [l \in Listener |-> Count(slots', Sure', l)]
PROOF
  <1>1. Settled = Sure
    BY SettledIsSure
  <1>2. (Settled = Sure)'
    BY SettledIsSure, PTL
  <1> QED
    BY <1>1, <1>2 DEF Registrations, Count

LEMMA RegistrationsKept ==
    ASSUME IInv, IInv', Sure' = Sure, \A i \in 1 .. Sure : slots'[i] = slots[i]
    PROVE  Registrations' = Registrations
PROOF
  <1>1. \A l : Count(slots', Sure, l) = Count(slots, Sure, l)
    BY CountKept
  <1> QED
    BY <1>1, RegistrationsAre

LEMMA AskChanged ==
    ASSUME IInv, NEW h \in Handlers, NEW me, handlers' = [handlers EXCEPT ![h] = me]
    PROVE  /\ Asks' = [Asks EXCEPT ![h] = Asked(me)]
           /\ Asked(me) = Asked(handlers[h]) => Asks' = Asks
PROOF
  <1>1. \A k \in Handlers : handlers'[k] = IF k = h THEN me ELSE handlers[k]
    BY DEF IInv, TypeOK
  <1>2. Asks' = [k \in Handlers |-> Asked(handlers'[k])]
    BY DEF Asks, Asked
  <1>3. Asks' = [k \in Handlers |-> IF k = h THEN Asked(me) ELSE Asked(handlers[k])]
    BY <1>1, <1>2
  <1> QED
    BY <1>3 DEF Asks

\* Where a handler stands is its own affair.
LEMMA AskStays ==
    ASSUME IInv, NEW h \in Handlers, NEW at, NEW s,
           \/ handlers' = [handlers EXCEPT ![h].at = at]
           \/ handlers' = [handlers EXCEPT ![h].at = at, ![h].s = s]
           \/ handlers' = [handlers EXCEPT ![h].s = s]
    PROVE  Asks' = Asks
PROOF
  <1>1. handlers[h] \in Handler
    BY DEF IInv, TypeOK
  <1>2. PICK me : /\ handlers' = [handlers EXCEPT ![h] = me]
                  /\ Asked(me) = Asked(handlers[h])
    <2>1. Asked([handlers[h] EXCEPT !.at = at]) = Asked(handlers[h])
      BY <1>1 DEF Asked, Handler
    <2>2. Asked([handlers[h] EXCEPT !.at = at, !.s = s]) = Asked(handlers[h])
      BY <1>1 DEF Asked, Handler
    <2>3. Asked([handlers[h] EXCEPT !.s = s]) = Asked(handlers[h])
      BY <1>1 DEF Asked, Handler
    <2>4. CASE handlers' = [handlers EXCEPT ![h].at = at]
      BY <2>1, <2>4
    <2>5. CASE handlers' = [handlers EXCEPT ![h].at = at, ![h].s = s]
      BY <2>2, <2>5
    <2>6. CASE handlers' = [handlers EXCEPT ![h].s = s]
      BY <2>3, <2>6
    <2> QED
      BY <2>4, <2>5, <2>6
  <1> QED
    BY <1>2, AskChanged

LEMMA AskOf ==
    ASSUME NEW h \in Handlers
    PROVE  /\ Asks[h] = Asked(handlers[h])
           /\ Asks[h].what = handlers[h].what /\ Asks[h].ws = handlers[h].ws
           /\ Asks[h].id = handlers[h].id /\ Asks[h].filters = handlers[h].filters
BY DEF Asks, Asked

LEMMA AskedNothing == Asked(Idle) = Promise!Nothing
BY DEF Asked, Idle, Promise!Nothing

\* NextFilter is the same on both sides.
LEMMA AskNext ==
    ASSUME IInv, NEW h \in Handlers, NextFilter(h)
    PROVE  Promise!NextFilter(h)
PROOF
  <1>1. handlers[h] \in Handler
    BY DEF IInv, TypeOK
  <1>2. handlers' = [handlers EXCEPT ![h] = NextOf(handlers[h])]
    BY DEF NextFilter, NextOf
  <1>3. Asked(NextOf(handlers[h])) = Promise!After(Asked(handlers[h]))
    <2>1. CASE Len(handlers[h].filters) = 1
      BY <2>1, AskedNothing DEF NextOf, Promise!After, Asked
    <2>2. CASE Len(handlers[h].filters) # 1
      BY <1>1, <2>2 DEF NextOf, Promise!After, Asked, Handler
    <2> QED
      BY <2>1, <2>2
  <1>4. Asks' = [Asks EXCEPT ![h] = Promise!After(Asked(handlers[h]))]
    BY <1>2, <1>3, AskChanged
  <1> QED
    BY <1>4, AskOf DEF Promise!NextFilter

\* Only a REQ adds listeners, and one it writes has its slot.
ReqInv == \A h \in Handlers :
    /\ handlers[h].at \in {"add", "fill"} => handlers[h].what = "req"
    /\ handlers[h].at = "fill" => len >= 1

LEMMA NextReqs ==
    ASSUME IInv, ReqInv, [Next]_vars
    PROVE  ReqInv'
PROOF
  <1> DEFINE Fits(k) == /\ handlers'[k].at \in {"add", "fill"} => handlers'[k].what = "req"
                        /\ handlers'[k].at = "fill" => len' >= 1
  <1> SUFFICES ASSUME NEW k \in Handlers
               PROVE  Fits(k)
    BY DEF ReqInv
  <1>1. len \in Nat /\ \A h \in Handlers : handlers[h] \in Handler
    BY DEF IInv, TypeOK
  <1>2. ASSUME NEW h \in Handlers, Subscribing(h)
        PROVE  Fits(k)
    <2>1. CASE \E ws \in Sockets, sub \in Subscriptions : Req(h, ws, sub)
      BY <1>1, <2>1 DEF ReqInv, Req, Idle, IInv, TypeOK
    <2>2. CASE RefuseFilter(h)
      BY <1>1, <2>2 DEF ReqInv, RefuseFilter, Ends, Idle, IInv, TypeOK
    <2>3. CASE AddListener(h)
      <3>1. /\ handlers' = [handlers EXCEPT ![h].at = "fill"] /\ len' = len + 1
            /\ handlers[h].what = "req"
        BY <2>3 DEF AddListener, Goes, ReqInv
      <3> QED
        BY <1>1, <3>1 DEF ReqInv, Handler, IInv, TypeOK
    <2>4. CASE Fill(h) \/ AddNothing(h)
      <3>1. NextFilter(h) /\ handlers[h].what = "req" /\ len' = len
        BY <2>4 DEF ReqInv, Fill, AddNothing
      <3> QED
        BY <1>1, <3>1 DEF ReqInv, NextFilter, Idle, Handler, IInv, TypeOK
    <2> QED
      BY <1>2, <2>1, <2>2, <2>3, <2>4 DEF Subscribing
  <1>3. ASSUME NEW h \in Handlers, Unsubscribing(h)
        PROVE  Fits(k)
    <2>1. ASSUME NEW what, NEW ws, NEW id, Walk(h, what, ws, id)
          PROVE  Fits(k)
      BY <1>1, <2>1 DEF ReqInv, Walk, Idle, IInv, TypeOK
    <2>2. CASE RemoveSpec(h)
      BY <1>1, <2>2 DEF ReqInv, RemoveSpec, Goes, Handler, IInv, TypeOK
    <2>3. CASE Shrink(h) \/ SkipSpec(h)
      <3>1. handlers' = [handlers EXCEPT ![h] = [handlers[h] EXCEPT
                            !.at = "walk", !.s = Step(handlers[h])]]
        <4>1. CASE Shrink(h)
          BY <1>1, <4>1 DEF Shrink, Handler
        <4>2. CASE SkipSpec(h)
          <5>1. /\ handlers' = [handlers EXCEPT ![h].s = Step(handlers[h])]
                /\ handlers[h].at = "walk"
            BY <4>2 DEF SkipSpec
          <5>2. [handlers[h] EXCEPT !.at = "walk", !.s = Step(handlers[h])]
                   = [handlers[h] EXCEPT !.s = Step(handlers[h])]
            BY <1>1, <5>1 DEF Handler
          <5> QED
            BY <5>1, <5>2
        <4> QED
          BY <2>3, <4>1, <4>2
      <3>2. handlers[k].at # "fill" \/ k = h
        <4>1. handlers[h].at \in {"walk", "shrink"}
          BY <2>3 DEF Shrink, SkipSpec
        <4> QED
          BY <4>1 DEF IInv, LockInv
      <3> QED
        BY <1>1, <3>1, <3>2 DEF ReqInv, Handler, IInv, TypeOK
    <2>4. CASE Unlock(h)
      BY <1>1, <2>4 DEF ReqInv, Unlock, Ends, Idle, IInv, TypeOK
    <2> QED
      BY <1>3, <2>1, <2>2, <2>3, <2>4 DEF Unsubscribing, Kill, Close
  <1>4. ASSUME NEW b \in Casters, Notifying(b)
        PROVE  Fits(k)
    <2>1. CASE Notify(b)
      BY <2>1 DEF ReqInv, Notify, Broadcast, LoadLength, Match, Send, Finish
    <2>2. CASE Crash(b)
      BY <2>2 DEF Crash, Idle
    <2> QED
      BY <1>4, <2>1, <2>2 DEF Notifying, Notify
  <1>5. CASE (\E ws \in Sockets : Connect(ws)) \/ UNCHANGED vars
    BY <1>5 DEF ReqInv, Connect, vars
  <1> QED
    BY <1>2, <1>3, <1>4, <1>5 DEF Next
\* Steps of REQ, CLOSE and kill that leave the slots alone.
LEMMA AskSteps ==
    ASSUME IInv, IInv', NEW h \in Handlers,
           NEW ws \in Sockets, NEW me, Connected(ws),
           handlers[h] = Idle, handlers' = [handlers EXCEPT ![h] = me],
           UNCHANGED <<link, slots, len>>, Sure' = Sure
    PROVE  Promise!Ask(h, Asked(me)) <=> me.ws = ws \/ link[me.ws] = "open"
PROOF
  <1>1. Registrations' = Registrations
    BY RegistrationsKept
  <1>2. Asks[h] = Promise!Nothing
    BY AskOf, AskedNothing
  <1>3. Asks' = [Asks EXCEPT ![h] = Asked(me)]
    BY AskChanged
  <1>4. Asked(me).ws = me.ws
    BY DEF Asked
  <1> QED
    BY <1>1, <1>2, <1>3, <1>4 DEF Promise!Ask, Connected

\* A walk changes nothing yet.
LEMMA WalkAsks ==
    ASSUME IInv, IInv', NEW h \in Handlers, NEW what \in {"close", "kill"}, NEW ws \in Sockets,
           NEW id, Walk(h, what, ws, id)
    PROVE  Promise!Ask(h, [what |-> what, ws |-> ws, id |-> id, filters |-> <<>>])
PROOF
  <1> DEFINE me == [Idle EXCEPT !.what = what, !.at = "walk", !.ws = ws, !.id = id,
                       !.s = IF Upward(what) THEN 1 ELSE Len(clients[ws])]
  <1>1. Asked(me) = [what |-> what, ws |-> ws, id |-> id, filters |-> <<>>] /\ me.ws = ws
    BY DEF Asked, Idle
  <1>2. /\ handlers[h] = Idle /\ holder = None /\ holder' = h /\ Connected(ws)
        /\ handlers' = [handlers EXCEPT ![h] = me] /\ UNCHANGED <<link, slots, len>>
        /\ me.at = "walk"
    BY DEF Walk, Idle
  <1> HIDE DEF me
  <1>3. Sure' = Sure
    <2>1. handlers'[h] = me /\ h # None
      BY <1>2, ListenersAssumption DEF IInv, TypeOK
    <2>2. Phase = "free" /\ Phase' = "walk"
      BY <1>2, <2>1 DEF Phase, Me
    <2> QED
      BY <1>2, <2>2 DEF Sure
  <1> QED
    BY <1>1, <1>2, <1>3, AskSteps

LEMMA SubscribingKeeps ==
    ASSUME IInv, IInv', ReqInv, NEW h \in Handlers, Subscribing(h)
    PROVE  [Promise!Next]_(Promise!subscribers)
PROOF
  <1>1. CASE \E ws \in Sockets, sub \in Subscriptions : Req(h, ws, sub)
    <2>1. PICK ws \in Sockets, sub \in Subscriptions : Req(h, ws, sub)
      BY <1>1
    <2> DEFINE me == [Idle EXCEPT !.what = "req", !.at = "add", !.ws = ws, !.id = sub.id,
                                  !.filters = sub.filters]
    <2>2. /\ Asked(me) = Promise!AskReq(ws, sub) /\ me.ws = ws
          /\ handlers[h] = Idle /\ handlers[h].at = "idle" /\ Connected(ws)
          /\ handlers' = [handlers EXCEPT ![h] = me]
          /\ UNCHANGED <<link, slots, len, holder>>
      BY <2>1 DEF Asked, Idle, Promise!AskReq, Req, Connected
    <2> HIDE DEF me
    <2>3. Sure' = Sure
      BY <2>2, PhaseAside
    <2>4. Promise!Ask(h, Promise!AskReq(ws, sub))
      BY <2>2, <2>3, AskSteps
    <2> QED
      BY <2>4 DEF Promise!Asking, Promise!Next
  <1>2. CASE RefuseFilter(h)
    <2>1. /\ handlers[h].at = "add" /\ handlers[h].what = "req"
          /\ handlers' = [handlers EXCEPT ![h] = Idle] /\ UNCHANGED <<link, slots, len, holder>>
      BY <1>2 DEF RefuseFilter, Ends, ReqInv
    <2>2. Sure' = Sure
      BY <2>1, PhaseAside
    <2>3. Registrations' = Registrations
      BY <2>1, <2>2, RegistrationsKept
    <2>4. Asks' = [Asks EXCEPT ![h] = Promise!Nothing] /\ Asks[h].what = "req"
      BY <2>1, AskChanged, AskedNothing, AskOf
    <2> QED
      BY <2>1, <2>3, <2>4 DEF Promise!Refuse, Promise!Next
  <1>3. CASE AddListener(h)
    <2>1. Phase = "free" /\ Phase' = "fill" /\ len' = len + 1 /\ link' = link
          /\ handlers' = [handlers EXCEPT ![h].at = "fill"]
      <3>1. holder = None /\ holder' = h /\ handlers'[h].at = "fill" /\ h # None
        BY <1>3, ListenersAssumption DEF AddListener, Goes, IInv, TypeOK, Handler
      <3> QED
        BY <1>3, <3>1, GrownSlots DEF Phase, Me, AddListener, Goes
    <2>2. Sure' = Sure /\ Sure = len
      BY <2>1 DEF Sure, IInv, TypeOK
    <2>3. Registrations' = Registrations
      BY <1>3, <2>2, GrownSlots, RegistrationsKept
    <2>4. Asks' = Asks
      BY <2>1, AskStays
    <2> QED
      BY <2>1, <2>3, <2>4 DEF Promise!subscribers
  <1>4. CASE Fill(h)
    <2> DEFINE l == [ws |-> handlers[h].ws, id |-> handlers[h].id,
                     filter |-> Head(handlers[h].filters)]
    <2>1. /\ Phase = "fill" /\ Phase' = "free" /\ len' = len /\ link' = link
          /\ slots' = [slots EXCEPT ![len] = l] /\ NextFilter(h) /\ handlers[h].what = "req"
      BY <1>4, Holder DEF Fill, Phase, ReqInv
    <2>2. Sure = len - 1 /\ Sure' = len
      BY <2>1 DEF Sure
    <2>3. /\ handlers[h].ws \in Sockets /\ link[handlers[h].ws] = "open" /\ l \in Listener
      <3>1. handlers[h] \in Handler /\ Shape(handlers[h]) /\ handlers[h].at = "fill"
        BY <1>4, Shaped DEF Fill
      <3>2. handlers[h].filters \in Seq(Filter) /\ handlers[h].filters # <<>>
        BY <3>1 DEF Handler, Shape
      <3>3. Head(handlers[h].filters) \in Filter
        BY <3>2
      <3> QED
        BY <3>1, <3>3 DEF Shape, Listener
    <2>4. len \in Nat /\ len >= 1 /\ slots \in Seq(Slot) /\ len <= Len(slots) /\ Len(slots) \in Nat
      <3>1. len >= 1
        BY <1>4 DEF Fill, ReqInv
      <3> QED
        BY <3>1 DEF IInv, TypeOK
    <2>5. slots'[len] = l /\ \A i \in 1 .. len - 1 : slots'[i] = slots[i]
      BY <2>1, <2>4
    <2> HIDE DEF l
    <2>6. \A x : Count(slots', len, x) = IF x = l THEN Count(slots, len - 1, x) + 1
                                                  ELSE Count(slots, len - 1, x)
      BY <2>4, <2>5, CountAdds
    <2>7. Registrations' = [Registrations EXCEPT ![l] = @ + 1]
      BY <2>2, <2>3, <2>6, RegistrationsAre
    <2>8. l = Promise!Wanted(Asks[h])
      BY AskOf DEF l, Promise!Wanted
    <2>9. Promise!NextFilter(h)
      BY <2>1, AskNext
    <2> QED
      BY <2>1, <2>3, <2>7, <2>8, <2>9, AskOf DEF Promise!Subscribe, Promise!Next
  <1>5. CASE AddNothing(h)
    <2>1. /\ handlers[h].at = "add" /\ handlers[h].what = "req" /\ NextFilter(h)
          /\ link[handlers[h].ws] # "open" /\ UNCHANGED <<link, slots, len, holder>>
      BY <1>5 DEF AddNothing, Connected, ReqInv
    <2>2. Sure' = Sure
      BY <2>1, PhaseAside DEF NextFilter
    <2>3. Registrations' = Registrations
      BY <2>1, <2>2, RegistrationsKept
    <2>4. Promise!NextFilter(h)
      BY <2>1, AskNext
    <2> QED
      BY <2>1, <2>3, <2>4, AskOf DEF Promise!TooLate, Promise!Next
  <1> QED
    BY <1>1, <1>2, <1>3, <1>4, <1>5 DEF Subscribing
\* The listener a walk removes is one it is about, for the map and the slice agree.
LEMMA RemovalUnsubscribes ==
    ASSUME IInv, IInv', NEW h \in Handlers, RemoveSpec(h)
    PROVE  Promise!Unsubscribe(h)
PROOF
  <1> DEFINE me == handlers[h]
             k  == clients[me.ws][me.s].index
             l  == slots[k]
  <1>1. Removal(h, me, k)
    BY Removing
  <1>2. /\ me \in Handler /\ me.ws \in Sockets /\ me.what \in {"close", "kill"} /\ me.at = "walk"
        /\ Me = me /\ Phase = "walk"
    BY Walker DEF RemoveSpec
  <1>3. /\ me.s \in 1 .. Len(clients[me.ws]) /\ len \in Nat /\ k \in 1 .. len
        /\ Phase' = "shrink" /\ UNCHANGED <<link, len>>
        /\ handlers' = [handlers EXCEPT ![h].at = "shrink"]
    BY <1>1 DEF Removal
  <1>4. Sure = len /\ Sure' = len - 1 /\ Top = len
    BY <1>2, <1>3 DEF Sure, Top
  <1>5. /\ me.what = "close" => clients[me.ws][me.s].id = me.id
        /\ k # len => slots' = [slots EXCEPT ![k] = slots[len]]
        /\ k = len => slots' = slots
    BY DEF RemoveSpec
  <1>6. l \in Listener /\ Owner[k].ws = l.ws /\ Owner[k].id = l.id
    BY <1>3, <1>4, SureSlots
  <1>7. l.ws = me.ws /\ l.id = clients[me.ws][me.s].id
    <2>1. Agreement(clients, Held, 1 .. len, Owner, Deleted)
      BY <1>4 DEF IInv, Agree
    <2>2. me.s \in 1 .. Held[me.ws]
      BY <1>2, <1>3 DEF Held
    <2>3. me.s > Deleted[me.ws]
      BY <1>2, <1>3 DEF Deleted, Handler
    <2> HIDE DEF me
    <2>4. Owner[k].ws = me.ws /\ Owner[k].id = clients[me.ws][me.s].id
      BY <1>2, <2>1, <2>2, <2>3 DEF Agreement
    <2> QED
      BY <1>6, <2>4
  <1>8. \A i \in 1 .. len - 1 : slots'[i] = IF i = k THEN slots[len] ELSE slots[i]
    <2>1. slots \in Seq(Slot) /\ len <= Len(slots) /\ Len(slots) \in Nat
      BY DEF IInv, TypeOK
    <2> HIDE DEF k
    <2> QED
      BY <1>3, <1>5, <2>1
  <1> HIDE DEF k
  <1>9. \A x : Count(slots', len - 1, x) = IF slots[k] = x THEN Count(slots, len, x) - 1
                                                           ELSE Count(slots, len, x)
    BY <1>3, <1>8, CountSwaps
  <1>10. Count(slots, len, l) \in Nat /\ Count(slots, len, l) # 0
    <2>1. len \in Int
      BY <1>3
    <2> QED
      BY <2>1, <1>3, CountType
  <1> HIDE DEF l
  <1>11. Registrations[l] > 0
    BY <1>4, <1>6, <1>10, RegistrationsAre
  <1>12. Registrations' = [Registrations EXCEPT ![l] = @ - 1]
    <2>1. \A x : Count(slots', len - 1, x) = IF x = l THEN Count(slots, len, x) - 1
                                                      ELSE Count(slots, len, x)
      BY <1>9 DEF l
    <2> QED
      BY <1>4, <1>6, <2>1, RegistrationsAre
  <1>13. Promise!Concerns(Asks[h], l)
    BY <1>2, <1>5, <1>7, AskOf DEF Promise!Concerns
  <1>14. Asks' = Asks
    BY <1>3, AskStays
  <1>15. l \in Promise!Listener
    BY <1>6 DEF Listener, Filter, Promise!Listener
  <1> QED
    BY <1>3, <1>11, <1>12, <1>13, <1>14, <1>15 DEF Promise!Unsubscribe

\* A walk that is over has left nobody it was about.
LEMMA NobodyIsLeft ==
    ASSUME IInv, NEW h \in Handlers, Unlock(h), NEW i \in 1 .. Sure,
           slots[i].ws = handlers[h].ws,
           handlers[h].what = "close" => slots[i].id = handlers[h].id
    PROVE  FALSE
PROOF
  <1> DEFINE me    == handlers[h]
             specs == clients[me.ws]
  <1>1. /\ me \in Handler /\ me.at = "walk" /\ me.s \notin 1 .. Len(specs)
        /\ me.ws \in Sockets /\ me.what \in {"close", "kill"} /\ Me = me /\ Phase = "walk"
        /\ Len(specs) \in Nat
    BY Walker DEF Unlock
  <1>2. Sure = len /\ Top = len
    BY <1>1 DEF Sure, Top
  <1>3. Held[me.ws] = Len(specs)
    BY <1>1 DEF Held
  <1>4. Owner[i].ws = me.ws /\ (me.what = "close" => Owner[i].id = me.id)
    BY SureSlots
  <1>5. Agreement(clients, Held, 1 .. len, Owner, Deleted)
    BY <1>2 DEF IInv, Agree
  <1> HIDE DEF me
  <1>6. PICK p \in 1 .. Held[me.ws] : p > Deleted[me.ws] /\ specs[p].index = i
    BY <1>2, <1>4, <1>5 DEF Agreement
  <1>7. Owner[i].id = specs[p].id
    BY <1>1, <1>5, <1>6 DEF Agreement
  <1>8. CASE me.what = "kill"
    <2>1. me.s = Len(specs) + 1
      BY <1>1, <1>8 DEF IInv, WalkInv
    <2>2. Deleted[me.ws] = Len(specs)
      BY <1>1, <1>8, <2>1 DEF Deleted
    <2> QED
      BY <1>3, <1>6, <2>2, <1>1
  <1>9. CASE me.what = "close"
    <2>1. me.s \in 0 .. Len(specs) /\ \A q \in 1 .. Len(specs) : q > me.s => specs[q].id # me.id
      BY <1>1, <1>9 DEF IInv, WalkInv
    <2>2. me.s = 0
      BY <1>1, <2>1
    <2> QED
      BY <1>1, <1>3, <1>4, <1>6, <1>7, <1>9, <2>1, <2>2
  <1> QED
    BY <1>1, <1>8, <1>9

LEMMA UnsubscribingKeeps ==
    ASSUME IInv, IInv', NEW h \in Handlers, Unsubscribing(h)
    PROVE  [Promise!Next]_(Promise!subscribers)
PROOF
  <1>1. ASSUME NEW ws \in Sockets, Kill(h, ws)
        PROVE  [Promise!Next]_(Promise!subscribers)
    <2>1. Promise!Ask(h, Promise!AskKill(ws))
      BY <1>1, WalkAsks DEF Kill, Promise!AskKill
    <2> QED
      BY <2>1 DEF Promise!Asking, Promise!Next
  <1>2. ASSUME NEW ws \in Sockets, NEW id \in Ids, Close(h, ws, id)
        PROVE  [Promise!Next]_(Promise!subscribers)
    <2>1. Promise!Ask(h, Promise!AskClose(ws, id))
      BY <1>2, WalkAsks DEF Close, Promise!AskClose
    <2> QED
      BY <2>1 DEF Promise!Asking, Promise!Next
  <1>3. CASE RemoveSpec(h)
    BY <1>3, RemovalUnsubscribes DEF Promise!Next
  <1>4. CASE Shrink(h)
    <2>1. /\ Phase = "shrink" /\ len' = len - 1 /\ UNCHANGED <<link, slots, holder>>
          /\ handlers' = [handlers EXCEPT ![h].at = "walk", ![h].s = Step(handlers[h])]
          /\ holder = h /\ h # None /\ handlers[h] \in Handler
      BY <1>4, Walker DEF Shrink
    <2>2. Phase' = "walk"
      <3>1. handlers'[h].at = "walk"
        BY <2>1 DEF IInv, TypeOK, Handler
      <3> QED
        BY <2>1, <3>1 DEF Phase, Me
    <2>3. Sure = len - 1 /\ Sure' = Sure
      BY <2>1, <2>2 DEF Sure
    <2>4. Registrations' = Registrations
      BY <2>1, <2>3, RegistrationsKept
    <2>5. Asks' = Asks
      BY <2>1, AskStays
    <2> QED
      BY <2>1, <2>4, <2>5 DEF Promise!subscribers
  <1>5. CASE SkipSpec(h)
    <2>1. /\ Phase = "walk" /\ UNCHANGED <<link, slots, len, holder>>
          /\ handlers' = [handlers EXCEPT ![h].s = Step(handlers[h])]
          /\ holder = h /\ h # None /\ handlers[h] \in Handler /\ handlers[h].at = "walk"
      BY <1>5, Walker DEF SkipSpec
    <2>2. Phase' = "walk"
      <3>1. handlers'[h].at = "walk"
        BY <2>1 DEF IInv, TypeOK, Handler
      <3> QED
        BY <2>1, <3>1 DEF Phase, Me
    <2>3. Sure' = Sure
      BY <2>1, <2>2 DEF Sure
    <2>4. Registrations' = Registrations
      BY <2>1, <2>3, RegistrationsKept
    <2>5. Asks' = Asks
      BY <2>1, AskStays
    <2> QED
      BY <2>1, <2>4, <2>5 DEF Promise!subscribers
  <1>6. CASE Unlock(h)
    <2>1. /\ handlers[h].what \in {"close", "kill"} /\ handlers[h].ws \in Sockets
          /\ Phase = "walk" /\ holder' = None /\ UNCHANGED <<slots, len>>
          /\ handlers' = [handlers EXCEPT ![h] = Idle]
          /\ link' = IF handlers[h].what = "kill"
                     THEN [link EXCEPT ![handlers[h].ws] = "gone"] ELSE link
      BY <1>6, Walker DEF Unlock, Ends
    <2>2. Sure = len /\ Sure' = len /\ len \in Int
      BY <2>1 DEF Sure, Phase, IInv, TypeOK
    <2>3. Registrations' = Registrations
      BY <2>1, <2>2, RegistrationsKept
    <2>4. Asks' = [Asks EXCEPT ![h] = Promise!Nothing]
      BY <2>1, AskChanged, AskedNothing
    <2>5. ASSUME NEW l \in Promise!Listener, Promise!Concerns(Asks[h], l)
          PROVE  Registrations[l] = 0
      <3>1. l.ws = handlers[h].ws /\ (handlers[h].what = "close" => l.id = handlers[h].id)
        BY <2>5, AskOf DEF Promise!Concerns
      <3>2. \A i \in 1 .. Sure : slots[i] # l
        BY <1>6, <3>1, NobodyIsLeft
      <3>3. Count(slots, Sure, l) = 0
        BY <2>2, <3>2, CountType
      <3>4. l \in Listener
        BY DEF Listener, Filter, Promise!Listener
      <3> QED
        BY <3>3, <3>4, RegistrationsAre
    <2> QED
      BY <2>1, <2>3, <2>4, <2>5, AskOf DEF Promise!Conclude, Promise!Next
  <1> QED
    BY <1>1, <1>2, <1>3, <1>4, <1>5, <1>6 DEF Unsubscribing

\* A process that has just started has nobody subscribed.
NobodyAsks == handlers = [h \in Handlers |-> Idle] /\ len = 0
NobodySubscribed ==
    Asks = [h \in Handlers |-> Promise!Nothing] /\ Registrations = [l \in Promise!Listener |-> 0]

LEMMA BlankPromise == NobodyAsks => NobodySubscribed
PROOF
  <1> SUFFICES ASSUME NobodyAsks PROVE NobodySubscribed
    OBVIOUS
  <1>1. Settled = 0
    BY DEF NobodyAsks, Settled, Unsettled, Idle
  <1>2. \A l : {i \in 1 .. Settled : slots[i] = l} = {}
    BY <1>1
  <1>3. Registrations = [l \in Listener |-> 0]
    BY <1>2, FS_EmptySet DEF Registrations
  <1> QED
    BY <1>3, AskedNothing
    DEF NobodyAsks, NobodySubscribed, Asks, Listener, Filter, Promise!Listener

LEMMA NextPromise ==
    ASSUME IInv, IInv', ReqInv, [Next]_vars
    PROVE  [Promise!Next]_(Promise!subscribers)
PROOF
  <1>1. ASSUME NEW ws \in Sockets, Connect(ws)
        PROVE  [Promise!Next]_(Promise!subscribers)
    <2>1. UNCHANGED <<slots, len, holder, handlers>>
      BY <1>1 DEF Connect
    <2>2. Asks' = Asks /\ Registrations' = Registrations
      BY <2>1 DEF Asks, Asked, Registrations, Settled, Unsettled
    <2> QED
      BY <1>1, <2>2 DEF Connect, Promise!Connect, Promise!Next
  <1>2. ASSUME NEW b \in Casters, Notifying(b)
        PROVE  [Promise!Next]_(Promise!subscribers)
    <2>1. CASE Notify(b)
      <3>1. UNCHANGED <<link, slots, len, handlers>>
        BY <2>1 DEF Notify, Broadcast, LoadLength, Match, Send, Finish
      <3>2. Asks' = Asks /\ Registrations' = Registrations
        BY <3>1 DEF Asks, Asked, Registrations, Settled, Unsettled
      <3> QED
        BY <3>1, <3>2 DEF Promise!subscribers
    <2>2. CASE Crash(b)
      <3>1. NobodyAsks' /\ link' = [ws \in Sockets |-> "fresh"]
        BY <2>2 DEF Crash, NobodyAsks
      <3>2. NobodySubscribed'
        BY <3>1, BlankPromise, PTL
      <3> QED
        BY <3>1, <3>2 DEF NobodySubscribed, Promise!Stop, Promise!Next
    <2> QED
      BY <1>2, <2>1, <2>2 DEF Notifying, Notify
  <1>3. CASE UNCHANGED vars
    <2>1. Asks' = Asks /\ Registrations' = Registrations
      BY <1>3 DEF vars, Asks, Asked, Registrations, Settled, Unsettled
    <2> QED
      BY <1>3, <2>1 DEF vars, Promise!subscribers
  <1> QED
    BY <1>1, <1>2, <1>3, SubscribingKeeps, UnsubscribingKeeps DEF Next

\* Whatever the sockets, handlers and the size of the array: a REQ adds the listeners of its
\* own filters and no other, a CLOSE and the end of a connection take every listener they are
\* about, and nobody's listener is taken by anybody else.
THEOREM ListenersImplementSubscribers == Spec => SubscribersSpec
PROOF
  <1>1. Init => Promise!Init /\ ReqInv
    <2>1. Init => Promise!Init
      BY BlankPromise DEF Init, NobodyAsks, NobodySubscribed, Promise!Init
    <2>2. Init => ReqInv
      BY DEF Init, ReqInv, Idle
    <2> QED
      BY <2>1, <2>2
  <1>2. IInv /\ ReqInv /\ [Next]_vars => ReqInv'
    BY NextReqs
  <1>3. IInv /\ IInv' /\ ReqInv /\ [Next]_vars => [Promise!Next]_(Promise!subscribers)
    BY NextPromise
  <1> QED
    BY <1>1, <1>2, <1>3, Invariance, PTL DEF Spec, SubscribersSpec, Promise!Spec
===============================================================================
