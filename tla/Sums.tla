--------------------------------- MODULE Sums ---------------------------------
(***************************************************************************)
(* What the sum of a function over a finite set obeys.  Quotas, terms and  *)
(* used bytes are compared with such sums, and a step of the relay adds a  *)
(* row to one or takes a row out.                                          *)
(*                                                                         *)
(* SumFunctionOnSet takes the elements out one by one, in an order that    *)
(* CHOOSE fixes.  Induction here is the argument that a nonempty set of    *)
(* subsets of a finite set has a smallest one: were a lemma false, there   *)
(* would be a smallest set it is false of, and taking one element out of   *)
(* that set contradicts it.                                                *)
(***************************************************************************)
EXTENDS Integers, Functions, FiniteSetTheorems, WellFoundedInduction, TLAPS

\* The element that is taken out of a set.
Picked(s) == CHOOSE x \in s : TRUE

\* g gives the sum of f over every subset of S.
Sums(g, f, S) == g = [s \in SUBSET S |-> IF s = {} THEN 0 ELSE f[Picked(s)] + g[s \ {Picked(s)}]]

\* The library's definition, written with Sums.
LEMMA SumUnfolds ==
    ASSUME NEW f, NEW S
    PROVE  SumFunctionOnSet(f, S) = (CHOOSE g : Sums(g, f, S))[S]
BY Zenon DEF SumFunctionOnSet, FoldFunctionOnSet, MapThenFoldSet, Sums, Picked

\* A nonempty set of subsets of a finite set has a smallest member.
LEMMA SmallestSubset ==
    ASSUME NEW S, IsFiniteSet(S), NEW T, T \subseteq SUBSET S, T # {}
    PROVE  \E s \in T : \A t \in T : t \subseteq s => t = s
<1>1. IsWellFoundedOn(StrictSubsetOrdering(S), SUBSET S)
  BY FS_StrictSubsetOrderingWellFounded, FS_FiniteSubsetsOfFinite
<1>2. PICK s \in T : \A t \in T : ~(<<t, s>> \in StrictSubsetOrdering(S))
  BY <1>1, WFMin
<1>3. QED
  BY <1>2 DEF StrictSubsetOrdering

\* What is taken out is there.
LEMMA PickedIn == ASSUME NEW s, s # {} PROVE Picked(s) \in s
BY DEF Picked

\* One function at most gives the sums of f over the subsets of a finite set.
LEMMA SumsUnique ==
    ASSUME NEW f, NEW S, IsFiniteSet(S), NEW g, NEW h, Sums(g, f, S), Sums(h, f, S)
    PROVE  g = h
<1> DEFINE T == {s \in SUBSET S : g[s] # h[s]}
<1>1. SUFFICES ASSUME T # {} PROVE FALSE
  <2>1. \A s \in SUBSET S : g[s] = h[s]
    BY <1>1
  <2>2. QED
    BY <2>1 DEF Sums
<1>0. T \subseteq SUBSET S
  OBVIOUS
<1>2. PICK s \in T : \A t \in T : t \subseteq s => t = s
  <2> HIDE DEF T
  <2>1. QED
    BY <1>0, <1>1, SmallestSubset
<1>3. s # {}
  BY <1>2 DEF Sums
<1>4. Picked(s) \in s /\ s \ {Picked(s)} \in SUBSET S
  BY <1>2, <1>3, PickedIn
<1>5. g[s \ {Picked(s)}] = h[s \ {Picked(s)}]
  BY <1>2, <1>4
<1>6. QED
  BY <1>2, <1>3, <1>5 DEF Sums

\* The sums over the subsets of S are also those over the subsets of a subset of S.
LEMMA SumsRestrict ==
    ASSUME NEW f, NEW S, NEW g, Sums(g, f, S), NEW T \in SUBSET S
    PROVE  Sums([s \in SUBSET T |-> g[s]], f, T)
<1> DEFINE h == [s \in SUBSET T |-> g[s]]
<1>1. ASSUME NEW s \in SUBSET T
      PROVE  h[s] = IF s = {} THEN 0 ELSE f[Picked(s)] + h[s \ {Picked(s)}]
  <2>1. s \in SUBSET S /\ s \ {Picked(s)} \in SUBSET T /\ h[s \ {Picked(s)}] = g[s \ {Picked(s)}]
    BY <1>1
  <2>2. QED
    BY <2>1 DEF Sums
<1>2. QED
  BY <1>1 DEF Sums

\* One function does give them: the CHOOSE of the library's definition has a value.
LEMMA SumsExist ==
    ASSUME NEW f, NEW S, IsFiniteSet(S)
    PROVE  \E g : Sums(g, f, S)
<1> DEFINE T == {s \in SUBSET S : ~\E g : Sums(g, f, s)}
<1>1. SUFFICES ASSUME T # {} PROVE FALSE
  BY <1>1
<1>0. T \subseteq SUBSET S
  OBVIOUS
<1>2. PICK s \in T : \A t \in T : t \subseteq s => t = s
  <2> HIDE DEF T
  <2>1. QED
    BY <1>0, <1>1, SmallestSubset
<1> DEFINE G(t) == CHOOSE g : Sums(g, f, t)
<1>3. \A t \in SUBSET s : t # s => Sums(G(t), f, t)
  BY <1>2
<1> DEFINE V(t) == IF t = {} THEN 0 ELSE f[Picked(t)] + G(t \ {Picked(t)})[t \ {Picked(t)}]
           h == [t \in SUBSET s |-> V(t)]
<1>4. ASSUME NEW t \in SUBSET s, t # s PROVE h[t] = G(t)[t]
  <2> DEFINE u == t \ {Picked(t)}
  <2>1. CASE t = {}
    <3>1. Sums(G(t), f, t) /\ t \in SUBSET t
      BY <1>3, <1>4
    <3> HIDE DEF G
    <3>2. G(t)[t] = 0
      BY <2>1, <3>1 DEF Sums
    <3>3. QED
      BY <2>1, <3>2
  <2>2. CASE t # {}
    <3>1. Picked(t) \in t /\ u \in SUBSET t /\ u # s /\ u \in SUBSET s
      BY <1>4, <2>2, PickedIn
    <3>2. Sums(G(t), f, t) /\ Sums(G(u), f, u)
      BY <1>3, <1>4, <3>1
    <3>3. [v \in SUBSET u |-> G(t)[v]] = G(u)
      <4>1. IsFiniteSet(u)
        BY <1>2, <3>1, FS_Subset
      <4>2. Sums([v \in SUBSET u |-> G(t)[v]], f, u)
        BY <3>1, <3>2, SumsRestrict
      <4>3. QED
        BY <3>2, <4>1, <4>2, SumsUnique
    <3>4. G(t)[u] = G(u)[u]
      BY <3>3
    <3>5. G(t)[t] = f[Picked(t)] + G(t)[u]
      BY <2>2, <3>2 DEF Sums
    <3>6. QED
      BY <2>2, <3>4, <3>5
  <2>3. QED
    BY <2>1, <2>2
<1>5. Sums(h, f, s)
  <2>1. ASSUME NEW t \in SUBSET s PROVE h[t] = IF t = {} THEN 0 ELSE f[Picked(t)] + h[t \ {Picked(t)}]
    <3>1. CASE t = {}
      BY <3>1
    <3>2. CASE t # {}
      <4>1. t \ {Picked(t)} # s /\ t \ {Picked(t)} \in SUBSET s
        BY <3>2, PickedIn
      <4>2. h[t \ {Picked(t)}] = G(t \ {Picked(t)})[t \ {Picked(t)}]
        BY <1>4, <4>1
      <4>3. QED
        BY <3>2, <4>2
    <3>3. QED
      BY <3>1, <3>2
  <2> HIDE DEF V, G
  <2>2. h = [t \in SUBSET s |-> h[t]]
    OBVIOUS
  <2> HIDE DEF h
  <2>3. QED
    BY <2>1, <2>2 DEF Sums
<1>6. QED
  BY <1>2, <1>5

\* The recursive definition of a sum, for the element CHOOSE takes.
LEMMA SumEquation ==
    ASSUME NEW f, NEW S, IsFiniteSet(S)
    PROVE  SumFunctionOnSet(f, S) =
              IF S = {} THEN 0 ELSE f[Picked(S)] + SumFunctionOnSet(f, S \ {Picked(S)})
<1> DEFINE G(t) == CHOOSE g : Sums(g, f, t)
           u == S \ {Picked(S)}
<1>1. Sums(G(S), f, S)
  BY SumsExist
<1>2. G(S)[S] = IF S = {} THEN 0 ELSE f[Picked(S)] + G(S)[u]
  BY <1>1 DEF Sums
<1>3. ASSUME S # {} PROVE G(S)[u] = G(u)[u]
  <2>1. IsFiniteSet(u) /\ u \in SUBSET S
    BY FS_Subset
  <2>2. Sums(G(u), f, u)
    BY <2>1, SumsExist
  <2>3. Sums([v \in SUBSET u |-> G(S)[v]], f, u)
    BY <1>1, <2>1, SumsRestrict
  <2>4. [v \in SUBSET u |-> G(S)[v]] = G(u)
    BY <2>1, <2>2, <2>3, SumsUnique
  <2>5. QED
    BY <2>4
<1>4. QED
  BY <1>2, <1>3, SumUnfolds

\* Nothing adds up to zero.
LEMMA SumOfNone == ASSUME NEW f PROVE SumFunctionOnSet(f, {}) = 0
BY SumEquation, FS_EmptySet

\* A sum of integers is one, and one of naturals is one.
LEMMA SumType ==
    ASSUME NEW f, NEW S, IsFiniteSet(S), NEW N \in {Nat, Int}, \A x \in S : f[x] \in N
    PROVE  SumFunctionOnSet(f, S) \in N
<1> DEFINE T == {s \in SUBSET S : SumFunctionOnSet(f, s) \notin N}
<1>1. SUFFICES ASSUME T # {} PROVE FALSE
  <2>1. S \in SUBSET S
    OBVIOUS
  <2>2. QED
    BY <1>1, <2>1
<1>2. T \subseteq SUBSET S
  OBVIOUS
<1>3. PICK s \in T : \A t \in T : t \subseteq s => t = s
  <2> HIDE DEF T
  <2>1. QED
    BY <1>1, <1>2, SmallestSubset
<1>4. s \in SUBSET S /\ IsFiniteSet(s)
  BY <1>2, <1>3, FS_Subset
<1>5. CASE s = {}
  BY <1>3, <1>5, SumOfNone
<1>6. CASE s # {}
  <2>1. Picked(s) \in s /\ s \ {Picked(s)} \in SUBSET S /\ s \ {Picked(s)} # s
    BY <1>4, <1>6, PickedIn
  <2>2. SumFunctionOnSet(f, s \ {Picked(s)}) \in N
    BY <1>3, <2>1
  <2>3. SumFunctionOnSet(f, s) = f[Picked(s)] + SumFunctionOnSet(f, s \ {Picked(s)})
    BY <1>4, <1>6, SumEquation
  <2>4. f[Picked(s)] \in N
    BY <1>4, <2>1
  <2>5. SumFunctionOnSet(f, s) \in N
    BY <2>2, <2>3, <2>4
  <2>6. QED
    BY <1>3, <2>5
<1>7. QED
  BY <1>5, <1>6

\* Whatever is taken out first, the sum is the same.
LEMMA SumTakes ==
    ASSUME NEW f, NEW S, IsFiniteSet(S), \A x \in S : f[x] \in Int, NEW x \in S
    PROVE  SumFunctionOnSet(f, S) = f[x] + SumFunctionOnSet(f, S \ {x})
<1> DEFINE Takes(s, y) == SumFunctionOnSet(f, s) = f[y] + SumFunctionOnSet(f, s \ {y})
           T == {s \in SUBSET S : \E y \in s : ~Takes(s, y)}
<1>1. SUFFICES ASSUME T # {} PROVE FALSE
  <2>1. S \in SUBSET S
    OBVIOUS
  <2>2. QED
    BY <1>1, <2>1
<1>2. T \subseteq SUBSET S
  OBVIOUS
<1>3. PICK s \in T : \A t \in T : t \subseteq s => t = s
  <2> HIDE DEF T
  <2>1. QED
    BY <1>1, <1>2, SmallestSubset
<1>4. PICK y \in s : ~Takes(s, y)
  BY <1>3
<1> DEFINE c == Picked(s)
<1>5. /\ s \in SUBSET S /\ IsFiniteSet(s) /\ c \in s /\ Takes(s, c)
  BY <1>2, <1>3, <1>4, FS_Subset, PickedIn, SumEquation
<1>6. y # c
  BY <1>4, <1>5
<1>7. Takes(s \ {c}, y) /\ Takes(s \ {y}, c)
  <2>1. s \ {c} \notin T /\ s \ {y} \notin T
    BY <1>3, <1>4, <1>5
  <2>2. y \in s \ {c} /\ c \in s \ {y}
    BY <1>4, <1>5, <1>6
  <2>3. QED
    BY <1>5, <2>1, <2>2
<1>8. (s \ {c}) \ {y} = (s \ {y}) \ {c}
  OBVIOUS
<1>9. f[y] \in Int /\ f[c] \in Int /\ SumFunctionOnSet(f, (s \ {c}) \ {y}) \in Int
  <2>1. IsFiniteSet((s \ {c}) \ {y}) /\ (s \ {c}) \ {y} \subseteq S
    BY <1>5, FS_Subset
  <2>2. QED
    BY <1>4, <1>5, <2>1, SumType
<1>10. QED
  <2> DEFINE rest == SumFunctionOnSet(f, (s \ {c}) \ {y})
  <2>1. /\ SumFunctionOnSet(f, s) = f[c] + SumFunctionOnSet(f, s \ {c})
        /\ SumFunctionOnSet(f, s \ {c}) = f[y] + rest
        /\ SumFunctionOnSet(f, s \ {y}) = f[c] + rest
        /\ f[y] \in Int /\ f[c] \in Int /\ rest \in Int
    BY <1>5, <1>7, <1>8, <1>9
  <2> HIDE DEF c, rest
  <2>2. SumFunctionOnSet(f, s) = f[y] + SumFunctionOnSet(f, s \ {y})
    BY <2>1
  <2>3. QED
    BY <1>4, <2>2

\* Sums of functions that agree.
LEMMA SumAgrees ==
    ASSUME NEW f, NEW g, NEW S, IsFiniteSet(S), \A x \in S : f[x] = g[x]
    PROVE  SumFunctionOnSet(f, S) = SumFunctionOnSet(g, S)
<1> DEFINE T == {s \in SUBSET S : SumFunctionOnSet(f, s) # SumFunctionOnSet(g, s)}
<1>1. SUFFICES ASSUME T # {} PROVE FALSE
  <2>1. S \in SUBSET S
    OBVIOUS
  <2>2. QED
    BY <1>1, <2>1
<1>2. T \subseteq SUBSET S
  OBVIOUS
<1>3. PICK s \in T : \A t \in T : t \subseteq s => t = s
  <2> HIDE DEF T
  <2>1. QED
    BY <1>1, <1>2, SmallestSubset
<1>4. s \in SUBSET S /\ IsFiniteSet(s)
  BY <1>2, <1>3, FS_Subset
<1>5. CASE s = {}
  BY <1>3, <1>5, SumOfNone
<1>6. CASE s # {}
  <2>1. Picked(s) \in s /\ s \ {Picked(s)} \in SUBSET S /\ s \ {Picked(s)} # s
    BY <1>4, <1>6, PickedIn
  <2>2. SumFunctionOnSet(f, s \ {Picked(s)}) = SumFunctionOnSet(g, s \ {Picked(s)})
    BY <1>3, <2>1
  <2>3. /\ SumFunctionOnSet(f, s) = f[Picked(s)] + SumFunctionOnSet(f, s \ {Picked(s)})
        /\ SumFunctionOnSet(g, s) = g[Picked(s)] + SumFunctionOnSet(g, s \ {Picked(s)})
    BY <1>4, <1>6, SumEquation
  <2>4. f[Picked(s)] = g[Picked(s)]
    BY <1>4, <2>1
  <2>5. QED
    BY <1>3, <2>2, <2>3, <2>4
<1>7. QED
  BY <1>5, <1>6

\* One element more.
LEMMA SumAdds ==
    ASSUME NEW f, NEW S, IsFiniteSet(S), NEW x, x \notin S, \A y \in S \cup {x} : f[y] \in Int
    PROVE  SumFunctionOnSet(f, S \cup {x}) = SumFunctionOnSet(f, S) + f[x]
<1>1. IsFiniteSet(S \cup {x}) /\ (S \cup {x}) \ {x} = S
  BY FS_AddElement
<1>2. SumFunctionOnSet(f, S \cup {x}) = f[x] + SumFunctionOnSet(f, S)
  <2>1. x \in S \cup {x}
    OBVIOUS
  <2>2. SumFunctionOnSet(f, S \cup {x}) = f[x] + SumFunctionOnSet(f, (S \cup {x}) \ {x})
    BY <1>1, <2>1, SumTakes
  <2>3. QED
    BY <1>1, <2>2
<1>3. f[x] \in Int /\ SumFunctionOnSet(f, S) \in Int
  BY SumType
<1>4. QED
  BY <1>2, <1>3

\* One element more, and the rest as in another function.
LEMMA SumGains ==
    ASSUME NEW f, NEW g, NEW S, IsFiniteSet(S), NEW x, x \notin S,
           \A y \in S \cup {x} : g[y] \in Int, \A y \in S : f[y] = g[y]
    PROVE  SumFunctionOnSet(g, S \cup {x}) = SumFunctionOnSet(f, S) + g[x]
<1>1. SumFunctionOnSet(f, S) = SumFunctionOnSet(g, S)
  BY SumAgrees
<1>2. QED
  BY <1>1, SumAdds

\* Zeros add up to zero.
LEMMA SumOfZeros ==
    ASSUME NEW f, NEW S, IsFiniteSet(S), \A x \in S : f[x] = 0
    PROVE  SumFunctionOnSet(f, S) = 0
<1> DEFINE T == {s \in SUBSET S : SumFunctionOnSet(f, s) # 0}
<1>1. SUFFICES ASSUME T # {} PROVE FALSE
  <2>1. S \in SUBSET S
    OBVIOUS
  <2>2. QED
    BY <1>1, <2>1
<1>2. T \subseteq SUBSET S
  OBVIOUS
<1>3. PICK s \in T : \A t \in T : t \subseteq s => t = s
  <2> HIDE DEF T
  <2>1. QED
    BY <1>1, <1>2, SmallestSubset
<1>4. IsFiniteSet(s) /\ s # {}
  BY <1>2, <1>3, FS_Subset, SumOfNone
<1>5. Picked(s) \in s /\ s \ {Picked(s)} \in SUBSET S /\ s \ {Picked(s)} # s
  BY <1>3, <1>4, PickedIn
<1>6. SumFunctionOnSet(f, s \ {Picked(s)}) = 0 /\ f[Picked(s)] = 0
  BY <1>3, <1>5
<1>7. SumFunctionOnSet(f, s) = 0
  BY <1>4, <1>6, SumEquation
<1>8. QED
  BY <1>3, <1>7

\* Smaller terms, smaller sum.
LEMMA SumLess ==
    ASSUME NEW f, NEW g, NEW S, IsFiniteSet(S),
           \A x \in S : f[x] \in Int /\ g[x] \in Int /\ f[x] <= g[x]
    PROVE  SumFunctionOnSet(f, S) <= SumFunctionOnSet(g, S)
<1> DEFINE T == {s \in SUBSET S : ~(SumFunctionOnSet(f, s) <= SumFunctionOnSet(g, s))}
<1>1. SUFFICES ASSUME T # {} PROVE FALSE
  <2>1. S \in SUBSET S
    OBVIOUS
  <2>2. QED
    BY <1>1, <2>1
<1>2. T \subseteq SUBSET S
  OBVIOUS
<1>3. PICK s \in T : \A t \in T : t \subseteq s => t = s
  <2> HIDE DEF T
  <2>1. QED
    BY <1>1, <1>2, SmallestSubset
<1>4. s \in SUBSET S /\ IsFiniteSet(s)
  BY <1>2, <1>3, FS_Subset
<1>5. CASE s = {}
  BY <1>3, <1>5, SumOfNone
<1>6. CASE s # {}
  <2> DEFINE x == Picked(s)
             u == s \ {x}
  <2>1. x \in s /\ u \in SUBSET S /\ u # s /\ IsFiniteSet(u)
    BY <1>4, <1>6, PickedIn, FS_Subset
  <2>2. SumFunctionOnSet(f, u) <= SumFunctionOnSet(g, u)
    BY <1>3, <2>1
  <2>3. /\ SumFunctionOnSet(f, s) = f[x] + SumFunctionOnSet(f, u)
        /\ SumFunctionOnSet(g, s) = g[x] + SumFunctionOnSet(g, u)
    BY <1>4, <1>6, SumEquation
  <2>4. f[x] \in Int /\ g[x] \in Int /\ f[x] <= g[x]
    BY <1>4, <2>1
  <2>5. SumFunctionOnSet(f, u) \in Int /\ SumFunctionOnSet(g, u) \in Int
    BY <2>1, SumType
  <2> HIDE DEF x, u
  <2>6. SumFunctionOnSet(f, s) <= SumFunctionOnSet(g, s)
    BY <2>2, <2>3, <2>4, <2>5
  <2>7. QED
    BY <1>3, <2>6
<1>7. QED
  BY <1>5, <1>6

\* A set of naturals adds up to no less than a part of it.
LEMMA SumOfPart ==
    ASSUME NEW f, NEW S, IsFiniteSet(S), \A x \in S : f[x] \in Nat, NEW R, R \subseteq S
    PROVE  SumFunctionOnSet(f, R) <= SumFunctionOnSet(f, S)
<1> DEFINE T == {s \in SUBSET S : R \subseteq s /\ ~(SumFunctionOnSet(f, R) <= SumFunctionOnSet(f, s))}
<1>1. SUFFICES ASSUME T # {} PROVE FALSE
  <2>1. S \in SUBSET S
    OBVIOUS
  <2>2. QED
    BY <1>1, <2>1
<1>2. T \subseteq SUBSET S
  OBVIOUS
<1>3. PICK s \in T : \A t \in T : t \subseteq s => t = s
  <2> HIDE DEF T
  <2>1. QED
    BY <1>1, <1>2, SmallestSubset
<1>4. s \in SUBSET S /\ IsFiniteSet(s) /\ IsFiniteSet(R)
  BY <1>2, <1>3, FS_Subset
<1>5. SumFunctionOnSet(f, R) \in Int
  BY <1>4, SumType
<1>6. s # R
  BY <1>3, <1>5
<1>7. PICK x \in s : x \notin R
  BY <1>3, <1>6
<1>8. IsFiniteSet(s \ {x}) /\ s \ {x} \in SUBSET S /\ R \subseteq s \ {x} /\ s \ {x} # s
  BY <1>3, <1>4, <1>7, FS_Subset
<1>9. SumFunctionOnSet(f, R) <= SumFunctionOnSet(f, s \ {x})
  BY <1>3, <1>8
<1>10. SumFunctionOnSet(f, s) = f[x] + SumFunctionOnSet(f, s \ {x}) /\ f[x] \in Nat
  BY <1>4, <1>7, SumTakes
<1>11. SumFunctionOnSet(f, s \ {x}) \in Int
  BY <1>8, SumType
<1>12. SumFunctionOnSet(f, R) <= SumFunctionOnSet(f, s)
  BY <1>5, <1>9, <1>10, <1>11
<1>13. QED
  BY <1>3, <1>12

\* A sum is at most the number of its terms times a bound on each.
LEMMA SumBounded ==
    ASSUME NEW f, NEW S, IsFiniteSet(S), NEW M \in Nat, \A x \in S : f[x] \in Int /\ f[x] <= M
    PROVE  SumFunctionOnSet(f, S) <= Cardinality(S) * M
<1> DEFINE T == {s \in SUBSET S : ~(SumFunctionOnSet(f, s) <= Cardinality(s) * M)}
<1>1. SUFFICES ASSUME T # {} PROVE FALSE
  <2>1. S \in SUBSET S
    OBVIOUS
  <2>2. QED
    BY <1>1, <2>1
<1>2. T \subseteq SUBSET S
  OBVIOUS
<1>3. PICK s \in T : \A t \in T : t \subseteq s => t = s
  <2> HIDE DEF T
  <2>1. QED
    BY <1>1, <1>2, SmallestSubset
<1>4. s \in SUBSET S /\ IsFiniteSet(s)
  BY <1>2, <1>3, FS_Subset
<1>5. CASE s = {}
  <2>1. Cardinality(s) = 0 /\ SumFunctionOnSet(f, s) = 0
    BY <1>5, SumOfNone, FS_EmptySet
  <2>2. SumFunctionOnSet(f, s) <= Cardinality(s) * M
    BY <2>1
  <2>3. QED
    BY <1>3, <2>2
<1>6. CASE s # {}
  <2> DEFINE x == Picked(s)
             u == s \ {x}
  <2>1. x \in s /\ u \in SUBSET S /\ u # s /\ IsFiniteSet(u)
    BY <1>4, <1>6, PickedIn, FS_Subset
  <2>2. SumFunctionOnSet(f, u) <= Cardinality(u) * M
    BY <1>3, <2>1
  <2>3. SumFunctionOnSet(f, s) = f[x] + SumFunctionOnSet(f, u) /\ f[x] \in Int /\ f[x] <= M
    BY <1>4, <1>6, <2>1, SumEquation
  <2>4. SumFunctionOnSet(f, u) \in Int
    BY <2>1, SumType
  <2>5. Cardinality(s) \in Nat /\ Cardinality(u) = Cardinality(s) - 1
    BY <1>4, <2>1, FS_CardinalityType, FS_RemoveElement
  <2> HIDE DEF x, u
  <2>6. Cardinality(s) * M = Cardinality(u) * M + M
    BY <2>5
  <2>7. Cardinality(u) * M \in Int
    BY <2>5
  <2>8. SumFunctionOnSet(f, s) <= Cardinality(s) * M
    BY <2>2, <2>3, <2>4, <2>6, <2>7
  <2>9. QED
    BY <1>3, <2>8
<1>7. QED
  BY <1>5, <1>6
===============================================================================
