------------------------------ MODULE MCListeners ------------------------------
(***************************************************************************)
(* Values for the constants of Listeners that a .cfg cannot write.         *)
(***************************************************************************)
EXTENDS Listeners, TLC

CONSTANTS s1, s2, e1

\* One subscription with two filters that match what is broadcast, one with none.
MCSubscriptions == {[id |-> s1, filters |-> <<{e1}, {e1}>>], [id |-> s2, filters |-> <<{}>>]}

MCSymmetry == Permutations(Sockets) \cup Permutations(Handlers)
===============================================================================
