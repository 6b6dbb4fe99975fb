----------------------------- MODULE EventTable -----------------------------
(***************************************************************************)
(* The event table, with one row for each stored event.  EventUsage is     *)
(* about who pays for its rows, Expiration about the sweep of those that   *)
(* have expired.                                                           *)
(***************************************************************************)

CONSTANTS
  Events,            \* the events clients may send, again and again
  Faults             \* BOOLEAN: the database may fail a query or a delete

VARIABLE stored      \* the events in the table
=============================================================================
