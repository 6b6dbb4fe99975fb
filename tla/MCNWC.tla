-------------------------------- MODULE MCNWC --------------------------------
(***************************************************************************)
(* Values for the constants of NWC that a .cfg cannot write.               *)
(***************************************************************************)
EXTENDS NWC, TLC

CONSTANTS order, poll, h1, h2

\* An order is placed while the poll loop asks about an invoice.
MCAbout == order :> NoHash @@ poll :> h1
===============================================================================
