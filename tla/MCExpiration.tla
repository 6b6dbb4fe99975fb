----------------------------- MODULE MCExpiration -----------------------------
(***************************************************************************)
(* Values for the constants of Expiration that a .cfg cannot write.        *)
(***************************************************************************)
EXTENDS Expiration, TLC

CONSTANTS story, note

\* A story that expires, and a newer note that does not.
MCExpires   == story :> 2 @@ note :> 0
MCCreatedAt == story :> 1 @@ note :> 2
MCCopies    == story :> 2 @@ note :> 1
===============================================================================
