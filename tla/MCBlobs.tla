-------------------------------- MODULE MCBlobs --------------------------------
(***************************************************************************)
(* Values for the constants of Blobs that a .cfg cannot write.             *)
(***************************************************************************)
EXTENDS Blobs, TLC

CONSTANTS alice, bob

\* Alice may have one file billed to her, bob any number here.
MCQuota == alice :> 1 @@ bob :> 2

RequestSymmetry == Permutations(Requests)
===============================================================================
