----------------------------- MODULE MCListings -----------------------------
(* Small instances of Listings and Dashboard for TLC.                        *)
EXTENDS Dashboard, TLC

CONSTANTS u1, u2

\* The two users trigger different workflows, the second one that is created.
OneEach == (u1 :> 1) @@ (u2 :> 2)
=============================================================================
