----------------------------- MODULE MCListing -----------------------------
(***************************************************************************)
(* A small instance of Listing for TLC.                                    *)
(***************************************************************************)
EXTENDS Listing
=============================================================================
