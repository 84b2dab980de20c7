----------------------------- MODULE MCListing -----------------------------
(***************************************************************************)
(* A small instance of Listing: pages of two rows over four documents, so  *)
(* that a walk reads two pages.                                            *)
(***************************************************************************)
EXTENDS Listing

MCDocs == 1..4
=============================================================================
