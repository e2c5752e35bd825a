----------------------------- MODULE MCListing -----------------------------
(***************************************************************************)
(* Listing for TLC: a request for any page size from below zero to above   *)
(* the maximum.                                                            *)
(***************************************************************************)
EXTENDS Listing

MCLimits == -1..(MaxLimit + 1)
=============================================================================
