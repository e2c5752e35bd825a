---------------------------- MODULE MCRoundTrip ----------------------------
(***************************************************************************)
(* RoundTrip for TLC: bodies and caps around the sizes of the buffers, and *)
(* every header over numbers up to, at and beyond a tiny int64.            *)
(***************************************************************************)
EXTENDS RoundTrip

CONSTANTS MaxLength, MaxCap, MaxNumber

MCLengths == 0..MaxLength
MCCaps    == 0..MaxCap
MCNumbers == 0..MaxNumber
=============================================================================
