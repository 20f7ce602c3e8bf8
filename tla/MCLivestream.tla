---------------------------- MODULE MCLivestream ----------------------------
(* Livestream for TLC. *)
EXTENDS Livestream

CONSTANTS c1, c2
=============================================================================
