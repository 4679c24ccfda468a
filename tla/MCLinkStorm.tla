---------------------------- MODULE MCLinkStorm ----------------------------
(***************************************************************************)
(* An instance of LinkStorm for TLC.                                       *)
(***************************************************************************)
EXTENDS LinkStorm

CONSTANTS a, b

MCStorms == {a, b}
=============================================================================
