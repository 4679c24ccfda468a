------------------------------ MODULE MCCreds ------------------------------
(***************************************************************************)
(* Instances of Creds for TLC.                                             *)
(***************************************************************************)
EXTENDS Creds, TLC

CONSTANTS c1, c2, c3, c4

\* fsgqa and nobody: two of the uids the ports use.
MCUsers == {99, 1000}
\* A switched case inside xfs_access() needs three; one more to see reuse.
MCCredIds == {c1, c2, c3, c4}
=============================================================================
