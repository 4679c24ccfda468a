----------------------------- MODULE MCFixture -----------------------------
(***************************************************************************)
(* Instances of Fixture for TLC.                                           *)
(***************************************************************************)
EXTENDS Fixture, TLC

CONSTANTS s1, s2

MCTwo == {s1, s2}
MCCustom == {s1}
MCNone == {}

MCAllPins == {"pend", "late", "leak"}
MCLeaked == {"leak"}
MCAborted == {"pend", "leak"}

\* Failures that xfs_teardown() undoes completely, and all of them.
MCUndone == {"lo", "mkdirs", "tmpfs", "nfsdfs", "client", "scratch"}
MCAllFailures == MCUndone \cup {"exports", "nfsd", "hostbin"}
=============================================================================
