----------------------------- MODULE MCRunProg -----------------------------
(***************************************************************************)
(* Instances of RunProg for TLC.                                           *)
(***************************************************************************)
EXTENDS RunProg

\* The edges of every way to end: exit codes 0, 1 and 255; signals 1, 9 and
\* 127; SIGABRT and signal 127 with a core dump.
MCStatuses == {0, 256, 65280, 1, 9, 127, 134, 255}

MCFailures == {"kthread", "mount", "alloc", "init"}
=============================================================================
