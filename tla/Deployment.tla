---------------------------- MODULE Deployment ----------------------------
(***************************************************************************)
(* What the fixture promises its users, without how: there is at most one  *)
(* deployment at a time, the first suite in raises it, suites that come    *)
(* while it is in use join it, and it is lowered only after the last one   *)
(* has left.  (nfs_fixture.h: "the first get mounts everything, the last   *)
(* put tears it down".)                                                    *)
(***************************************************************************)
CONSTANTS Suites, NoSuite

VARIABLES owner,    \* the suite whose bring-up made the deployment, or NoSuite
          holders   \* the suites using it

dvars == <<owner, holders>>

DInit == owner = NoSuite /\ holders = {}

Raise(s) == /\ owner = NoSuite /\ holders = {}
            /\ owner' = s
            /\ holders' = {s}

Join(s) == /\ holders # {} /\ s \notin holders
           /\ holders' = holders \cup {s}
           /\ UNCHANGED owner

Leave(s) == /\ s \in holders
            /\ holders' = holders \ {s}
            /\ UNCHANGED owner

Lower == /\ owner # NoSuite /\ holders = {}
         /\ owner' = NoSuite
         /\ UNCHANGED holders

DNext == Lower \/ \E s \in Suites : Raise(s) \/ Join(s) \/ Leave(s)

DSpec == DInit /\ [][DNext]_dvars
=============================================================================
