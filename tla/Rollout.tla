------------------------------ MODULE Rollout -------------------------------
(***************************************************************************)
(* What the deployment pipeline promises whoever follows the link current: *)
(* one release at a time is prepared and published once, newest last; it   *)
(* may be taken back once, before the next is prepared, and what comes     *)
(* back is the release it displaced.  Building, checking, restarting and   *)
(* pruning are the implementation's business.                              *)
(***************************************************************************)
EXTENDS Naturals

VARIABLES prepared,  \* the last release prepared, 0 if none was
          pending,   \* it has not been published or given up yet
          live,      \* the release published, 0 if none is
          undo       \* the release an undo brings back, 0 if none does

rolloutVars == <<prepared, pending, live, undo>>

Init == /\ prepared = 0
        /\ pending = FALSE
        /\ live = 0
        /\ undo = 0

Prepare == /\ ~pending /\ undo = 0
           /\ prepared' = prepared + 1
           /\ pending' = TRUE
           /\ UNCHANGED <<live, undo>>

Publish == /\ pending
           /\ live' = prepared
           /\ undo' = live
           /\ pending' = FALSE
           /\ UNCHANGED prepared

Undo == /\ undo # 0
        /\ live' = undo
        /\ undo' = 0
        /\ UNCHANGED <<prepared, pending>>

\* The release is given up before it is published, or stays from now on.
Settle == /\ pending' = FALSE
          /\ undo' = 0
          /\ UNCHANGED <<prepared, live>>

Next == Prepare \/ Publish \/ Undo \/ Settle

Spec == Init /\ [][Next]_rolloutVars
=============================================================================
