------------------------------ MODULE MCReplay ------------------------------
(***************************************************************************)
(* Match on the radius-1 star, in two kinds of behaviours: played to its   *)
(* end, however long; or played with a short log, recorded and watched     *)
(* again (Replay).                                                         *)
(***************************************************************************)
EXTENDS MCMatch, Replay

VARIABLE recorded

mcVars == <<replayVars, recorded>>

MCInit == ReplayInit /\ recorded \in BOOLEAN

MCNext ==
    /\ \/ ~recorded /\ Next /\ UNCHANGED <<log, positions, pageVars>>
       \/ recorded /\ ReplayNext
    /\ UNCHANGED recorded

MCSpec == MCInit /\ [][MCNext]_mcVars


=============================================================================
