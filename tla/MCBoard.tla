------------------------------ MODULE MCBoard ------------------------------
(***************************************************************************)
(* Match on a full-size board, from its starting position, to a bounded    *)
(* number of moves.                                                        *)
(***************************************************************************)
EXTENDS MCMatch

CONSTANT MaxMoves    \* the bound on the moves and resignations played

VARIABLE played

MCInit == Init /\ played = 0

MCNext == /\ played < MaxMoves
          /\ Next
          /\ played' = played + 1

MCSpec == MCInit /\ [][MCNext]_<<vars, played>>

=============================================================================
