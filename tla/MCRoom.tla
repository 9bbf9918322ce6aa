------------------------------- MODULE MCRoom -------------------------------
(***************************************************************************)
(* Room with two or three users.                                           *)
(***************************************************************************)
EXTENDS RoomGame, TLC

CONSTANTS u1, u2, u3

\* Handlers are interchangeable.
Handlers == Permutations(Tasks)

TwoUsers   == {u1, u2}
ThreeUsers == {u1, u2, u3}

=============================================================================
