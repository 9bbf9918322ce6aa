------------------------------ MODULE RoomGame ------------------------------
(***************************************************************************)
(* A room seen as the game it is about: the score it stores is the state   *)
(* of the abstract Game, and its players, timers, log and handlers are     *)
(* left out.                                                               *)
(***************************************************************************)
EXTENDS Room

CONSTANT NoGame

\* What a state says of the game.
ScoreOfState(s) ==
    [turnOrder |-> s.turnOrder, currentTurnIndex |-> s.currentTurnIndex,
     finishedPlayers |-> s.finishedPlayers, status |-> s.status, endReason |-> s.endReason]

Scores == [turnOrder : Seq(Users), currentTurnIndex : Nat, finishedPlayers : Seq(Finisher),
           status : {"active", "completed"}, endReason : {"none", "resign", "stalemate"}]

ASSUME NoGameAssumption == NoGame \notin Scores

\* What a room says of it: nothing before the start and after the end.
Score ==
    IF room = NoRoom THEN NoGame
    ELSE IF room.state = NoState THEN NoGame
    ELSE ScoreOfState(room.state)

AbstractGame == INSTANCE Game WITH game <- Score

\* Handlers that do not overlap act on the game one whole operation at a
\* time, each on the state the one before it left.
ImplementsGame == AbstractGame!Spec

=============================================================================
