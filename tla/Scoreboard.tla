----------------------------- MODULE Scoreboard -----------------------------
(***************************************************************************)
(* The part of a GameState that says who plays and who has finished:       *)
(*   [turnOrder, currentTurnIndex, finishedPlayers, status, endReason].    *)
(* applyMove (moves.ts) and the GAME_RESIGN handler (socket.ts) are the    *)
(* only code that changes it; the board enters only through one bit, "the  *)
(* mover now fills its target".  Indices are 1-based.                      *)
(***************************************************************************)
EXTENDS Integers, Sequences, FiniteSets

\* What startGame builds: createInitialBoard, then status = 'active'.
NewGame(order) ==
    [turnOrder |-> order, currentTurnIndex |-> 1, finishedPlayers |-> <<>>,
     status |-> "active", endReason |-> "none"]

PlayerCount(g) == Len(g.turnOrder)

CurrentPlayer(g) == g.turnOrder[g.currentTurnIndex]

FinishedIds(finished) == {finished[i].userId : i \in DOMAIN finished}

\* Mutant: the finished are not looked up.
FinishedAfter_Twice(g, won) ==
    IF won
    THEN Append(g.finishedPlayers,
                [userId    |-> CurrentPlayer(g),
                 finishPos |-> Len(g.finishedPlayers) + 1])
    ELSE g.finishedPlayers

\* finishedPlayers after a move of the current player; won = checkWin.
FinishedAfter(g, won) ==
    IF won /\ CurrentPlayer(g) \notin FinishedIds(g.finishedPlayers)
    THEN Append(g.finishedPlayers,
                [userId    |-> CurrentPlayer(g),
                 finishPos |-> Len(g.finishedPlayers) + 1])
    ELSE g.finishedPlayers

\* How many times the do-while of applyMove advances before it rests on i.
TurnsUntil(g, i) ==
    IF i > g.currentTurnIndex THEN i - g.currentTurnIndex
                              ELSE i - g.currentTurnIndex + PlayerCount(g)

\* The seats the do-while may stop at.
OpenSeats(g, finished) ==
    {i \in 1..PlayerCount(g) : g.turnOrder[i] \notin FinishedIds(finished)}

\* Mutants: the index does not wrap; the finished are not skipped.
NextTurnIndex_NoWrap(g, finished) == g.currentTurnIndex + 1
NextTurnIndex_NoSkip(g, finished) == (g.currentTurnIndex % PlayerCount(g)) + 1

NextTurnIndex(g, finished) ==
    IF PlayerCount(g) - Len(finished) > 0
    THEN CHOOSE i \in OpenSeats(g, finished) :
           \A j \in OpenSeats(g, finished) : TurnsUntil(g, i) <= TurnsUntil(g, j)
    ELSE g.currentTurnIndex

\* The threshold at which a game is over: all but one have finished.
IsOver(g, finished) == Len(finished) >= PlayerCount(g) - 1

\* Mutant: the game waits for the last user too.
AfterMove_LateEnd(g, won) ==
    LET finished == FinishedAfter(g, won)
    IN  [g EXCEPT !.finishedPlayers  = finished,
                  !.currentTurnIndex = NextTurnIndex(g, finished),
                  !.status = IF Len(finished) = PlayerCount(g) THEN "completed"
                                                               ELSE g.status]

AfterMove(g, won) ==
    LET finished == FinishedAfter(g, won)
    IN  [g EXCEPT !.finishedPlayers  = finished,
                  !.currentTurnIndex = NextTurnIndex(g, finished),
                  !.status = IF IsOver(g, finished) THEN "completed" ELSE g.status]

AfterResign(g, user) ==
    LET finished == Append(g.finishedPlayers,
                           [userId |-> user, finishPos |-> PlayerCount(g)])
    IN  [g EXCEPT !.finishedPlayers = finished,
                  !.status    = IF IsOver(g, finished) THEN "completed" ELSE g.status,
                  !.endReason = IF IsOver(g, finished) THEN "resign" ELSE g.endReason]

\* The state written when the move log has outgrown MOVE_LOG_CAP.
Stalemated(g) == [g EXCEPT !.status = "completed", !.endReason = "stalemate"]

\* Mutant: the finished are ranked again behind themselves.
FinishOrder_Again(s) ==
    s.finishedPlayers \o
    [i \in DOMAIN s.turnOrder |-> [userId    |-> s.turnOrder[i],
                                  finishPos |-> Len(s.finishedPlayers) + i]]

\* Seats in turn order: the i-th is the one with i of them up to itself.
InTurnOrder(seats) ==
    [i \in 1..Cardinality(seats) |->
        CHOOSE k \in seats : Cardinality({j \in seats : j <= k}) = i]

\* persistCompletedGame's order: the finished, then the others by seat.
FinishOrder(s) ==
    LET rest == InTurnOrder(OpenSeats(s, s.finishedPlayers))
    IN  s.finishedPlayers \o
        [i \in DOMAIN rest |-> [userId    |-> s.turnOrder[rest[i]],
                                finishPos |-> Len(s.finishedPlayers) + i]]

\* Users that finished by filling their target: a resigner is always given
\* finishPos = playerCount, a position no winner of a running game can get.
Winners(g) ==
    {g.finishedPlayers[i].userId :
        i \in {k \in DOMAIN g.finishedPlayers :
                  g.finishedPlayers[k].finishPos < PlayerCount(g)}}

=============================================================================
