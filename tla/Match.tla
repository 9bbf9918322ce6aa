------------------------------- MODULE Match -------------------------------
(***************************************************************************)
(* One game played to its end: the rule engine driven one call at a time,  *)
(* as the server does when calls do not overlap.  A move attempt carries   *)
(* the client's own path (or the one findPath supplies), the turn timer    *)
(* plays any legal move of the current player, and a user may resign.      *)
(***************************************************************************)
EXTENDS Rules, Scoreboard

CONSTANT ClientPaths    \* the paths a client may send with a move attempt

ASSUME ClientPathsAssumption ==
    \A path \in ClientPaths : path \in Seq(Int \X Int) /\ Len(path) >= 2

VARIABLES board,    \* GameState.board
          game      \* the rest of the GameState, see Scoreboard

vars == <<board, game>>

Init == /\ board = InitialBoard
        /\ game = NewGame(TurnOrder)

\* applyMove: the marble moves, then the mover's win and the next turn.
ApplyMove(from, to) ==
    /\ board' = MoveMarble(board, from, to)
    /\ game' = AfterMove(game, CheckWin(board', CurrentPlayer(game)))

\* The part of validateMove that comes before the board.
HasTheMove(p) ==
    /\ game.status = "active"
    /\ p \notin FinishedIds(game.finishedPlayers)
    /\ CurrentPlayer(game) = p

\* GAME_MOVE_ATTEMPT.
MoveAttempt(p) ==
    /\ HasTheMove(p)
    /\ \E path \in ClientPaths :
          /\ MoveAllowed(board, p, path)
          /\ ApplyMove(path[1], path[Len(path)])

\* onTimeout: the timer plays for whoever is to move, resigned or not.
Timeout ==
    /\ game.status = "active"
    /\ \E m \in AllValidMoves(board, CurrentPlayer(game)) : ApplyMove(m[1], m[2])

\* GAME_RESIGN: refused only to a user who has already finished.
Resign(p) ==
    /\ p \notin FinishedIds(game.finishedPlayers)
    /\ game' = AfterResign(game, p)
    /\ UNCHANGED board

Next == \/ \E p \in Players : MoveAttempt(p)
        \/ Timeout
        \/ \E p \in Players : Resign(p)

Spec == Init /\ [][Next]_vars

-----------------------------------------------------------------------------
Marbles(p) == {c \in AllBoardCells : board[c] = p}

FinishedEntries == [userId : Players, finishPos : 1..Len(TurnOrder)]

TypeOK ==
    /\ board \in Boards
    /\ game \in [turnOrder : {TurnOrder}, currentTurnIndex : Seats,
                 finishedPlayers : Seq(FinishedEntries),
                 status : {"active", "completed"},
                 endReason : {"none", "resign", "stalemate"}]

\* No sequence of moves, chain hops and evictions creates, loses or recolours
\* a marble: every user always owns as many as its home triangle held.
MarblesConserved ==
    \A p \in Players : Cardinality(Marbles(p)) = Cardinality(Home[p])

\* The engine counts the entries of the finish list.  All the same a game is
\* completed exactly when at most one user has not finished: nobody is listed twice.
CompletedWhenDecided ==
    game.status = "completed"
        <=> Cardinality(Players \ FinishedIds(game.finishedPlayers)) <= 1

\* A user who finished by filling its target zone fills it for the rest of
\* the game: nobody can evict it and no timer moves its marbles away.
WinnersStayHome ==
    \A p \in Winners(game) : CheckWin(board, p)

\* While a game runs the turn never rests on a user who has won (it may rest
\* on one who resigned).
TurnSkipsWinners ==
    game.status = "active" => CurrentPlayer(game) \notin Winners(game)

\* The two ways the engine computes legality agree.  What the timer may play
\* for the current user, and what the client is shown, validateMove accepts
\* along every path findPath may return for it; and every path validateMove
\* accepts leads to a destination that is shown and may be played.
MovesAgree ==
    LET p == CurrentPlayer(game)
        listed == AllValidMoves(board, p)
    IN  game.status = "active" =>
        /\ \A m \in listed : \A path \in FindPaths(board, m[1], m[2]) :
              MoveAllowed(board, p, path)
        /\ \A from \in AllBoardCells : \A to \in ValidDestinations(board, p, from) :
              <<from, to>> \in listed
        /\ \A path \in ClientPaths :
              MoveAllowed(board, p, path) => <<path[1], path[Len(path)]>> \in listed

\* winCheck.ts: "A player wins when all 10 of their marbles occupy the
\* opposing home triangle", so in a running game nobody fills its target
\* without being recorded as finished.
FillingIsWinning ==
    game.status = "active" =>
        \A p \in Players : CheckWin(board, p) => p \in FinishedIds(game.finishedPlayers)

\* elo.ts: "finishPos: number; // 1 = winner".  A completed game, ranked the
\* way persistCompletedGame ranks it, has exactly one winner.
FinalPositions ==
    LET done == game.finishedPlayers
        trailing == SelectSeq(TurnOrder, LAMBDA u : u \notin FinishedIds(done))
    IN  [u \in Players |->
            IF u \in FinishedIds(done)
            THEN (CHOOSE e \in {done[i] : i \in DOMAIN done} : e.userId = u).finishPos
            ELSE Len(done) + (CHOOSE i \in DOMAIN trailing : trailing[i] = u)]

SingleWinner ==
    game.status = "completed" =>
        \E p \in Players : \A q \in Players : FinalPositions[q] = 1 <=> q = p

=============================================================================
