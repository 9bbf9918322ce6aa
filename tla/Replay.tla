------------------------------- MODULE Replay -------------------------------
(***************************************************************************)
(* A game recorded and watched again: Match, whose moves are logged as     *)
(* they are made and which a log longer than the cap ends, and the replay   *)
(* page, which gets the seats and the log, builds the starting position by *)
(* itself and applies the moves.  Resignations are not in the log.         *)
(***************************************************************************)
EXTENDS Match

CONSTANT MoveLogCap     \* MOVE_LOG_CAP

ASSUME MoveLogCapAssumption == MoveLogCap \in Nat

VARIABLES
    log,        \* the recorded moves, each the cells it leads from and to
    positions,  \* ghost: what the game was before and after each move
    loaded,     \* the page has the record
    step,       \* how many of the moves are shown
    playing     \* the page steps by itself

pageVars == <<loaded, step, playing>>
replayVars == <<vars, log, positions, pageVars>>

-----------------------------------------------------------------------------
(* The game *)

MovesMarble(from, to) ==
    /\ from # to /\ board[from] # NoMarble /\ board[to] = NoMarble
    /\ board' = MoveMarble(board, from, to)

Plays ==
    /\ Len(log) <= MoveLogCap
    /\ Timeout \/ \E p \in Players : MoveAttempt(p)
    /\ \E from, to \in AllBoardCells :
          MovesMarble(from, to) /\ log' = Append(log, <<from, to>>)
    /\ positions' = Append(positions, [board |-> board', game |-> game'])
    /\ UNCHANGED pageVars

LogIsFull ==
    /\ Len(log) > MoveLogCap /\ game.status = "active"
    /\ game' = Stalemated(game)
    /\ UNCHANGED <<board, log, positions, pageVars>>

Resigns(p) ==
    /\ ~loaded
    /\ Resign(p)
    /\ UNCHANGED <<log, positions, pageVars>>

-----------------------------------------------------------------------------
(* The page *)

\* GET /games/:gameId.  A game is written when it has ended.
Load ==
    /\ ~loaded /\ game.status = "completed"
    /\ loaded' = TRUE
    /\ UNCHANGED <<vars, log, positions, step, playing>>

\* Mutant: the points are given out afresh, in the order of the seats.
Start_Fresh ==
    [board |-> [c \in AllBoardCells |->
                   IF \E i \in Seats : c \in HomeTriangle(i - 1)
                   THEN TurnOrder[CHOOSE i \in Seats : c \in HomeTriangle(i - 1)]
                   ELSE NoMarble],
     game  |-> NewGame(TurnOrder)]

\* buildInitialBoard: each user's marbles on the home point stored with the seat.
Start ==
    [board |-> [c \in CenterHex \union UNION {HomeTriangle(k) : k \in Points} |->
                   IF \E p \in Players : c \in HomeTriangle(HomePoint(p))
                   THEN CHOOSE p \in Players : c \in HomeTriangle(HomePoint(p))
                   ELSE NoMarble],
     game  |-> NewGame(TurnOrder)]

\* applyMove, once more, for whoever is to move as the page counts the turns.
Applied(s, move) ==
    LET after == MoveMarble(s.board, move[1], move[2])
    IN  [board |-> after,
         game  |-> AfterMove(s.game, CheckWin(after, CurrentPlayer(s.game)))]

\* stepState
Shown ==
    LET shown[n \in 0..Len(log)] == IF n = 0 THEN Start ELSE Applied(shown[n - 1], log[n])
    IN  shown[step]

Backward ==
    /\ loaded /\ step # 0
    /\ step' = step - 1
    /\ UNCHANGED <<vars, log, positions, loaded, playing>>

Forward ==
    /\ loaded /\ step < Len(log)
    /\ step' = step + 1
    /\ UNCHANGED <<vars, log, positions, loaded, playing>>

Scrub ==
    /\ loaded
    /\ step' \in 0..Len(log)
    /\ UNCHANGED <<vars, log, positions, loaded, playing>>

PlayOrPause ==
    /\ loaded
    /\ playing' = ~playing
    /\ UNCHANGED <<vars, log, positions, loaded, step>>

Tick ==
    /\ loaded /\ playing
    /\ IF step >= Len(log) THEN playing' = FALSE /\ step' = step
                           ELSE playing' = playing /\ step' = step + 1
    /\ UNCHANGED <<vars, log, positions, loaded>>

-----------------------------------------------------------------------------
ReplayInit ==
    /\ Init
    /\ log = <<>>
    /\ positions = <<[board |-> board, game |-> game]>>
    /\ loaded = FALSE /\ step = 0 /\ playing = FALSE

ReplayNext ==
    \/ Plays \/ LogIsFull \/ Load
    \/ \E p \in Players : Resigns(p)
    \/ Backward \/ Forward \/ Scrub \/ PlayOrPause \/ Tick

ReplaySpec == ReplayInit /\ [][ReplayNext]_replayVars

-----------------------------------------------------------------------------
NobodyResigned == FinishedIds(game.finishedPlayers) = Winners(game)

\* Whatever was played, timed out, evicted or resigned, and however the page is
\* stepped, it shows the board the game had after that many moves; and, if
\* nobody resigned, it also has the same turn and the same finishers.
ReplayShowsTheGame ==
    loaded =>
        /\ step \in 0..Len(log)
        /\ Shown.board = positions[step + 1].board
        /\ NobodyResigned => Shown.game = positions[step + 1].game

\* A game is completed exactly when all but one user have finished, by winning
\* and resigning in any order, unless its log was full.
EndsWhenDecided == game.endReason # "stalemate" => CompletedWhenDecided

=============================================================================
