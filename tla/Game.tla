-------------------------------- MODULE Game --------------------------------
(***************************************************************************)
(* What the system promises of one game, seen through its score: it is     *)
(* started once with a legal number of distinct users, every later state   *)
(* is one move of the player to move, one resignation, or the stalemate    *)
(* verdict, applied to the state before it, and it is gone only after it   *)
(* was completed.  Room, whose handlers need several awaits for each of    *)
(* these steps, is shown to implement it while no two handlers overlap.    *)
(***************************************************************************)
EXTENDS Scoreboard, FiniteSets

CONSTANTS Users,    \* everybody who may ever touch the game
          NoGame    \* before the start, and after the eviction

VARIABLE game

TurnOrders ==
    {order \in UNION {[1..k -> Users] : k \in {2, 3, 4, 6}} :
        \A i, j \in DOMAIN order : order[i] = order[j] => i = j}

Init == game = NoGame

Start == /\ game = NoGame
         /\ \E order \in TurnOrders : game' = NewGame(order)

Move == /\ game # NoGame
        /\ game.status = "active"
        /\ \E won \in BOOLEAN : game' = AfterMove(game, won)

\* The handler looks at no status: a resignation may follow the game's end.
Resign(u) == /\ game # NoGame
             /\ u \notin FinishedIds(game.finishedPlayers)
             /\ game' = AfterResign(game, u)

Stalemate == /\ game # NoGame
             /\ game.status = "active"
             /\ game' = Stalemated(game)

Evict == /\ game # NoGame
         /\ game.status = "completed"
         /\ game' = NoGame

Next == \/ Start \/ Move \/ Stalemate \/ Evict
        \/ \E u \in Users : Resign(u)

Spec == Init /\ [][Next]_game

=============================================================================
