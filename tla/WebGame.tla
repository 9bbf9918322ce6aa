------------------------------ MODULE WebGame ------------------------------
(***************************************************************************)
(* One web client that plays: its game store, its socket and the pages it  *)
(* visits, against the part of the server it hears from.                   *)
(*                                                                         *)
(* A board is the sequence of the moves made on the starting position, so  *)
(* a move that is missing or applied twice shows.  A game is for two; this *)
(* client's user is to move after an even number of moves.  The server     *)
(* saves a move first and emits it later, after further awaits; a socket   *)
(* gets what is emitted to the channels it has joined, in order.           *)
(***************************************************************************)
EXTENDS Integers, Sequences

CONSTANTS
    Rooms,
    Begun,          \* those whose game runs before the client comes
    Ending,         \* bound: those that may end
    LobbyPage, NoGame,
    MaxPlayed,      \* bound: moves of each game
    MaxInputs       \* bound: pages opened, marbles clicked on, connections lost

ASSUME WebGameAssumption ==
    /\ MaxPlayed \in [Rooms -> Nat]
    /\ MaxInputs \in Nat
    /\ Begun \subseteq Rooms /\ Ending \subseteq Rooms
    /\ {LobbyPage, NoGame} \intersect Rooms = {}

VARIABLES
    live,       \* server: status of each room, moves saved, moves and end emitted
    socket,     \* connected or not; the channels joined (never left); data.gameId
    joins,      \* ROOM_JOIN requests: sent, or read with the room they have read
    previews,   \* GAME_REQUEST_PREVIEW requests, in order
    wire,       \* events on their way to the client
    page,       \* the room whose page is open, or LobbyPage
    store,      \* useGameStore
    unsettled,  \* ghost: why the store may differ from the server
    inputs

webVars == <<live, socket, joins, previews, wire, page, store, unsettled, inputs>>

Input == inputs < MaxInputs /\ inputs' = inputs + 1

MyTurn(moves) == moves % 2 = 0

Board(g, n) == [i \in 1..n |-> <<g, i>>]

\* The marble clicked on as n-th input is called n: which marbles they are is immaterial.
NoMarble == 0

\* The cell an old move led from, whatever lies there now.
OldMove == -1

-----------------------------------------------------------------------------
(* Events *)

\* emitGameStart: a snapshot.  "exact" is a ghost: the moves it holds are the
\* moves emitted so far.
GameStart(g, n, exact) == [kind |-> "start", game |-> g, moves |-> n, exact |-> exact]

MoveConfirmed(g, n) == [kind |-> "moved", game |-> g, moves |-> n]
GameOver(g) == [kind |-> "over", game |-> g]
ValidDestinations(g, n, m) == [kind |-> "preview", game |-> g, moves |-> n, marble |-> m]

Emitted(g, n) == live[g].emitted = n /\ live[g].status # "over"

Emit(g, event) == wire' = IF g \in socket.channels THEN Append(wire, event) ELSE wire

-----------------------------------------------------------------------------
(* The server *)

StartSave(g) ==
    /\ live[g].status = "waiting"
    /\ live' = [live EXCEPT ![g].status = "active", ![g].announced = FALSE]
    /\ UNCHANGED <<socket, joins, previews, wire, page, store, unsettled, inputs>>

\* startGame's own snapshot, to the sockets that are in the room by now.
StartEmit(g) ==
    /\ ~live[g].announced
    /\ live' = [live EXCEPT ![g].announced = TRUE]
    /\ Emit(g, GameStart(g, 0, Emitted(g, 0)))
    /\ UNCHANGED <<socket, joins, previews, page, store, unsettled, inputs>>

\* A move of the other user, of the timer, or of this one.  A game ends with a
\* move or a resignation.
SaveMove(g) == live' = [live EXCEPT ![g].moves = @ + 1]

PlayMove(g) ==
    /\ live[g].status = "active" /\ live[g].moves < MaxPlayed[g]
    /\ SaveMove(g)
    /\ UNCHANGED <<socket, joins, previews, wire, page, store, unsettled, inputs>>

Decide(g) ==
    /\ live[g].status = "active" /\ g \in Ending
    /\ live' = [live EXCEPT ![g].status = "completed"]
    /\ UNCHANGED <<socket, joins, previews, wire, page, store, unsettled, inputs>>

\* Mutant: the last move is emitted again.
Unsent_Again(g) == live[g].emitted <= live[g].moves

Unsent(g) == live[g].emitted < live[g].moves

\* In order: whoever saves the next move has more awaits before it.
EmitMove(g) ==
    /\ Unsent(g)
    /\ live' = [live EXCEPT ![g].emitted = @ + 1]
    /\ Emit(g, MoveConfirmed(g, live[g].emitted + 1))
    /\ UNCHANGED <<socket, joins, previews, page, store, unsettled, inputs>>

\* emitGameOver, once the game is persisted; the room goes some time later.
EmitOver(g) ==
    /\ live[g].status = "completed" /\ live[g].emitted = live[g].moves
    /\ live' = [live EXCEPT ![g].status = "over"]
    /\ Emit(g, GameOver(g))
    /\ UNCHANGED <<socket, joins, previews, page, store, unsettled, inputs>>

\* ROOM_JOIN reads the room; when the reply comes the socket joins the channel
\* and, if the game is active in what was read, gets that snapshot.
JoinRead(j) ==
    /\ j.pc = "sent"
    /\ \/ joins' = (joins \ {j}) \union {[j EXCEPT !.pc = "read", !.status = live[j.game].status,
                                                  !.moves = live[j.game].moves]}
       \/ live[j.game].status = "over" /\ joins' = joins \ {j}     \* it has been deleted
    /\ UNCHANGED <<live, socket, previews, wire, page, store, unsettled, inputs>>

\* Mutant: the snapshot is sent before the socket is in the channel.
Entered_Late(g) == [socket EXCEPT !.game = g]

Entered(g) == [socket EXCEPT !.game = g, !.channels = @ \union {g}]

JoinEnter(j) ==
    /\ j.pc = "read"
    /\ joins' = joins \ {j}
    /\ socket' = Entered(j.game)
    /\ wire' = IF j.status = "active"
               THEN Append(wire, GameStart(j.game, j.moves, Emitted(j.game, j.moves)))
               ELSE wire
    /\ UNCHANGED <<live, previews, page, store, unsettled, inputs>>

\* GAME_REQUEST_PREVIEW, for whatever game the socket joined last.
Preview ==
    /\ previews # <<>>
    /\ previews' = Tail(previews)
    /\ \/ /\ socket.game # NoGame /\ live[socket.game].status # "waiting"
          /\ wire' = Append(wire, ValidDestinations(socket.game, live[socket.game].moves,
                                                    Head(previews)))
          /\ UNCHANGED unsettled
       \/ /\ socket.game # NoGame => live[socket.game].status \in {"waiting", "over"}
          /\ unsettled' = unsettled \union {"unanswered"}
          /\ UNCHANGED wire
    /\ UNCHANGED <<live, socket, joins, page, store, inputs>>

-----------------------------------------------------------------------------
(* The store *)

NoDests == [game |-> NoGame, moves |-> 0, marble |-> NoMarble]

EmptyStore ==
    [game |-> NoGame, status |-> "idle", board |-> <<>>, myTurn |-> FALSE,
     selected |-> NoMarble, dests |-> NoDests, animating |-> <<>>, pending |-> <<>>,
     history |-> FALSE]

\* Mutant: a snapshot of the game that is shown is not taken over.
Started_Kept(e) ==
    [store EXCEPT !.game = e.game, !.status = "active",
                  !.board = IF @ = <<>> \/ store.game # e.game THEN Board(e.game, e.moves) ELSE @,
                  !.myTurn = IF store.game # e.game THEN MyTurn(e.moves) ELSE @, !.selected = NoMarble,
                  !.dests = NoDests, !.animating = <<>>, !.history = FALSE]

\* startGame: everything but the animations that are waiting.
Started(e) ==
    [store EXCEPT !.game = e.game, !.status = "active", !.board = Board(e.game, e.moves),
                  !.myTurn = MyTurn(e.moves), !.selected = NoMarble, !.dests = NoDests,
                  !.animating = <<>>, !.history = FALSE]

\* Mutants: the selection stays; the turn is not passed on; a waiting animation
\* is overtaken.
Applied_Selected(e) ==
    [store EXCEPT !.board = Append(@, <<e.game, e.moves>>), !.myTurn = MyTurn(e.moves),
                  !.animating = IF @ = <<>> THEN <<<<e.game, e.moves>>>> ELSE @,
                  !.pending = IF store.animating = <<>> THEN @ ELSE Append(@, <<e.game, e.moves>>),
                  !.history = TRUE]
Applied_SameTurn(e) ==
    [store EXCEPT !.board = Append(@, <<e.game, e.moves>>), !.selected = NoMarble,
                  !.dests = NoDests,
                  !.animating = IF @ = <<>> THEN <<<<e.game, e.moves>>>> ELSE @,
                  !.pending = IF store.animating = <<>> THEN @ ELSE Append(@, <<e.game, e.moves>>),
                  !.history = TRUE]
Applied_Overtaking(e) ==
    [store EXCEPT !.board = Append(@, <<e.game, e.moves>>), !.myTurn = MyTurn(e.moves),
                  !.selected = NoMarble, !.dests = NoDests,
                  !.animating = <<<<e.game, e.moves>>>>, !.pending = store.animating \o @,
                  !.history = TRUE]

\* applyConfirmedMove: on the board at once, animated behind the move that is
\* being animated.  Neither the game nor the number of the move is looked at.
Applied(e) ==
    LET move == <<e.game, e.moves>>
        busy == store.animating # <<>>
    IN  [store EXCEPT !.board = Append(@, move), !.myTurn = MyTurn(e.moves),
                      !.selected = NoMarble, !.dests = NoDests,
                      !.animating = IF busy THEN @ ELSE <<move>>,
                      !.pending = IF busy THEN Append(@, move) ELSE @,
                      !.history = TRUE]

\* The bridge of socket/client.ts: the next event goes to the store.
Receive ==
    LET e == Head(wire)
        foreign == IF e.game = store.game THEN {} ELSE {"foreign"}
    IN  /\ wire # <<>>
        /\ wire' = Tail(wire)
        /\ \/ /\ e.kind = "start"
              /\ store' = Started(e)
              /\ unsettled' = (IF e.exact THEN {} ELSE {"gap"}) \union
                              (IF store.pending = <<>> THEN {} ELSE {"skipped"})
           \/ /\ e.kind = "moved"
              /\ store' = Applied(e)
              /\ unsettled' = unsettled \union foreign \union
                              (IF "drop" \in unsettled THEN {"gap"} ELSE {})
           \/ /\ e.kind = "over"
              /\ store' = [store EXCEPT !.status = "completed"]
              /\ unsettled' = unsettled \union foreign
           \/ /\ e.kind = "preview"
              /\ store' = [store EXCEPT !.dests = [game |-> e.game, moves |-> e.moves,
                                                   marble |-> e.marble]]
              /\ unsettled' = unsettled \union foreign
        /\ UNCHANGED <<live, socket, joins, previews, page, inputs>>

BoardShown == page # LobbyPage /\ store.status # "idle"

\* The frame loop of a board that is shown finds the animation finished.
CompleteAnimation ==
    /\ BoardShown
    /\ store.animating # <<>>
    /\ store' = IF store.pending = <<>> THEN [store EXCEPT !.animating = <<>>]
                ELSE [store EXCEPT !.animating = <<Head(store.pending)>>, !.pending = Tail(@)]
    /\ UNCHANGED <<live, socket, joins, previews, wire, page, unsettled, inputs>>

-----------------------------------------------------------------------------
(* The socket and the pages *)

Fresh == [up |-> TRUE, channels |-> {}, game |-> NoGame]

\* getSocket: a socket that is not connected is replaced, not waited for; its
\* successor is in no channel.
GetSocket == socket' = IF socket.up THEN socket ELSE Fresh

Drop ==
    /\ socket.up /\ Input
    /\ socket' = [Fresh EXCEPT !.up = FALSE]
    /\ wire' = <<>> /\ joins' = {} /\ previews' = <<>>
    /\ unsettled' = unsettled \union {"drop"}
    /\ UNCHANGED <<live, page, store>>

\* socket.io reconnects; nothing joins the room again.
Reconnect ==
    /\ ~socket.up
    /\ socket' = Fresh
    /\ UNCHANGED <<live, joins, previews, wire, page, store, unsettled, inputs>>

JoinRequest(g) == [game |-> g, pc |-> "sent", status |-> "waiting", moves |-> 0]

OpenGame(g) ==
    /\ Input
    /\ page # g
    /\ page' = g
    /\ GetSocket
    /\ joins' = joins \union {JoinRequest(g)}
    /\ UNCHANGED <<live, previews, wire, store, unsettled>>

OpenLobby ==
    /\ Input
    /\ page # LobbyPage
    /\ page' = LobbyPage
    /\ UNCHANGED <<live, socket, joins, previews, wire, store, unsettled>>

\* The browser loads the page again: only then the store is empty.
Reload ==
    /\ Input
    /\ socket' = Fresh
    /\ wire' = <<>> /\ previews' = <<>>
    /\ store' = EmptyStore
    /\ unsettled' = {}
    /\ joins' = IF page = LobbyPage THEN {} ELSE {JoinRequest(page)}
    /\ UNCHANGED <<live, page>>

\* activateHex: a marble, a destination, or anything else.
Pick ==
    /\ BoardShown /\ store.myTurn
    /\ Input
    /\ store' = [store EXCEPT !.selected = inputs + 1, !.dests = NoDests]
    /\ GetSocket
    /\ previews' = IF socket.up THEN Append(previews, inputs + 1) ELSE <<>>
    /\ UNCHANGED <<live, joins, wire, page, unsettled>>

Unpick ==
    /\ BoardShown /\ store.selected # NoMarble
    /\ store' = [store EXCEPT !.selected = NoMarble, !.dests = NoDests]
    /\ UNCHANGED <<live, socket, joins, previews, wire, page, unsettled, inputs>>

\* A click on a move of the history list selects without asking anybody,
\* whoever is to move, and a preview under way is still awaited.
PickOldMove ==
    /\ BoardShown /\ store.history
    /\ Input
    /\ store' = [store EXCEPT !.selected = OldMove, !.dests = NoDests]
    /\ UNCHANGED <<live, socket, joins, previews, wire, page, unsettled>>

\* The move goes to the game the socket joined last.  What the destinations
\* were computed for may be another position: then it may be refused.
Attempt ==
    LET g == socket.game
        heard == socket.up /\ g # NoGame
        certain == store.dests = [game |-> g, moves |-> live[g].moves, marble |-> store.selected]
    IN  /\ BoardShown /\ store.selected # NoMarble /\ store.dests # NoDests
        /\ store' = [store EXCEPT !.selected = NoMarble, !.dests = NoDests]
        /\ GetSocket
        /\ \/ /\ heard /\ live[g].status = "active" /\ live[g].moves < MaxPlayed[g]
              /\ MyTurn(live[g].moves)
              /\ SaveMove(g)
           \/ /\ ~(heard /\ live[g].status = "active" /\ certain)
              /\ UNCHANGED live
        /\ UNCHANGED <<joins, previews, wire, page, unsettled, inputs>>

-----------------------------------------------------------------------------
WebInit ==
    /\ live = [g \in Rooms |-> [status |-> IF g \in Begun THEN "active" ELSE "waiting",
                                moves |-> 0, emitted |-> 0, announced |-> TRUE]]
    /\ socket = Fresh
    /\ joins = {}
    /\ previews = <<>>
    /\ wire = <<>>
    /\ page = LobbyPage
    /\ store = EmptyStore
    /\ unsettled = {}
    /\ inputs = 0

\* What the server and the browser do by themselves.
WebProgress ==
    \/ \E g \in Rooms : StartEmit(g) \/ EmitMove(g) \/ EmitOver(g)
    \/ \E j \in joins : JoinRead(j) \/ JoinEnter(j)
    \/ Preview \/ Receive

WebNext ==
    \/ WebProgress
    \/ \E g \in Rooms : StartSave(g) \/ PlayMove(g) \/ Decide(g) \/ OpenGame(g)
    \/ Pick \/ CompleteAnimation \/ Drop \/ Reconnect \/ OpenLobby \/ Reload \/ Unpick \/ Attempt
    \/ PickOldMove

WebSpec == WebInit /\ [][WebNext]_webVars

-----------------------------------------------------------------------------
\* Nothing is under way between the server and the client.
Settled ==
    /\ wire = <<>> /\ joins = {} /\ previews = <<>>
    /\ \A g \in Rooms : /\ live[g].emitted = live[g].moves
                        /\ live[g].announced
                        /\ live[g].status # "completed"

WebTypeOK ==
    /\ socket.channels \subseteq Rooms /\ socket.game \in Rooms \union {NoGame}
    /\ page \in Rooms \union {LobbyPage}
    /\ store.game \in Rooms \union {NoGame} /\ store.selected \in OldMove..inputs
    /\ unsettled \subseteq {"gap", "foreign", "skipped", "drop", "unanswered"}
    /\ \A g \in Rooms : live[g].emitted <= live[g].moves /\ live[g].moves <= MaxPlayed[g]

\* The board on the page is a position the game has had, with the turn that
\* goes with it, through disconnections, visits to other games and replays of
\* the start, unless the snapshot overlapped with a move on its way or an event
\* of another room was let in.
ViewIsAPosition ==
    store.game # NoGame /\ unsettled \intersect {"gap", "foreign"} = {} =>
        \E n \in 0..live[store.game].moves :
            store.board = Board(store.game, n) /\ store.myTurn = MyTurn(n)

\* It is the current position, and shown as over just if the game is, once
\* nothing is under way and no connection was lost either.
ViewIsCurrent ==
    Settled /\ store.game # NoGame /\ unsettled \subseteq {"skipped", "unanswered"} =>
        /\ Len(store.board) = live[store.game].moves
        /\ (store.status = "completed") = (live[store.game].status = "over")

\* However clicks, answers and moves interleave, destinations that stay on the
\* board are those of the selected marble in the position shown, unless a
\* request found no game to be answered about.  (What was selected in the
\* history list may get the destinations of another marble.)
PreviewsSettle ==
    /\ Settled /\ unsettled \subseteq {"skipped"}
    /\ store.selected \notin {NoMarble, OldMove} /\ store.dests # NoDests
    => store.dests = [game |-> store.game, moves |-> Len(store.board), marble |-> store.selected]

\* Moves are animated each once, in order, and the last one waiting is the
\* last one on the board, unless a snapshot came while some were waiting.
AnimationsInOrder ==
    LET queue == store.animating \o store.pending
    IN  "skipped" \notin unsettled =>
            /\ Len(queue) <= Len(store.board)
            /\ queue = SubSeq(store.board, Len(store.board) - Len(queue) + 1, Len(store.board))

\* A client that shows a game, and lost nothing of it, catches up again and
\* again with the moves the server has saved.
MovesArrive ==
    []<>(store.game # NoGame /\ unsettled \subseteq {"unanswered"} =>
             Len(store.board) = live[store.game].moves)

=============================================================================
