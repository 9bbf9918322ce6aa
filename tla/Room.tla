-------------------------------- MODULE Room --------------------------------
(***************************************************************************)
(* One room of the server: its snapshot in Redis, the socket handlers that *)
(* read and rewrite that snapshot, the turn timer, the idle sweep, the     *)
(* persisting and eviction of a finished game, and the server's restart.   *)
(*                                                                         *)
(* A handler runs from one await to the next, so a step of the model is    *)
(* the code that runs when a reply arrives together with the next command  *)
(* it sends; the handler keeps the snapshot it read (`room` in the code)   *)
(* while other handlers run.  Steps of different handlers interleave       *)
(* freely: replies to one process may come in one batch, and the rooms are *)
(* shared by all replicas of the server.  The timers are those of one      *)
(* process.                                                                *)
(*                                                                         *)
(* The board is left to Match: here a move attempt of the user to move may *)
(* be legal or not, and a legal move may or may not fill the target zone.  *)
(* An instant is "past" or "future"; Elapse lets the future come.          *)
(***************************************************************************)
EXTENDS Scoreboard, FiniteSets

CONSTANTS
    Users, Host,    \* everybody with an account; who created the room
    Capacity,       \* playerCount the room was created with
    MoveLogCap,     \* MOVE_LOG_CAP
    BoardMayBlock,  \* whether the user to move may be without a legal move
    Tasks,          \* how many handlers may be under way at once
    MaxCalls,       \* bound: calls made by clients, and sweeps
    MaxMoves,       \* bound: moveCount
    MaxCrashes,     \* bound: restarts of the server
    NoRoom, NoState, NoRecord

ASSUME RoomAssumption ==
    /\ Host \in Users
    /\ Capacity \in {2, 3, 4, 6}
    /\ {MoveLogCap, MaxCalls, MaxMoves, MaxCrashes} \subseteq Nat
    /\ BoardMayBlock \in BOOLEAN
    /\ Tasks # {}

VARIABLES
    room,       \* Redis: room:{gameId}
    waiting,    \* Redis: membership in rooms:waiting
    deadline,   \* Redis: this game's score in turn:deadlines
    record,     \* Postgres: the persisted game
    tasks,      \* the handlers under way
    conn,       \* socket.data of each user: not joined, player or spectator
    timer,      \* the pending setTimeout that turnTimerHandles points at
    strays,     \* the pending turn timers nothing points at, by due time
    evictions,  \* the pending scheduleRoomEviction timeouts
    calls, crashes

redis   == <<room, waiting, deadline>>
clocks  == <<timer, strays, evictions>>
budgets == <<calls, crashes>>
vars    == <<redis, record, tasks, conn, clocks, budgets>>

-----------------------------------------------------------------------------
(* Snapshots *)

Server == "server"      \* the user field of a task no client started
Counts == {2, 3, 4, 6}

Finisher == [userId : Users, finishPos : Nat]

State == [turnOrder : Seq(Users), currentTurnIndex : Nat, finishedPlayers : Seq(Finisher),
          status : {"active", "completed"}, endReason : {"none", "resign", "stalemate"},
          moveCount : Nat, timerEndsAt : {"past", "future"}]

Snapshot == [players : Seq(Users), playerCount : Counts, state : State \union {NoState},
             moveLog : Seq(Nat)]

ASSUME SentinelAssumption == NoRoom \notin Snapshot /\ NoState \notin State /\ Server \notin Users

\* createInitialBoard and startGame.
StartState(order) ==
    [turnOrder |-> order, currentTurnIndex |-> 1, finishedPlayers |-> <<>>,
     status |-> "active", endReason |-> "none", moveCount |-> 0,
     timerEndsAt |-> "future"]

Active(r) == r # NoRoom /\ r.state # NoState /\ r.state.status = "active"

Seated(r) == {r.players[i] : i \in DOMAIN r.players}

\* applyMove and the deadline the handlers put on its result.
Moved(s, won) ==
    [AfterMove(s, won) EXCEPT !.moveCount = s.moveCount + 1, !.timerEndsAt = "future"]

AgedState(s) == IF s = NoState THEN s ELSE [s EXCEPT !.timerEndsAt = "past"]
AgedRoom(r)  == IF r = NoRoom THEN r ELSE [r EXCEPT !.state = AgedState(r.state)]

-----------------------------------------------------------------------------
(* Tasks: pc, the room it read first, what setRoomState or appendMove read *)
(* before their save, the state to save and where to go on after it.       *)

Idle == [pc |-> "idle"]

Task(pc, u, r) ==
    [pc |-> pc, user |-> u, room |-> r, read |-> NoRoom, next |-> NoState,
     then |-> "none"]

At(t, pc) == tasks[t].pc = pc

Finish(t)  == tasks' = [tasks EXCEPT ![t] = Idle]
Become(t, task) == tasks' = [tasks EXCEPT ![t] = task]

\* A new handler, whose first command reads the room.
Begin(pc, u) ==
    \E t \in Tasks : /\ At(t, "idle")
                     /\ Become(t, Task(pc, u, room))

\* setRoomState: read the room; SaveState writes it back with state s.
SetRoomState(t, snapshot, s, then) ==
    Become(t, [tasks[t] EXCEPT !.pc = "saveState", !.room = snapshot,
                               !.read = room, !.next = s, !.then = then])

\* Mutant: every save takes the room out of the waiting index.
SaveRoom_Unlisted(r) == room' = r /\ waiting' = FALSE

\* saveRoom: the snapshot, and the index that follows from it.
SaveRoom(r) == /\ room' = r
               /\ waiting' = (r.state = NoState)

SaveState(t) ==
    /\ At(t, "saveState")
    /\ IF tasks[t].read = NoRoom
       THEN UNCHANGED <<room, waiting>>
       ELSE SaveRoom([tasks[t].read EXCEPT !.state = tasks[t].next])
    /\ IF tasks[t].then = "finish"
       THEN Finish(t)
       ELSE Become(t, [tasks[t] EXCEPT !.pc = tasks[t].then, !.read = NoRoom])
    /\ UNCHANGED <<deadline, record, conn, clocks, budgets>>

TimerInstant(r) == IF r.state = NoState THEN "future" ELSE r.state.timerEndsAt

\* Mutant: the deadline is not written to Redis.
Schedule_Unlisted(r) ==
    timer' = TimerInstant(r) /\ UNCHANGED <<deadline, strays, evictions>>

\* scheduleTurnTimer: the timer it knows of is replaced.
Schedule(r) ==
    /\ timer' = TimerInstant(r)
    /\ deadline' = TimerInstant(r)
    /\ UNCHANGED <<strays, evictions>>

-----------------------------------------------------------------------------
(* ROOM_JOIN *)

Call == calls < MaxCalls /\ calls' = calls + 1

JoinCall(u, asSpectator) ==
    /\ Call
    /\ Begin(IF asSpectator THEN "watch" ELSE "join", u)
    /\ UNCHANGED <<redis, record, conn, clocks, crashes>>

\* Mutant: nobody is ever made a spectator.
Role_NeverSet(r, u) == "player"

Role(r, u) == IF u \in Seated(r) THEN "player" ELSE "spectator"

\* What follows the save, or the decision not to save: the socket learns its
\* role, and the join that finds the room full starts the game.
EnterRoom(t, r) ==
    LET u == tasks[t].user
    IN  /\ conn' = [conn EXCEPT ![u] = Role(r, u)]
        /\ IF r.state = NoState /\ Len(r.players) = r.playerCount
           THEN SetRoomState(t, r, StartState(r.players), "started")
           ELSE Finish(t)

Join(t) ==
    LET r == tasks[t].room
        u == tasks[t].user
        takesSeat == /\ At(t, "join")
                     /\ r.state = NoState
                     /\ u \notin Seated(r)
                     /\ Len(r.players) < r.playerCount
        joined == [r EXCEPT !.players = Append(r.players, u)]
    IN  /\ At(t, "join") \/ At(t, "watch")
        /\ IF r = NoRoom
           THEN Finish(t) /\ UNCHANGED <<room, waiting, conn>>
           ELSE IF takesSeat
           THEN /\ SaveRoom(joined)
                /\ Become(t, [tasks[t] EXCEPT !.pc = "seated", !.room = joined])
                /\ UNCHANGED conn
           ELSE EnterRoom(t, r) /\ UNCHANGED <<room, waiting>>
        /\ UNCHANGED <<deadline, record, clocks, budgets>>

AfterSeat(t) ==
    /\ At(t, "seated")
    /\ EnterRoom(t, tasks[t].room)
    /\ UNCHANGED <<redis, record, clocks, budgets>>

\* The end of startGame.
Started(t) ==
    /\ At(t, "started")
    /\ Schedule([tasks[t].room EXCEPT !.state = tasks[t].next])
    /\ Finish(t)
    /\ UNCHANGED <<room, waiting, record, conn, budgets>>

-----------------------------------------------------------------------------
(* GAME_START_REQUEST *)

StartCall(u) ==
    /\ conn[u] # "out"
    /\ Call
    /\ Begin("start", u)
    /\ UNCHANGED <<redis, record, conn, clocks, crashes>>

\* Mutant: the host may start alone, or with five.
MayStartWith_AnyCount(count) == count > 0

MayStartWith(count) == count \in {2, 3, 4, 6}

StartRequest(t) ==
    LET r == tasks[t].room
        granted == /\ r # NoRoom
                   /\ r.state = NoState
                   /\ tasks[t].user = Host
                   /\ MayStartWith(Len(r.players))
        counted == [r EXCEPT !.playerCount = Len(r.players)]
    IN  /\ At(t, "start")
        /\ IF granted
           THEN /\ SaveRoom(counted)
                /\ Become(t, [tasks[t] EXCEPT !.pc = "counted", !.room = counted])
           ELSE Finish(t) /\ UNCHANGED <<room, waiting>>
        /\ UNCHANGED <<deadline, record, conn, clocks, budgets>>

StartCounted(t) ==
    /\ At(t, "counted")
    /\ SetRoomState(t, tasks[t].room, StartState(tasks[t].room.players), "started")
    /\ UNCHANGED <<redis, record, conn, clocks, budgets>>

-----------------------------------------------------------------------------
(* GAME_MOVE_ATTEMPT, and the turn timer playing for the user to move *)

MoveCall(u) ==
    /\ conn[u] = "player"
    /\ Call
    /\ Begin("move", u)
    /\ UNCHANGED <<redis, record, conn, clocks, crashes>>

\* Mutant: the game's status is not looked at.
MayMove_AnyStatus(r, u) ==
    /\ r # NoRoom
    /\ r.state # NoState
    /\ u \notin FinishedIds(r.state.finishedPlayers)
    /\ CurrentPlayer(r.state) = u

\* The checks of validateMove that the score decides.
MayMove(r, u) ==
    /\ Active(r)
    /\ u \notin FinishedIds(r.state.finishedPlayers)
    /\ CurrentPlayer(r.state) = u

\* Rejected by the score or by the board, or applied to the snapshot.
MoveAttempt(t) ==
    LET r == tasks[t].room
    IN  /\ At(t, "move")
        /\ \/ Finish(t)
           \/ /\ MayMove(r, tasks[t].user)
              /\ r.state.moveCount < MaxMoves
              /\ \E won \in BOOLEAN : SetRoomState(t, r, Moved(r.state, won), "append")
        /\ UNCHANGED <<redis, record, conn, clocks, budgets>>

\* appendMove reads the room, then saves it with one entry more.
AppendRead(t) ==
    /\ At(t, "append")
    /\ Become(t, [tasks[t] EXCEPT !.pc = "saveLog", !.read = room])
    /\ UNCHANGED <<redis, record, conn, clocks, budgets>>

\* Mutant: numbers start at 0.
MoveNumber_FromZero(snapshot) == Len(snapshot.moveLog)

MoveNumber(snapshot) == Len(snapshot.moveLog) + 1

\* The entry's number was taken from the handler's own snapshot.
SaveLog(t) ==
    LET moveNumber == MoveNumber(tasks[t].room)
        r == tasks[t].read
    IN  /\ At(t, "saveLog")
        /\ IF r = NoRoom
           THEN UNCHANGED <<room, waiting>>
           ELSE SaveRoom([r EXCEPT !.moveLog = Append(r.moveLog, moveNumber)])
        /\ Become(t, [tasks[t] EXCEPT !.pc = "logged", !.read = NoRoom])
        /\ UNCHANGED <<deadline, record, conn, clocks, budgets>>

Refresh(t) ==
    /\ At(t, "logged")
    /\ Become(t, [tasks[t] EXCEPT !.pc = "refreshed", !.read = room])
    /\ UNCHANGED <<redis, record, conn, clocks, budgets>>

\* Mutant: the handler goes on with the log it started from.
WithFreshLog_Stale(task) == task.room

\* The handler's room with the log it has just read back.
WithFreshLog(task) ==
    IF task.read = NoRoom THEN task.room
    ELSE [task.room EXCEPT !.moveLog = task.read.moveLog]

\* Mutant: the length that ends the game can be jumped over.
Outgrown_Exactly(log) == Len(log) = MoveLogCap + 1

Outgrown(log) == Len(log) > MoveLogCap

\* After the move: stalemate, game over or the next turn.  A move attempt
\* re-arms the timer in every case, from the room it has read back; onTimeout
\* only when the game goes on, from its own snapshot.
AfterAppend(t) ==
    LET task == tasks[t]
        r == WithFreshLog(task)
        over == task.next.status = "completed"
        stale == Outgrown(r.moveLog) /\ ~over
        byTimer == task.user = Server
    IN  /\ At(t, "refreshed")
        /\ IF byTimer
           THEN IF over \/ stale THEN UNCHANGED <<deadline, clocks>> ELSE Schedule(r)
           ELSE Schedule(IF task.read = NoRoom THEN r ELSE task.read)
        /\ IF stale
           THEN SetRoomState(t, r, Stalemated(task.next), "persist")
           ELSE IF over
           THEN Become(t, [task EXCEPT !.pc = "persist", !.room = r, !.read = NoRoom])
           ELSE Finish(t)
        /\ UNCHANGED <<room, waiting, record, conn, budgets>>

-----------------------------------------------------------------------------
(* GAME_RESIGN *)

ResignCall(u) ==
    /\ conn[u] = "player"
    /\ Call
    /\ Begin("resign", u)
    /\ UNCHANGED <<redis, record, conn, clocks, crashes>>

Resign(t) ==
    LET r == tasks[t].room
        u == tasks[t].user
        resigned == AfterResign(r.state, u)
    IN  /\ At(t, "resign")
        /\ IF r = NoRoom \/ r.state = NoState
           THEN Finish(t)
           ELSE IF u \in FinishedIds(r.state.finishedPlayers)
           THEN Finish(t)
           ELSE SetRoomState(t, r, resigned,
                             IF IsOver(r.state, resigned.finishedPlayers)
                             THEN "persist" ELSE "finish")
        /\ UNCHANGED <<redis, record, conn, clocks, budgets>>

-----------------------------------------------------------------------------
(* emitGameOver: persist, then clear the timer and plan the eviction *)

\* What the schema's keys allow: one row per game, one seat per player, one
\* move per number.
Persistable(r, s) ==
    /\ record = NoRecord
    /\ FinishedIds(s.finishedPlayers) \subseteq {s.turnOrder[i] : i \in DOMAIN s.turnOrder}
    /\ \A i, j \in DOMAIN r.moveLog : r.moveLog[i] = r.moveLog[j] => i = j

Persist(t) ==
    LET r == tasks[t].room
        s == tasks[t].next
    IN  /\ At(t, "persist")
        /\ record' = IF Persistable(r, s)
                     THEN [finishOrder |-> FinishOrder(s), moves |-> Len(r.moveLog)]
                     ELSE record
        /\ Become(t, Task("gameOver", Server, NoRoom))
        /\ UNCHANGED <<redis, conn, clocks, budgets>>

\* Mutant: the room is not planned to be evicted.
GameOver_NoEviction(t) ==
    /\ At(t, "gameOver")
    /\ timer' = "none"
    /\ deadline' = "none"
    /\ Finish(t)
    /\ UNCHANGED <<room, waiting, record, conn, strays, evictions, budgets>>

GameOver(t) ==
    /\ At(t, "gameOver")
    /\ timer' = "none"
    /\ deadline' = "none"
    /\ evictions' = evictions + 1
    /\ Finish(t)
    /\ UNCHANGED <<room, waiting, record, conn, strays, budgets>>

DeleteRoom == room' = NoRoom /\ waiting' = FALSE

\* One command, but a handler like the others: it takes a free place.
Evict ==
    /\ evictions > 0
    /\ \E t \in Tasks : At(t, "idle")
    /\ evictions' = evictions - 1
    /\ DeleteRoom
    /\ UNCHANGED <<deadline, record, tasks, conn, timer, strays, budgets>>

-----------------------------------------------------------------------------
(* The turn timer *)

\* Time passes for every instant the server has written down.
Elapse ==
    /\ "future" \in {deadline, timer} \/ strays["future"] > 0
    /\ room' = AgedRoom(room)
    /\ deadline' = IF deadline = "none" THEN "none" ELSE "past"
    /\ timer' = IF timer = "none" THEN "none" ELSE "past"
    /\ strays' = [past |-> strays["past"] + strays["future"], future |-> 0]
    /\ tasks' = [t \in Tasks |->
                    IF At(t, "idle") THEN Idle
                    ELSE [tasks[t] EXCEPT !.room = AgedRoom(@), !.read = AgedRoom(@),
                                          !.next = AgedState(@)]]
    /\ UNCHANGED <<waiting, record, conn, evictions, budgets>>

\* A setTimeout fires: tick reads the room.
Fire ==
    /\ \/ timer = "past" /\ timer' = "none" /\ UNCHANGED strays
       \/ /\ strays["past"] > 0
          /\ strays' = [strays EXCEPT !["past"] = @ - 1]
          /\ UNCHANGED timer
    /\ Begin("tick", Server)
    /\ UNCHANGED <<redis, record, conn, evictions, budgets>>

\* Mutant: a tick that comes early is the last one.
Rearm_Forgotten == UNCHANGED clocks

\* turnTimerHandles.set without a clearTimeout: a timer set meanwhile is lost
\* sight of, not cancelled.
Rearm ==
    /\ timer' = "future"
    /\ strays' = IF timer = "none" THEN strays ELSE [strays EXCEPT ![timer] = @ + 1]
    /\ UNCHANGED evictions

\* Mutant: the tick does not look at the clock again.
FiredEarly_Never(r) == FALSE

FiredEarly(r) == Active(r) /\ r.state.timerEndsAt = "future"

Tick(t) ==
    LET r == tasks[t].room
        inactive == ~Active(r)
        early == FiredEarly(r)
    IN  /\ At(t, "tick")
        /\ deadline' = IF inactive THEN "none" ELSE deadline
        /\ IF early THEN Rearm ELSE UNCHANGED clocks
        /\ IF inactive \/ early
           THEN Finish(t)
           ELSE Become(t, Task("timeout", Server, room))
        /\ UNCHANGED <<room, waiting, record, conn, budgets>>

OnTimeout(t) ==
    LET r == tasks[t].room
    IN  /\ At(t, "timeout")
        /\ IF Active(r)
           THEN \/ /\ r.state.moveCount < MaxMoves
                   /\ \E won \in BOOLEAN : SetRoomState(t, r, Moved(r.state, won), "append")
                \/ BoardMayBlock /\ Finish(t)
           ELSE Finish(t)
        /\ UNCHANGED <<redis, record, conn, clocks, budgets>>

-----------------------------------------------------------------------------
(* sweepIdleRooms: every waiting room may be old enough *)

SweepCall ==
    /\ waiting
    /\ Call
    /\ \E t \in Tasks : At(t, "idle") /\ Become(t, Task("listed", Server, NoRoom))
    /\ UNCHANGED <<redis, record, conn, clocks, crashes>>

SweepRead(t) ==
    /\ At(t, "listed")
    /\ Become(t, Task("sweep", Server, room))
    /\ UNCHANGED <<redis, record, conn, clocks, budgets>>

Sweep(t) ==
    LET r == tasks[t].room
        keep == r = NoRoom \/ r.state # NoState
    IN  /\ At(t, "sweep")
        /\ IF keep THEN waiting' = FALSE /\ UNCHANGED room ELSE DeleteRoom
        /\ Finish(t)
        /\ UNCHANGED <<deadline, record, conn, clocks, budgets>>

-----------------------------------------------------------------------------
(* Restart: what the process held is gone; recoverTurnTimers lists the zset *)

Crash ==
    /\ crashes < MaxCrashes
    /\ crashes' = crashes + 1
    /\ \E boot \in Tasks :
          tasks' = [t \in Tasks |-> IF t = boot /\ deadline # "none"
                                    THEN Task("recover", Server, NoRoom) ELSE Idle]
    /\ conn' = [u \in Users |-> "out"]
    /\ timer' = "none"
    /\ strays' = [past |-> 0, future |-> 0]
    /\ evictions' = 0
    /\ UNCHANGED <<redis, record, calls>>

RecoverRead(t) ==
    /\ At(t, "recover")
    /\ Become(t, Task("recovered", Server, room))
    /\ UNCHANGED <<redis, record, conn, clocks, budgets>>

\* Mutant: only deadlines still ahead are armed again.
Recover_FutureOnly(t) ==
    LET r == tasks[t].room
    IN  /\ At(t, "recovered")
        /\ IF ~Active(r) THEN deadline' = "none" /\ UNCHANGED clocks
           ELSE IF FiredEarly(r) THEN Schedule(r)
           ELSE UNCHANGED <<deadline, clocks>>
        /\ Finish(t)
        /\ UNCHANGED <<room, waiting, record, conn, budgets>>

Recover(t) ==
    LET r == tasks[t].room
    IN  /\ At(t, "recovered")
        /\ IF Active(r) THEN Schedule(r)
           ELSE deadline' = "none" /\ UNCHANGED clocks
        /\ Finish(t)
        /\ UNCHANGED <<room, waiting, record, conn, budgets>>

-----------------------------------------------------------------------------
Init ==
    /\ room = [players |-> <<Host>>, playerCount |-> Capacity,
               state |-> NoState, moveLog |-> <<>>]
    /\ waiting = TRUE
    /\ deadline = "none"
    /\ record = NoRecord
    /\ tasks = [t \in Tasks |-> Idle]
    /\ conn = [u \in Users |-> "out"]
    /\ timer = "none"
    /\ strays = [past |-> 0, future |-> 0]
    /\ evictions = 0
    /\ calls = 0
    /\ crashes = 0

\* A handler that has been started goes on.
Step(t) ==
    \/ Join(t) \/ AfterSeat(t) \/ Started(t)
    \/ StartRequest(t) \/ StartCounted(t)
    \/ MoveAttempt(t) \/ AppendRead(t) \/ SaveLog(t) \/ Refresh(t) \/ AfterAppend(t)
    \/ Resign(t) \/ SaveState(t) \/ Persist(t) \/ GameOver(t)
    \/ Tick(t) \/ OnTimeout(t)
    \/ SweepRead(t) \/ Sweep(t)
    \/ RecoverRead(t) \/ Recover(t)

Client(u) ==
    \/ JoinCall(u, TRUE) \/ JoinCall(u, FALSE)
    \/ StartCall(u) \/ MoveCall(u) \/ ResignCall(u)

Next ==
    \/ \E t \in Tasks : Step(t)
    \/ \E u \in Users : Client(u)
    \/ Evict \/ Elapse \/ Fire \/ SweepCall \/ Crash

\* Replies arrive, time passes, due timers fire; clients promise nothing.
Fairness ==
    /\ \A t \in Tasks : WF_vars(Step(t))
    /\ WF_vars(Fire)
    /\ WF_vars(Elapse)
    /\ WF_vars(Evict)

Spec == Init /\ [][Next]_vars
FairSpec == Spec /\ Fairness

-----------------------------------------------------------------------------
Quiet == \A t \in Tasks : At(t, "idle")

Playing == Active(room)

Instants == {"none", "past", "future"}

TypeOK ==
    /\ room \in Snapshot \union {NoRoom}
    /\ waiting \in BOOLEAN
    /\ deadline \in Instants /\ timer \in Instants
    /\ strays \in [{"past", "future"} -> Nat]
    /\ conn \in [Users -> {"out", "player", "spectator"}]
    /\ {evictions, calls, crashes} \subseteq Nat

\* Handlers that do not overlap log every applied move once, in order: the
\* log's numbers are 1, 2, 3, ... and, between handlers, as many as the game's
\* moveCount (what the replay and the unique key of the moves table rely on).
LogFollowsGame ==
    room # NoRoom =>
        /\ \A i \in DOMAIN room.moveLog : room.moveLog[i] = i
        /\ Quiet /\ room.state # NoState => room.state.moveCount = Len(room.moveLog)

\* Between handlers a running game has exactly one pending turn timer, due no
\* later than its deadline, and an entry in turn:deadlines for a restart.
RunningGameIsTimed ==
    Quiet /\ Playing => /\ timer # "none"
                        /\ strays = [past |-> 0, future |-> 0]
                        /\ deadline # "none"
                        /\ timer = "future" => room.state.timerEndsAt = "future"

\* The persisted game is the one the room shows, whatever resignations follow
\* its end: every logged move and the same finish order.  Not the order of a
\* stalemate, recognised by its log: the handler of a resignation looks at no
\* status, and there it still ranks users that had not finished.
RecordMatchesRoom ==
    record # NoRecord /\ room # NoRoom =>
        /\ record.moves = Len(room.moveLog)
        /\ Len(room.moveLog) <= MoveLogCap => record.finishOrder = FinishOrder(room.state)

\* A completed game is not lost: once no handler works on it, it has been
\* persisted and its room waits to be evicted.
NoGameIsLost ==
    Quiet /\ room # NoRoom /\ room.state # NoState /\ room.state.status = "completed"
        => record # NoRecord /\ evictions > 0

\* The timer takes a move out of a user's hands only once that turn's time is
\* up: what it saves replaces a state whose deadline has passed.
TimerWaitsForDeadline ==
    [][\A t \in Tasks :
          (/\ At(t, "saveState") /\ tasks[t].user = Server /\ tasks[t].then = "append"
           /\ room' # room)
          => room.state # NoState /\ room.state.timerEndsAt = "past"]_vars

\* The move log outgrows the cap by the move that ends the game, and by one
\* more for each restart between that move and the verdict on it.
LogStaysBounded ==
    room # NoRoom => Len(room.moveLog) <= MoveLogCap + 1 + crashes

\* Across restarts, a running game listed in turn:deadlines has its timer: the
\* next boot reads the list before it serves anybody.
ListedGamesAreTimed ==
    Quiet /\ Playing /\ deadline # "none" => timer # "none"

\* While handlers do not overlap, a socket that is told it plays has a seat; the
\* game is played by the players of the room, all of them, in the order they
\* came; and nobody finishes it who has no seat.
OnlyPlayersPlay ==
    room # NoRoom =>
        /\ \A u \in Users : conn[u] = "player" => u \in Seated(room)
        /\ room.state # NoState =>
               /\ room.state.turnOrder = room.players
               /\ FinishedIds(room.state.finishedPlayers) \subseteq Seated(room)

\* A waiting room is listed for the sweep: it cannot be left behind for ever.
WaitingRoomIsListed ==
    room # NoRoom /\ room.state = NoState => waiting

\* Every state ever stored, whatever the interleaving, is a possible score:
\* distinct finishers, over exactly when decided (or stalemate), and no turn
\* for a user who has won.
StoredScoreIsSound ==
    room # NoRoom /\ room.state # NoState =>
        LET s == room.state
        IN  /\ \A i, j \in DOMAIN s.finishedPlayers :
                   s.finishedPlayers[i].userId = s.finishedPlayers[j].userId => i = j
            /\ s.status = "completed"
                   <=> IsOver(s, s.finishedPlayers) \/ s.endReason = "stalemate"
            /\ s.status = "active" => CurrentPlayer(s) \notin Winners(s)

\* However handlers overlap, a persisted game ranks every player exactly once
\* and nobody else, each by its place or, if it resigned, as the last.
RecordIsRanked ==
    record # NoRecord =>
        LET order == record.finishOrder
        IN  /\ Len(order) \in Counts
            /\ \A i, j \in DOMAIN order : order[i].userId = order[j].userId => i = j
            /\ \A i \in DOMAIN order : order[i].finishPos \in {i, Len(order)}

\* A game under way ends: it is completed, persisted and its room evicted.
GamesEnd == Playing ~> room = NoRoom

\* schema.prisma: @@unique([gameId, moveNumber]).
MoveNumbersUnique ==
    room # NoRoom =>
        \A i, j \in DOMAIN room.moveLog : room.moveLog[i] = room.moveLog[j] => i = j

\* socket.ts: the deadlines are kept in Redis "so timers survive restart".
TimersSurviveRestart ==
    Quiet /\ Playing => timer # "none"

\* store.ts: "Sweep waiting rooms ... with no active game".
SweepSparesGames ==
    [][\A t \in Tasks : At(t, "sweep") /\ room # NoRoom /\ room' = NoRoom => ~Playing]_vars

=============================================================================
