-------------------------- MODULE RoomSerial_proofs --------------------------
(***************************************************************************)
(* What the room keeps while no two handlers overlap: its log, its turn    *)
(* timer, its place in the index of waiting rooms and the record of its    *)
(* game.                                                                   *)
(***************************************************************************)
EXTENDS RoomGame_proofs

\* What some of the theorems suppose besides one handler at a time: the server
\* is not restarted; the user to move has a legal move; no record of a game is
\* the value that means there is none.
NoRestarts   == MaxCrashes = 0
MovesExist   == BoardMayBlock = FALSE
NoneRecorded == \A order, n : NoRecord # [finishOrder |-> order, moves |-> n]

-----------------------------------------------------------------------------
(* The log *)

Numbered(log) == \A i \in DOMAIN log : log[i] = i

MovesOf(r) == IF r.state = NoState THEN 0 ELSE r.state.moveCount

\* A move that has been saved is one entry ahead of the log.
Unlogged(k) == IF k.pc \in {"append", "saveLog"} THEN 1 ELSE 0

LogTask(k, r) ==
    /\ k.pc \in {"saveState", "append", "saveLog", "persist"} =>
           r # NoRoom /\ k.room.moveLog = r.moveLog
    /\ k.pc = "saveState" =>
           k.next.moveCount = MovesOf(r) + (IF k.then = "append" THEN 1 ELSE 0)
    /\ r # NoRoom => Numbered(r.moveLog) /\ MovesOf(r) = Len(r.moveLog) + Unlogged(k)

\* The verdict on the move just logged is still to come.
Judging(k) == k.pc \in {"logged", "refreshed"} \/ (k.pc = "saveState" /\ k.then = "persist")

BoundTask(k, r) ==
    /\ k.pc = "saveState" /\ k.then = "append" => Active(r)
    /\ k.pc \in {"append", "saveLog"} \/ (~Ended(r) /\ ~Judging(k))
           => Len(r.moveLog) <= MoveLogCap + crashes

-----------------------------------------------------------------------------
(* The turn timer *)

\* The handlers of a timer that has fired, up to the one that replaces it.
ByTimer(k) ==
    k.pc \in {"tick", "timeout", "saveState"} \union Logging /\ k.user = Server

\* The timer's move, decided on and not yet judged.
TimerMoves(k) ==
    k.pc \in {"saveState"} \union Logging /\ k.user = Server
        /\ (k.pc = "saveState" => k.then = "append")

WaitTask(k, r) ==
    /\ k.pc \in {"tick", "recovered", "refreshed"} =>
           r = IF k.pc = "refreshed" THEN k.read ELSE k.room
    /\ k.pc \in {"tick", "timeout"} => k.user = Server
    /\ k.pc = "saveState" /\ k.user = Server => k.then \in {"append", "persist"}
    /\ k.pc = "timeout" /\ Active(r) => r.state.timerEndsAt = "past"
    /\ TimerMoves(k) => k.room # NoRoom /\ k.room.state # NoState
                        /\ k.room.state.timerEndsAt = "past"
    /\ k.pc = "saveState" /\ TimerMoves(k) =>
           r # NoRoom /\ r.state # NoState /\ r.state.timerEndsAt = "past"

TimedTask(k, r) ==
    /\ ByTimer(k) \/ k.pc \in {"recover", "recovered"} => timer = "none"
    /\ k.pc = "started" => r # NoRoom /\ k.next = r.state
    /\ k.pc = "saveState" =>
           /\ k.then # "started" => r.state # NoState
           /\ timer = "future" /\ k.next.status = "active" => k.next.timerEndsAt = "future"
    /\ Active(r) /\ k.pc \notin {"started", "recover", "recovered"} /\ ~ByTimer(k) =>
           /\ deadline # "none" => timer # "none"
           /\ timer = "future" => r.state.timerEndsAt = "future"
    /\ NoRestarts /\ Active(r) /\ k.pc # "started" => deadline # "none"

NoStrays == strays = [past |-> 0, future |-> 0]

-----------------------------------------------------------------------------
(* The record *)

FinishersSeated(s) ==
    FinishedIds(s.finishedPlayers) \subseteq {s.turnOrder[i] : i \in DOMAIN s.turnOrder}

SeatTask(k, r) ==
    /\ k.pc = "resign" /\ r # NoRoom => k.user \in Seated(r)
    /\ k.pc = "saveState" => k.next.turnOrder = r.players
    /\ k.pc \in {"saveState", "persist"} \union Logging => FinishersSeated(k.next)
    /\ r # NoRoom /\ r.state # NoState =>
           r.state.turnOrder = r.players /\ FinishersSeated(r.state)

PlayersSeated == room # NoRoom => \A u \in Users : conn[u] = "player" => u \in Seated(room)

Completed(r) == r # NoRoom /\ r.state # NoState /\ r.state.status = "completed"

RecordTask(k, r) ==
    /\ k.pc = "saveState" /\ k.then \notin {"append", "persist"} /\ k.next.status = "completed"
           => Completed(r)
    /\ Completed(r) /\ evictions = 0 => k.pc \in Logging \union {"persist", "gameOver"}
    /\ evictions > 0 \/ k.pc = "gameOver" => record # NoRecord

-----------------------------------------------------------------------------
(* Together, of the one handler *)

HandlerFacts(t) ==
    /\ WaitingRoomIsListed
    /\ LogStaysBounded /\ BoundTask(tasks[t], room)
    /\ WaitTask(tasks[t], room)
    /\ MovesExist => NoStrays /\ TimedTask(tasks[t], room)
    /\ PlayersSeated /\ SeatTask(tasks[t], room)
    /\ NoRestarts => LogTask(tasks[t], room)
    /\ NoRestarts /\ NoneRecorded => RecordTask(tasks[t], room)

HandlerInv == \A t \in Tasks : HandlerFacts(t)

\* Steps that change neither the room nor what a handler is about to write.
Plain(k) == k.pc \notin Logging \union {"saveState", "persist", "gameOver"}

\* They leave the timers alone, too.
Clockless(k) == k.pc \notin {"tick", "timeout", "started", "recover", "recovered"}

LEMMA ClocklessTimed ==
    ASSUME NEW t \in Tasks, TimedTask(tasks[t], room), UNCHANGED <<room, timer, deadline>>,
           Plain(tasks[t]), Clockless(tasks[t]), Plain(tasks'[t]), Clockless(tasks'[t])
    PROVE  TimedTask(tasks[t], room)'
  BY DEF TimedTask, Plain, Clockless, ByTimer, Logging, Active

LEMMA PlainStep ==
    ASSUME NEW t \in Tasks, HandlerFacts(t),
           UNCHANGED <<room, record, evictions, crashes>>, WaitingRoomIsListed',
           Plain(tasks[t]), Plain(tasks'[t]), WaitTask(tasks[t], room)',
           MovesExist => NoStrays' /\ TimedTask(tasks[t], room)',
           tasks'[t].pc = "resign" /\ room # NoRoom => tasks'[t].user \in Seated(room),
           PlayersSeated'
    PROVE  HandlerFacts(t)'
<1>1. LogStaysBounded'
  BY DEF HandlerFacts, LogStaysBounded
<1>2. BoundTask(tasks[t], room)'
  BY DEF HandlerFacts, BoundTask, Judging, Plain, Logging
<1>3. SeatTask(tasks[t], room)'
  BY DEF HandlerFacts, SeatTask, Plain, Logging
<1>4. NoRestarts => LogTask(tasks[t], room)'
  BY DEF HandlerFacts, LogTask, Unlogged, Plain, Logging, MovesOf
<1>5. NoRestarts /\ NoneRecorded => RecordTask(tasks[t], room)'
  BY DEF HandlerFacts, RecordTask, Completed, Plain, Logging
<1>6. QED
  BY <1>1, <1>2, <1>3, <1>4, <1>5 DEF HandlerFacts

-----------------------------------------------------------------------------
(* Calls, timers and other steps that begin or end a handler *)

LEMMA Known ==
    ASSUME OneHandler, RoomInv, SerialInv, NEW t \in Tasks
    PROVE  /\ SoundTasks /\ SoundRoom(room) /\ ClocksOK
           /\ SerialTask(tasks[t], room)
           /\ \A k : Become(t, k) => tasks'[t] = k
           /\ Finish(t) => tasks'[t] = Idle
           /\ \A x \in Tasks : x = t
  BY DEF RoomInv, SerialInv, SoundTasks, Become, Finish, OneHandler

LEMMA UserOf == \A pc, u, r : Task(pc, u, r).user = u
  BY DEF Task

\* A handler that begins or ends without a timer's part in it.
LEMMA QuietStep ==
    ASSUME NEW t \in Tasks, HandlerFacts(t),
           UNCHANGED <<room, waiting, record, clocks, deadline, crashes>>,
           Plain(tasks[t]), Clockless(tasks[t]), Plain(tasks'[t]), Clockless(tasks'[t]),
           tasks'[t].pc = "resign" /\ room # NoRoom => tasks'[t].user \in Seated(room),
           PlayersSeated'
    PROVE  HandlerFacts(t)'
<1>1. MovesExist => NoStrays' /\ TimedTask(tasks[t], room)'
  BY ClocklessTimed DEF HandlerFacts, NoStrays, clocks
<1>2. WaitTask(tasks[t], room)'
  BY DEF WaitTask, Clockless, Plain, TimerMoves, Logging
<1>3. WaitingRoomIsListed'
  BY DEF HandlerFacts, WaitingRoomIsListed
<1>4. QED
  BY <1>1, <1>2, <1>3, PlainStep DEF clocks

LEMMA IdlePlain == Idle.pc = "idle" /\ Plain(Idle) /\ Clockless(Idle)
  BY DEF Idle, Plain, Clockless, Logging

LEMMA ClientKept ==
    ASSUME OneHandler, RoomInv, SerialInv, HandlerInv, NEW u \in Users, Client(u)
    PROVE  HandlerInv'
<1>1. \E pc \in {"join", "watch", "start", "move", "resign"} :
          Begin(pc, u) /\ (pc = "resign" => conn[u] = "player")
  BY DEF Client, JoinCall, StartCall, MoveCall, ResignCall
<1>2. PICK pc \in {"join", "watch", "start", "move", "resign"}, t \in Tasks :
          /\ tasks[t].pc = "idle" /\ Become(t, Task(pc, u, room))
          /\ pc = "resign" => conn[u] = "player"
  BY <1>1 DEF Begin, At
<1>3. UNCHANGED <<room, waiting, record, clocks, deadline, conn, crashes>>
  BY DEF Client, JoinCall, StartCall, MoveCall, ResignCall, redis
<1>4. tasks'[t].pc = pc /\ tasks'[t].user = u /\ \A x \in Tasks : x = t
  BY <1>2, Known, TaskFields, UserOf
<1>5. HandlerFacts(t)
  BY DEF HandlerInv
<1>6. PlayersSeated'
  BY <1>3, <1>5 DEF HandlerFacts, PlayersSeated
<1>7. pc = "resign" /\ room # NoRoom => u \in Seated(room)
  BY <1>2, <1>5 DEF HandlerFacts, PlayersSeated
<1>8. Plain(tasks[t]) /\ Clockless(tasks[t]) /\ Plain(tasks'[t]) /\ Clockless(tasks'[t])
  BY <1>2, <1>4 DEF Plain, Clockless, Logging
<1>9. HandlerFacts(t)'
  BY <1>3, <1>4, <1>5, <1>6, <1>7, <1>8, QuietStep
<1>10. QED
  BY <1>4, <1>9 DEF HandlerInv

LEMMA FireKept ==
    ASSUME OneHandler, RoomInv, SerialInv, HandlerInv, Fire
    PROVE  HandlerInv'
<1>1. PICK t \in Tasks : tasks[t].pc = "idle" /\ Become(t, Task("tick", Server, room))
  BY DEF Fire, Begin, At
<1>2. /\ tasks'[t].pc = "tick" /\ tasks'[t].user = Server /\ tasks'[t].room = room
      /\ ClocksOK /\ \A x \in Tasks : x = t
  BY <1>1, Known, TaskFields, UserOf
<1>3. UNCHANGED <<room, waiting, record, deadline, conn, evictions, crashes>>
  BY DEF Fire, redis, budgets
<1>4. HandlerFacts(t)
  BY DEF HandlerInv
<1>5. Plain(tasks[t]) /\ Plain(tasks'[t])
  BY <1>1, <1>2 DEF Plain, Logging
<1>6. PlayersSeated' /\ WaitTask(tasks[t], room)' /\ WaitingRoomIsListed'
  BY <1>2, <1>3, <1>4 DEF HandlerFacts, PlayersSeated, WaitTask, TimerMoves, Logging,
                          WaitingRoomIsListed
<1>7. ASSUME MovesExist
      PROVE  NoStrays' /\ TimedTask(tasks[t], room)'
  <2>1. NoStrays /\ TimedTask(tasks[t], room)
    BY <1>4, <1>7 DEF HandlerFacts
  <2>2. strays["past"] = 0
    BY <2>1 DEF NoStrays
  <2>3. timer' = "none" /\ UNCHANGED strays
    BY <2>2 DEF Fire
  <2>4. QED
    BY <1>1, <1>2, <1>3, <2>1, <2>3 DEF NoStrays, TimedTask, ByTimer, Logging, Active
<1>8. HandlerFacts(t)'
  BY <1>2, <1>3, <1>4, <1>5, <1>6, <1>7, PlainStep
<1>9. QED
  BY <1>2, <1>8 DEF HandlerInv

\* A handler that ends and has left everything as it was.
LEMMA QuitKept ==
    ASSUME OneHandler, RoomInv, SerialInv, HandlerInv, NEW t \in Tasks, Finish(t),
           UNCHANGED <<room, waiting, record, clocks, deadline, crashes>>,
           Plain(tasks[t]), Clockless(tasks[t]), PlayersSeated'
    PROVE  HandlerInv'
<1>1. tasks'[t] = Idle /\ \A x \in Tasks : x = t
  BY Known
<1>2. HandlerFacts(t) /\ tasks'[t].pc # "resign"
  BY <1>1, IdlePlain DEF HandlerInv
<1>3. HandlerFacts(t)'
  BY <1>1, <1>2, IdlePlain, QuietStep
<1>4. QED
  BY <1>1, <1>3 DEF HandlerInv

LEMMA SetsFields ==
    ASSUME OneHandler, RoomInv, SerialInv, NEW t \in Tasks, tasks[t].pc # "idle",
           NEW x, NEW s, NEW then, SetRoomState(t, x, s, then)
    PROVE  /\ tasks'[t].pc = "saveState" /\ tasks'[t].user = tasks[t].user
           /\ tasks'[t].room = x /\ tasks'[t].read = room
           /\ tasks'[t].next = s /\ tasks'[t].then = then
<1>1. tasks[t] \in TaskRecord
  BY Known, TaskFacts
<1>2. tasks'[t] = [tasks[t] EXCEPT !.pc = "saveState", !.room = x, !.read = room,
                                   !.next = s, !.then = then]
  BY Known DEF SetRoomState
<1>3. QED
  BY <1>1, <1>2 DEF TaskRecord

\* A handler that goes on to save state s, made of the room.
LEMMA SetsKept ==
    ASSUME OneHandler, RoomInv, SerialInv, HandlerInv, NEW t \in Tasks,
           Plain(tasks[t]), tasks[t].pc # "idle",
           UNCHANGED <<room, waiting, record, clocks, deadline, crashes>>, PlayersSeated',
           room # NoRoom, NEW s, NEW then, SetRoomState(t, room, s, then),
           tasks[t].user = Server => tasks[t].pc = "timeout" /\ then = "append",
           tasks[t].user # Server => Clockless(tasks[t]),
           s.turnOrder = room.players, FinishersSeated(s),
           s.moveCount = MovesOf(room) + (IF then = "append" THEN 1 ELSE 0),
           then = "append" => Active(room),
           then # "started" => room.state # NoState,
           \/ s.timerEndsAt = "future"
           \/ /\ room.state # NoState /\ s.timerEndsAt = room.state.timerEndsAt
              /\ s.status = "active" => Active(room),
           then \notin {"append", "persist"} /\ s.status = "completed" => Completed(room)
    PROVE  HandlerInv'
<1> DEFINE k == tasks[t]
<1>1. /\ tasks'[t].pc = "saveState" /\ tasks'[t].user = k.user /\ tasks'[t].room = room
      /\ tasks'[t].read = room /\ tasks'[t].next = s /\ tasks'[t].then = then
      /\ \A x \in Tasks : x = t
  BY Known, SetsFields
<1>2. HandlerFacts(t)
  BY DEF HandlerInv
<1>3. WaitingRoomIsListed' /\ LogStaysBounded'
  BY <1>2 DEF HandlerFacts, WaitingRoomIsListed, LogStaysBounded
<1>4. BoundTask(tasks[t], room)'
  BY <1>1, <1>2 DEF HandlerFacts, BoundTask, Judging, Plain, Logging
<1>5. WaitTask(tasks[t], room)'
  <2>1. k.pc = "timeout" /\ Active(room) => room.state # NoState /\ room.state.timerEndsAt = "past"
    BY <1>2 DEF HandlerFacts, WaitTask, Active
  <2>2. QED
    BY <1>1, <2>1 DEF WaitTask, TimerMoves
<1>6. ASSUME MovesExist
      PROVE  NoStrays' /\ TimedTask(tasks[t], room)'
  <2>1. NoStrays /\ TimedTask(k, room)
    BY <1>2, <1>6 DEF HandlerFacts
  <2>2. CASE k.user = Server
    BY <1>1, <2>1, <2>2 DEF NoStrays, TimedTask, ByTimer, Active, clocks
  <2>3. CASE k.user # Server
    BY <1>1, <2>1, <2>3 DEF NoStrays, TimedTask, ByTimer, Active, Clockless, clocks
  <2>4. QED
    BY <2>2, <2>3
<1>7. SeatTask(tasks[t], room)'
  BY <1>1, <1>2 DEF HandlerFacts, SeatTask, Logging
<1>8. NoRestarts => LogTask(tasks[t], room)'
  BY <1>1, <1>2 DEF HandlerFacts, LogTask, Unlogged, Plain, Logging, MovesOf
<1>9. NoRestarts /\ NoneRecorded => RecordTask(tasks[t], room)'
  BY <1>1, <1>2 DEF HandlerFacts, RecordTask, Completed, Plain, Logging, clocks
<1>10. HandlerFacts(t)'
  BY <1>3, <1>4, <1>5, <1>6, <1>7, <1>8, <1>9 DEF HandlerFacts
<1>11. QED
  BY <1>1, <1>10 DEF HandlerInv

-----------------------------------------------------------------------------
(* Joining and starting *)

\* A waiting room that is saved with another player or player count.
LEMMA WaitingKept ==
    ASSUME OneHandler, RoomInv, SerialInv, HandlerInv, NEW t \in Tasks,
           tasks[t].pc \in {"join", "start"}, tasks'[t].pc \in {"seated", "counted"},
           room # NoRoom, room.state = NoState, room' # NoRoom, room'.state = NoState,
           room'.moveLog = room.moveLog, Seated(room) \subseteq Seated(room'),
           waiting' = TRUE, UNCHANGED <<record, clocks, deadline, conn, crashes>>
    PROVE  HandlerInv'
<1>1. HandlerFacts(t) /\ \A x \in Tasks : x = t
  BY Known DEF HandlerInv
<1>2. WaitingRoomIsListed' /\ LogStaysBounded'
  BY <1>1 DEF HandlerFacts, WaitingRoomIsListed, LogStaysBounded
<1>3. BoundTask(tasks[t], room)'
  BY <1>1 DEF HandlerFacts, BoundTask, Judging, Ended
<1>4. WaitTask(tasks[t], room)'
  BY DEF WaitTask, TimerMoves, Logging
<1>5. MovesExist => NoStrays' /\ TimedTask(tasks[t], room)'
  BY <1>1 DEF HandlerFacts, NoStrays, TimedTask, ByTimer, Active, Logging, clocks
<1>6. PlayersSeated' /\ SeatTask(tasks[t], room)'
  BY <1>1 DEF HandlerFacts, PlayersSeated, SeatTask, Logging
<1>7. NoRestarts => LogTask(tasks[t], room)'
  BY <1>1 DEF HandlerFacts, LogTask, Unlogged, MovesOf
<1>8. NoRestarts /\ NoneRecorded => RecordTask(tasks[t], room)'
  BY <1>1 DEF HandlerFacts, RecordTask, Completed, clocks
<1>9. HandlerFacts(t)'
  BY <1>2, <1>3, <1>4, <1>5, <1>6, <1>7, <1>8 DEF HandlerFacts
<1>10. QED
  BY <1>1, <1>9 DEF HandlerInv

LEMMA StartFields ==
    ASSUME NEW order
    PROVE  LET s == StartState(order)
           IN  /\ s.turnOrder = order /\ FinishersSeated(s) /\ s.moveCount = 0
               /\ s.timerEndsAt = "future" /\ s.status = "active"
  BY DEF StartState, FinishersSeated, FinishedIds

\* Both ways to start a game: the room is full, or its host asks.
LEMMA StartsKept ==
    ASSUME OneHandler, RoomInv, SerialInv, HandlerInv, NEW t \in Tasks,
           tasks[t].pc \in {"join", "watch", "seated", "counted"},
           UNCHANGED <<room, waiting, record, clocks, deadline, crashes>>, PlayersSeated',
           room # NoRoom, room.state = NoState,
           SetRoomState(t, room, StartState(room.players), "started")
    PROVE  HandlerInv'
<1>1. tasks[t].user \in Users
  BY Known, TaskFacts DEF ByUser
<1>2. tasks[t].user # Server /\ Plain(tasks[t]) /\ Clockless(tasks[t])
  BY <1>1, SentinelAssumption DEF Plain, Clockless, Logging
<1> DEFINE s == StartState(room.players)
<1>3. /\ s.turnOrder = room.players /\ FinishersSeated(s) /\ s.moveCount = 0
      /\ s.timerEndsAt = "future" /\ s.status = "active"
  BY StartFields
<1>4. MovesOf(room) = 0
  BY DEF MovesOf
<1> HIDE DEF s
<1>5. SetRoomState(t, room, s, "started")
  BY DEF s
<1>6. s.moveCount = MovesOf(room) + (IF "started" = "append" THEN 1 ELSE 0)
  BY <1>3, <1>4
<1>7. QED
  BY <1>2, <1>3, <1>5, <1>6, SetsKept

LEMMA EntersKept ==
    ASSUME OneHandler, RoomInv, SerialInv, HandlerInv, NEW t \in Tasks,
           tasks[t].pc \in {"join", "watch", "seated"}, room # NoRoom, EnterRoom(t, room),
           UNCHANGED <<room, waiting, record, clocks, deadline, crashes>>
    PROVE  HandlerInv'
<1>1. PlayersSeated'
  <2>1. PlayersSeated /\ ClocksOK
    BY Known DEF HandlerInv, HandlerFacts
  <2>2. QED
    BY <2>1 DEF EnterRoom, Role, PlayersSeated, ClocksOK
<1>2. CASE Finish(t)
  <2>1. Plain(tasks[t]) /\ Clockless(tasks[t])
    BY DEF Plain, Clockless, Logging
  <2>2. QED
    BY <1>1, <1>2, <2>1, QuitKept
<1>3. CASE room.state = NoState /\ SetRoomState(t, room, StartState(room.players), "started")
  BY <1>1, <1>3, StartsKept
<1>4. QED
  BY <1>2, <1>3 DEF EnterRoom

LEMMA JoinKept ==
    ASSUME OneHandler, RoomInv, SerialInv, HandlerInv, NEW t \in Tasks, Join(t)
    PROVE  HandlerInv'
<1> DEFINE u == tasks[t].user
           joined == [room EXCEPT !.players = Append(room.players, u)]
           k == [tasks[t] EXCEPT !.pc = "seated", !.room = joined]
<1>1. /\ tasks[t].pc \in {"join", "watch"} /\ tasks[t].room = room
      /\ tasks[t] \in TaskRecord /\ SoundRoom(room) /\ u \in Users
  BY Known, TaskFacts DEF Join, At, SerialTask, Deciding, ByUser
<1>2. UNCHANGED <<record, clocks, deadline, crashes>>
  BY DEF Join, budgets
<1>3. CASE room = NoRoom
  <2>1. Plain(tasks[t]) /\ Clockless(tasks[t])
    BY <1>1 DEF Plain, Clockless, Logging
  <2>2. PlayersSeated' /\ Finish(t) /\ UNCHANGED <<room, waiting>>
    BY <1>1, <1>3 DEF Join, PlayersSeated
  <2>3. QED
    BY <1>2, <2>1, <2>2, QuitKept
<1>4. CASE /\ room # NoRoom /\ tasks[t].pc = "join" /\ room.state = NoState
           /\ u \notin Seated(room)
           /\ SaveRoom(joined) /\ Become(t, k) /\ UNCHANGED conn
  <2>1. SoundSnapshot(room)
    BY <1>1, <1>4 DEF SoundRoom
  <2>2. SoundSnapshot(joined)
    BY <1>1, <1>4, <2>1, JoinedIsSound
  <2>3. /\ joined.state = NoState /\ joined.moveLog = room.moveLog
        /\ joined.players = Append(room.players, u)
    BY <1>4, <2>1 DEF SoundSnapshot, Snapshot
  <2>4. joined # NoRoom
    BY <2>2, SentinelAssumption DEF SoundSnapshot
  <2>5. Seated(room) \subseteq Seated(joined)
    <3>1. room.players \in Seq(Users)
      BY <2>1 DEF SoundSnapshot, Snapshot
    <3>2. \A i \in DOMAIN room.players :
              i \in DOMAIN Append(room.players, u) /\ Append(room.players, u)[i] = room.players[i]
      BY <1>1, <3>1
    <3> HIDE DEF joined
    <3>3. QED
      BY <2>3, <3>2 DEF Seated
  <2>6. tasks'[t] = k /\ k.pc = "seated"
    BY <1>1, <1>4, Known DEF TaskRecord
  <2> HIDE DEF joined, k
  <2>7. room' = joined /\ waiting' = TRUE
    BY <1>4, <2>3 DEF SaveRoom
  <2>8. QED
    BY <1>2, <1>4, <2>3, <2>4, <2>5, <2>6, <2>7, WaitingKept
<1>5. CASE room # NoRoom /\ EnterRoom(t, room) /\ UNCHANGED <<room, waiting>>
  BY <1>1, <1>2, <1>5, EntersKept
<1>6. QED
  BY <1>1, <1>3, <1>4, <1>5 DEF Join, At

LEMMA SeatKept ==
    ASSUME OneHandler, RoomInv, SerialInv, HandlerInv, NEW t \in Tasks, AfterSeat(t)
    PROVE  HandlerInv'
<1>1. tasks[t].pc = "seated" /\ tasks[t].room = room
  BY Known DEF AfterSeat, At, SerialTask, Deciding
<1>2. room # NoRoom
  BY <1>1, Known, TaskFacts, SentinelAssumption DEF Seating, SoundSnapshot
<1>3. UNCHANGED <<room, waiting, record, clocks, deadline, crashes>>
  BY DEF AfterSeat, redis, budgets
<1>4. QED
  BY <1>1, <1>2, <1>3, EntersKept DEF AfterSeat

LEMMA StartRequestKept ==
    ASSUME OneHandler, RoomInv, SerialInv, HandlerInv, NEW t \in Tasks, StartRequest(t)
    PROVE  HandlerInv'
<1> DEFINE counted == [room EXCEPT !.playerCount = Len(room.players)]
           k == [tasks[t] EXCEPT !.pc = "counted", !.room = counted]
<1>1. /\ tasks[t].pc = "start" /\ tasks[t].room = room
      /\ tasks[t] \in TaskRecord /\ SoundRoom(room)
  BY Known, TaskFacts DEF StartRequest, At, SerialTask, Deciding
<1>2. UNCHANGED <<record, clocks, deadline, conn, crashes>>
  BY DEF StartRequest, budgets
<1>3. CASE Finish(t) /\ UNCHANGED <<room, waiting>>
  <2>1. Plain(tasks[t]) /\ Clockless(tasks[t])
    BY <1>1 DEF Plain, Clockless, Logging
  <2>2. PlayersSeated'
    BY <1>2, <1>3 DEF HandlerInv, HandlerFacts, PlayersSeated
  <2>3. QED
    BY <1>2, <1>3, <2>1, <2>2, QuitKept
<1>4. CASE /\ room # NoRoom /\ room.state = NoState /\ Len(room.players) \in Counts
           /\ SaveRoom(counted) /\ Become(t, k)
  <2>1. SoundSnapshot(room)
    BY <1>1, <1>4 DEF SoundRoom
  <2>2. SoundSnapshot(counted) /\ counted.players = room.players
    BY <1>4, <2>1, CountedIsSound
  <2>3. counted.state = NoState /\ counted.moveLog = room.moveLog
    BY <1>4, <2>1 DEF SoundSnapshot, Snapshot
  <2>4. counted # NoRoom
    BY <2>2, SentinelAssumption DEF SoundSnapshot
  <2>5. Seated(room) = Seated(counted)
    BY <2>2 DEF Seated
  <2>6. tasks'[t] = k /\ k.pc = "counted"
    BY <1>1, <1>4, Known DEF TaskRecord
  <2> HIDE DEF counted, k
  <2>7. room' = counted /\ waiting' = TRUE
    BY <1>4, <2>3 DEF SaveRoom
  <2>8. QED
    BY <1>1, <1>2, <1>4, <2>3, <2>4, <2>5, <2>6, <2>7, WaitingKept
<1>5. QED
  BY <1>1, <1>3, <1>4 DEF StartRequest, MayStartWith, Counts

LEMMA StartCountedKept ==
    ASSUME OneHandler, RoomInv, SerialInv, HandlerInv, NEW t \in Tasks, StartCounted(t)
    PROVE  HandlerInv'
<1>1. /\ tasks[t].pc = "counted" /\ tasks[t].room = room /\ room.state = NoState
      /\ SoundSnapshot(room)
  BY Known, TaskFacts DEF StartCounted, At, SerialTask, Deciding, Seating
<1>2. room # NoRoom
  BY <1>1, SentinelAssumption DEF SoundSnapshot
<1>3. UNCHANGED <<room, waiting, record, clocks, deadline, conn, crashes>>
  BY DEF StartCounted, redis, budgets
<1>4. PlayersSeated'
  BY <1>3 DEF HandlerInv, HandlerFacts, PlayersSeated
<1>5. QED
  BY <1>1, <1>2, <1>3, <1>4, StartsKept DEF StartCounted

LEMMA TimerInstantOf ==
    ASSUME NEW r, SoundSnapshot(r)
    PROVE  /\ TimerInstant(r) \in {"past", "future"}
           /\ r.state # NoState => TimerInstant(r) = r.state.timerEndsAt
  BY DEF TimerInstant, SoundSnapshot, SoundState, State

LEMMA StartedKept ==
    ASSUME OneHandler, RoomInv, SerialInv, HandlerInv, NEW t \in Tasks, Started(t)
    PROVE  HandlerInv'
<1> DEFINE k == tasks[t]
           r == [k.room EXCEPT !.state = k.next]
<1>1. /\ k.pc = "started" /\ SoundSnapshot(k.room) /\ SoundState(k.next)
      /\ tasks'[t] = Idle /\ \A x \in Tasks : x = t
  BY Known, TaskFacts DEF Started, At, WithState
<1>2. HandlerFacts(t)
  BY DEF HandlerInv
<1>3. /\ UNCHANGED <<room, waiting, record, conn, strays, evictions, crashes>>
      /\ timer' = TimerInstant(r) /\ deadline' = TimerInstant(r)
  BY DEF Started, Schedule, budgets
<1>4. SoundSnapshot(r) /\ r.state = k.next
  BY <1>1, StatedIsSound DEF SoundSnapshot, Snapshot
<1> HIDE DEF r
<1>5. k.next # NoState
  BY <1>1, SoundScore, SentinelAssumption
<1>6. TimerInstant(r) = k.next.timerEndsAt /\ TimerInstant(r) # "none"
  BY <1>4, <1>5, TimerInstantOf
<1>7. WaitingRoomIsListed' /\ PlayersSeated' /\ WaitTask(tasks[t], room)'
  BY <1>1, <1>2, <1>3, IdlePlain
  DEF HandlerFacts, WaitingRoomIsListed, PlayersSeated, WaitTask, TimerMoves, Logging
<1>8. MovesExist => NoStrays' /\ TimedTask(tasks[t], room)'
  BY <1>1, <1>2, <1>3, <1>6, IdlePlain
  DEF HandlerFacts, NoStrays, TimedTask, ByTimer, Active, Logging
<1>9. Plain(k)
  BY <1>1 DEF Plain, Logging
<1>10. HandlerFacts(t)'
  BY <1>1, <1>2, <1>3, <1>7, <1>8, <1>9, IdlePlain, PlainStep
<1>11. QED
  BY <1>1, <1>10 DEF HandlerInv

-----------------------------------------------------------------------------
(* Moves and resignations *)

LEMMA FinisherAdded ==
    ASSUME NEW finished \in Seq(Finisher), NEW e \in Finisher
    PROVE  FinishedIds(Append(finished, e)) \subseteq FinishedIds(finished) \union {e.userId}
<1> DEFINE after == Append(finished, e)
<1>1. \A i \in DOMAIN after : after[i] = e \/ (i \in DOMAIN finished /\ after[i] = finished[i])
  OBVIOUS
<1> HIDE DEF after
<1>2. QED
  BY <1>1 DEF FinishedIds, after

LEMMA MovedFields ==
    ASSUME NEW s, SoundState(s), s.status = "active", FinishersSeated(s), NEW won \in BOOLEAN
    PROVE  LET m == Moved(s, won)
           IN  /\ m.turnOrder = s.turnOrder /\ m.moveCount = s.moveCount + 1
               /\ m.timerEndsAt = "future" /\ FinishersSeated(m) /\ m.endReason = s.endReason
<1> DEFINE after == FinishedAfter(s, won)
           e == [userId |-> CurrentPlayer(s), finishPos |-> Len(s.finishedPlayers) + 1]
           m == Moved(s, won)
<1>1. /\ s \in State /\ s.finishedPlayers \in Seq(Finisher) /\ CurrentPlayer(s) \in Users
      /\ CurrentPlayer(s) \in {s.turnOrder[i] : i \in DOMAIN s.turnOrder}
  BY SoundScore DEF SoundState, State, CurrentPlayer
<1>2. FinishedIds(after) \subseteq {s.turnOrder[i] : i \in DOMAIN s.turnOrder}
  <2>1. after = s.finishedPlayers \/ after = Append(s.finishedPlayers, e)
    BY DEF FinishedAfter
  <2>2. e \in Finisher /\ e.userId = CurrentPlayer(s)
    BY <1>1 DEF Finisher
  <2> HIDE DEF e, after
  <2>3. FinishedIds(Append(s.finishedPlayers, e))
            \subseteq FinishedIds(s.finishedPlayers) \union {e.userId}
    BY <1>1, <2>2, FinisherAdded
  <2>4. FinishedIds(s.finishedPlayers) \subseteq {s.turnOrder[i] : i \in DOMAIN s.turnOrder}
    BY DEF FinishersSeated
  <2>5. CASE after = s.finishedPlayers
    BY <2>4, <2>5
  <2>6. CASE after = Append(s.finishedPlayers, e)
    BY <1>1, <2>2, <2>3, <2>4, <2>6
  <2>7. QED
    BY <2>1, <2>5, <2>6
<1> HIDE DEF after
<1>3. /\ m.turnOrder = s.turnOrder /\ m.moveCount = s.moveCount + 1
      /\ m.timerEndsAt = "future" /\ m.finishedPlayers = after /\ m.endReason = s.endReason
  <2> DEFINE i == NextTurnIndex(s, after)
             st == IF IsOver(s, after) THEN "completed" ELSE s.status
             b == [s EXCEPT !.finishedPlayers = after, !.currentTurnIndex = i, !.status = st]
  <2>1. m = [b EXCEPT !.moveCount = s.moveCount + 1, !.timerEndsAt = "future"]
    BY DEF Moved, AfterMove, after
  <2> HIDE DEF i, st, m
  <2>2. QED
    BY <1>1, <2>1 DEF State
<1>4. QED
  BY <1>2, <1>3 DEF FinishersSeated

LEMMA ResignedFields ==
    ASSUME NEW s, SoundState(s), NEW u \in Users, FinishersSeated(s),
           u \in {s.turnOrder[i] : i \in DOMAIN s.turnOrder}
    PROVE  LET m == AfterResign(s, u)
           IN  /\ m.turnOrder = s.turnOrder /\ m.moveCount = s.moveCount
               /\ m.timerEndsAt = s.timerEndsAt /\ FinishersSeated(m)
               /\ m.status = IF IsOver(s, m.finishedPlayers) THEN "completed" ELSE s.status
               /\ m.finishedPlayers = Append(s.finishedPlayers,
                                             [userId |-> u, finishPos |-> PlayerCount(s)])
               /\ m.endReason = "stalemate" => s.endReason = "stalemate"
<1> DEFINE e == [userId |-> u, finishPos |-> PlayerCount(s)]
           after == Append(s.finishedPlayers, e)
           m == AfterResign(s, u)
<1>1. s \in State /\ s.finishedPlayers \in Seq(Finisher) /\ PlayerCount(s) \in Nat
  BY SoundScore DEF Counts
<1>2. e \in Finisher /\ e.userId = u
  BY <1>1 DEF Finisher
<1> HIDE DEF e
<1>3. FinishedIds(after) \subseteq FinishedIds(s.finishedPlayers) \union {u}
  BY <1>1, <1>2, FinisherAdded
<1> HIDE DEF after
<1>4. m = [s EXCEPT !.finishedPlayers = after,
                    !.status    = IF IsOver(s, after) THEN "completed" ELSE s.status,
                    !.endReason = IF IsOver(s, after) THEN "resign" ELSE s.endReason]
  BY DEF AfterResign, after, e
<1> HIDE DEF m
<1>5. /\ m.turnOrder = s.turnOrder /\ m.moveCount = s.moveCount
      /\ m.timerEndsAt = s.timerEndsAt /\ m.finishedPlayers = after
      /\ m.status = IF IsOver(s, after) THEN "completed" ELSE s.status
      /\ m.endReason = IF IsOver(s, after) THEN "resign" ELSE s.endReason
  BY <1>1, <1>4 DEF State
<1>6. QED
  BY <1>3, <1>5 DEF FinishersSeated, m, after, e

\* A move of the running game, by its user or, once its time is up, by the timer.
LEMMA MovesKept ==
    ASSUME OneHandler, RoomInv, SerialInv, HandlerInv, NEW t \in Tasks,
           tasks[t].pc \in {"move", "timeout"}, Active(room),
           UNCHANGED <<room, waiting, record, clocks, deadline, conn, crashes>>,
           NEW won \in BOOLEAN, SetRoomState(t, room, Moved(room.state, won), "append")
    PROVE  HandlerInv'
<1> DEFINE s == Moved(room.state, won)
<1>1. /\ SoundState(room.state) /\ room.state.status = "active"
      /\ room # NoRoom /\ room.state # NoState
  BY Known, ActiveIsSound DEF Active
<1>2. HandlerFacts(t)
  BY DEF HandlerInv
<1>3. room.state.turnOrder = room.players /\ FinishersSeated(room.state)
  BY <1>1, <1>2 DEF HandlerFacts, SeatTask
<1>4. /\ s.turnOrder = room.players /\ s.moveCount = MovesOf(room) + 1
      /\ s.timerEndsAt = "future" /\ FinishersSeated(s)
  BY <1>1, <1>3, MovedFields DEF MovesOf
<1>5. PlayersSeated' /\ Plain(tasks[t])
  BY <1>2 DEF HandlerFacts, PlayersSeated, Plain, Logging
<1>6. tasks[t].user = Server => tasks[t].pc = "timeout"
  BY Known, TaskFacts, SentinelAssumption DEF ByUser
<1>7. tasks[t].user # Server => Clockless(tasks[t])
  BY <1>2 DEF HandlerFacts, WaitTask, Clockless
<1> HIDE DEF s
<1>8. SetRoomState(t, room, s, "append")
  BY DEF s
<1>9. s.moveCount = MovesOf(room) + (IF "append" = "append" THEN 1 ELSE 0)
  BY <1>4
<1>10. QED
  BY <1>1, <1>4, <1>5, <1>6, <1>7, <1>8, <1>9, SetsKept

LEMMA MoveAttemptKept ==
    ASSUME OneHandler, RoomInv, SerialInv, HandlerInv, NEW t \in Tasks, MoveAttempt(t)
    PROVE  HandlerInv'
<1>1. tasks[t].pc = "move" /\ tasks[t].room = room
  BY Known DEF MoveAttempt, At, SerialTask, Deciding
<1>2. UNCHANGED <<room, waiting, record, clocks, deadline, conn, crashes>>
  BY DEF MoveAttempt, redis, budgets
<1>3. CASE Finish(t)
  <2>1. Plain(tasks[t]) /\ Clockless(tasks[t])
    BY <1>1 DEF Plain, Clockless, Logging
  <2>2. PlayersSeated'
    BY <1>2 DEF HandlerInv, HandlerFacts, PlayersSeated
  <2>3. QED
    BY <1>2, <1>3, <2>1, <2>2, QuitKept
<1>4. CASE /\ Active(room)
           /\ \E won \in BOOLEAN : SetRoomState(t, room, Moved(room.state, won), "append")
  BY <1>1, <1>2, <1>4, MovesKept
<1>5. QED
  BY <1>1, <1>3, <1>4 DEF MoveAttempt, MayMove

LEMMA OnTimeoutKept ==
    ASSUME OneHandler, RoomInv, SerialInv, HandlerInv, NEW t \in Tasks, OnTimeout(t)
    PROVE  HandlerInv'
<1>1. /\ tasks[t].pc = "timeout" /\ tasks[t].room = room
      /\ \A x \in Tasks : x = t
  BY Known DEF OnTimeout, At, SerialTask, Deciding
<1>2. UNCHANGED <<room, waiting, record, clocks, deadline, conn, crashes>>
  BY DEF OnTimeout, redis, budgets
<1>3. HandlerFacts(t)
  BY DEF HandlerInv
<1>4. CASE Finish(t) /\ (Active(room) => BoardMayBlock)
  <2>1. tasks'[t] = Idle
    BY <1>4, Known
  <2>2. Plain(tasks[t])
    BY <1>1 DEF Plain, Logging
  <2>3. /\ PlayersSeated' /\ WaitingRoomIsListed' /\ WaitTask(tasks[t], room)'
        /\ tasks'[t].pc # "resign"
    BY <1>2, <1>3, <2>1, IdlePlain
    DEF HandlerFacts, PlayersSeated, WaitingRoomIsListed, WaitTask, TimerMoves, Logging
  <2>4. MovesExist => NoStrays' /\ TimedTask(tasks[t], room)'
    BY <1>2, <1>3, <1>4, <2>1, IdlePlain
    DEF HandlerFacts, MovesExist, NoStrays, TimedTask, ByTimer, Active, Logging, clocks
  <2>5. HandlerFacts(t)'
    BY <1>2, <1>3, <2>1, <2>2, <2>3, <2>4, IdlePlain, PlainStep DEF clocks
  <2>6. QED
    BY <1>1, <2>5 DEF HandlerInv
<1>5. CASE /\ Active(room)
           /\ \E won \in BOOLEAN : SetRoomState(t, room, Moved(room.state, won), "append")
  BY <1>1, <1>2, <1>5, MovesKept
<1>6. QED
  BY <1>1, <1>4, <1>5 DEF OnTimeout

LEMMA ResignKept ==
    ASSUME OneHandler, RoomInv, SerialInv, HandlerInv, NEW t \in Tasks, Resign(t)
    PROVE  HandlerInv'
<1> DEFINE u == tasks[t].user
           s == AfterResign(room.state, u)
           then == IF IsOver(room.state, s.finishedPlayers) THEN "persist" ELSE "finish"
<1>1. /\ tasks[t].pc = "resign" /\ tasks[t].room = room /\ u \in Users
      /\ SoundRoom(room) /\ HandlerFacts(t)
  BY Known, TaskFacts DEF Resign, At, SerialTask, Deciding, ByUser, HandlerInv
<1>2. UNCHANGED <<room, waiting, record, clocks, deadline, conn, crashes>>
  BY DEF Resign, redis, budgets
<1>3. Plain(tasks[t]) /\ Clockless(tasks[t]) /\ PlayersSeated'
  BY <1>1, <1>2 DEF Plain, Clockless, Logging, HandlerFacts, PlayersSeated
<1>4. CASE Finish(t)
  BY <1>2, <1>3, <1>4, QuitKept
<1>5. CASE room # NoRoom /\ room.state # NoState /\ SetRoomState(t, room, s, then)
  <2>1. SoundState(room.state)
    BY <1>1, <1>5 DEF SoundRoom, SoundSnapshot
  <2>2. /\ room.state.turnOrder = room.players /\ FinishersSeated(room.state)
        /\ u \in Seated(room)
    BY <1>1, <1>5 DEF HandlerFacts, SeatTask
  <2>3. u \in {room.state.turnOrder[i] : i \in DOMAIN room.state.turnOrder}
    BY <2>2 DEF Seated
  <2>4. /\ s.turnOrder = room.players /\ s.moveCount = room.state.moveCount
        /\ s.timerEndsAt = room.state.timerEndsAt /\ FinishersSeated(s)
        /\ s.status = IF IsOver(room.state, s.finishedPlayers) THEN "completed"
                                                               ELSE room.state.status
    BY <1>1, <2>1, <2>2, <2>3, ResignedFields
  <2>5. room.state.moveCount \in Nat /\ room.state.status \in {"active", "completed"}
    BY <2>1, SoundScore DEF State
  <2>6. /\ then # "append" /\ then \in {"persist", "finish"}
        /\ s.status = "active" => Active(room)
        /\ then # "persist" /\ s.status = "completed" => Completed(room)
    BY <1>5, <2>4, <2>5 DEF Active, Completed
  <2> HIDE DEF s, then
  <2>7. s.moveCount = MovesOf(room) + (IF then = "append" THEN 1 ELSE 0)
    BY <1>5, <2>4, <2>5, <2>6 DEF MovesOf
  <2>8. u # Server
    BY <1>1, SentinelAssumption
  <2>9. QED
    BY <1>1, <1>2, <1>3, <1>5, <2>4, <2>6, <2>7, <2>8, SetsKept
<1>6. QED
  BY <1>1, <1>4, <1>5 DEF Resign

-----------------------------------------------------------------------------
(* Saving a state, and what follows the save of a move *)

LEMMA SaveStateKept ==
    ASSUME OneHandler, RoomInv, SerialInv, HandlerInv, NEW t \in Tasks, SaveState(t)
    PROVE  HandlerInv'
<1> DEFINE k == tasks[t]
           s == k.next
           r == [room EXCEPT !.state = s]
<1>1. /\ k.pc = "saveState" /\ k.read = room /\ room # NoRoom /\ Follows(s, room)
      /\ k.then = "persist" => s.status = "completed"
      /\ k \in TaskRecord /\ SoundState(s) /\ k.then # "none"
      /\ \A x \in Tasks : x = t
  BY Known, TaskFacts DEF SaveState, At, SerialTask, WithState
<1>2. HandlerFacts(t) /\ ClocksOK /\ SoundSnapshot(room)
  BY <1>1, Known DEF HandlerInv, SoundRoom
<1>3. /\ s \in State /\ s # NoState /\ s.status \in {"active", "completed"}
      /\ k.then \in {"finish", "started", "append", "persist"}
  BY <1>1, SoundScore, SentinelAssumption DEF State, TaskRecord
<1>4. /\ SoundSnapshot(r) /\ r.state = s /\ r.moveLog = room.moveLog
      /\ r.players = room.players
  BY <1>1, <1>2, <1>3, StatedIsSound DEF SoundSnapshot, Snapshot
<1>5. room' = r /\ waiting' = FALSE /\ UNCHANGED <<record, clocks, deadline, conn, crashes>>
  BY <1>1, <1>3, <1>4 DEF SaveState, SaveRoom, budgets
<1>6. r # NoRoom
  BY <1>4, SentinelAssumption DEF SoundSnapshot
<1>7. /\ tasks'[t].pc = IF k.then = "finish" THEN "idle" ELSE k.then
      /\ k.then # "finish" => /\ tasks'[t].room = k.room /\ tasks'[t].next = s
                              /\ tasks'[t].user = k.user
  <2>1. k.then = "finish" => tasks'[t].pc = "idle"
    BY <1>1, Known, IdlePlain DEF SaveState
  <2>2. ASSUME k.then # "finish"
        PROVE  tasks'[t] = [k EXCEPT !.pc = k.then, !.read = NoRoom]
    BY <1>1, <2>2, Known DEF SaveState
  <2>3. QED
    BY <1>1, <2>1, <2>2 DEF TaskRecord
<1>8. s.status = "active" => ~Ended(room)
  BY <1>1, <1>2, <1>3, EndedStaysEnded
<1>9. Ended(r) <=> s.status = "completed"
  BY <1>3, <1>4, <1>6 DEF Ended
<1>10. s.status = "active" /\ room.state # NoState => Active(room)
  <2>1. room.state # NoState => room.state.status \in {"active", "completed"}
    BY <1>2 DEF SoundSnapshot, SoundState, State
  <2>2. QED
    BY <1>1, <1>8, <2>1 DEF Ended, Active
<1> HIDE DEF r, k, s
<1>11. WaitingRoomIsListed' /\ LogStaysBounded' /\ PlayersSeated'
  BY <1>1, <1>2, <1>3, <1>4, <1>5, <1>6
  DEF HandlerFacts, WaitingRoomIsListed, LogStaysBounded, PlayersSeated, Seated, s
<1>12. BoundTask(tasks[t], room)'
  <2>1. BoundTask(k, room)
    BY <1>2 DEF HandlerFacts, k
  <2>2. k.then = "append" => ~Ended(room)
    BY <1>1, <2>1 DEF BoundTask, Active, Ended
  <2>3. ~Judging(k) <=> k.then # "persist"
    BY <1>1 DEF Judging
  <2>4. k.then = "append" \/ (s.status = "active" /\ k.then # "persist")
            => Len(room.moveLog) <= MoveLogCap + crashes
    BY <1>8, <2>1, <2>2, <2>3 DEF BoundTask
  <2>5. k.then = "persist" => Ended(r)
    BY <1>1, <1>9
  <2>6. QED
    BY <1>3, <1>4, <1>5, <1>7, <1>9, <2>4, <2>5 DEF BoundTask
<1>13. WaitTask(tasks[t], room)'
  <2>1. WaitTask(k, room)
    BY <1>2 DEF HandlerFacts, k
  <2>2. k.then = "append" /\ k.user = Server =>
            k.room # NoRoom /\ k.room.state # NoState /\ k.room.state.timerEndsAt = "past"
    BY <1>1, <2>1 DEF WaitTask, TimerMoves
  <2>3. QED
    BY <1>3, <1>7, <2>2 DEF WaitTask, TimerMoves, Logging
<1>14. ASSUME MovesExist
       PROVE  NoStrays' /\ TimedTask(tasks[t], room)'
  <2>1. NoStrays /\ TimedTask(k, room) /\ WaitTask(k, room)
    BY <1>2, <1>14 DEF HandlerFacts, k
  <2>2. k.user = Server => k.then \in {"append", "persist"} /\ timer = "none"
    BY <1>1, <2>1 DEF WaitTask, TimedTask, ByTimer
  <2>3. k.then # "started" /\ s.status = "active" =>
            /\ NoRestarts => deadline # "none"
            /\ timer = "future" => s.timerEndsAt = "future"
            /\ k.user # Server /\ deadline # "none" => timer # "none"
    BY <1>1, <1>10, <2>1 DEF TimedTask, ByTimer, s
  <2>4. Active(r) <=> s.status = "active"
    BY <1>3, <1>4, <1>6 DEF Active
  <2>5. k.then = "persist" => ~Active(r)
    BY <1>1, <2>4
  <2>6. QED
    BY <1>3, <1>4, <1>5, <1>6, <1>7, <2>1, <2>2, <2>3, <2>4, <2>5
    DEF NoStrays, TimedTask, ByTimer, Logging, clocks
<1>15. SeatTask(tasks[t], room)'
  <2>1. s.turnOrder = room.players /\ FinishersSeated(s)
    BY <1>1, <1>2 DEF HandlerFacts, SeatTask, k, s
  <2>2. QED
    BY <1>3, <1>4, <1>5, <1>7, <2>1 DEF SeatTask, Logging
<1>16. ASSUME NoRestarts
       PROVE  LogTask(tasks[t], room)'
  <2>1. LogTask(k, room)
    BY <1>2, <1>16 DEF HandlerFacts, k
  <2>2. /\ k.room.moveLog = room.moveLog /\ Numbered(room.moveLog)
        /\ MovesOf(room) = Len(room.moveLog) + 0
        /\ s.moveCount = MovesOf(room) + (IF k.then = "append" THEN 1 ELSE 0)
    BY <1>1, <2>1 DEF LogTask, Unlogged, s
  <2>3. MovesOf(r) = s.moveCount
    BY <1>3, <1>4 DEF MovesOf
  <2>4. Len(room.moveLog) \in Nat
    BY <1>2 DEF SoundSnapshot, Snapshot
  <2>5. MovesOf(r) = Len(room.moveLog) + (IF k.then = "append" THEN 1 ELSE 0)
    BY <2>2, <2>3, <2>4
  <2>6. Unlogged(tasks'[t]) = IF k.then = "append" THEN 1 ELSE 0
    BY <1>3, <1>7 DEF Unlogged
  <2>7. tasks'[t].pc # "saveState" /\ tasks'[t].pc # "saveLog"
    BY <1>3, <1>7
  <2>8. tasks'[t].pc \in {"append", "persist"} => tasks'[t].room = k.room
    BY <1>3, <1>7
  <2>9. QED
    BY <1>4, <1>5, <1>6, <2>2, <2>5, <2>6, <2>7, <2>8 DEF LogTask
<1>17. ASSUME NoRestarts, NoneRecorded
       PROVE  RecordTask(tasks[t], room)'
  <2>1. RecordTask(k, room)
    BY <1>2, <1>17 DEF HandlerFacts, k
  <2>2. Completed(r) /\ evictions = 0 => k.then \in {"append", "persist"}
    BY <1>1, <1>4, <2>1 DEF RecordTask, Completed, Logging, s
  <2>3. QED
    BY <1>3, <1>5, <1>7, <2>1, <2>2 DEF RecordTask, Logging, clocks
<1>18. HandlerFacts(t)'
  BY <1>11, <1>12, <1>13, <1>14, <1>15, <1>16, <1>17 DEF HandlerFacts
<1>19. QED
  BY <1>1, <1>18 DEF HandlerInv

\* A handler between the save of a move and the verdict on it goes on.
LEMMA LogsKept ==
    ASSUME OneHandler, RoomInv, SerialInv, HandlerInv, NEW t \in Tasks,
           NEW from, NEW to,
           (from = "append" /\ to = "saveLog") \/ (from = "logged" /\ to = "refreshed"),
           tasks[t].pc = from, Become(t, [tasks[t] EXCEPT !.pc = to, !.read = room]),
           UNCHANGED <<room, waiting, record, clocks, deadline, conn, crashes>>
    PROVE  HandlerInv'
<1> DEFINE k == tasks[t]
           x == tasks'[t]
<1>1. /\ \/ from = "append" /\ to = "saveLog"
         \/ from = "logged" /\ to = "refreshed"
      /\ {from, to} \subseteq Logging
  BY DEF Logging
<1>2. k \in TaskRecord /\ HandlerFacts(t) /\ \A z \in Tasks : z = t
  BY <1>1, Known, TaskFacts DEF HandlerInv
<1>3. x = [k EXCEPT !.pc = to, !.read = room]
  BY Known
<1>4. /\ x.pc = to /\ x.read = room /\ x.room = k.room /\ x.next = k.next
      /\ x.user = k.user /\ x.then = k.then
  BY <1>2, <1>3 DEF TaskRecord
<1> HIDE DEF k, x
<1>5. WaitingRoomIsListed' /\ LogStaysBounded' /\ PlayersSeated'
  BY <1>2 DEF HandlerFacts, WaitingRoomIsListed, LogStaysBounded, PlayersSeated
<1>6. BoundTask(tasks[t], room)'
  BY <1>1, <1>2, <1>4 DEF HandlerFacts, BoundTask, Judging, k, x
<1>7. WaitTask(tasks[t], room)'
  BY <1>1, <1>2, <1>4 DEF HandlerFacts, WaitTask, TimerMoves, Logging, k, x
<1>8. MovesExist => NoStrays' /\ TimedTask(tasks[t], room)'
  BY <1>1, <1>2, <1>4 DEF HandlerFacts, NoStrays, TimedTask, ByTimer, Logging, clocks, k, x
<1>9. SeatTask(tasks[t], room)'
  BY <1>1, <1>2, <1>4 DEF HandlerFacts, SeatTask, Logging, k, x
<1>10. NoRestarts => LogTask(tasks[t], room)'
  BY <1>1, <1>2, <1>4 DEF HandlerFacts, LogTask, Unlogged, k, x
<1>11. NoRestarts /\ NoneRecorded => RecordTask(tasks[t], room)'
  BY <1>1, <1>2, <1>4 DEF HandlerFacts, RecordTask, Logging, clocks, k, x
<1>12. HandlerFacts(t)'
  BY <1>5, <1>6, <1>7, <1>8, <1>9, <1>10, <1>11 DEF HandlerFacts, x
<1>13. QED
  BY <1>2, <1>12 DEF HandlerInv

LEMMA ReadKept ==
    ASSUME OneHandler, RoomInv, SerialInv, HandlerInv, NEW t \in Tasks,
           AppendRead(t) \/ Refresh(t)
    PROVE  HandlerInv'
<1>1. UNCHANGED <<room, waiting, record, clocks, deadline, conn, crashes>>
  BY DEF AppendRead, Refresh, redis, budgets
<1>2. CASE AppendRead(t)
  BY <1>1, <1>2, LogsKept DEF AppendRead, At
<1>3. CASE Refresh(t)
  BY <1>1, <1>3, LogsKept DEF Refresh, At
<1>4. QED
  BY <1>2, <1>3

LEMMA NumberedAppend ==
    ASSUME NEW log \in Seq(Nat), Numbered(log)
    PROVE  /\ Numbered(Append(log, Len(log) + 1))
           /\ Len(Append(log, Len(log) + 1)) = Len(log) + 1
<1> DEFINE after == Append(log, Len(log) + 1)
<1>1. /\ Len(after) = Len(log) + 1
      /\ \A i \in DOMAIN after : IF i \in DOMAIN log THEN after[i] = log[i]
                                                     ELSE i = Len(log) + 1 /\ after[i] = i
  OBVIOUS
<1> HIDE DEF after
<1>2. QED
  BY <1>1 DEF Numbered, after

LEMMA SaveLogKept ==
    ASSUME OneHandler, RoomInv, SerialInv, HandlerInv, NEW t \in Tasks, SaveLog(t)
    PROVE  HandlerInv'
<1> DEFINE k == tasks[t]
           number == MoveNumber(k.room)
           log == Append(room.moveLog, number)
           r == [room EXCEPT !.moveLog = log]
<1>1. /\ k.pc = "saveLog" /\ k.read = room /\ room # NoRoom /\ room.state = k.next
      /\ k \in TaskRecord /\ SoundSnapshot(k.room) /\ SoundSnapshot(room) /\ SoundState(k.next)
      /\ \A x \in Tasks : x = t
  BY Known, TaskFacts DEF SaveLog, At, SerialTask, Logging, WithState, SoundRoom
<1>2. HandlerFacts(t) /\ ClocksOK
  BY Known DEF HandlerInv
<1>3. number \in Nat /\ room.moveLog \in Seq(Nat)
  BY <1>1 DEF MoveNumber, SoundSnapshot, Snapshot
<1>4. log \in Seq(Nat) /\ Len(log) = Len(room.moveLog) + 1 /\ Len(room.moveLog) \in Nat
  BY <1>3
<1> HIDE DEF log, number
<1>5. /\ SoundSnapshot(r) /\ r.moveLog = log /\ r.state = room.state
      /\ r.players = room.players
  BY <1>1, <1>4, LoggedIsSound DEF SoundSnapshot, Snapshot
<1>6. r # NoRoom
  BY <1>5, SentinelAssumption DEF SoundSnapshot
<1>7. room' = r /\ waiting' = (r.state = NoState)
      /\ UNCHANGED <<record, clocks, deadline, conn, crashes>>
  BY <1>1 DEF SaveLog, SaveRoom, budgets, log, number
<1>8. tasks'[t] = [k EXCEPT !.pc = "logged", !.read = NoRoom]
  BY Known DEF SaveLog
<1>9. /\ tasks'[t].pc = "logged" /\ tasks'[t].room = k.room /\ tasks'[t].next = k.next
      /\ tasks'[t].user = k.user
  BY <1>1, <1>8 DEF TaskRecord
<1> HIDE DEF r, k
<1>10. WaitingRoomIsListed' /\ PlayersSeated'
  BY <1>1, <1>2, <1>5, <1>7 DEF HandlerFacts, WaitingRoomIsListed, PlayersSeated, Seated
<1>11. LogStaysBounded' /\ BoundTask(tasks[t], room)'
  <2>1. Len(room.moveLog) <= MoveLogCap + crashes
    BY <1>1, <1>2 DEF HandlerFacts, BoundTask, k
  <2>2. {MoveLogCap, crashes} \subseteq Nat
    BY <1>2, RoomAssumption DEF ClocksOK
  <2>3. Len(room'.moveLog) <= MoveLogCap + 1 + crashes'
    BY <1>4, <1>5, <1>7, <2>1, <2>2
  <2>4. QED
    BY <1>9, <2>3 DEF LogStaysBounded, BoundTask, Judging
<1>12. WaitTask(tasks[t], room)'
  BY <1>1, <1>2, <1>9 DEF HandlerFacts, WaitTask, TimerMoves, Logging, k
<1>13. MovesExist => NoStrays' /\ TimedTask(tasks[t], room)'
  BY <1>1, <1>2, <1>5, <1>6, <1>7, <1>9
  DEF HandlerFacts, NoStrays, TimedTask, ByTimer, Active, Logging, clocks, k
<1>14. SeatTask(tasks[t], room)'
  BY <1>1, <1>2, <1>5, <1>7, <1>9 DEF HandlerFacts, SeatTask, Logging, k
<1>15. ASSUME NoRestarts
       PROVE  LogTask(tasks[t], room)'
  <2>1. /\ k.room.moveLog = room.moveLog /\ Numbered(room.moveLog)
        /\ MovesOf(room) = Len(room.moveLog) + 1
    BY <1>1, <1>2, <1>15 DEF HandlerFacts, LogTask, Unlogged, k
  <2>2. number = Len(room.moveLog) + 1
    BY <2>1 DEF number, MoveNumber
  <2>3. Numbered(log)
    BY <1>3, <2>1, <2>2, NumberedAppend DEF log
  <2>4. MovesOf(r) = Len(log) + 0
    BY <1>4, <1>5, <2>1 DEF MovesOf
  <2>5. QED
    BY <1>5, <1>7, <1>9, <2>3, <2>4 DEF LogTask, Unlogged
<1>16. NoRestarts /\ NoneRecorded => RecordTask(tasks[t], room)'
  BY <1>1, <1>2, <1>5, <1>7, <1>9 DEF HandlerFacts, RecordTask, Logging, clocks, k
<1>17. HandlerFacts(t)'
  BY <1>10, <1>11, <1>12, <1>13, <1>14, <1>15, <1>16 DEF HandlerFacts
<1>18. QED
  BY <1>1, <1>17 DEF HandlerInv

\* The clocks after the verdict, unless the timer's own move ends the game.
LEMMA VerdictClocks ==
    ASSUME OneHandler, RoomInv, SerialInv, HandlerInv, NEW t \in Tasks, AfterAppend(t)
    PROVE  LET k == tasks[t]
               r == WithFreshLog(k)
               ends == k.next.status = "completed" \/ Outgrown(r.moveLog)
           IN  /\ UNCHANGED <<strays, evictions>>
               /\ k.user = Server /\ ends => UNCHANGED <<timer, deadline>>
               /\ ~(k.user = Server /\ ends) =>
                      /\ timer' = deadline' /\ timer' \in {"past", "future"}
                      /\ timer' = "future" => room.state.timerEndsAt = "future"
<1> DEFINE k == tasks[t]
           r == WithFreshLog(k)
<1>1. /\ k.pc = "refreshed" /\ room # NoRoom /\ room.state = k.next
      /\ SoundSnapshot(k.room) /\ SoundState(k.next) /\ SoundSnapshot(room)
      /\ k \in TaskRecord
  BY Known, TaskFacts DEF AfterAppend, At, SerialTask, Logging, WithState, SoundRoom
<1>2. k.read = room /\ WaitTask(k, room)
  BY <1>1 DEF HandlerInv, HandlerFacts, WaitTask
<1>3. r = [k.room EXCEPT !.moveLog = room.moveLog]
  BY <1>1, <1>2 DEF WithFreshLog
<1>4. SoundSnapshot(r) /\ r.state = k.room.state
  BY <1>1, <1>3, LoggedIsSound DEF SoundSnapshot, Snapshot
<1>5. room.state # NoState
  BY <1>1, SoundScore, SentinelAssumption
<1>6. TimerInstant(room) = room.state.timerEndsAt /\ TimerInstant(room) \in {"past", "future"}
  BY <1>1, <1>5, TimerInstantOf
<1>7. TimerInstant(r) \in {"past", "future"}
  BY <1>4, TimerInstantOf
<1>8. k.user = Server => TimerInstant(r) = "past"
  <2>1. k.user = Server => k.room.state # NoState /\ k.room.state.timerEndsAt = "past"
    BY <1>1, <1>2 DEF WaitTask, TimerMoves, Logging
  <2>2. QED
    BY <1>4, <2>1, TimerInstantOf
<1> HIDE DEF k, r
<1>9. /\ k.user = Server =>
            IF k.next.status = "completed" \/ Outgrown(r.moveLog)
            THEN UNCHANGED <<deadline, clocks>> ELSE Schedule(r)
      /\ k.user # Server => Schedule(room)
  BY <1>1, <1>2 DEF AfterAppend, k, r
<1>10. QED
  BY <1>6, <1>7, <1>8, <1>9 DEF Schedule, clocks, k, r

LEMMA AfterAppendKept ==
    ASSUME OneHandler, RoomInv, SerialInv, HandlerInv, NEW t \in Tasks, AfterAppend(t)
    PROVE  HandlerInv'
<1> DEFINE k == tasks[t]
           r == WithFreshLog(k)
           over == k.next.status = "completed"
           stale == Outgrown(r.moveLog) /\ ~over
           z == [k EXCEPT !.pc = "persist", !.room = r, !.read = NoRoom]
           x == tasks'[t]
<1>1. /\ k.pc = "refreshed" /\ room # NoRoom /\ room.state = k.next
      /\ SoundSnapshot(k.room) /\ SoundState(k.next) /\ SoundSnapshot(room)
      /\ k \in TaskRecord /\ \A y \in Tasks : y = t
  BY Known, TaskFacts DEF AfterAppend, At, SerialTask, Logging, WithState, SoundRoom
<1>2. HandlerFacts(t) /\ ClocksOK
  BY Known DEF HandlerInv
<1>3. k.read = room
  BY <1>1, <1>2 DEF HandlerFacts, WaitTask
<1>4. r.moveLog = room.moveLog
  BY <1>1, <1>3 DEF WithFreshLog, SoundSnapshot, Snapshot
<1>5. k.next \in State /\ room.state # NoState
  BY <1>1, SoundScore, SentinelAssumption
<1>6. /\ UNCHANGED <<room, waiting, record, conn, crashes, strays, evictions>>
      /\ k.user = Server /\ (over \/ stale) => UNCHANGED <<timer, deadline>>
      /\ ~(k.user = Server /\ (over \/ stale)) =>
             /\ timer' = deadline' /\ timer' \in {"past", "future"}
             /\ timer' = "future" => room.state.timerEndsAt = "future"
  BY VerdictClocks DEF AfterAppend, budgets
<1>7. WaitingRoomIsListed' /\ LogStaysBounded' /\ PlayersSeated'
  BY <1>2, <1>6 DEF HandlerFacts, WaitingRoomIsListed, LogStaysBounded, PlayersSeated
<1>8. room.state.turnOrder = room.players /\ FinishersSeated(k.next)
  BY <1>1, <1>2, <1>5 DEF HandlerFacts, SeatTask
<1>9. NoRestarts => Numbered(room.moveLog) /\ MovesOf(room) = Len(room.moveLog) + 0
  BY <1>1, <1>2 DEF HandlerFacts, LogTask, Unlogged
<1>10. CASE ~over /\ ~stale /\ Finish(t)
  <2>1. x = Idle
    BY <1>10, Known
  <2>2. BoundTask(tasks[t], room)'
    <3>1. Len(room.moveLog) <= MoveLogCap
      <4>1. Len(room.moveLog) \in Nat /\ MoveLogCap \in Nat
        BY <1>1, RoomAssumption DEF SoundSnapshot, Snapshot
      <4>2. QED
        BY <1>4, <1>10, <4>1 DEF Outgrown
    <3>2. Len(room.moveLog) <= MoveLogCap + crashes
      <4>1. Len(room.moveLog) \in Nat /\ {MoveLogCap, crashes} \subseteq Nat
        BY <1>1, <1>2, RoomAssumption DEF SoundSnapshot, Snapshot, ClocksOK
      <4>2. QED
        BY <3>1, <4>1
    <3>3. QED
      BY <1>6, <2>1, <3>2, IdlePlain DEF BoundTask
  <2>3. WaitTask(tasks[t], room)'
    BY <2>1, IdlePlain DEF WaitTask, TimerMoves, Logging
  <2>4. MovesExist => NoStrays' /\ TimedTask(tasks[t], room)'
    BY <1>2, <1>6, <1>10, <2>1, IdlePlain
    DEF HandlerFacts, NoStrays, TimedTask, ByTimer, Active, Logging
  <2>5. SeatTask(tasks[t], room)'
    BY <1>2, <1>6, <2>1, IdlePlain DEF HandlerFacts, SeatTask, Logging
  <2>6. NoRestarts => LogTask(tasks[t], room)'
    BY <1>6, <1>9, <2>1, IdlePlain DEF LogTask, Unlogged, MovesOf
  <2>7. NoRestarts /\ NoneRecorded => RecordTask(tasks[t], room)'
    BY <1>1, <1>2, <1>6, <1>10, <2>1, IdlePlain DEF HandlerFacts, RecordTask, Completed, Logging
  <2>8. HandlerFacts(t)'
    BY <1>7, <2>2, <2>3, <2>4, <2>5, <2>6, <2>7 DEF HandlerFacts
  <2>9. QED
    BY <1>1, <2>8 DEF HandlerInv
<1>11. CASE over /\ Become(t, z)
  <2>1. x = z
    BY <1>11, Known
  <2>2. x.pc = "persist" /\ x.room = r /\ x.next = k.next
    BY <1>1, <2>1 DEF TaskRecord
  <2> HIDE DEF x, z, r
  <2>3. Ended(room) /\ ~Active(room)
    BY <1>1, <1>5, <1>11 DEF Ended, Active
  <2>4. BoundTask(tasks[t], room)' /\ WaitTask(tasks[t], room)'
    BY <1>6, <2>2, <2>3 DEF BoundTask, WaitTask, TimerMoves, Logging, x
  <2>5. MovesExist => NoStrays' /\ TimedTask(tasks[t], room)'
    BY <1>2, <1>6, <2>2, <2>3 DEF HandlerFacts, NoStrays, TimedTask, ByTimer, Logging, x
  <2>6. SeatTask(tasks[t], room)'
    BY <1>1, <1>6, <1>8, <2>2 DEF SeatTask, Logging, x
  <2>7. NoRestarts => LogTask(tasks[t], room)'
    BY <1>1, <1>4, <1>6, <1>9, <2>2 DEF LogTask, Unlogged, MovesOf, x
  <2>8. NoRestarts /\ NoneRecorded => RecordTask(tasks[t], room)'
    BY <1>2, <1>6, <2>2 DEF HandlerFacts, RecordTask, x
  <2>9. HandlerFacts(t)'
    BY <1>7, <2>4, <2>5, <2>6, <2>7, <2>8 DEF HandlerFacts
  <2>10. QED
    BY <1>1, <2>9 DEF HandlerInv
<1>12. CASE stale /\ SetRoomState(t, r, Stalemated(k.next), "persist")
  <2>1. /\ x.pc = "saveState" /\ x.user = k.user /\ x.room = r /\ x.read = room
        /\ x.next = Stalemated(k.next) /\ x.then = "persist"
    BY <1>1, <1>12, SetsFields
  <2> DEFINE s == Stalemated(k.next)
  <2>2. /\ s.turnOrder = k.next.turnOrder /\ s.finishedPlayers = k.next.finishedPlayers
        /\ s.moveCount = k.next.moveCount /\ s.status = "completed"
    BY <1>5 DEF Stalemated, State
  <2> HIDE DEF s, x, r
  <2>3. FinishersSeated(s)
    BY <1>8, <2>2 DEF FinishersSeated
  <2>4. s.moveCount = MovesOf(room) + 0
    BY <1>1, <1>5, <2>2 DEF MovesOf, State
  <2>5. BoundTask(tasks[t], room)' /\ WaitTask(tasks[t], room)'
    BY <1>6, <2>1 DEF BoundTask, Judging, WaitTask, TimerMoves, Logging, x
  <2>6. MovesExist => NoStrays' /\ TimedTask(tasks[t], room)'
    BY <1>1, <1>2, <1>5, <1>6, <1>12, <2>1, <2>2
    DEF HandlerFacts, NoStrays, TimedTask, ByTimer, Active, Logging, s, x
  <2>7. SeatTask(tasks[t], room)'
    BY <1>1, <1>6, <1>8, <2>1, <2>2, <2>3 DEF SeatTask, Logging, s, x
  <2>8. NoRestarts => LogTask(tasks[t], room)'
    BY <1>1, <1>4, <1>6, <1>9, <2>1, <2>4 DEF LogTask, Unlogged, MovesOf, s, x
  <2>9. NoRestarts /\ NoneRecorded => RecordTask(tasks[t], room)'
    BY <1>1, <1>2, <1>6, <1>12, <2>1 DEF HandlerFacts, RecordTask, Completed, x
  <2>10. HandlerFacts(t)'
    BY <1>7, <2>5, <2>6, <2>7, <2>8, <2>9 DEF HandlerFacts
  <2>11. QED
    BY <1>1, <2>10 DEF HandlerInv
<1>13. QED
  BY <1>10, <1>11, <1>12 DEF AfterAppend

-----------------------------------------------------------------------------
(* The end of a game *)

LEMMA PersistKept ==
    ASSUME OneHandler, RoomInv, SerialInv, HandlerInv, NEW t \in Tasks, Persist(t)
    PROVE  HandlerInv'
<1> DEFINE k == tasks[t]
<1>1. /\ k.pc = "persist" /\ Ended(room) /\ SoundSnapshot(k.room)
      /\ \A x \in Tasks : x = t
  BY Known, TaskFacts DEF Persist, At, SerialTask, WithState
<1>2. HandlerFacts(t) /\ UNCHANGED <<room, waiting, clocks, deadline, conn, crashes>>
  BY DEF HandlerInv, Persist, redis, budgets
<1>3. tasks'[t].pc = "gameOver"
  BY Known, TaskFields DEF Persist
<1>4. WaitingRoomIsListed' /\ LogStaysBounded' /\ PlayersSeated'
  BY <1>2 DEF HandlerFacts, WaitingRoomIsListed, LogStaysBounded, PlayersSeated
<1>5. BoundTask(tasks[t], room)' /\ WaitTask(tasks[t], room)' /\ SeatTask(tasks[t], room)'
  BY <1>1, <1>2, <1>3
  DEF HandlerFacts, BoundTask, WaitTask, SeatTask, TimerMoves, Logging
<1>6. MovesExist => NoStrays' /\ TimedTask(tasks[t], room)'
  <2>1. ~Active(room)
    BY <1>1 DEF Ended, Active
  <2>2. QED
    BY <1>2, <1>3, <2>1 DEF HandlerFacts, NoStrays, TimedTask, ByTimer, Logging, clocks
<1>7. NoRestarts => LogTask(tasks[t], room)'
  BY <1>1, <1>2, <1>3 DEF HandlerFacts, LogTask, Unlogged, MovesOf
<1>8. ASSUME NoRestarts, NoneRecorded
      PROVE  RecordTask(tasks[t], room)'
  <2>1. LogTask(k, room) /\ RecordTask(k, room) /\ FinishersSeated(k.next)
    BY <1>1, <1>2, <1>8 DEF HandlerFacts, SeatTask
  <2>2. record' # NoRecord
    <3>1. /\ \A i, j \in DOMAIN k.room.moveLog :
                 k.room.moveLog[i] = k.room.moveLog[j] => i = j
          /\ FinishedIds(k.next.finishedPlayers)
                 \subseteq {k.next.turnOrder[i] : i \in DOMAIN k.next.turnOrder}
      BY <1>1, <2>1 DEF LogTask, Numbered, FinishersSeated
    <3>2. record = NoRecord => Persistable(k.room, k.next)
      BY <3>1 DEF Persistable
    <3>3. record' = IF Persistable(k.room, k.next)
                    THEN [finishOrder |-> FinishOrder(k.next), moves |-> Len(k.room.moveLog)]
                    ELSE record
      BY DEF Persist
    <3>4. QED
      BY <1>8, <3>2, <3>3 DEF NoneRecorded
  <2>3. QED
    BY <1>2, <1>3, <2>2 DEF RecordTask
<1>9. HandlerFacts(t)'
  BY <1>4, <1>5, <1>6, <1>7, <1>8 DEF HandlerFacts
<1>10. QED
  BY <1>1, <1>9 DEF HandlerInv

LEMMA GameOverKept ==
    ASSUME OneHandler, RoomInv, SerialInv, HandlerInv, NEW t \in Tasks, GameOver(t)
    PROVE  HandlerInv'
<1>1. /\ tasks[t].pc = "gameOver" /\ Ended(room) /\ tasks'[t] = Idle
      /\ ClocksOK /\ \A x \in Tasks : x = t
  BY Known DEF GameOver, At, SerialTask
<1>2. /\ UNCHANGED <<room, waiting, record, conn, strays, crashes>>
      /\ timer' = "none" /\ deadline' = "none" /\ evictions' = evictions + 1
      /\ HandlerFacts(t)
  BY DEF HandlerInv, GameOver, budgets
<1>3. WaitingRoomIsListed' /\ LogStaysBounded' /\ PlayersSeated'
  BY <1>2 DEF HandlerFacts, WaitingRoomIsListed, LogStaysBounded, PlayersSeated
<1>4. BoundTask(tasks[t], room)' /\ WaitTask(tasks[t], room)' /\ SeatTask(tasks[t], room)'
  BY <1>1, <1>2, IdlePlain
  DEF HandlerFacts, BoundTask, WaitTask, SeatTask, TimerMoves, Logging
<1>5. MovesExist => NoStrays' /\ TimedTask(tasks[t], room)'
  <2>1. ~Active(room)
    BY <1>1 DEF Ended, Active
  <2>2. QED
    BY <1>1, <1>2, <2>1, IdlePlain DEF HandlerFacts, NoStrays, TimedTask, ByTimer, Logging
<1>6. NoRestarts => LogTask(tasks[t], room)'
  BY <1>1, <1>2, IdlePlain DEF HandlerFacts, LogTask, Unlogged, MovesOf
<1>7. NoRestarts /\ NoneRecorded => RecordTask(tasks[t], room)'
  <2>1. evictions' > 0
    BY <1>1, <1>2 DEF ClocksOK
  <2>2. QED
    BY <1>1, <1>2, <2>1, IdlePlain DEF HandlerFacts, RecordTask
<1>8. HandlerFacts(t)'
  BY <1>3, <1>4, <1>5, <1>6, <1>7 DEF HandlerFacts
<1>9. QED
  BY <1>1, <1>8 DEF HandlerInv

\* The room goes, by its eviction or by the sweep, and no handler knows it.
LEMMA GoneKept ==
    ASSUME OneHandler, RoomInv, SerialInv, HandlerInv, NEW t \in Tasks,
           tasks[t].pc \in {"idle", "sweep"}, tasks'[t].pc = "idle", room' = NoRoom,
           UNCHANGED <<record, deadline, timer, strays, crashes>>,
           evictions' > 0 => evictions > 0
    PROVE  HandlerInv'
<1>1. HandlerFacts(t) /\ \A x \in Tasks : x = t
  BY Known DEF HandlerInv
<1>2. WaitingRoomIsListed' /\ LogStaysBounded' /\ PlayersSeated'
  BY DEF WaitingRoomIsListed, LogStaysBounded, PlayersSeated
<1>3. BoundTask(tasks[t], room)' /\ WaitTask(tasks[t], room)' /\ SeatTask(tasks[t], room)'
  BY DEF BoundTask, Ended, WaitTask, SeatTask, TimerMoves, Logging
<1>4. MovesExist => NoStrays' /\ TimedTask(tasks[t], room)'
  BY <1>1 DEF HandlerFacts, NoStrays, TimedTask, ByTimer, Active, Logging
<1>5. NoRestarts => LogTask(tasks[t], room)'
  BY DEF LogTask
<1>6. NoRestarts /\ NoneRecorded => RecordTask(tasks[t], room)'
  BY <1>1 DEF HandlerFacts, RecordTask, Completed
<1>7. HandlerFacts(t)'
  BY <1>2, <1>3, <1>4, <1>5, <1>6 DEF HandlerFacts
<1>8. QED
  BY <1>1, <1>7 DEF HandlerInv

LEMMA EvictKept ==
    ASSUME OneHandler, RoomInv, SerialInv, HandlerInv, Evict
    PROVE  HandlerInv'
<1>1. PICK t \in Tasks : tasks[t].pc = "idle"
  BY DEF Evict, At
<1>2. /\ room' = NoRoom /\ UNCHANGED <<record, deadline, tasks, timer, strays, crashes>>
      /\ evictions' > 0 => evictions > 0
  BY DEF Evict, DeleteRoom, budgets
<1>3. QED
  BY <1>1, <1>2, GoneKept

-----------------------------------------------------------------------------
(* The sweep, the tick and the restart *)

LEMMA SweepKept ==
    ASSUME OneHandler, RoomInv, SerialInv, HandlerInv, NEW t \in Tasks, Sweep(t)
    PROVE  HandlerInv'
<1>1. /\ tasks[t].pc = "sweep" /\ tasks[t].room = room /\ tasks'[t] = Idle
      /\ \A x \in Tasks : x = t
  BY Known DEF Sweep, At, SerialTask, Deciding
<1>2. UNCHANGED <<record, deadline, conn, clocks, crashes>> /\ HandlerFacts(t)
  BY DEF HandlerInv, Sweep, budgets
<1>3. CASE (room = NoRoom \/ room.state # NoState) /\ UNCHANGED room
  <2>1. WaitingRoomIsListed' /\ PlayersSeated' /\ WaitTask(tasks[t], room)'
    BY <1>1, <1>2, <1>3, IdlePlain
    DEF HandlerFacts, WaitingRoomIsListed, PlayersSeated, WaitTask, TimerMoves, Logging
  <2>2. Plain(tasks[t]) /\ Clockless(tasks[t])
    BY <1>1 DEF Plain, Clockless, Logging
  <2>3. MovesExist => NoStrays' /\ TimedTask(tasks[t], room)'
    BY <1>1, <1>2, <1>3, <2>2, IdlePlain, ClocklessTimed DEF HandlerFacts, NoStrays, clocks
  <2>4. HandlerFacts(t)'
    BY <1>1, <1>2, <1>3, <2>1, <2>2, <2>3, IdlePlain, PlainStep DEF clocks
  <2>5. QED
    BY <1>1, <2>4 DEF HandlerInv
<1>4. CASE room' = NoRoom
  BY <1>1, <1>2, <1>4, IdlePlain, GoneKept DEF clocks
<1>5. QED
  BY <1>1, <1>3, <1>4 DEF Sweep, DeleteRoom

LEMMA SweepBeginsKept ==
    ASSUME OneHandler, RoomInv, SerialInv, HandlerInv, NEW t \in Tasks,
           \/ SweepRead(t)
           \/ SweepCall /\ tasks[t].pc = "idle" /\ Become(t, Task("listed", Server, NoRoom))
    PROVE  HandlerInv'
<1>1. /\ tasks[t].pc \in {"idle", "listed"} /\ tasks'[t].pc \in {"listed", "sweep"}
      /\ \A x \in Tasks : x = t
  BY Known, TaskFields DEF SweepRead, At
<1>2. UNCHANGED <<room, waiting, record, clocks, deadline, conn, crashes>>
  BY DEF SweepRead, SweepCall, redis, budgets
<1>3. HandlerFacts(t)
  BY DEF HandlerInv
<1>4. /\ Plain(tasks[t]) /\ Clockless(tasks[t]) /\ Plain(tasks'[t]) /\ Clockless(tasks'[t])
      /\ tasks'[t].pc # "resign"
  BY <1>1 DEF Plain, Clockless, Logging
<1>5. PlayersSeated'
  BY <1>2, <1>3 DEF HandlerFacts, PlayersSeated
<1>6. HandlerFacts(t)'
  BY <1>2, <1>3, <1>4, <1>5, QuietStep
<1>7. QED
  BY <1>1, <1>6 DEF HandlerInv

LEMMA TickKept ==
    ASSUME OneHandler, RoomInv, SerialInv, HandlerInv, NEW t \in Tasks, Tick(t)
    PROVE  HandlerInv'
<1>1. /\ tasks[t].pc = "tick" /\ \A x \in Tasks : x = t
      /\ SoundRoom(room) /\ ClocksOK /\ HandlerFacts(t)
  BY Known DEF Tick, At, HandlerInv
<1>2. tasks[t].room = room /\ tasks[t].user = Server
  BY <1>1 DEF HandlerFacts, WaitTask
<1>3. UNCHANGED <<room, waiting, record, conn, evictions, crashes>>
  BY DEF Tick, Rearm, clocks, budgets
<1>4. Active(room) => room.state.timerEndsAt \in {"past", "future"}
  BY <1>1, ActiveIsSound DEF SoundState, State
<1>5. \/ tasks'[t].pc = "idle" /\ (~Active(room) \/ FiredEarly(room))
      \/ /\ tasks'[t].pc = "timeout" /\ tasks'[t].user = Server /\ tasks'[t].room = room
         /\ Active(room) /\ ~FiredEarly(room)
  BY <1>2, Known, TaskFields, UserOf, IdlePlain DEF Tick
<1>6. /\ deadline' = IF Active(room) THEN deadline ELSE "none"
      /\ IF FiredEarly(room) THEN Rearm ELSE UNCHANGED clocks
  BY <1>2 DEF Tick
<1>7. Plain(tasks[t]) /\ Plain(tasks'[t]) /\ tasks'[t].pc # "resign"
  BY <1>1, <1>5 DEF Plain, Logging
<1>8. WaitingRoomIsListed' /\ PlayersSeated'
  BY <1>1, <1>3 DEF HandlerFacts, WaitingRoomIsListed, PlayersSeated
<1>9. WaitTask(tasks[t], room)'
  BY <1>3, <1>4, <1>5 DEF WaitTask, TimerMoves, FiredEarly, Logging
<1>10. ASSUME MovesExist
       PROVE  NoStrays' /\ TimedTask(tasks[t], room)'
  <2>1. /\ NoStrays /\ timer = "none"
        /\ NoRestarts /\ Active(room) => deadline # "none"
    BY <1>1, <1>2, <1>10 DEF HandlerFacts, TimedTask, ByTimer
  <2>2. UNCHANGED strays /\ timer' = IF FiredEarly(room) THEN "future" ELSE "none"
    BY <1>6, <2>1 DEF Rearm, clocks
  <2>3. FiredEarly(room) => Active(room) /\ room.state.timerEndsAt = "future"
    BY DEF FiredEarly
  <2>4. QED
    BY <1>3, <1>5, <1>6, <2>1, <2>2, <2>3
    DEF NoStrays, TimedTask, ByTimer, Logging, Active
<1>11. HandlerFacts(t)'
  BY <1>1, <1>3, <1>7, <1>8, <1>9, <1>10, PlainStep
<1>12. QED
  BY <1>1, <1>11 DEF HandlerInv

LEMMA RecoverKept ==
    ASSUME OneHandler, RoomInv, SerialInv, HandlerInv, NEW t \in Tasks,
           RecoverRead(t) \/ Recover(t)
    PROVE  HandlerInv'
<1>1. HandlerFacts(t) /\ SoundRoom(room) /\ \A x \in Tasks : x = t
  BY Known DEF HandlerInv
<1>2. UNCHANGED <<room, waiting, record, conn, strays, evictions, crashes>>
  BY DEF RecoverRead, Recover, Schedule, redis, clocks, budgets
<1>3. WaitingRoomIsListed' /\ PlayersSeated'
  BY <1>1, <1>2 DEF HandlerFacts, WaitingRoomIsListed, PlayersSeated
<1>4. CASE RecoverRead(t)
  <2>1. /\ tasks[t].pc = "recover" /\ tasks'[t].pc = "recovered" /\ tasks'[t].room = room
        /\ UNCHANGED <<timer, deadline>>
    BY <1>4, Known, TaskFields DEF RecoverRead, At, redis, clocks
  <2>2. Plain(tasks[t]) /\ Plain(tasks'[t]) /\ tasks'[t].pc # "resign"
    BY <2>1 DEF Plain, Logging
  <2>3. WaitTask(tasks[t], room)'
    BY <1>2, <2>1 DEF WaitTask, TimerMoves, Logging
  <2>4. MovesExist => NoStrays' /\ TimedTask(tasks[t], room)'
    BY <1>1, <1>2, <2>1 DEF HandlerFacts, NoStrays, TimedTask, ByTimer, Active, Logging
  <2>5. HandlerFacts(t)'
    BY <1>1, <1>2, <1>3, <2>2, <2>3, <2>4, PlainStep
  <2>6. QED
    BY <1>1, <2>5 DEF HandlerInv
<1>5. CASE Recover(t)
  <2>1. /\ tasks[t].pc = "recovered" /\ tasks'[t] = Idle
    BY <1>5, Known DEF Recover, At
  <2>2. tasks[t].room = room
    BY <1>1, <2>1 DEF HandlerFacts, WaitTask
  <2>3. Active(room) => TimerInstant(room) = room.state.timerEndsAt
                        /\ TimerInstant(room) \in {"past", "future"}
    BY <1>1, ActiveIsSound, TimerInstantOf DEF Active
  <2>4. IF Active(room)
        THEN timer' = TimerInstant(room) /\ deadline' = TimerInstant(room)
        ELSE UNCHANGED timer
    BY <1>5, <2>2 DEF Recover, Schedule, clocks
  <2>5. Plain(tasks[t])
    BY <2>1 DEF Plain, Logging
  <2>6. WaitTask(tasks[t], room)'
    BY <2>1, IdlePlain DEF WaitTask, TimerMoves, Logging
  <2>7. MovesExist => NoStrays' /\ TimedTask(tasks[t], room)'
    BY <1>1, <1>2, <2>1, <2>3, <2>4, IdlePlain
    DEF HandlerFacts, NoStrays, TimedTask, ByTimer, Active, Logging
  <2>8. HandlerFacts(t)'
    BY <1>1, <1>2, <1>3, <2>1, <2>5, <2>6, <2>7, IdlePlain, PlainStep
  <2>9. QED
    BY <1>1, <2>8 DEF HandlerInv
<1>6. QED
  BY <1>4, <1>5

LEMMA CrashKept ==
    ASSUME OneHandler, RoomInv, SerialInv, HandlerInv, NEW t \in Tasks, Crash
    PROVE  HandlerInv'
<1>1. HandlerFacts(t) /\ ClocksOK /\ SoundRoom(room) /\ \A x \in Tasks : x = t
  BY Known DEF HandlerInv
<1>2. /\ UNCHANGED <<room, waiting, deadline, record>> /\ crashes' = crashes + 1
      /\ timer' = "none" /\ strays' = [past |-> 0, future |-> 0] /\ evictions' = 0
      /\ \A u \in Users : conn'[u] = "out"
  BY DEF Crash, redis
<1>3. tasks'[t].pc = IF deadline = "none" THEN "idle" ELSE "recover"
  BY <1>1, TaskFields, IdlePlain DEF Crash
<1>4. ~NoRestarts
  BY <1>1 DEF Crash, NoRestarts, ClocksOK
<1>5. WaitingRoomIsListed' /\ PlayersSeated'
  BY <1>1, <1>2 DEF HandlerFacts, WaitingRoomIsListed, PlayersSeated
<1>6. LogStaysBounded' /\ BoundTask(tasks[t], room)'
  <2>1. room # NoRoom => Len(room.moveLog) \in Nat
    BY <1>1 DEF SoundRoom, SoundSnapshot, Snapshot
  <2>2. {MoveLogCap, crashes} \subseteq Nat
    BY <1>1, RoomAssumption DEF ClocksOK
  <2>3. room # NoRoom => Len(room.moveLog) <= MoveLogCap + crashes'
    BY <1>1, <1>2, <2>1, <2>2 DEF HandlerFacts, LogStaysBounded
  <2>4. QED
    BY <1>2, <1>3, <2>1, <2>2, <2>3 DEF LogStaysBounded, BoundTask, Ended
<1>7. WaitTask(tasks[t], room)'
  BY <1>3 DEF WaitTask, TimerMoves, Logging
<1>8. NoStrays' /\ TimedTask(tasks[t], room)'
  BY <1>2, <1>3, <1>4 DEF NoStrays, TimedTask, ByTimer, Logging
<1>9. SeatTask(tasks[t], room)'
  BY <1>1, <1>2, <1>3 DEF HandlerFacts, SeatTask, Logging
<1>10. HandlerFacts(t)'
  BY <1>4, <1>5, <1>6, <1>7, <1>8, <1>9 DEF HandlerFacts, NoRestarts
<1>11. QED
  BY <1>1, <1>10 DEF HandlerInv

-----------------------------------------------------------------------------
(* Time passes *)

LEMMA AgedStateFields ==
    ASSUME NEW s \in State
    PROVE  LET a == AgedState(s)
           IN  /\ a # NoState /\ a.timerEndsAt = "past" /\ a.status = s.status
               /\ a.turnOrder = s.turnOrder /\ a.moveCount = s.moveCount
               /\ a.finishedPlayers = s.finishedPlayers /\ a.endReason = s.endReason
               /\ FinishersSeated(s) <=> FinishersSeated(a)
<1> DEFINE a == [s EXCEPT !.timerEndsAt = "past"]
<1>1. /\ a \in State /\ a.timerEndsAt = "past" /\ a.status = s.status
      /\ a.turnOrder = s.turnOrder /\ a.moveCount = s.moveCount
      /\ a.finishedPlayers = s.finishedPlayers /\ a.endReason = s.endReason
  BY DEF State
<1>2. AgedState(s) = a
  BY SentinelAssumption DEF AgedState
<1> HIDE DEF a
<1>3. QED
  BY <1>1, <1>2, SentinelAssumption DEF FinishersSeated

LEMMA AgedRoomFields ==
    ASSUME NEW r, SoundRoom(r)
    PROVE  LET a == AgedRoom(r)
           IN  /\ a = NoRoom <=> r = NoRoom
               /\ r # NoRoom => /\ a.players = r.players /\ a.moveLog = r.moveLog
                                /\ a.state = NoState <=> r.state = NoState
                                /\ r.state # NoState => r.state \in State
                                                        /\ a.state = AgedState(r.state)
<1>1. CASE r = NoRoom
  BY <1>1 DEF AgedRoom
<1>2. CASE r # NoRoom
  <2>1. SoundSnapshot(r)
    BY <1>2 DEF SoundRoom
  <2>2. AgedRoom(r) = [r EXCEPT !.state = AgedState(r.state)]
    BY <1>2 DEF AgedRoom
  <2>3. /\ AgedRoom(r).players = r.players /\ AgedRoom(r).moveLog = r.moveLog
    BY <2>1, <2>2 DEF SoundSnapshot, Snapshot
  <2>4. r.state # NoState => r.state \in State
    BY <2>1 DEF SoundSnapshot, Snapshot
  <2>5. QED
    BY <1>2, <2>3, <2>4, AgedFields
<1>3. QED
  BY <1>1, <1>2

LEMMA ElapseKept ==
    ASSUME OneHandler, RoomInv, SerialInv, HandlerInv, NEW t \in Tasks, Elapse
    PROVE  HandlerInv'
<1> DEFINE k == tasks[t]
           x == tasks'[t]
           r == AgedRoom(room)
<1>1. HandlerFacts(t) /\ ClocksOK /\ SoundTasks /\ SoundRoom(room) /\ \A y \in Tasks : y = t
  BY Known DEF HandlerInv
<1>2. /\ room' = r /\ UNCHANGED <<waiting, record, conn, evictions, crashes>>
      /\ deadline' = IF deadline = "none" THEN "none" ELSE "past"
      /\ timer' = IF timer = "none" THEN "none" ELSE "past"
      /\ strays' = [past |-> strays["past"] + strays["future"], future |-> 0]
  BY DEF Elapse, budgets
<1>3. /\ r = NoRoom <=> room = NoRoom
      /\ room # NoRoom => /\ r.players = room.players /\ r.moveLog = room.moveLog
                          /\ r.state = NoState <=> room.state = NoState
  BY <1>1, AgedRoomFields
<1>4. room # NoRoom /\ room.state # NoState =>
          /\ r.state.timerEndsAt = "past" /\ r.state.status = room.state.status
          /\ r.state.turnOrder = room.state.turnOrder
          /\ r.state.moveCount = room.state.moveCount
          /\ FinishersSeated(room.state) <=> FinishersSeated(r.state)
  BY <1>1, AgedRoomFields, AgedStateFields
<1>5. x.pc = k.pc
      /\ (k.pc # "idle" => /\ x.room = AgedRoom(k.room) /\ x.read = AgedRoom(k.read)
                           /\ x.next = AgedState(k.next)
                           /\ x.user = k.user /\ x.then = k.then)
  <2>1. CASE k.pc = "idle"
    BY <2>1, IdlePlain DEF Elapse, At
  <2>2. CASE k.pc # "idle"
    <3>1. k \in TaskRecord
      BY <1>1, <2>2, TaskFacts
    <3>2. x = [k EXCEPT !.room = AgedRoom(@), !.read = AgedRoom(@), !.next = AgedState(@)]
      BY <2>2 DEF Elapse, At
    <3>3. QED
      BY <3>1, <3>2 DEF TaskRecord
  <2>3. QED
    BY <2>1, <2>2
<1>6. k.pc \in WithState =>
          /\ x.room.moveLog = k.room.moveLog
          /\ k.room.state # NoState => x.room.state # NoState /\ x.room.state.timerEndsAt = "past"
          /\ x.room # NoRoom
          /\ x.next.status = k.next.status /\ x.next.turnOrder = k.next.turnOrder
          /\ x.next.moveCount = k.next.moveCount
          /\ FinishersSeated(k.next) => FinishersSeated(x.next)
  <2>1. SUFFICES ASSUME k.pc \in WithState
                 PROVE  /\ x.room.moveLog = k.room.moveLog
                        /\ k.room.state # NoState =>
                               x.room.state # NoState /\ x.room.state.timerEndsAt = "past"
                        /\ x.room # NoRoom
                        /\ x.next.status = k.next.status /\ x.next.turnOrder = k.next.turnOrder
                        /\ x.next.moveCount = k.next.moveCount
                        /\ FinishersSeated(k.next) => FinishersSeated(x.next)
    OBVIOUS
  <2>2. k.pc # "idle"
    BY <2>1 DEF WithState
  <2>3. /\ SoundRoom(k.room) /\ k.room # NoRoom /\ k.next \in State
    BY <1>1, <2>1, <2>2, TaskFacts, SoundScore, SentinelAssumption DEF SoundSnapshot
  <2> HIDE DEF k, x
  <2>4. QED
    BY <1>5, <2>2, <2>3, AgedRoomFields, AgedStateFields
<1>7. Logging \union {"saveState", "started", "persist"} \subseteq WithState
  BY DEF Logging, WithState
<1>8. Active(r) <=> Active(room)
  BY <1>3, <1>4 DEF Active
<1>9. /\ Ended(r) <=> Ended(room)
      /\ Completed(r) <=> Completed(room)
  BY <1>3, <1>4 DEF Ended, Completed
<1> HIDE DEF k, x, r
<1>10. WaitingRoomIsListed' /\ LogStaysBounded' /\ PlayersSeated'
  BY <1>1, <1>2, <1>3
  DEF HandlerFacts, WaitingRoomIsListed, LogStaysBounded, PlayersSeated, Seated
<1>11. BoundTask(tasks[t], room)'
  <2>1. BoundTask(k, room)
    BY <1>1 DEF HandlerFacts, k
  <2>2. Judging(x) <=> Judging(k)
    BY <1>5 DEF Judging
  <2>3. k.pc \in {"append", "saveLog"} => room # NoRoom
    BY <1>1, Known DEF SerialTask, Logging, k
  <2>4. room = NoRoom => Ended(room)
    BY DEF Ended
  <2>5. QED
    BY <1>2, <1>3, <1>5, <1>8, <1>9, <2>1, <2>2, <2>3, <2>4 DEF BoundTask, x
<1>12. WaitTask(tasks[t], room)'
  <2>1. WaitTask(k, room)
    BY <1>1 DEF HandlerFacts, k
  <2>2. TimerMoves(x) => TimerMoves(k) /\ k.pc \in WithState
    BY <1>5, <1>7 DEF TimerMoves, Logging
  <2>3. TimerMoves(x) => x.room # NoRoom /\ x.room.state # NoState
                         /\ x.room.state.timerEndsAt = "past"
    BY <1>6, <2>1, <2>2 DEF WaitTask
  <2>4. x.pc \in {"tick", "recovered", "refreshed"} =>
            r = IF x.pc = "refreshed" THEN x.read ELSE x.room
    BY <1>5, <2>1 DEF WaitTask, r
  <2>5. x.pc = "timeout" /\ Active(r) => r.state.timerEndsAt = "past"
    BY <1>4, <1>8 DEF Active
  <2>6. x.pc = "saveState" /\ TimerMoves(x) =>
            r # NoRoom /\ r.state # NoState /\ r.state.timerEndsAt = "past"
    BY <1>3, <1>4, <1>5, <2>1, <2>2 DEF WaitTask
  <2>7. /\ x.pc \in {"tick", "timeout"} => x.user = Server
        /\ x.pc = "saveState" /\ x.user = Server => x.then \in {"append", "persist"}
    BY <1>5, <2>1 DEF WaitTask
  <2>8. QED
    BY <1>2, <2>3, <2>4, <2>5, <2>6, <2>7 DEF WaitTask, x
<1>13. ASSUME MovesExist
       PROVE  NoStrays' /\ TimedTask(tasks[t], room)'
  <2>1. NoStrays /\ TimedTask(k, room)
    BY <1>1, <1>13 DEF HandlerFacts, k
  <2>2. NoStrays'
    BY <1>2, <2>1 DEF NoStrays
  <2>3. ByTimer(x) => ByTimer(k) /\ k.pc # "idle"
    BY <1>5 DEF ByTimer, Logging
  <2>4. ByTimer(k) => ByTimer(x)
    BY <1>5 DEF ByTimer, Logging
  <2>5. x.pc = "started" => r # NoRoom /\ x.next = r.state
    <3>1. k.pc = "started" => room # NoRoom /\ k.next = room.state /\ SoundState(k.next)
      BY <1>1, <2>1, TaskFacts DEF TimedTask, WithState, k
    <3>2. k.pc = "started" => k.next \in State
      BY <3>1, SoundScore
    <3>3. QED
      BY <1>1, <1>5, <3>1, <3>2, AgedRoomFields, SentinelAssumption DEF r
  <2>6. timer' # "future" /\ (timer = "none" <=> timer' = "none")
        /\ (deadline = "none" <=> deadline' = "none")
    BY <1>2
  <2>7. k.pc = "saveState" => room # NoRoom
    BY <1>1, Known DEF SerialTask, k
  <2>8. QED
    BY <1>2, <1>3, <1>5, <1>8, <2>1, <2>2, <2>3, <2>4, <2>5, <2>6, <2>7 DEF TimedTask, x
<1>14. SeatTask(tasks[t], room)'
  <2>1. SeatTask(k, room)
    BY <1>1 DEF HandlerFacts, k
  <2>2. k.pc = "saveState" => room # NoRoom
    BY <1>1, Known DEF SerialTask, k
  <2>3. QED
    BY <1>2, <1>3, <1>4, <1>5, <1>6, <1>7, <2>1, <2>2 DEF SeatTask, Seated, Logging, x
<1>15. ASSUME NoRestarts
       PROVE  LogTask(tasks[t], room)'
  <2>1. LogTask(k, room)
    BY <1>1, <1>15 DEF HandlerFacts, k
  <2>2. room # NoRoom => MovesOf(r) = MovesOf(room)
    BY <1>3, <1>4 DEF MovesOf
  <2>3. Unlogged(x) = Unlogged(k)
    BY <1>5 DEF Unlogged
  <2>4. k.pc = "saveState" => room # NoRoom
    BY <2>1 DEF LogTask
  <2>5. k.pc \in {"append", "saveLog", "saveState", "persist"} => k.pc \in WithState
    BY DEF WithState
  <2>6. QED
    BY <1>2, <1>3, <1>5, <1>6, <2>1, <2>2, <2>3, <2>4, <2>5 DEF LogTask, x
<1>16. ASSUME NoRestarts, NoneRecorded
       PROVE  RecordTask(tasks[t], room)'
  <2>1. RecordTask(k, room)
    BY <1>1, <1>16 DEF HandlerFacts, k
  <2>2. QED
    BY <1>2, <1>5, <1>6, <1>7, <1>9, <2>1 DEF RecordTask, x
<1>17. HandlerFacts(t)'
  BY <1>10, <1>11, <1>12, <1>13, <1>14, <1>15, <1>16 DEF HandlerFacts
<1>18. QED
  BY <1>1, <1>17 DEF HandlerInv

-----------------------------------------------------------------------------
(* The record beside the room                                              *)

\* Once there is a record its game is over for good: no move is under way, and
\* what a resignation still saves ranks the users as before.  Only a log that
\* has outgrown its cap makes a stalemate.
FitTask(k, r) ==
    /\ record # NoRecord /\ r # NoRoom =>
           /\ Completed(r) /\ record.moves = Len(r.moveLog)
           /\ Len(r.moveLog) <= MoveLogCap => record.finishOrder = FinishOrder(r.state)
    /\ k.pc \in Logging => record = NoRecord
    /\ k.pc = "saveState" /\ record # NoRecord =>
           /\ k.next.status = "completed"
           /\ Len(r.moveLog) <= MoveLogCap => FinishOrder(k.next) = FinishOrder(r.state)
    /\ k.pc = "persist" \/ (k.pc = "saveState" /\ k.then = "persist") =>
           k.room.moveLog = r.moveLog
    /\ k.pc = "persist" => r # NoRoom /\ k.next = r.state
    /\ r # NoRoom /\ r.state # NoState /\ r.state.endReason = "stalemate" =>
           Len(r.moveLog) > MoveLogCap
    /\ k.pc = "saveState" /\ k.next.endReason = "stalemate" => Len(r.moveLog) > MoveLogCap

FitInv == \A t \in Tasks : FitTask(tasks[t], room)

Unwritten(k) == k.pc \notin Logging \union {"saveState", "persist"}

\* A step that leaves the room, or a waiting room that is saved or deleted.
LEMMA StillFits ==
    ASSUME NEW t \in Tasks, FitTask(tasks[t], room), UNCHANGED record, Unwritten(tasks'[t]),
           \/ UNCHANGED room
           \/ room' = NoRoom
           \/ room # NoRoom /\ room.state = NoState /\ room'.state = NoState
    PROVE  FitTask(tasks[t], room)'
  BY DEF FitTask, Unwritten, Completed

LEMMA SetsFit ==
    ASSUME OneHandler, RoomInv, SerialInv, NEW t \in Tasks, tasks[t].pc # "idle",
           FitTask(tasks[t], room), UNCHANGED <<room, record>>,
           NEW x, NEW s, NEW then, SetRoomState(t, x, s, then), x.moveLog = room.moveLog,
           record # NoRecord =>
               /\ s.status = "completed"
               /\ Len(room.moveLog) <= MoveLogCap => FinishOrder(s) = FinishOrder(room.state),
           s.endReason = "stalemate" => Len(room.moveLog) > MoveLogCap
    PROVE  FitTask(tasks[t], room)'
<1>1. /\ tasks'[t].pc = "saveState" /\ tasks'[t].room = x /\ tasks'[t].next = s
      /\ tasks'[t].then = then
  BY SetsFields
<1>2. QED
  BY <1>1 DEF FitTask, Logging

\* Handlers that begin or end, and joins.
LEMMA ClientFits ==
    ASSUME OneHandler, RoomInv, SerialInv, FitInv, NEW t \in Tasks, NEW u \in Users, Client(u)
    PROVE  FitTask(tasks[t], room)'
<1>1. \E pc \in {"join", "watch", "start", "move", "resign"} : Begin(pc, u)
  BY DEF Client, JoinCall, StartCall, MoveCall, ResignCall
<1>2. UNCHANGED <<room, record>>
  BY DEF Client, JoinCall, StartCall, MoveCall, ResignCall, redis
<1>3. tasks'[t].pc \in {"join", "watch", "start", "move", "resign"}
  BY <1>1, Known, TaskFields DEF Begin
<1>4. QED
  BY <1>2, <1>3, StillFits DEF FitInv, Unwritten, Logging

\* A game that starts has no record.
LEMMA StartFits ==
    ASSUME OneHandler, RoomInv, SerialInv, FitInv, NEW t \in Tasks, tasks[t].pc # "idle",
           room # NoRoom, room.state = NoState, UNCHANGED <<room, record>>,
           SetRoomState(t, room, StartState(room.players), "started")
    PROVE  FitTask(tasks[t], room)'
<1>1. record = NoRecord /\ FitTask(tasks[t], room)
  BY DEF FitInv, FitTask, Completed
<1> DEFINE s == StartState(room.players)
<1>2. s.endReason = "none"
  BY DEF StartState
<1> HIDE DEF s
<1>3. SetRoomState(t, room, s, "started")
  BY DEF s
<1>4. QED
  BY <1>1, <1>2, <1>3, SetsFit

LEMMA EntersFit ==
    ASSUME OneHandler, RoomInv, SerialInv, FitInv, NEW t \in Tasks, tasks[t].pc # "idle",
           room # NoRoom, EnterRoom(t, room), UNCHANGED <<room, record>>
    PROVE  FitTask(tasks[t], room)'
<1>1. CASE Finish(t)
  BY <1>1, Known, IdlePlain, StillFits DEF FitInv, Unwritten, Plain
<1>2. CASE room.state = NoState /\ SetRoomState(t, room, StartState(room.players), "started")
  BY <1>2, StartFits
<1>3. QED
  BY <1>1, <1>2 DEF EnterRoom

LEMMA JoinFits ==
    ASSUME OneHandler, RoomInv, SerialInv, FitInv, NEW t \in Tasks, Join(t)
    PROVE  FitTask(tasks[t], room)'
<1> DEFINE joined == [room EXCEPT !.players = Append(room.players, tasks[t].user)]
           k == [tasks[t] EXCEPT !.pc = "seated", !.room = joined]
<1>1. /\ tasks[t].pc \in {"join", "watch"} /\ tasks[t].room = room
      /\ tasks[t] \in TaskRecord /\ SoundRoom(room) /\ FitTask(tasks[t], room)
  BY Known, TaskFacts DEF Join, At, SerialTask, Deciding, FitInv
<1>2. UNCHANGED record
  BY DEF Join
<1>3. CASE Finish(t) /\ UNCHANGED room
  BY <1>1, <1>2, <1>3, Known, IdlePlain, StillFits DEF Unwritten, Plain
<1>4. CASE room # NoRoom /\ room.state = NoState /\ SaveRoom(joined) /\ Become(t, k)
  <2>1. joined.state = NoState
    BY <1>1, <1>4 DEF SoundRoom, SoundSnapshot, Snapshot
  <2>2. tasks'[t] = k /\ k.pc = "seated"
    BY <1>1, <1>4, Known DEF TaskRecord
  <2> HIDE DEF joined, k
  <2>3. QED
    BY <1>1, <1>2, <1>4, <2>1, <2>2, StillFits DEF SaveRoom, Unwritten, Logging
<1>5. CASE room # NoRoom /\ EnterRoom(t, room) /\ UNCHANGED room
  BY <1>1, <1>2, <1>5, EntersFit
<1>6. QED
  BY <1>1, <1>3, <1>4, <1>5 DEF Join

LEMMA StartRequestFits ==
    ASSUME OneHandler, RoomInv, SerialInv, FitInv, NEW t \in Tasks, StartRequest(t)
    PROVE  FitTask(tasks[t], room)'
<1> DEFINE counted == [room EXCEPT !.playerCount = Len(room.players)]
           k == [tasks[t] EXCEPT !.pc = "counted", !.room = counted]
<1>1. /\ tasks[t].pc = "start" /\ tasks[t].room = room
      /\ tasks[t] \in TaskRecord /\ SoundRoom(room) /\ FitTask(tasks[t], room)
  BY Known, TaskFacts DEF StartRequest, At, SerialTask, Deciding, FitInv
<1>2. UNCHANGED record
  BY DEF StartRequest
<1>3. CASE Finish(t) /\ UNCHANGED room
  BY <1>1, <1>2, <1>3, Known, IdlePlain, StillFits DEF Unwritten, Plain
<1>4. CASE room # NoRoom /\ room.state = NoState /\ SaveRoom(counted) /\ Become(t, k)
  <2>1. counted.state = NoState
    BY <1>1, <1>4 DEF SoundRoom, SoundSnapshot, Snapshot
  <2>2. tasks'[t] = k /\ k.pc = "counted"
    BY <1>1, <1>4, Known DEF TaskRecord
  <2> HIDE DEF counted, k
  <2>3. QED
    BY <1>1, <1>2, <1>4, <2>1, <2>2, StillFits DEF SaveRoom, Unwritten, Logging
<1>5. QED
  BY <1>1, <1>3, <1>4 DEF StartRequest

LEMMA StartingFits ==
    ASSUME OneHandler, RoomInv, SerialInv, FitInv, NEW t \in Tasks,
           AfterSeat(t) \/ Started(t) \/ StartCounted(t)
    PROVE  FitTask(tasks[t], room)'
<1>1. UNCHANGED <<room, record>> /\ FitTask(tasks[t], room)
  BY DEF AfterSeat, Started, StartCounted, redis, FitInv
<1>2. CASE Started(t)
  BY <1>1, <1>2, Known, IdlePlain, StillFits DEF Started, Unwritten, Plain
<1>3. ASSUME tasks[t].pc \in Seating
      PROVE  tasks[t].room = room /\ room # NoRoom
  <2>1. SoundSnapshot(tasks[t].room) /\ tasks[t].room = room
    BY <1>3, Known, TaskFacts DEF Seating, SerialTask, Deciding
  <2>2. QED
    BY <2>1, SentinelAssumption DEF SoundSnapshot
<1>4. CASE AfterSeat(t)
  BY <1>1, <1>3, <1>4, EntersFit DEF AfterSeat, At, Seating
<1>5. CASE StartCounted(t)
  <2>1. tasks[t].pc = "counted" /\ room.state = NoState
    BY <1>5, Known DEF StartCounted, At, SerialTask
  <2>2. QED
    BY <1>1, <1>3, <1>5, <2>1, StartFits DEF StartCounted, Seating
<1>6. QED
  BY <1>2, <1>4, <1>5

\* A move of a running game: there is no record yet.
LEMMA MoveFits ==
    ASSUME OneHandler, RoomInv, SerialInv, HandlerInv, FitInv, NEW t \in Tasks,
           MoveAttempt(t) \/ OnTimeout(t)
    PROVE  FitTask(tasks[t], room)'
<1>1. /\ tasks[t].pc \in {"move", "timeout"} /\ tasks[t].room = room
      /\ UNCHANGED <<room, record>> /\ FitTask(tasks[t], room) /\ SoundRoom(room)
  BY Known DEF MoveAttempt, OnTimeout, At, SerialTask, Deciding, redis, FitInv
<1>2. CASE Finish(t)
  BY <1>1, <1>2, Known, IdlePlain, StillFits DEF Unwritten, Plain
<1>3. ASSUME Active(room), NEW won \in BOOLEAN,
             SetRoomState(t, room, Moved(room.state, won), "append")
      PROVE  FitTask(tasks[t], room)'
  <2> DEFINE s == Moved(room.state, won)
  <2>1. SoundState(room.state) /\ room.state.status = "active"
    BY <1>1, <1>3, ActiveIsSound
  <2>2. FinishersSeated(room.state)
    BY <1>3 DEF HandlerInv, HandlerFacts, SeatTask, Active
  <2>3. room.state.endReason # "stalemate" /\ record = NoRecord
    BY <1>1, <1>3, <2>1 DEF SoundState, FitTask, Completed, Active
  <2>4. s.endReason # "stalemate"
    BY <2>1, <2>2, <2>3, MovedFields
  <2> HIDE DEF s
  <2>5. SetRoomState(t, room, s, "append")
    BY <1>3 DEF s
  <2>6. QED
    BY <1>1, <2>3, <2>4, <2>5, SetsFit
<1>4. QED
  BY <1>1, <1>2, <1>3 DEF MoveAttempt, OnTimeout, MayMove

\* A resignation after the end: one user was left, and is ranked last as before.
LEMMA LateResignKeepsOrder ==
    ASSUME NEW s, SoundState(s), s.status = "completed", s.endReason # "stalemate",
           FinishersSeated(s), NEW u \in Users, u \notin FinishedIds(s.finishedPlayers),
           u \in {s.turnOrder[i] : i \in DOMAIN s.turnOrder}
    PROVE  FinishOrder(AfterResign(s, u)) = FinishOrder(s)
           /\ AfterResign(s, u).status = "completed"
<1> DEFINE a == AfterResign(s, u)
<1>1. /\ a.turnOrder = s.turnOrder
      /\ a.finishedPlayers = Append(s.finishedPlayers,
                                    [userId |-> u, finishPos |-> Len(s.turnOrder)])
      /\ a.status = IF IsOver(s, a.finishedPlayers) THEN "completed" ELSE s.status
  BY ResignedFields DEF PlayerCount
<1>2. Rankable(s)
  BY SoundIsRankable DEF FinishersSeated
<1>3. Len(s.finishedPlayers) >= Len(s.turnOrder) - 1
  BY DEF SoundState, IsOver, PlayerCount
<1> HIDE DEF a
<1>4. FinishOrder(a) = FinishOrder(s)
  BY <1>1, <1>2, <1>3, LastRankedLast
<1>5. QED
  BY <1>1, <1>4 DEF a

LEMMA ResignFits ==
    ASSUME OneHandler, RoomInv, SerialInv, HandlerInv, FitInv, NEW t \in Tasks, Resign(t)
    PROVE  FitTask(tasks[t], room)'
<1> DEFINE u == tasks[t].user
           s == AfterResign(room.state, u)
           then == IF IsOver(room.state, s.finishedPlayers) THEN "persist" ELSE "finish"
<1>1. /\ tasks[t].pc = "resign" /\ tasks[t].room = room /\ u \in Users
      /\ SoundRoom(room) /\ HandlerFacts(t) /\ FitTask(tasks[t], room)
      /\ UNCHANGED <<room, record>>
  BY Known, TaskFacts
  DEF Resign, At, SerialTask, Deciding, ByUser, HandlerInv, FitInv, redis
<1>2. CASE Finish(t)
  BY <1>1, <1>2, Known, IdlePlain, StillFits DEF Unwritten, Plain
<1>3. CASE /\ room # NoRoom /\ room.state # NoState /\ SetRoomState(t, room, s, then)
           /\ u \notin FinishedIds(room.state.finishedPlayers)
  <2>1. SoundState(room.state)
    BY <1>1, <1>3 DEF SoundRoom, SoundSnapshot
  <2>2. /\ room.state.turnOrder = room.players /\ FinishersSeated(room.state)
        /\ u \in Seated(room)
    BY <1>1, <1>3 DEF HandlerFacts, SeatTask
  <2>3. u \in {room.state.turnOrder[i] : i \in DOMAIN room.state.turnOrder}
    BY <2>2 DEF Seated
  <2>4. s.endReason = "stalemate" => Len(room.moveLog) > MoveLogCap
    <3>1. s.endReason = "stalemate" => room.state.endReason = "stalemate"
      BY <1>1, <2>1, <2>2, <2>3, ResignedFields
    <3>2. QED
      BY <1>1, <1>3, <3>1 DEF FitTask
  <2>5. record # NoRecord => room.state.status = "completed"
    BY <1>1, <1>3 DEF FitTask, Completed
  <2>6. room.state.endReason # "stalemate" /\ room.state.status = "completed" =>
            FinishOrder(s) = FinishOrder(room.state) /\ s.status = "completed"
    BY <1>1, <1>3, <2>1, <2>2, <2>3, LateResignKeepsOrder
  <2>7. room.state.status = "completed" => s.status = "completed"
    BY <1>1, <2>1, <2>2, <2>3, ResignedFields
  <2>8. room.state.endReason = "stalemate" => Len(room.moveLog) > MoveLogCap
    BY <1>1, <1>3 DEF FitTask
  <2>9. Len(room.moveLog) \in Nat /\ MoveLogCap \in Nat
    BY <1>1, <1>3, RoomAssumption DEF SoundRoom, SoundSnapshot, Snapshot
  <2> HIDE DEF s, then
  <2>10. QED
    BY <1>1, <1>3, <2>4, <2>5, <2>6, <2>7, <2>8, <2>9, SetsFit
<1>4. QED
  BY <1>1, <1>2, <1>3 DEF Resign

LEMMA SaveStateFits ==
    ASSUME OneHandler, RoomInv, SerialInv, HandlerInv, FitInv, NEW t \in Tasks, SaveState(t)
    PROVE  FitTask(tasks[t], room)'
<1> DEFINE k == tasks[t]
           s == k.next
           r == [room EXCEPT !.state = s]
<1>1. /\ k.pc = "saveState" /\ k.read = room /\ room # NoRoom
      /\ k \in TaskRecord /\ SoundState(s) /\ SoundSnapshot(room)
      /\ k.then \in {"finish", "started", "append", "persist"}
  BY Known, TaskFacts DEF SaveState, At, SerialTask, WithState, SoundRoom, TaskRecord
<1>2. FitTask(k, room) /\ BoundTask(k, room)
  BY DEF FitInv, HandlerInv, HandlerFacts
<1>3. s \in State /\ s # NoState
  BY <1>1, SoundScore, SentinelAssumption
<1>4. SoundSnapshot(r) /\ r.state = s /\ r.moveLog = room.moveLog
  BY <1>1, <1>3, StatedIsSound DEF SoundSnapshot, Snapshot
<1>5. room' = r /\ UNCHANGED record
  BY <1>1 DEF SaveState, SaveRoom
<1>6. r # NoRoom
  BY <1>4, SentinelAssumption DEF SoundSnapshot
<1>7. /\ tasks'[t].pc = IF k.then = "finish" THEN "idle" ELSE k.then
      /\ k.then # "finish" => tasks'[t].room = k.room /\ tasks'[t].next = s
  <2>1. k.then = "finish" => tasks'[t].pc = "idle"
    BY <1>1, Known, IdlePlain DEF SaveState
  <2>2. ASSUME k.then # "finish"
        PROVE  tasks'[t] = [k EXCEPT !.pc = k.then, !.read = NoRoom]
    BY <1>1, <2>2, Known DEF SaveState
  <2>3. QED
    BY <1>1, <2>1, <2>2 DEF TaskRecord
<1> HIDE DEF k, s, r
<1>8. record # NoRecord =>
          /\ Completed(r) /\ record.moves = Len(r.moveLog)
          /\ Len(r.moveLog) <= MoveLogCap => record.finishOrder = FinishOrder(r.state)
  BY <1>1, <1>2, <1>3, <1>4, <1>6 DEF FitTask, Completed, s
<1>9. k.then = "append" => record = NoRecord
  BY <1>1, <1>2 DEF BoundTask, FitTask, Active, Completed
<1>10. s.endReason = "stalemate" => Len(r.moveLog) > MoveLogCap
  BY <1>1, <1>2, <1>4 DEF FitTask, s
<1>11. k.then = "persist" => k.room.moveLog = r.moveLog
  BY <1>1, <1>2, <1>4 DEF FitTask
<1>12. QED
  BY <1>1, <1>4, <1>5, <1>6, <1>7, <1>8, <1>9, <1>10, <1>11 DEF FitTask, Logging

\* The log grows only while there is no record.
LEMMA LogFits ==
    ASSUME OneHandler, RoomInv, SerialInv, FitInv, NEW t \in Tasks,
           AppendRead(t) \/ SaveLog(t) \/ Refresh(t)
    PROVE  FitTask(tasks[t], room)'
<1> DEFINE k == tasks[t]
           number == MoveNumber(k.room)
           log == Append(room.moveLog, number)
           r == [room EXCEPT !.moveLog = log]
<1>1. /\ k.pc \in Logging /\ k \in TaskRecord /\ room # NoRoom
      /\ SoundSnapshot(k.room) /\ SoundSnapshot(room)
      /\ k.pc = "saveLog" => k.read = room
  BY Known, TaskFacts
  DEF AppendRead, SaveLog, Refresh, At, SerialTask, Logging, WithState, SoundRoom
<1>2. FitTask(k, room) /\ record = NoRecord /\ UNCHANGED record
  BY <1>1 DEF FitInv, FitTask, AppendRead, SaveLog, Refresh
<1>3. tasks'[t].pc \in Logging
  <2>1. \/ tasks'[t] = [k EXCEPT !.pc = "saveLog", !.read = room]
        \/ tasks'[t] = [k EXCEPT !.pc = "logged", !.read = NoRoom]
        \/ tasks'[t] = [k EXCEPT !.pc = "refreshed", !.read = room]
    BY Known DEF AppendRead, SaveLog, Refresh
  <2>2. QED
    BY <1>1, <2>1 DEF TaskRecord, Logging
<1>4. room' = room \/ room' = r
  BY <1>1 DEF AppendRead, SaveLog, Refresh, SaveRoom, At, redis
<1>5. number \in Nat /\ room.moveLog \in Seq(Nat) /\ Len(room.moveLog) \in Nat
  BY <1>1 DEF MoveNumber, SoundSnapshot, Snapshot
<1>6. Len(log) = Len(room.moveLog) + 1
  BY <1>5
<1>7. r.moveLog = log /\ r.state = room.state
  BY <1>1 DEF SoundSnapshot, Snapshot
<1> HIDE DEF r, log, number, k
<1>8. /\ room' # NoRoom /\ room'.state # NoState /\ room'.state.endReason = "stalemate"
             => Len(room'.moveLog) > MoveLogCap
  <2>1. room.state # NoState /\ room.state.endReason = "stalemate"
            => Len(room.moveLog) > MoveLogCap
    BY <1>1, <1>2 DEF FitTask
  <2>2. MoveLogCap \in Nat
    BY RoomAssumption
  <2>3. CASE room' = room
    BY <2>1, <2>3
  <2>4. CASE room' = r
    BY <1>5, <1>6, <1>7, <2>1, <2>2, <2>4
  <2>5. QED
    BY <1>4, <2>3, <2>4
<1>9. QED
  BY <1>2, <1>3, <1>8 DEF FitTask, Logging

LEMMA VerdictFits ==
    ASSUME OneHandler, RoomInv, SerialInv, HandlerInv, FitInv, NEW t \in Tasks, AfterAppend(t)
    PROVE  FitTask(tasks[t], room)'
<1> DEFINE k == tasks[t]
           r == WithFreshLog(k)
           z == [k EXCEPT !.pc = "persist", !.room = r, !.read = NoRoom]
<1>1. /\ k.pc = "refreshed" /\ room # NoRoom /\ room.state = k.next
      /\ SoundSnapshot(k.room) /\ SoundSnapshot(room) /\ k \in TaskRecord
  BY Known, TaskFacts DEF AfterAppend, At, SerialTask, Logging, WithState, SoundRoom
<1>2. /\ FitTask(k, room) /\ record = NoRecord /\ k.read = room
      /\ UNCHANGED <<room, record>>
  BY <1>1 DEF FitInv, FitTask, HandlerInv, HandlerFacts, WaitTask, AfterAppend, Logging
<1>3. r.moveLog = room.moveLog
  BY <1>1, <1>2 DEF WithFreshLog, SoundSnapshot, Snapshot
<1>4. CASE Finish(t)
  BY <1>2, <1>4, Known, IdlePlain, StillFits DEF Unwritten, Plain
<1>5. CASE Become(t, z)
  <2>1. tasks'[t] = z
    BY <1>5, Known
  <2>2. z.pc = "persist" /\ z.room = r /\ z.next = k.next
    BY <1>1 DEF TaskRecord
  <2> HIDE DEF z, r, k
  <2>3. FitTask(z, room)
    BY <1>1, <1>2, <1>3, <2>2 DEF FitTask, Logging
  <2>4. QED
    BY <1>2, <2>1, <2>3 DEF FitTask
<1>6. CASE Outgrown(r.moveLog) /\ SetRoomState(t, r, Stalemated(k.next), "persist")
  <2> DEFINE s == Stalemated(k.next)
  <2>1. Len(room.moveLog) > MoveLogCap
    BY <1>3, <1>6 DEF Outgrown
  <2> HIDE DEF s, r
  <2>2. SetRoomState(t, r, s, "persist")
    BY <1>6 DEF s
  <2>3. QED
    BY <1>1, <1>2, <1>3, <2>1, <2>2, SetsFit
<1>7. QED
  BY <1>4, <1>5, <1>6 DEF AfterAppend

\* What is recorded is the room's log and the order of its state.
LEMMA PersistFits ==
    ASSUME OneHandler, RoomInv, SerialInv, FitInv, NEW t \in Tasks, Persist(t)
    PROVE  FitTask(tasks[t], room)'
<1> DEFINE k == tasks[t]
<1>1. /\ k.pc = "persist" /\ Ended(room) /\ FitTask(k, room)
      /\ tasks'[t].pc = "gameOver" /\ UNCHANGED room
  BY Known, TaskFields DEF Persist, At, SerialTask, FitInv, redis
<1>2. /\ room # NoRoom /\ Completed(room)
      /\ k.room.moveLog = room.moveLog /\ k.next = room.state
  BY <1>1 DEF FitTask, Ended, Completed
<1>3. CASE UNCHANGED record
  BY <1>1, <1>3, StillFits DEF Unwritten, Logging
<1>4. CASE record' = [finishOrder |-> FinishOrder(k.next), moves |-> Len(k.room.moveLog)]
  <2>1. record'.finishOrder = FinishOrder(room.state) /\ record'.moves = Len(room.moveLog)
    BY <1>2, <1>4
  <2>2. QED
    BY <1>1, <1>2, <2>1 DEF FitTask, Logging, Completed
<1>5. QED
  BY <1>3, <1>4 DEF Persist

\* Time changes neither the log nor who has finished.
LEMMA ElapseFits ==
    ASSUME OneHandler, RoomInv, SerialInv, FitInv, NEW t \in Tasks, Elapse
    PROVE  FitTask(tasks[t], room)'
<1> DEFINE k == tasks[t]
           x == tasks'[t]
           r == AgedRoom(room)
<1>1. /\ FitTask(k, room) /\ SoundTasks /\ SoundRoom(room) /\ SerialTask(k, room)
      /\ room' = r /\ UNCHANGED record
  BY Known DEF FitInv, Elapse
<1>2. /\ r = NoRoom <=> room = NoRoom
      /\ room # NoRoom => /\ r.moveLog = room.moveLog
                          /\ r.state = NoState <=> room.state = NoState
  BY <1>1, AgedRoomFields
<1>3. room # NoRoom /\ room.state # NoState =>
          /\ r.state = AgedState(room.state) /\ r.state.status = room.state.status
          /\ r.state.endReason = room.state.endReason
          /\ FinishOrder(r.state) = FinishOrder(room.state)
  BY <1>1, AgedRoomFields, AgedStateFields, SameFinishOrder
<1>4. x.pc = k.pc
      /\ (k.pc # "idle" => /\ x.room = AgedRoom(k.room) /\ x.next = AgedState(k.next)
                           /\ x.then = k.then)
  <2>1. CASE k.pc = "idle"
    BY <2>1, IdlePlain DEF Elapse, At
  <2>2. CASE k.pc # "idle"
    <3>1. k \in TaskRecord
      BY <1>1, <2>2, TaskFacts
    <3>2. x = [k EXCEPT !.room = AgedRoom(@), !.read = AgedRoom(@), !.next = AgedState(@)]
      BY <2>2 DEF Elapse, At
    <3>3. QED
      BY <3>1, <3>2 DEF TaskRecord
  <2>3. QED
    BY <2>1, <2>2
<1>5. k.pc \in {"saveState", "persist"} =>
          /\ x.room.moveLog = k.room.moveLog /\ k.next # NoState
          /\ x.next = AgedState(k.next)
          /\ x.next.status = k.next.status /\ x.next.endReason = k.next.endReason
          /\ FinishOrder(x.next) = FinishOrder(k.next)
  <2>1. SUFFICES ASSUME k.pc \in {"saveState", "persist"}
                 PROVE  /\ x.room.moveLog = k.room.moveLog /\ k.next # NoState
                        /\ x.next = AgedState(k.next)
                        /\ x.next.status = k.next.status /\ x.next.endReason = k.next.endReason
                        /\ FinishOrder(x.next) = FinishOrder(k.next)
    OBVIOUS
  <2>2. /\ SoundRoom(k.room) /\ k.room # NoRoom /\ k.next \in State
    BY <1>1, <2>1, TaskFacts, SoundScore, SentinelAssumption DEF SoundSnapshot, WithState
  <2> HIDE DEF k, x
  <2>3. x.next = AgedState(k.next) /\ x.room = AgedRoom(k.room)
    BY <1>4, <2>1
  <2>4. QED
    BY <2>2, <2>3, AgedRoomFields, AgedStateFields, SameFinishOrder, SentinelAssumption
<1>6. k.pc = "saveState" => room # NoRoom
  BY <1>1 DEF SerialTask
<1>7. Completed(r) <=> Completed(room)
  BY <1>2, <1>3 DEF Completed
<1> HIDE DEF k, x, r
<1>8. record # NoRecord /\ r # NoRoom =>
           /\ Completed(r) /\ record.moves = Len(r.moveLog)
           /\ Len(r.moveLog) <= MoveLogCap => record.finishOrder = FinishOrder(r.state)
  BY <1>1, <1>2, <1>3, <1>7 DEF FitTask, Completed
<1>9. k.pc = "saveState" /\ record # NoRecord =>
           /\ x.next.status = "completed"
           /\ Len(r.moveLog) <= MoveLogCap => FinishOrder(x.next) = FinishOrder(r.state)
  BY <1>1, <1>2, <1>3, <1>5, <1>6 DEF FitTask, Completed
<1>10. k.pc = "persist" => r # NoRoom /\ x.next = r.state
  BY <1>1, <1>2, <1>3, <1>5 DEF FitTask
<1>11. k.pc = "persist" \/ (k.pc = "saveState" /\ k.then = "persist") =>
           x.room.moveLog = r.moveLog
  BY <1>1, <1>2, <1>5, <1>6 DEF FitTask
<1>12. /\ r # NoRoom /\ r.state # NoState /\ r.state.endReason = "stalemate" =>
              Len(r.moveLog) > MoveLogCap
       /\ k.pc = "saveState" /\ x.next.endReason = "stalemate" => Len(r.moveLog) > MoveLogCap
  BY <1>1, <1>2, <1>3, <1>5, <1>6 DEF FitTask
<1>13. k.pc \in Logging => record = NoRecord
  BY <1>1 DEF FitTask
<1>14. k.pc = "saveState" => x.then = k.then
  BY <1>4
<1>15. QED
  BY <1>1, <1>4, <1>8, <1>9, <1>10, <1>11, <1>12, <1>13, <1>14 DEF FitTask, x

\* The end of a game, the sweep, the timers and the restart write no state.
LEMMA OtherFits ==
    ASSUME OneHandler, RoomInv, SerialInv, FitInv, NEW t \in Tasks,
           \/ GameOver(t) \/ Tick(t) \/ SweepRead(t) \/ Sweep(t)
           \/ RecoverRead(t) \/ Recover(t)
           \/ Evict \/ Fire \/ SweepCall \/ Crash
    PROVE  FitTask(tasks[t], room)'
<1>1. FitTask(tasks[t], room) /\ UNCHANGED record /\ (room' = room \/ room' = NoRoom)
  BY DEF FitInv, GameOver, Tick, SweepRead, Sweep, RecoverRead, Recover, Evict, Fire,
         SweepCall, Crash, DeleteRoom, redis
<1>2. CASE GameOver(t) \/ Tick(t) \/ SweepRead(t) \/ Sweep(t) \/ RecoverRead(t) \/ Recover(t)
  <2>1. tasks'[t].pc \in {"idle", "timeout", "sweep", "recovered"}
    BY <1>2, Known, IdlePlain, TaskFields
    DEF GameOver, Tick, SweepRead, Sweep, RecoverRead, Recover
  <2>2. QED
    BY <1>1, <2>1, StillFits DEF Unwritten, Logging
<1>3. CASE Fire \/ SweepCall \/ Crash
  <2>1. tasks'[t].pc \in {"idle", "tick", "listed", "recover"}
    BY <1>3, Known, IdlePlain, TaskFields DEF Fire, Begin, SweepCall, Crash
  <2>2. QED
    BY <1>1, <2>1, StillFits DEF Unwritten, Logging
<1>4. CASE Evict
  <2>1. tasks'[t].pc = "idle"
    BY <1>4, Known DEF Evict, At
  <2>2. QED
    BY <1>1, <2>1, StillFits DEF Unwritten, Logging
<1>5. QED
  BY <1>2, <1>3, <1>4

LEMMA InitFits == Init => FitInv
<1> SUFFICES ASSUME Init, NEW t \in Tasks PROVE FitTask(tasks[t], room)
  BY DEF FitInv
<1>1. tasks[t].pc = "idle" /\ room.state = NoState /\ record = NoRecord
  BY IdlePlain DEF Init
<1>2. QED
  BY <1>1 DEF FitTask, Logging

LEMMA NextFits ==
    ASSUME OneHandler, RoomInv, SerialInv, HandlerInv, FitInv, [Next]_vars
    PROVE  FitInv'
<1> SUFFICES ASSUME NEW t \in Tasks PROVE FitTask(tasks[t], room)'
  BY DEF FitInv
<1>1. \A x \in Tasks : x = t
  BY DEF OneHandler
<1>2. CASE Step(t)
  BY <1>2, JoinFits, StartRequestFits, StartingFits, MoveFits, LogFits, VerdictFits,
     ResignFits, SaveStateFits, PersistFits, OtherFits DEF Step
<1>3. CASE \E u \in Users : Client(u)
  BY <1>3, ClientFits
<1>4. CASE Evict \/ Elapse \/ Fire \/ SweepCall \/ Crash
  BY <1>4, ElapseFits, OtherFits
<1>5. CASE UNCHANGED vars
  BY <1>5 DEF vars, redis, FitInv, FitTask
<1>6. QED
  BY <1>1, <1>2, <1>3, <1>4, <1>5 DEF Next

-----------------------------------------------------------------------------
(* The theorems *)

LEMMA InitKept == Init => HandlerInv
<1> SUFFICES ASSUME Init, NEW t \in Tasks PROVE HandlerFacts(t)
  BY DEF HandlerInv
<1>1. tasks[t].pc = "idle" /\ Len(room.moveLog) = 0 /\ DOMAIN room.moveLog = {}
  BY IdlePlain DEF Init
<1>2. /\ room.state = NoState /\ waiting = TRUE /\ crashes = 0 /\ evictions = 0
      /\ strays = [past |-> 0, future |-> 0] /\ \A u \in Users : conn[u] = "out"
  BY DEF Init
<1>3. MoveLogCap \in Nat
  BY RoomAssumption
<1>4. LogStaysBounded /\ BoundTask(tasks[t], room)
  BY <1>1, <1>2, <1>3 DEF LogStaysBounded, BoundTask
<1>5. /\ WaitingRoomIsListed /\ WaitTask(tasks[t], room) /\ NoStrays
      /\ TimedTask(tasks[t], room) /\ PlayersSeated /\ SeatTask(tasks[t], room)
  BY <1>1, <1>2 DEF WaitingRoomIsListed, WaitTask, TimerMoves, NoStrays, TimedTask, ByTimer,
                    Active, PlayersSeated, SeatTask, Logging
<1>6. LogTask(tasks[t], room) /\ RecordTask(tasks[t], room)
  BY <1>1, <1>2 DEF LogTask, Numbered, MovesOf, Unlogged, RecordTask, Completed
<1>7. QED
  BY <1>4, <1>5, <1>6 DEF HandlerFacts

LEMMA NextKept ==
    ASSUME OneHandler, RoomInv, SerialInv, HandlerInv, [Next]_vars
    PROVE  HandlerInv'
<1>1. ASSUME NEW t \in Tasks, Step(t) PROVE HandlerInv'
  <2>1. CASE Join(t) \/ AfterSeat(t) \/ Started(t) \/ StartRequest(t) \/ StartCounted(t)
    BY <2>1, JoinKept, SeatKept, StartedKept, StartRequestKept, StartCountedKept
  <2>2. CASE MoveAttempt(t) \/ AppendRead(t) \/ SaveLog(t) \/ Refresh(t) \/ AfterAppend(t)
    BY <2>2, MoveAttemptKept, ReadKept, SaveLogKept, AfterAppendKept
  <2>3. CASE Resign(t) \/ SaveState(t) \/ Persist(t) \/ GameOver(t)
    BY <2>3, ResignKept, SaveStateKept, PersistKept, GameOverKept
  <2>4. CASE Tick(t) \/ OnTimeout(t) \/ SweepRead(t) \/ Sweep(t) \/ RecoverRead(t) \/ Recover(t)
    BY <2>4, TickKept, OnTimeoutKept, SweepBeginsKept, SweepKept, RecoverKept
  <2>5. QED
    BY <1>1, <2>1, <2>2, <2>3, <2>4 DEF Step
<1>2. CASE \E u \in Users : Client(u)
  BY <1>2, ClientKept
<1>3. CASE SweepCall
  BY <1>3, SweepBeginsKept DEF SweepCall, At
<1>4. PICK t \in Tasks : TRUE
  BY RoomAssumption
<1>5. CASE Evict \/ Elapse \/ Fire \/ Crash
  BY <1>4, <1>5, EvictKept, ElapseKept, FireKept, CrashKept
<1>6. CASE UNCHANGED vars
  BY <1>6 DEF vars, redis, clocks, budgets, HandlerInv, HandlerFacts, WaitingRoomIsListed,
    LogStaysBounded, BoundTask, WaitTask, NoStrays, TimedTask, PlayersSeated, SeatTask,
    LogTask, RecordTask
<1>7. QED
  BY <1>1, <1>2, <1>3, <1>5, <1>6 DEF Next

LEMMA AlwaysKept == OneHandler => (Spec => [](RoomInv /\ SerialInv /\ HandlerInv))
<1> SUFFICES ASSUME OneHandler PROVE Spec => [](RoomInv /\ SerialInv /\ HandlerInv)
  OBVIOUS
<1>1. Init => RoomInv /\ SerialInv /\ HandlerInv
  BY InitRoomInv, InitSerial, InitKept
<1>2. RoomInv /\ SerialInv /\ HandlerInv /\ [Next]_vars => (RoomInv /\ SerialInv /\ HandlerInv)'
  BY NextRoomInv, NextSerial, NextKept
<1>3. QED
  BY <1>1, <1>2, PTL DEF Spec
LEMMA QuietFacts ==
    ASSUME HandlerInv
    PROVE  \E t \in Tasks : HandlerFacts(t) /\ (Quiet => tasks[t].pc = "idle")
  BY RoomAssumption DEF HandlerInv, Quiet, At

\* While handlers do not overlap, a waiting room is listed for the sweep, so
\* that an abandoned one is deleted (saveRoom, sweepIdleRooms). A start that a
\* sweep overlaps, and a join that saves what it read before either, leave one
\* that is not listed.
THEOREM WaitingRoomsAreListed == OneHandler => (Spec => []WaitingRoomIsListed)
<1>1. HandlerInv => WaitingRoomIsListed
  BY QuietFacts DEF HandlerFacts
<1>2. QED
  BY <1>1, AlwaysKept, PTL

\* While handlers do not overlap, a socket that is told it plays has a seat, and
\* the game is played by all the players of the room, in the order they came,
\* and finished by no one else (ROOM_JOIN, startGame, applyMoveAndAdvance,
\* ROOM_RESIGN): a room is not lost and filled again, so a seat once taken is
\* kept for as long as the room lives.
THEOREM OnlyPlayersAreLetIn == OneHandler => (Spec => []OnlyPlayersPlay)
<1>1. HandlerInv => OnlyPlayersPlay
  <2> SUFFICES ASSUME HandlerInv, room # NoRoom PROVE OnlyPlayersPlay
    BY DEF OnlyPlayersPlay
  <2>1. PICK t \in Tasks : HandlerFacts(t)
    BY QuietFacts
  <2>2. PlayersSeated /\ SeatTask(tasks[t], room)
    BY <2>1 DEF HandlerFacts
  <2>3. room.state # NoState =>
          room.state.turnOrder = room.players /\ FinishersSeated(room.state)
    BY <2>2 DEF SeatTask
  <2>4. QED
    BY <2>2, <2>3 DEF OnlyPlayersPlay, PlayersSeated, FinishersSeated, Seated
<1>2. QED
  BY <1>1, AlwaysKept, PTL

\* While handlers do not overlap, the log outgrows the cap by the move that ends
\* the game and by one more for each restart that interrupted the verdict on it
\* (appendMove, emitGameOver). Attempts that overlap at the cap append more.
THEOREM LogsStayBounded == OneHandler => (Spec => []LogStaysBounded)
<1>1. HandlerInv => LogStaysBounded
  BY QuietFacts DEF HandlerFacts
<1>2. QED
  BY <1>1, AlwaysKept, PTL

\* While handlers do not overlap, the timer's move replaces a state whose
\* deadline has passed: the look at the clock in tick still holds when onTimeout
\* saves. A move saved between the two makes it stale.
THEOREM TimersWait == OneHandler => (Spec => TimerWaitsForDeadline)
<1> DEFINE Waits ==
        \A t \in Tasks :
            (/\ At(t, "saveState") /\ tasks[t].user = Server /\ tasks[t].then = "append"
             /\ room' # room)
            => room.state # NoState /\ room.state.timerEndsAt = "past"
<1>1. HandlerInv => Waits
  BY DEF HandlerInv, HandlerFacts, WaitTask, TimerMoves, At
<1>2. HandlerInv /\ [Next]_vars => [Waits]_vars
  BY <1>1
<1>3. QED
  BY <1>2, AlwaysKept, PTL DEF TimerWaitsForDeadline, Spec

\* While handlers do not overlap, and across restarts, a running game that
\* turn:deadlines lists has its timer (scheduleTurnTimer, tick,
\* recoverTurnTimers), where the user to move always has a legal move.
THEOREM ListedGamesKeepTimers ==
    OneHandler /\ MovesExist => (Spec => []ListedGamesAreTimed)
<1> SUFFICES ASSUME OneHandler, MovesExist PROVE Spec => []ListedGamesAreTimed
  OBVIOUS
<1>1. HandlerInv => ListedGamesAreTimed
  BY QuietFacts DEF HandlerFacts, TimedTask, ListedGamesAreTimed, Playing, ByTimer, Logging
<1>2. QED
  BY <1>1, AlwaysKept, PTL

\* While handlers do not overlap and as long as the server runs, every running
\* game has exactly one timer, due no later than its turn's deadline, and its
\* entry in turn:deadlines, where the user to move always has a legal move. A
\* timer re-armed beside another handler's is a second one.
THEOREM RunningGamesAreTimed ==
    OneHandler /\ MovesExist /\ NoRestarts => (Spec => []RunningGameIsTimed)
<1> SUFFICES ASSUME OneHandler, MovesExist, NoRestarts PROVE Spec => []RunningGameIsTimed
  OBVIOUS
<1>1. HandlerInv => RunningGameIsTimed
  BY QuietFacts
  DEF HandlerFacts, TimedTask, NoStrays, RunningGameIsTimed, Playing, ByTimer, Logging
<1>2. QED
  BY <1>1, AlwaysKept, PTL

\* While handlers do not overlap and the server runs, the log numbers the
\* applied moves 1, 2, 3, ... and, between handlers, has an entry for each
\* (setRoomState, appendMove). Attempts that overlap repeat a number.
THEOREM LogsFollowGames == OneHandler /\ NoRestarts => (Spec => []LogFollowsGame)
<1> SUFFICES ASSUME OneHandler, NoRestarts PROVE Spec => []LogFollowsGame
  OBVIOUS
<1>1. RoomInv /\ HandlerInv => LogFollowsGame
  <2> SUFFICES ASSUME RoomInv, HandlerInv, room # NoRoom PROVE LogFollowsGame
    BY DEF LogFollowsGame
  <2>1. PICK t \in Tasks : HandlerFacts(t) /\ (Quiet => tasks[t].pc = "idle")
    BY QuietFacts
  <2>2. LogTask(tasks[t], room)
    BY <2>1 DEF HandlerFacts
  <2>3. Len(room.moveLog) \in Nat
    BY RoomTypes DEF RoomInv, SoundRoom, SoundSnapshot, Snapshot
  <2>4. Numbered(room.moveLog) /\ MovesOf(room) = Len(room.moveLog) + Unlogged(tasks[t])
    BY <2>2 DEF LogTask
  <2>5. Quiet => Unlogged(tasks[t]) = 0
    BY <2>1 DEF Unlogged
  <2>6. Quiet /\ room.state # NoState => room.state.moveCount = Len(room.moveLog)
    BY <2>3, <2>4, <2>5 DEF MovesOf
  <2>7. QED
    BY <2>4, <2>6 DEF Numbered, LogFollowsGame
<1>2. QED
  BY <1>1, AlwaysKept, PTL

\* While handlers do not overlap and the server runs, a completed game is
\* persisted before its handler ends and its room waits to be evicted
\* (emitGameOver, persistCompletedGame): the record the handler makes meets the
\* keys of the schema.
THEOREM GamesAreKept ==
    OneHandler /\ NoRestarts /\ NoneRecorded => (Spec => []NoGameIsLost)
<1> SUFFICES ASSUME OneHandler, NoRestarts, NoneRecorded PROVE Spec => []NoGameIsLost
  OBVIOUS
<1>1. RoomInv /\ HandlerInv => NoGameIsLost
  <2> SUFFICES ASSUME RoomInv, HandlerInv, Quiet, Completed(room) PROVE evictions > 0 /\ record # NoRecord
    BY DEF NoGameIsLost, Completed
  <2>1. PICK t \in Tasks : HandlerFacts(t) /\ tasks[t].pc = "idle"
    BY QuietFacts
  <2>2. RecordTask(tasks[t], room)
    BY <2>1 DEF HandlerFacts
  <2>3. evictions # 0
    BY <2>1, <2>2 DEF RecordTask, Logging
  <2>4. evictions \in Nat
    BY DEF RoomInv, ClocksOK
  <2>5. QED
    BY <2>2, <2>3, <2>4 DEF RecordTask
<1>2. QED
  BY <1>1, AlwaysKept, PTL

\* While handlers do not overlap, the record is the game the room shows, across
\* any restarts: every logged move, and the finish order, which no late
\* resignation changes unless the game was a stalemate (persistCompletedGame,
\* the GAME_RESIGN handler).
THEOREM RecordsMatchRooms == OneHandler => (Spec => []RecordMatchesRoom)
<1> SUFFICES ASSUME OneHandler PROVE Spec => []RecordMatchesRoom
  OBVIOUS
<1>1. FitInv => RecordMatchesRoom
  BY RoomAssumption DEF FitInv, FitTask, RecordMatchesRoom
<1>2. Init => FitInv
  BY InitFits
<1>3. (RoomInv /\ SerialInv /\ HandlerInv) /\ FitInv /\ [Next]_vars => FitInv'
  BY NextFits
<1>4. QED
  BY <1>1, <1>2, <1>3, AlwaysKept, PTL DEF Spec

=============================================================================
