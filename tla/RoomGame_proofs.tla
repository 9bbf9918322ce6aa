--------------------------- MODULE RoomGame_proofs ---------------------------
(***************************************************************************)
(* While no two handlers overlap, the room implements the abstract Game,   *)
(* wherever restarts cut a handler.                                        *)
(***************************************************************************)
EXTENDS RoomGame, Room_proofs

OneHandler == \A t, x \in Tasks : t = x

-----------------------------------------------------------------------------
(* Steps of the game *)

MovesTo(g, h) == g.status = "active" /\ \E won \in BOOLEAN : h = AfterMove(g, won)

ResignsTo(g, h) ==
    \E u \in Users : u \notin FinishedIds(g.finishedPlayers) /\ h = AfterResign(g, u)

StalematesTo(g, h) == g.status = "active" /\ h = Stalemated(g)

\* State s may follow what room r holds.
Follows(s, r) ==
    \/ /\ r.state = NoState
       /\ ScoreOfState(s) = NewGame(s.turnOrder)
    \/ /\ r.state # NoState
       /\ LET g == ScoreOfState(r.state)
              h == ScoreOfState(s)
          IN  MovesTo(g, h) \/ ResignsTo(g, h) \/ StalematesTo(g, h)

LEMMA ScoreFields ==
    ASSUME NEW s \in State
    PROVE  /\ ScoreOfState(s) \in Scores
           /\ ScoreOfState(s).turnOrder = s.turnOrder
           /\ ScoreOfState(s).currentTurnIndex = s.currentTurnIndex
           /\ ScoreOfState(s).finishedPlayers = s.finishedPlayers
           /\ ScoreOfState(s).status = s.status
           /\ ScoreOfState(s).endReason = s.endReason
  BY DEF ScoreOfState, Scores, State

\* The seat the turn moves on to depends on the score only.
LEMMA SameNextTurn ==
    ASSUME NEW s \in State, NEW finished
    PROVE  NextTurnIndex(ScoreOfState(s), finished) = NextTurnIndex(s, finished)
<1> DEFINE g == ScoreOfState(s)
<1>1. g.turnOrder = s.turnOrder /\ g.currentTurnIndex = s.currentTurnIndex
  BY ScoreFields
<1> HIDE DEF g
<1>2. OpenSeats(g, finished) = OpenSeats(s, finished) /\ PlayerCount(g) = PlayerCount(s)
  BY <1>1 DEF OpenSeats, PlayerCount
<1>3. \A i : TurnsUntil(g, i) = TurnsUntil(s, i)
  BY <1>1 DEF TurnsUntil, PlayerCount
<1> DEFINE Least(x) == CHOOSE i \in OpenSeats(x, finished) :
                        \A j \in OpenSeats(x, finished) : TurnsUntil(x, i) <= TurnsUntil(x, j)
<1>4. Least(g) = Least(s)
  BY <1>2, <1>3
<1>5. /\ NextTurnIndex(g, finished)
            = IF PlayerCount(g) - Len(finished) > 0 THEN Least(g) ELSE g.currentTurnIndex
      /\ NextTurnIndex(s, finished)
            = IF PlayerCount(s) - Len(finished) > 0 THEN Least(s) ELSE s.currentTurnIndex
  BY DEF NextTurnIndex
<1> HIDE DEF Least
<1>6. QED
  BY <1>1, <1>2, <1>4, <1>5 DEF g

LEMMA MovedScore ==
    ASSUME NEW s \in State, NEW won \in BOOLEAN, Moved(s, won) \in State
    PROVE  ScoreOfState(Moved(s, won)) = AfterMove(ScoreOfState(s), won)
<1> DEFINE g == ScoreOfState(s)
           m == Moved(s, won)
<1>1. /\ g.turnOrder = s.turnOrder /\ g.currentTurnIndex = s.currentTurnIndex
      /\ g.finishedPlayers = s.finishedPlayers /\ g.status = s.status /\ g.endReason = s.endReason
      /\ g \in Scores
  BY ScoreFields
<1>2. FinishedAfter(g, won) = FinishedAfter(s, won)
  BY <1>1 DEF FinishedAfter, CurrentPlayer
<1>3. NextTurnIndex(g, FinishedAfter(s, won)) = NextTurnIndex(s, FinishedAfter(s, won))
  BY SameNextTurn
<1>4. IsOver(g, FinishedAfter(s, won)) <=> IsOver(s, FinishedAfter(s, won))
  BY <1>1 DEF IsOver, PlayerCount
<1> DEFINE f == FinishedAfter(s, won)
           i == NextTurnIndex(s, f)
           st == IF IsOver(s, f) THEN "completed" ELSE s.status
<1>5. AfterMove(g, won) = [g EXCEPT !.finishedPlayers = f, !.currentTurnIndex = i, !.status = st]
  BY <1>1, <1>2, <1>3, <1>4 DEF AfterMove
<1>6. m = [[s EXCEPT !.finishedPlayers = f, !.currentTurnIndex = i, !.status = st]
             EXCEPT !.moveCount = s.moveCount + 1, !.timerEndsAt = "future"]
  BY DEF Moved, AfterMove
<1> HIDE DEF f, i, st, g
<1>7. /\ m.turnOrder = s.turnOrder /\ m.finishedPlayers = f /\ m.currentTurnIndex = i
      /\ m.status = st /\ m.endReason = s.endReason
  BY <1>6 DEF State
<1>8. AfterMove(g, won) = [turnOrder |-> s.turnOrder, currentTurnIndex |-> i,
                           finishedPlayers |-> f, status |-> st, endReason |-> s.endReason]
  BY <1>1, <1>5 DEF Scores
<1>9. QED
  BY <1>7, <1>8 DEF ScoreOfState, g

LEMMA ResignedScore ==
    ASSUME NEW s \in State, NEW u
    PROVE  ScoreOfState(AfterResign(s, u)) = AfterResign(ScoreOfState(s), u)
<1> DEFINE g == ScoreOfState(s)
           f == Append(s.finishedPlayers, [userId |-> u, finishPos |-> PlayerCount(s)])
           over == IsOver(s, f)
<1>1. /\ g.turnOrder = s.turnOrder /\ g.currentTurnIndex = s.currentTurnIndex
      /\ g.finishedPlayers = s.finishedPlayers /\ g.status = s.status /\ g.endReason = s.endReason
      /\ g \in Scores
  BY ScoreFields
<1> HIDE DEF g
<1>2. PlayerCount(g) = PlayerCount(s) /\ (IsOver(g, f) <=> over)
  BY <1>1 DEF IsOver, PlayerCount
<1>3. AfterResign(s, u) = [s EXCEPT !.finishedPlayers = f,
                                    !.status = IF over THEN "completed" ELSE s.status,
                                    !.endReason = IF over THEN "resign" ELSE s.endReason]
  BY DEF AfterResign
<1>4. AfterResign(g, u) = [g EXCEPT !.finishedPlayers = f,
                                    !.status = IF over THEN "completed" ELSE s.status,
                                    !.endReason = IF over THEN "resign" ELSE s.endReason]
  BY <1>1, <1>2 DEF AfterResign
<1> HIDE DEF f, over
<1>5. ScoreOfState(AfterResign(s, u)) =
          [turnOrder |-> s.turnOrder, currentTurnIndex |-> s.currentTurnIndex,
           finishedPlayers |-> f, status |-> IF over THEN "completed" ELSE s.status,
           endReason |-> IF over THEN "resign" ELSE s.endReason]
  BY <1>3 DEF ScoreOfState, State
<1>6. AfterResign(g, u) =
          [turnOrder |-> s.turnOrder, currentTurnIndex |-> s.currentTurnIndex,
           finishedPlayers |-> f, status |-> IF over THEN "completed" ELSE s.status,
           endReason |-> IF over THEN "resign" ELSE s.endReason]
  BY <1>1, <1>4 DEF Scores
<1>7. QED
  BY <1>5, <1>6 DEF g

LEMMA StalematedScore ==
    ASSUME NEW s \in State
    PROVE  ScoreOfState(Stalemated(s)) = Stalemated(ScoreOfState(s))
<1> DEFINE over == [turnOrder |-> s.turnOrder, currentTurnIndex |-> s.currentTurnIndex,
                    finishedPlayers |-> s.finishedPlayers, status |-> "completed",
                    endReason |-> "stalemate"]
<1>1. ScoreOfState(Stalemated(s)) = over
  BY DEF ScoreOfState, Stalemated, State
<1>2. Stalemated(ScoreOfState(s)) = over
  <2> DEFINE g == ScoreOfState(s)
  <2>1. /\ g.turnOrder = s.turnOrder /\ g.currentTurnIndex = s.currentTurnIndex
        /\ g.finishedPlayers = s.finishedPlayers /\ g \in Scores
    BY ScoreFields
  <2> HIDE DEF g
  <2>2. Stalemated(g) = [g EXCEPT !.status = "completed", !.endReason = "stalemate"]
    BY DEF Stalemated
  <2> DEFINE m == [g EXCEPT !.status = "completed", !.endReason = "stalemate"]
  <2>3. /\ m \in Scores /\ m.turnOrder = s.turnOrder /\ m.currentTurnIndex = s.currentTurnIndex
        /\ m.finishedPlayers = s.finishedPlayers
        /\ m.status = "completed" /\ m.endReason = "stalemate"
    BY <2>1 DEF Scores
  <2> HIDE DEF m
  <2>4. m = over
    BY <2>3 DEF Scores
  <2>5. QED
    BY <2>2, <2>4 DEF g, m
<1>3. QED
  BY <1>1, <1>2

LEMMA AgedScore ==
    ASSUME NEW s \in State
    PROVE  AgedState(s) \in State /\ ScoreOfState(AgedState(s)) = ScoreOfState(s)
<1>1. [s EXCEPT !.timerEndsAt = "past"] \in State
  BY DEF State
<1>2. ScoreOfState([s EXCEPT !.timerEndsAt = "past"]) = ScoreOfState(s)
  BY DEF ScoreOfState, State
<1>3. QED
  BY <1>1, <1>2 DEF AgedState

LEMMA StartScore ==
    ASSUME NEW order \in Seq(Users)
    PROVE  /\ ScoreOfState(StartState(order)) = NewGame(order)
           /\ StartState(order).turnOrder = order
  BY DEF ScoreOfState, StartState, NewGame

\* Game has the operators of Scoreboard under names of its own.
LEMMA SameMoves ==
    /\ \A g, won : AbstractGame!AfterMove(g, won) = AfterMove(g, won)
    /\ \A g, u : AbstractGame!AfterResign(g, u) = AfterResign(g, u)
    /\ \A g : AbstractGame!Stalemated(g) = Stalemated(g)
    /\ \A order : AbstractGame!NewGame(order) = NewGame(order)
    /\ \A finished : AbstractGame!FinishedIds(finished) = FinishedIds(finished)
<1>1. /\ \A finished : AbstractGame!FinishedIds(finished) = FinishedIds(finished)
      /\ \A g : AbstractGame!CurrentPlayer(g) = CurrentPlayer(g)
      /\ \A g : AbstractGame!PlayerCount(g) = PlayerCount(g)
      /\ \A g : AbstractGame!Stalemated(g) = Stalemated(g)
      /\ \A order : AbstractGame!NewGame(order) = NewGame(order)
  BY DEF AbstractGame!FinishedIds, FinishedIds, AbstractGame!CurrentPlayer, CurrentPlayer,
         AbstractGame!PlayerCount, PlayerCount, AbstractGame!Stalemated, Stalemated,
         AbstractGame!NewGame, NewGame
<1>2. \A g, f : AbstractGame!IsOver(g, f) <=> IsOver(g, f)
  BY <1>1 DEF AbstractGame!IsOver, IsOver
<1>3. \A g, won : AbstractGame!FinishedAfter(g, won) = FinishedAfter(g, won)
  BY <1>1 DEF AbstractGame!FinishedAfter, FinishedAfter
<1>4. \A g, f : AbstractGame!NextTurnIndex(g, f) = NextTurnIndex(g, f)
  BY DEF AbstractGame!NextTurnIndex, NextTurnIndex, AbstractGame!OpenSeats, OpenSeats,
         AbstractGame!TurnsUntil, TurnsUntil, AbstractGame!PlayerCount, PlayerCount,
         AbstractGame!FinishedIds, FinishedIds
<1>5. \A g, won : AbstractGame!AfterMove(g, won) = AfterMove(g, won)
  BY <1>2, <1>3, <1>4 DEF AbstractGame!AfterMove, AfterMove
<1>6. \A g, u : AbstractGame!AfterResign(g, u) = AfterResign(g, u)
  BY <1>1, <1>2 DEF AbstractGame!AfterResign, AfterResign
<1>7. QED
  BY <1>1, <1>5, <1>6

-----------------------------------------------------------------------------
(* The invariant: what the one handler knows of the room is still so       *)

Deciding == {"join", "watch", "seated", "start", "counted", "move", "resign", "timeout", "sweep"}
Logging  == {"append", "saveLog", "logged", "refreshed"}

Ended(r) == r = NoRoom \/ (r.state # NoState /\ r.state.status = "completed")

\* Handler k beside room r: until it saves a state, r is the room it has read;
\* what it will save follows r; and what it logs or persists has been saved.
SerialTask(k, r) ==
    /\ k.pc \in Deciding => k.room = r
    /\ k.pc = "counted" => r.state = NoState
    /\ k.pc = "saveState" => /\ k.read = r /\ r # NoRoom
                             /\ Follows(k.next, r)
                             /\ k.then = "persist" => k.next.status = "completed"
    /\ k.pc \in Logging => r # NoRoom /\ r.state = k.next
    /\ k.pc = "saveLog" => k.read = r
    /\ k.pc \in {"persist", "gameOver"} => Ended(r)

SerialInv ==
    /\ \A t \in Tasks : SerialTask(tasks[t], room)
    /\ evictions > 0 => Ended(room)

LEMMA IdleIsSerial == \A r : SerialTask(Idle, r)
  BY DEF SerialTask, Idle, Deciding, Logging

LEMMA TaskFields ==
    ASSUME NEW pc, NEW u, NEW r
    PROVE  /\ Task(pc, u, r).pc = pc /\ Task(pc, u, r).room = r
           /\ Task(pc, u, r).read = NoRoom /\ Task(pc, u, r).next = NoState
  BY DEF Task

\* A handler that has just read the room.
LEMMA NewIsSerial ==
    ASSUME NEW pc \in {"join", "watch", "start", "move", "resign", "tick", "timeout",
                       "listed", "sweep", "recover", "recovered"},
           NEW u, NEW r
    PROVE  SerialTask(Task(pc, u, r), r)
  BY TaskFields DEF SerialTask, Deciding, Logging

\* Handlers that are not under way, or know nothing of the room.
LEMMA BlankIsSerial ==
    ASSUME NEW pc \in {"tick", "listed", "recover", "recovered"}, NEW u, NEW x, NEW r
    PROVE  SerialTask(Task(pc, u, x), r)
  BY TaskFields DEF SerialTask, Deciding, Logging

LEMMA BecomesSerial ==
    ASSUME OneHandler, SoundTasks, NEW t \in Tasks, NEW k, Become(t, k), SerialTask(k, room')
    PROVE  \A x \in Tasks : SerialTask(tasks'[x], room')
<1>1. tasks'[t] = k
  BY DEF Become, SoundTasks
<1>2. QED
  BY <1>1 DEF OneHandler

\* A step that leaves the room as it is.
LEMMA StillStep ==
    ASSUME OneHandler, SoundTasks, NEW t \in Tasks, NEW k, Become(t, k),
           UNCHANGED room, SerialTask(k, room), evictions' > 0 => Ended(room)
    PROVE  SerialInv' /\ UNCHANGED Score
<1>1. \A x \in Tasks : SerialTask(tasks'[x], room')
  BY BecomesSerial
<1>2. evictions' > 0 => Ended(room')
  BY DEF Ended
<1>3. UNCHANGED Score
  BY DEF Score, ScoreOfState
<1>4. QED
  BY <1>1, <1>2, <1>3 DEF SerialInv

LEMMA FinishesSerial ==
    ASSUME OneHandler, SoundTasks, NEW t \in Tasks, Finish(t),
           UNCHANGED room, evictions' > 0 => Ended(room)
    PROVE  SerialInv' /\ UNCHANGED Score
<1>1. Become(t, Idle)
  BY DEF Finish, Become
<1>2. QED
  BY <1>1, StillStep, IdleIsSerial

\* A handler that goes on to save a state which follows the room.
LEMMA SetsSerial ==
    ASSUME OneHandler, SoundTasks, NEW t \in Tasks, tasks[t].pc # "idle",
           UNCHANGED room, evictions' > 0 => Ended(room),
           NEW r, NEW s, NEW then, SetRoomState(t, r, s, then),
           room # NoRoom, Follows(s, room), then = "persist" => s.status = "completed"
    PROVE  SerialInv' /\ UNCHANGED Score
<1> DEFINE k == [tasks[t] EXCEPT !.pc = "saveState", !.room = r, !.read = room,
                                 !.next = s, !.then = then]
<1>1. tasks[t] \in TaskRecord
  BY TaskFacts
<1>2. k.pc = "saveState" /\ k.read = room /\ k.next = s /\ k.then = then
  BY <1>1 DEF TaskRecord
<1>3. Become(t, k)
  BY DEF SetRoomState
<1> HIDE DEF k
<1>4. SerialTask(k, room)
  BY <1>2 DEF SerialTask, Deciding, Logging
<1>5. QED
  BY <1>3, <1>4, StillStep

-----------------------------------------------------------------------------
(* Joining and starting *)

LEMMA EntersSerial ==
    ASSUME OneHandler, RoomInv, NEW t \in Tasks, tasks[t].pc \in {"join", "watch", "seated"},
           UNCHANGED room, evictions' > 0 => Ended(room),
           room # NoRoom, EnterRoom(t, room)
    PROVE  SerialInv' /\ UNCHANGED Score
<1>1. SoundTasks /\ SoundSnapshot(room)
  BY DEF RoomInv, SoundRoom
<1>2. CASE Finish(t)
  BY <1>1, <1>2, FinishesSerial
<1>3. CASE room.state = NoState /\ SetRoomState(t, room, StartState(room.players), "started")
  <2>1. room.players \in Seq(Users)
    BY <1>1 DEF SoundSnapshot, Snapshot
  <2>2. Follows(StartState(room.players), room)
    BY <1>3, <2>1, StartScore DEF Follows
  <2>3. QED
    BY <1>1, <1>3, <2>2, SetsSerial
<1>4. QED
  BY <1>2, <1>3 DEF EnterRoom

LEMMA JoinSerial ==
    ASSUME OneHandler, RoomInv, SerialInv, NEW t \in Tasks, Join(t)
    PROVE  SerialInv' /\ UNCHANGED Score
<1> DEFINE joined == [room EXCEPT !.players = Append(room.players, tasks[t].user)]
           k == [tasks[t] EXCEPT !.pc = "seated", !.room = joined]
<1>1. SoundTasks /\ SoundRoom(room) /\ tasks[t].room = room /\ tasks[t].pc \in {"join", "watch"}
  BY DEF RoomInv, SerialInv, SerialTask, Join, At, Deciding
<1>2. evictions' = evictions /\ (evictions > 0 => Ended(room))
  BY DEF Join, clocks, SerialInv
<1>3. CASE room = NoRoom
  BY <1>1, <1>2, <1>3, FinishesSerial DEF Join
<1>4. CASE room # NoRoom /\ EnterRoom(t, room) /\ UNCHANGED room
  BY <1>1, <1>2, <1>4, EntersSerial
<1>5. CASE /\ room # NoRoom /\ room.state = NoState
           /\ tasks[t].user \notin Seated(room) /\ tasks[t].pc = "join"
           /\ SaveRoom(joined) /\ Become(t, k)
  <2>1. SoundSnapshot(room) /\ tasks[t] \in TaskRecord /\ tasks[t].user \in Users
    BY <1>1, <1>5, TaskFacts DEF SoundRoom, ByUser
  <2>2. SoundSnapshot(joined)
    BY <1>5, <2>1, JoinedIsSound
  <2>3. joined \in Snapshot /\ joined # NoRoom /\ joined.state = NoState
    BY <1>5, <2>1, <2>2, SentinelAssumption DEF SoundSnapshot, Snapshot
  <2>4. k.pc = "seated" /\ k.room = joined
    BY <2>1 DEF TaskRecord
  <2>5. room' = joined
    BY <1>5 DEF SaveRoom
  <2> HIDE DEF k, joined
  <2>6. SerialTask(k, room')
    BY <2>4, <2>5 DEF SerialTask, Deciding, Logging
  <2>7. \A x \in Tasks : SerialTask(tasks'[x], room')
    BY <1>1, <1>5, <2>6, BecomesSerial
  <2>8. evictions' = 0 \/ ~(evictions' > 0)
    BY <1>2, <1>5 DEF Ended
  <2>9. UNCHANGED Score
    BY <1>5, <2>3, <2>5 DEF Score
  <2>10. QED
    BY <2>7, <2>8, <2>9 DEF SerialInv
<1>6. QED
  BY <1>1, <1>3, <1>4, <1>5 DEF Join, At

LEMMA SeatSerial ==
    ASSUME OneHandler, RoomInv, SerialInv, NEW t \in Tasks, AfterSeat(t)
    PROVE  SerialInv' /\ UNCHANGED Score
<1>1. tasks[t].pc = "seated" /\ tasks[t].room = room /\ EnterRoom(t, room) /\ UNCHANGED room
  BY DEF SerialInv, SerialTask, AfterSeat, At, Deciding, redis
<1>2. evictions' > 0 => Ended(room)
  BY DEF AfterSeat, clocks, SerialInv
<1>3. room # NoRoom
  <2>1. SoundSnapshot(room)
    BY <1>1, TaskFacts DEF RoomInv, Seating
  <2>2. QED
    BY <2>1, SentinelAssumption DEF SoundSnapshot
<1>4. QED
  BY <1>1, <1>2, <1>3, EntersSerial

LEMMA StartSerial ==
    ASSUME OneHandler, RoomInv, SerialInv, NEW t \in Tasks,
           StartRequest(t) \/ StartCounted(t) \/ Started(t)
    PROVE  SerialInv' /\ UNCHANGED Score
<1>1. SoundTasks /\ SoundRoom(room)
  BY DEF RoomInv
<1>2. evictions' = evictions /\ (evictions > 0 => Ended(room))
  BY DEF StartRequest, StartCounted, Started, Schedule, clocks, SerialInv
<1>3. CASE StartRequest(t)
  <2> DEFINE counted == [room EXCEPT !.playerCount = Len(room.players)]
             k == [tasks[t] EXCEPT !.pc = "counted", !.room = counted]
  <2>1. tasks[t].pc = "start" /\ tasks[t].room = room
    BY <1>3 DEF StartRequest, At, SerialInv, SerialTask, Deciding
  <2>2. CASE Finish(t) /\ UNCHANGED room
    BY <1>1, <1>2, <2>2, FinishesSerial
  <2>3. CASE /\ room # NoRoom /\ room.state = NoState /\ MayStartWith(Len(room.players))
             /\ SaveRoom(counted) /\ Become(t, k)
    <3>1. SoundSnapshot(room) /\ tasks[t] \in TaskRecord
      BY <1>1, <2>1, <2>3, TaskFacts DEF SoundRoom
    <3>2. Len(room.players) \in Counts
      BY <2>3 DEF MayStartWith, Counts
    <3>3. SoundSnapshot(counted)
      BY <3>1, <3>2, CountedIsSound
    <3>4. counted # NoRoom /\ counted.state = NoState
      BY <2>3, <3>1, <3>3, SentinelAssumption DEF SoundSnapshot, Snapshot
    <3>5. k.pc = "counted" /\ k.room = counted /\ room' = counted
      BY <2>3, <3>1 DEF TaskRecord, SaveRoom
    <3> HIDE DEF k, counted
    <3>6. SerialTask(k, room')
      BY <3>4, <3>5 DEF SerialTask, Deciding, Logging
    <3>7. \A x \in Tasks : SerialTask(tasks'[x], room')
      BY <1>1, <2>3, <3>6, BecomesSerial
    <3>8. ~(evictions' > 0)
      BY <1>2, <2>3 DEF Ended
    <3>9. UNCHANGED Score
      BY <2>3, <3>4, <3>5 DEF Score
    <3>10. QED
      BY <3>7, <3>8, <3>9 DEF SerialInv
  <2>4. QED
    BY <1>3, <2>1, <2>2, <2>3 DEF StartRequest
<1>4. CASE StartCounted(t)
  <2>1. tasks[t].pc = "counted" /\ tasks[t].room = room /\ room.state = NoState /\ UNCHANGED room
    BY <1>4 DEF StartCounted, At, SerialInv, SerialTask, Deciding, redis
  <2>2. SoundSnapshot(room)
    BY <1>1, <2>1, TaskFacts DEF Seating
  <2>3. room # NoRoom /\ room.players \in Seq(Users)
    BY <2>2, SentinelAssumption DEF SoundSnapshot, Snapshot
  <2>4. Follows(StartState(room.players), room)
    BY <2>1, <2>3, StartScore DEF Follows
  <2>5. SetRoomState(t, room, StartState(room.players), "started")
    BY <1>4, <2>1 DEF StartCounted
  <2>6. QED
    BY <1>1, <1>2, <2>1, <2>3, <2>4, <2>5, SetsSerial
<1>5. CASE Started(t)
  BY <1>1, <1>2, <1>5, FinishesSerial DEF Started
<1>6. QED
  BY <1>3, <1>4, <1>5

-----------------------------------------------------------------------------
(* Moves and resignations *)

\* A move of the game under way follows what the room holds.
LEMMA MoveFollows ==
    ASSUME NEW r, SoundRoom(r), Active(r), NEW won \in BOOLEAN
    PROVE  r # NoRoom /\ Follows(Moved(r.state, won), r)
<1>1. /\ SoundSnapshot(r) /\ SoundState(r.state) /\ r.state.status = "active"
      /\ r # NoRoom /\ r.state # NoState
  BY ActiveIsSound DEF Active
<1>2. r.state \in State /\ Moved(r.state, won) \in State
  BY <1>1, MovedIsSound, SoundScore
<1>3. ScoreOfState(Moved(r.state, won)) = AfterMove(ScoreOfState(r.state), won)
  BY <1>2, MovedScore
<1>4. ScoreOfState(r.state).status = "active"
  BY <1>1, <1>2, ScoreFields
<1>5. QED
  BY <1>1, <1>3, <1>4 DEF Follows, MovesTo

LEMMA MoveSerial ==
    ASSUME OneHandler, RoomInv, SerialInv, NEW t \in Tasks, MoveAttempt(t) \/ OnTimeout(t)
    PROVE  SerialInv' /\ UNCHANGED Score
<1>1. /\ SoundTasks /\ SoundRoom(room) /\ UNCHANGED room
      /\ evictions' > 0 => Ended(room)
      /\ tasks[t].room = room /\ tasks[t].pc # "idle"
  BY DEF RoomInv, SerialInv, SerialTask, MoveAttempt, OnTimeout, At, Deciding, redis, clocks
<1>2. CASE Finish(t)
  BY <1>1, <1>2, FinishesSerial
<1>3. CASE /\ Active(room)
           /\ \E won \in BOOLEAN : SetRoomState(t, room, Moved(room.state, won), "append")
  <2>1. PICK won \in BOOLEAN : SetRoomState(t, room, Moved(room.state, won), "append")
    BY <1>3
  <2>2. room # NoRoom /\ Follows(Moved(room.state, won), room)
    BY <1>1, <1>3, MoveFollows
  <2>3. QED
    BY <1>1, <2>1, <2>2, SetsSerial
<1>4. QED
  BY <1>1, <1>2, <1>3 DEF MoveAttempt, OnTimeout, MayMove

LEMMA ResignSerial ==
    ASSUME OneHandler, RoomInv, SerialInv, NEW t \in Tasks, Resign(t)
    PROVE  SerialInv' /\ UNCHANGED Score
<1> DEFINE u == tasks[t].user
           resigned == AfterResign(room.state, u)
           then == IF IsOver(room.state, resigned.finishedPlayers) THEN "persist" ELSE "finish"
<1>1. /\ SoundTasks /\ SoundRoom(room) /\ UNCHANGED room
      /\ evictions' > 0 => Ended(room)
      /\ tasks[t].room = room /\ tasks[t].pc = "resign"
  BY DEF RoomInv, SerialInv, SerialTask, Resign, At, Deciding, redis, clocks
<1>2. CASE Finish(t)
  BY <1>1, <1>2, FinishesSerial
<1>3. CASE /\ room # NoRoom /\ room.state # NoState
           /\ u \notin FinishedIds(room.state.finishedPlayers)
           /\ SetRoomState(t, room, resigned, then)
  <2>1. SoundState(room.state) /\ u \in Users
    BY <1>1, <1>3, TaskFacts DEF SoundRoom, SoundSnapshot, ByUser
  <2>2. room.state \in State /\ resigned \in State
    BY <1>3, <2>1, ResignedIsSound, SoundScore
  <2>3. ScoreOfState(resigned) = AfterResign(ScoreOfState(room.state), u)
    BY <2>2, ResignedScore
  <2>4. Follows(resigned, room)
    BY <1>3, <2>1, <2>2, <2>3, ScoreFields DEF Follows, ResignsTo
  <2>5. then = "persist" => resigned.status = "completed"
    <3> DEFINE after == Append(room.state.finishedPlayers,
                               [userId |-> u, finishPos |-> PlayerCount(room.state)])
    <3>1. /\ resigned.finishedPlayers = after
          /\ resigned.status = IF IsOver(room.state, after) THEN "completed"
                                                            ELSE room.state.status
      BY <2>2 DEF AfterResign, State
    <3>2. QED
      BY <3>1
  <2> HIDE DEF resigned, then
  <2>6. QED
    BY <1>1, <1>3, <2>4, <2>5, SetsSerial
<1>4. QED
  BY <1>1, <1>2, <1>3 DEF Resign

-----------------------------------------------------------------------------
(* After the save of a move *)

\* A handler that goes on, with the state it has saved, to log the move.
LEMMA LogsSerial ==
    ASSUME OneHandler, RoomInv, SerialInv, NEW t \in Tasks,
           tasks[t].pc \in Logging, NEW pc \in Logging, NEW x,
           pc = "saveLog" => x = room,
           UNCHANGED room, evictions' = evictions,
           Become(t, [tasks[t] EXCEPT !.pc = pc, !.read = x])
    PROVE  SerialInv' /\ UNCHANGED Score
<1> DEFINE k == [tasks[t] EXCEPT !.pc = pc, !.read = x]
<1>1. tasks[t] \in TaskRecord /\ SoundTasks
  BY TaskFacts DEF RoomInv, Logging
<1>2. k.pc = pc /\ k.read = x /\ k.next = tasks[t].next
  BY <1>1 DEF TaskRecord
<1>3. room # NoRoom /\ room.state = tasks[t].next /\ (evictions > 0 => Ended(room))
  BY DEF SerialInv, SerialTask
<1> HIDE DEF k
<1>4. SerialTask(k, room)
  BY <1>2, <1>3 DEF SerialTask, Deciding, Logging
<1>5. QED
  BY <1>1, <1>3, <1>4, StillStep DEF k

LEMMA ReadSerial ==
    ASSUME OneHandler, RoomInv, SerialInv, NEW t \in Tasks, AppendRead(t) \/ Refresh(t)
    PROVE  SerialInv' /\ UNCHANGED Score
<1>1. UNCHANGED room /\ evictions' = evictions
  BY DEF AppendRead, Refresh, redis, clocks
<1>2. CASE AppendRead(t)
  BY <1>1, <1>2, LogsSerial DEF AppendRead, At, Logging
<1>3. CASE Refresh(t)
  BY <1>1, <1>3, LogsSerial DEF Refresh, At, Logging
<1>4. QED
  BY <1>2, <1>3

LEMMA SaveLogSerial ==
    ASSUME OneHandler, RoomInv, SerialInv, NEW t \in Tasks, SaveLog(t)
    PROVE  SerialInv' /\ UNCHANGED Score
<1> DEFINE log == Append(room.moveLog, MoveNumber(tasks[t].room))
           r == [room EXCEPT !.moveLog = log]
           k == [tasks[t] EXCEPT !.pc = "logged", !.read = NoRoom]
<1>1. /\ tasks[t].pc = "saveLog" /\ tasks[t].read = room
      /\ room # NoRoom /\ room.state = tasks[t].next
  BY DEF SaveLog, At, SerialInv, SerialTask, Logging
<1>2. SoundTasks /\ tasks[t] \in TaskRecord /\ SoundSnapshot(room) /\ SoundSnapshot(tasks[t].room)
  BY <1>1, TaskFacts DEF RoomInv, SoundRoom, WithState
<1>3. room' = r /\ Become(t, k)
  BY <1>1 DEF SaveLog, SaveRoom
<1>4. log \in Seq(Nat)
  BY <1>2 DEF MoveNumber, SoundSnapshot, Snapshot
<1>5. SoundSnapshot(r) /\ r.state = room.state
  <2> HIDE DEF log
  <2>1. QED
    BY <1>2, <1>4, LoggedIsSound DEF SoundSnapshot, Snapshot
<1>6. k.pc = "logged" /\ k.next = tasks[t].next
  BY <1>2 DEF TaskRecord
<1> HIDE DEF r, k
<1>7. r # NoRoom
  BY <1>5, SentinelAssumption DEF SoundSnapshot
<1>8. SerialTask(k, room')
  BY <1>1, <1>3, <1>5, <1>6, <1>7 DEF SerialTask, Deciding, Logging
<1>9. \A x \in Tasks : SerialTask(tasks'[x], room')
  BY <1>2, <1>3, <1>8, BecomesSerial
<1>10. evictions' > 0 => Ended(room')
  BY <1>1, <1>3, <1>5 DEF SaveLog, SerialInv, Ended, clocks
<1>11. UNCHANGED Score
  BY <1>1, <1>3, <1>5, <1>7 DEF Score
<1>12. QED
  BY <1>9, <1>10, <1>11 DEF SerialInv

LEMMA AppendSerial ==
    ASSUME OneHandler, RoomInv, SerialInv, NEW t \in Tasks, AfterAppend(t)
    PROVE  SerialInv' /\ UNCHANGED Score
<1> DEFINE task == tasks[t]
           r == WithFreshLog(task)
           over == task.next.status = "completed"
           k == [task EXCEPT !.pc = "persist", !.room = r, !.read = NoRoom]
<1>1. /\ task.pc = "refreshed" /\ room # NoRoom /\ room.state = task.next
      /\ evictions > 0 => Ended(room)
  BY DEF AfterAppend, At, SerialInv, SerialTask, Logging
<1>2. SoundTasks /\ task \in TaskRecord /\ SoundState(task.next)
  BY <1>1, TaskFacts DEF RoomInv, WithState
<1>3. task.next \in State /\ room.state # NoState
  BY <1>1, <1>2, SoundScore, SentinelAssumption
<1>4. UNCHANGED room /\ (evictions' > 0 => Ended(room))
  BY <1>1 DEF AfterAppend, Schedule, clocks
<1>5. CASE Finish(t)
  BY <1>2, <1>4, <1>5, FinishesSerial
<1>6. CASE over /\ Become(t, k)
  <2>1. k.pc = "persist"
    BY <1>2 DEF TaskRecord
  <2> HIDE DEF k
  <2>2. Ended(room)
    BY <1>1, <1>3, <1>6 DEF Ended
  <2>3. SerialTask(k, room)
    BY <2>1, <2>2 DEF SerialTask, Deciding, Logging
  <2>4. QED
    BY <1>2, <1>4, <1>6, <2>3, StillStep
<1>7. CASE ~over /\ SetRoomState(t, r, Stalemated(task.next), "persist")
  <2>1. task.next.status = "active"
    BY <1>3, <1>7 DEF State
  <2>2. /\ ScoreOfState(Stalemated(task.next)) = Stalemated(ScoreOfState(task.next))
        /\ ScoreOfState(task.next).status = "active"
    BY <1>3, <2>1, StalematedScore, ScoreFields
  <2>3. Follows(Stalemated(task.next), room)
    BY <1>1, <1>3, <2>2 DEF Follows, StalematesTo
  <2>4. Stalemated(task.next).status = "completed"
    BY <1>3 DEF Stalemated, State
  <2> HIDE DEF r
  <2>5. QED
    BY <1>1, <1>2, <1>4, <1>7, <2>3, <2>4, SetsSerial
<1>8. QED
  BY <1>5, <1>6, <1>7 DEF AfterAppend

-----------------------------------------------------------------------------
(* The end of a game *)

LEMMA PersistSerial ==
    ASSUME OneHandler, RoomInv, SerialInv, NEW t \in Tasks, Persist(t) \/ GameOver(t)
    PROVE  SerialInv' /\ UNCHANGED Score
<1>1. SoundTasks /\ UNCHANGED room /\ Ended(room)
  BY DEF RoomInv, SerialInv, SerialTask, Persist, GameOver, At, redis
<1>2. CASE Persist(t)
  <2>1. SerialTask(Task("gameOver", Server, NoRoom), room)
    BY <1>1, TaskFields DEF SerialTask, Deciding, Logging
  <2>2. QED
    BY <1>1, <1>2, <2>1, StillStep DEF Persist
<1>3. CASE GameOver(t)
  BY <1>1, <1>3, FinishesSerial DEF GameOver
<1>4. QED
  BY <1>2, <1>3

-----------------------------------------------------------------------------
(* The two steps that the game sees: a save and the eviction *)

\* What follows a state is a step of the game.
LEMMA FollowsIsStep ==
    ASSUME SoundRoom(room), room # NoRoom, NEW s, SoundState(s), Follows(s, room),
           Score' = ScoreOfState(s)
    PROVE  AbstractGame!Next
<1>1. s \in State /\ SoundSnapshot(room)
  BY SoundScore DEF SoundRoom
<1>2. CASE room.state = NoState
  <2>1. Score = NoGame
    BY <1>2 DEF Score
  <2>2. ScoreOfState(s) = NewGame(s.turnOrder)
    BY <1>2 DEF Follows
  <2>3. s.turnOrder \in AbstractGame!TurnOrders
    <3>1. /\ s.turnOrder \in Seq(Users) /\ Len(s.turnOrder) \in {2, 3, 4, 6}
          /\ Distinct(s.turnOrder)
      BY <1>1 DEF SoundState, State, Counts
    <3>2. s.turnOrder \in [1..Len(s.turnOrder) -> Users]
      BY <3>1
    <3>3. QED
      BY <3>1, <3>2 DEF AbstractGame!TurnOrders, Distinct
  <2>4. Score' = AbstractGame!NewGame(s.turnOrder)
    BY <2>2, SameMoves
  <2>5. AbstractGame!Start
    BY <2>1, <2>3, <2>4 DEF AbstractGame!Start
  <2>6. QED
    BY <2>5 DEF AbstractGame!Next
<1>3. CASE room.state # NoState
  <2> DEFINE g == ScoreOfState(room.state)
             h == ScoreOfState(s)
  <2>1. room.state \in State
    BY <1>1, <1>3 DEF SoundSnapshot, Snapshot
  <2>2. Score = g /\ g # NoGame /\ Score' = h
    BY <1>3, <2>1, ScoreFields, NoGameAssumption DEF Score
  <2> HIDE DEF g, h
  <2>3. CASE MovesTo(g, h)
    <3>1. AbstractGame!Move
      BY <2>2, <2>3, SameMoves DEF AbstractGame!Move, MovesTo
    <3>2. QED
      BY <3>1 DEF AbstractGame!Next
  <2>4. CASE ResignsTo(g, h)
    <3>1. PICK u \in Users : u \notin FinishedIds(g.finishedPlayers) /\ h = AfterResign(g, u)
      BY <2>4 DEF ResignsTo
    <3>2. AbstractGame!Resign(u)
      BY <2>2, <3>1, SameMoves DEF AbstractGame!Resign
    <3>3. QED
      BY <3>2 DEF AbstractGame!Next
  <2>5. CASE StalematesTo(g, h)
    <3>1. AbstractGame!Stalemate
      BY <2>2, <2>5, SameMoves DEF AbstractGame!Stalemate, StalematesTo
    <3>2. QED
      BY <3>1 DEF AbstractGame!Next
  <2>6. QED
    BY <1>3, <2>3, <2>4, <2>5 DEF Follows, g, h
<1>4. QED
  BY <1>2, <1>3

\* A game that has ended is followed by nothing but one that has ended.
LEMMA EndedStaysEnded ==
    ASSUME NEW r, SoundSnapshot(r), Ended(r), NEW s \in State, Follows(s, r)
    PROVE  s.status = "completed"
<1> DEFINE g == ScoreOfState(r.state)
           h == ScoreOfState(s)
<1>1. /\ r.state # NoState /\ r.state \in State /\ r.state.status = "completed"
  BY SentinelAssumption DEF SoundSnapshot, Snapshot, Ended
<1>2. g.status = "completed" /\ g \in Scores /\ h.status = s.status
  BY <1>1, ScoreFields
<1>3. ~MovesTo(g, h) /\ ~StalematesTo(g, h)
  BY <1>2 DEF MovesTo, StalematesTo
<1>4. ResignsTo(g, h)
  BY <1>1, <1>3 DEF Follows
<1> HIDE DEF g, h
<1>5. PICK u : h = AfterResign(g, u)
  BY <1>4 DEF ResignsTo
<1>6. AfterResign(g, u).status = "completed"
  BY <1>2 DEF AfterResign, Scores
<1>7. QED
  BY <1>2, <1>5, <1>6

LEMMA SaveSerial ==
    ASSUME OneHandler, RoomInv, SerialInv, NEW t \in Tasks, SaveState(t)
    PROVE  SerialInv' /\ AbstractGame!Next
<1> DEFINE s == tasks[t].next
           then == tasks[t].then
           r == [room EXCEPT !.state = s]
           k == [tasks[t] EXCEPT !.pc = then, !.read = NoRoom]
<1>1. /\ tasks[t].pc = "saveState" /\ tasks[t].read = room /\ room # NoRoom
      /\ Follows(s, room) /\ (then = "persist" => s.status = "completed")
  BY DEF SaveState, At, SerialInv, SerialTask
<1>2. /\ SoundTasks /\ SoundRoom(room) /\ SoundSnapshot(room) /\ tasks[t] \in TaskRecord
      /\ SoundState(s)
      /\ then \in {"finish", "started", "append", "persist"}
  <2>1. /\ SoundTasks /\ SoundRoom(room) /\ SoundSnapshot(room) /\ tasks[t] \in TaskRecord
        /\ SoundState(s) /\ then # "none"
    BY <1>1, TaskFacts DEF RoomInv, SoundRoom, WithState
  <2>2. QED
    BY <2>1 DEF TaskRecord
<1>3. room' = r
  BY <1>1 DEF SaveState, SaveRoom
<1>4. s \in State /\ s # NoState
  BY <1>2, SoundScore, SentinelAssumption
<1>5. SoundSnapshot(r) /\ r.state = s
  BY <1>2, <1>4, StatedIsSound DEF SoundSnapshot, Snapshot
<1>6. r # NoRoom
  BY <1>5, SentinelAssumption DEF SoundSnapshot
<1> HIDE DEF r
<1>7. Score' = ScoreOfState(s)
  BY <1>3, <1>4, <1>5, <1>6 DEF Score
<1>8. AbstractGame!Next
  BY <1>1, <1>2, <1>7, FollowsIsStep
<1>9. \A x \in Tasks : SerialTask(tasks'[x], room')
  <2>1. CASE then = "finish"
    <3>1. Become(t, Idle)
      BY <2>1 DEF SaveState, Finish, Become
    <3>2. QED
      BY <1>2, <3>1, BecomesSerial, IdleIsSerial
  <2>2. CASE then # "finish"
    <3>1. Become(t, k)
      BY <2>2 DEF SaveState
    <3>2. k.pc = then /\ k.next = s
      BY <1>2 DEF TaskRecord
    <3> HIDE DEF k
    <3>3. then = "persist" => Ended(room')
      BY <1>1, <1>3, <1>4, <1>5 DEF Ended
    <3>4. then = "append" => room' # NoRoom /\ room'.state = k.next
      BY <1>3, <1>5, <1>6, <3>2
    <3>5. SerialTask(k, room')
      BY <1>2, <2>2, <3>2, <3>3, <3>4 DEF SerialTask, Deciding, Logging
    <3>6. QED
      BY <1>2, <3>1, <3>5, BecomesSerial
  <2>3. QED
    BY <2>1, <2>2
<1>10. evictions' > 0 => Ended(room')
  <2>1. evictions' = evictions
    BY DEF SaveState, clocks
  <2>2. Ended(room) => s.status = "completed"
    BY <1>1, <1>2, <1>4, EndedStaysEnded
  <2>3. QED
    BY <1>3, <1>4, <1>5, <2>1, <2>2 DEF SerialInv, Ended
<1>11. QED
  BY <1>8, <1>9, <1>10 DEF SerialInv

LEMMA EvictSerial ==
    ASSUME OneHandler, RoomInv, SerialInv, Evict
    PROVE  SerialInv' /\ (AbstractGame!Next \/ UNCHANGED Score)
<1>1. room' = NoRoom /\ UNCHANGED tasks /\ Ended(room)
  BY DEF Evict, DeleteRoom, SerialInv
<1>2. \A x \in Tasks : tasks[x].pc = "idle"
  BY DEF Evict, At, OneHandler
<1>3. SerialInv'
  BY <1>1, <1>2 DEF SerialInv, SerialTask, Ended, Deciding, Logging
<1>4. Score' = NoGame
  BY <1>1 DEF Score
<1>5. CASE room = NoRoom
  BY <1>3, <1>4, <1>5 DEF Score
<1>6. CASE room # NoRoom
  <2>1. SoundSnapshot(room) /\ room.state # NoState /\ room.state.status = "completed"
    BY <1>1, <1>6 DEF RoomInv, SoundRoom, Ended
  <2>2. room.state \in State
    BY <2>1 DEF SoundSnapshot, Snapshot
  <2>3. Score = ScoreOfState(room.state)
    BY <1>6, <2>1 DEF Score
  <2>4. Score # NoGame /\ Score.status = "completed"
    BY <2>1, <2>2, <2>3, ScoreFields, NoGameAssumption
  <2>5. AbstractGame!Evict
    BY <1>4, <2>4 DEF AbstractGame!Evict
  <2>6. QED
    BY <1>3, <2>5 DEF AbstractGame!Next
<1>7. QED
  BY <1>5, <1>6

-----------------------------------------------------------------------------
(* Time, the sweep, restarts and clients *)

\* Time does not change what a room says of its game.
LEMMA AgedFields ==
    ASSUME NEW r, SoundRoom(r)
    PROVE  /\ AgedRoom(r) = NoRoom <=> r = NoRoom
           /\ r # NoRoom =>
                 /\ AgedRoom(r).state = AgedState(r.state)
                 /\ AgedRoom(r).state = NoState <=> r.state = NoState
                 /\ r.state # NoState =>
                       /\ ScoreOfState(AgedRoom(r).state) = ScoreOfState(r.state)
                       /\ AgedRoom(r).state.status = r.state.status
<1>1. CASE r = NoRoom
  BY <1>1 DEF AgedRoom
<1>2. CASE r # NoRoom
  <2>1. SoundSnapshot(r) /\ r \in Snapshot
    BY <1>2 DEF SoundRoom, SoundSnapshot
  <2>2. AgedRoom(r) # NoRoom
    BY <2>1, AgedRoomIsSound, SentinelAssumption DEF SoundSnapshot
  <2>3. AgedRoom(r) = [r EXCEPT !.state = AgedState(r.state)]
    BY <1>2 DEF AgedRoom
  <2>4. AgedRoom(r).state = AgedState(r.state)
    BY <2>1, <2>3 DEF Snapshot
  <2>5. CASE r.state = NoState
    BY <1>2, <2>2, <2>4, <2>5 DEF AgedState
  <2>6. CASE r.state # NoState
    <3>1. r.state \in State
      BY <2>1, <2>6 DEF Snapshot
    <3>2. /\ AgedState(r.state) \in State
          /\ ScoreOfState(AgedState(r.state)) = ScoreOfState(r.state)
      BY <3>1, AgedScore
    <3>3. AgedState(r.state).status = r.state.status
      BY <3>1, <3>2, ScoreFields
    <3>4. QED
      BY <1>2, <2>2, <2>4, <2>6, <3>2, <3>3, SentinelAssumption
  <2>7. QED
    BY <2>5, <2>6
<1>3. QED
  BY <1>1, <1>2

LEMMA AgedFollows ==
    ASSUME NEW r, SoundRoom(r), r # NoRoom, NEW s \in State, Follows(s, r)
    PROVE  Follows(AgedState(s), AgedRoom(r))
<1>1. AgedState(s) \in State /\ ScoreOfState(AgedState(s)) = ScoreOfState(s)
  BY AgedScore
<1>2. AgedState(s).turnOrder = s.turnOrder
  BY <1>1, ScoreFields
<1>3. /\ AgedRoom(r).state = NoState <=> r.state = NoState
      /\ r.state # NoState => ScoreOfState(AgedRoom(r).state) = ScoreOfState(r.state)
  BY AgedFields
<1>4. QED
  BY <1>1, <1>2, <1>3 DEF Follows

LEMMA ElapseSerial ==
    ASSUME OneHandler, RoomInv, SerialInv, Elapse
    PROVE  SerialInv' /\ UNCHANGED Score
<1>1. SoundTasks /\ SoundRoom(room) /\ room' = AgedRoom(room) /\ evictions' = evictions
  BY DEF RoomInv, Elapse
<1>2. ASSUME Ended(room) PROVE Ended(room')
  BY <1>1, <1>2, AgedFields DEF Ended
<1>3. UNCHANGED Score
  BY <1>1, AgedFields DEF Score
<1>4. ASSUME NEW t \in Tasks PROVE SerialTask(tasks'[t], room')
  <2>1. CASE tasks[t].pc = "idle"
    <3>1. tasks'[t] = Idle
      BY <2>1 DEF Elapse, At
    <3>2. QED
      BY <3>1, IdleIsSerial
  <2>2. CASE tasks[t].pc # "idle"
    <3> DEFINE k == tasks[t]
               a == [k EXCEPT !.room = AgedRoom(k.room), !.read = AgedRoom(k.read),
                              !.next = AgedState(k.next)]
    <3>1. tasks'[t] = a
      BY <2>2 DEF Elapse, At
    <3>2. k \in TaskRecord /\ SerialTask(k, room)
      BY <1>1, <2>2, TaskFacts DEF SerialInv
    <3>3. /\ a.pc = k.pc /\ a.room = AgedRoom(k.room) /\ a.read = AgedRoom(k.read)
          /\ a.next = AgedState(k.next) /\ a.then = k.then
      BY <3>2 DEF TaskRecord
    <3> HIDE DEF a
    <3>4. CASE k.pc = "saveState"
      <4>1. /\ k.read = room /\ room # NoRoom /\ Follows(k.next, room)
            /\ k.then = "persist" => k.next.status = "completed"
        BY <3>2, <3>4 DEF SerialTask
      <4>2. SoundState(k.next) /\ k.next \in State
        BY <1>1, <3>4, TaskFacts, SoundScore DEF WithState
      <4>3. Follows(a.next, room') /\ room' # NoRoom
        BY <1>1, <3>3, <4>1, <4>2, AgedFollows, AgedFields
      <4>4. a.next.status = k.next.status
        BY <3>3, <4>2, AgedScore, ScoreFields
      <4>5. QED
        BY <1>1, <3>1, <3>3, <3>4, <4>1, <4>3, <4>4 DEF SerialTask, Deciding, Logging
    <3>5. CASE k.pc = "counted"
      BY <1>1, <2>2, <3>1, <3>2, <3>3, <3>5, TaskFacts, AgedFields, SentinelAssumption
      DEF SerialTask, Deciding, Logging, Seating, SoundSnapshot
    <3>6. CASE k.pc \in Logging
      BY <1>1, <3>1, <3>2, <3>3, <3>6, AgedFields DEF SerialTask, Deciding, Logging
    <3>7. CASE k.pc \notin Logging \union {"saveState", "counted"}
      BY <1>1, <1>2, <3>1, <3>2, <3>3, <3>7 DEF SerialTask, Logging
    <3>8. QED
      BY <3>4, <3>5, <3>6, <3>7
  <2>3. QED
    BY <2>1, <2>2
<1>5. QED
  BY <1>1, <1>2, <1>3, <1>4 DEF SerialInv

LEMMA BeginsSerial ==
    ASSUME OneHandler, RoomInv, SerialInv,
           NEW pc \in {"join", "watch", "start", "move", "resign", "tick"}, NEW u,
           Begin(pc, u), UNCHANGED room, evictions' = evictions
    PROVE  SerialInv' /\ UNCHANGED Score
<1>1. PICK t \in Tasks : Become(t, Task(pc, u, room))
  BY DEF Begin
<1>2. SerialTask(Task(pc, u, room), room) /\ SoundTasks
  BY NewIsSerial DEF RoomInv
<1>3. QED
  BY <1>1, <1>2, StillStep DEF SerialInv

LEMMA ClientSerial ==
    ASSUME OneHandler, RoomInv, SerialInv, NEW u \in Users, Client(u)
    PROVE  SerialInv' /\ UNCHANGED Score
<1>1. \E pc \in {"join", "watch", "start", "move", "resign"} : Begin(pc, u)
  BY DEF Client, JoinCall, StartCall, MoveCall, ResignCall
<1>2. UNCHANGED room /\ evictions' = evictions
  BY DEF Client, JoinCall, StartCall, MoveCall, ResignCall, redis, clocks
<1>3. QED
  BY <1>1, <1>2, BeginsSerial

LEMMA TimerSerial ==
    ASSUME OneHandler, RoomInv, SerialInv, Fire \/ \E t \in Tasks : Tick(t)
    PROVE  SerialInv' /\ UNCHANGED Score
<1>1. CASE Fire
  BY <1>1, BeginsSerial DEF Fire, redis
<1>2. ASSUME NEW t \in Tasks, Tick(t) PROVE SerialInv' /\ UNCHANGED Score
  <2>1. UNCHANGED room /\ evictions' = evictions /\ SoundTasks /\ (evictions > 0 => Ended(room))
    BY <1>2 DEF Tick, Rearm, clocks, RoomInv, SerialInv
  <2>2. CASE Finish(t)
    BY <2>1, <2>2, FinishesSerial
  <2>3. CASE Become(t, Task("timeout", Server, room))
    BY <2>1, <2>3, NewIsSerial, StillStep
  <2>4. QED
    BY <1>2, <2>2, <2>3 DEF Tick
<1>3. QED
  BY <1>1, <1>2

LEMMA SweepSerial ==
    ASSUME OneHandler, RoomInv, SerialInv,
           SweepCall \/ \E t \in Tasks : SweepRead(t) \/ Sweep(t)
    PROVE  SerialInv' /\ UNCHANGED Score
<1>1. SoundTasks /\ evictions' = evictions /\ (evictions > 0 => Ended(room))
  BY DEF RoomInv, SerialInv, SweepCall, SweepRead, Sweep, clocks
<1>2. CASE SweepCall
  <2>1. UNCHANGED room /\ \E t \in Tasks : Become(t, Task("listed", Server, NoRoom))
    BY <1>2 DEF SweepCall, redis
  <2>2. QED
    BY <1>1, <2>1, BlankIsSerial, StillStep
<1>3. ASSUME NEW t \in Tasks, SweepRead(t) PROVE SerialInv' /\ UNCHANGED Score
  BY <1>1, <1>3, NewIsSerial, StillStep DEF SweepRead, redis
<1>4. ASSUME NEW t \in Tasks, Sweep(t) PROVE SerialInv' /\ UNCHANGED Score
  <2>1. tasks[t].room = room
    BY <1>4 DEF Sweep, At, SerialInv, SerialTask, Deciding
  <2>2. CASE UNCHANGED room
    BY <1>1, <1>4, <2>2, FinishesSerial DEF Sweep
  <2>3. CASE room # NoRoom /\ room.state = NoState /\ room' = NoRoom
    <3>1. Become(t, Idle)
      BY <1>4 DEF Sweep, Finish, Become
    <3>2. \A x \in Tasks : SerialTask(tasks'[x], room')
      BY <1>1, <3>1, BecomesSerial, IdleIsSerial
    <3>3. UNCHANGED Score
      BY <2>3 DEF Score
    <3>4. QED
      BY <2>3, <3>2, <3>3 DEF SerialInv, Ended
  <2>4. QED
    BY <1>4, <2>1, <2>2, <2>3 DEF Sweep, DeleteRoom
<1>5. QED
  BY <1>2, <1>3, <1>4

LEMMA RestartSerial ==
    ASSUME OneHandler, RoomInv, SerialInv,
           Crash \/ \E t \in Tasks : RecoverRead(t) \/ Recover(t)
    PROVE  SerialInv' /\ UNCHANGED Score
<1>1. SoundTasks /\ UNCHANGED room /\ (evictions > 0 => Ended(room))
  BY DEF RoomInv, SerialInv, Crash, RecoverRead, Recover, redis
<1>2. CASE Crash
  <2>1. \A x \in Tasks : tasks'[x] = Task("recover", Server, NoRoom) \/ tasks'[x] = Idle
    BY <1>2 DEF Crash
  <2>2. \A x \in Tasks : SerialTask(tasks'[x], room')
    BY <2>1, IdleIsSerial, BlankIsSerial
  <2>3. UNCHANGED Score
    BY <1>1 DEF Score, ScoreOfState
  <2>4. QED
    BY <1>2, <2>2, <2>3 DEF SerialInv, Crash
<1>3. ASSUME NEW t \in Tasks, RecoverRead(t) PROVE SerialInv' /\ UNCHANGED Score
  BY <1>1, <1>3, NewIsSerial, StillStep DEF RecoverRead, clocks
<1>4. ASSUME NEW t \in Tasks, Recover(t) PROVE SerialInv' /\ UNCHANGED Score
  <2>1. evictions' = evictions /\ Finish(t)
    BY <1>4 DEF Recover, Schedule, clocks
  <2>2. QED
    BY <1>1, <2>1, FinishesSerial
<1>5. QED
  BY <1>2, <1>3, <1>4

-----------------------------------------------------------------------------
(* The theorem *)

LEMMA InitSerial == Init => SerialInv /\ AbstractGame!Init
<1> SUFFICES ASSUME Init PROVE SerialInv /\ AbstractGame!Init
  OBVIOUS
<1>1. \A t \in Tasks : SerialTask(tasks[t], room)
  BY IdleIsSerial DEF Init
<1>2. room \in Snapshot /\ room.state = NoState
  BY RoomAssumption DEF Init, Snapshot, Counts
<1>3. Score = NoGame
  BY <1>2 DEF Score
<1>4. QED
  BY <1>1, <1>3 DEF Init, SerialInv, AbstractGame!Init

LEMMA NextSerial ==
    ASSUME OneHandler, RoomInv, SerialInv, [Next]_vars
    PROVE  SerialInv' /\ [AbstractGame!Next]_Score
<1>1. ASSUME NEW t \in Tasks, Step(t) PROVE SerialInv' /\ (AbstractGame!Next \/ UNCHANGED Score)
  BY <1>1, JoinSerial, SeatSerial, StartSerial, MoveSerial, ReadSerial, SaveLogSerial,
     AppendSerial, ResignSerial, SaveSerial, PersistSerial, TimerSerial, SweepSerial,
     RestartSerial
  DEF Step
<1>2. ASSUME NEW u \in Users, Client(u) PROVE SerialInv' /\ UNCHANGED Score
  BY <1>2, ClientSerial
<1>3. CASE Evict \/ Elapse \/ Fire \/ SweepCall \/ Crash
  BY <1>3, EvictSerial, ElapseSerial, TimerSerial, SweepSerial, RestartSerial
<1>4. CASE UNCHANGED vars
  <2>1. UNCHANGED <<room, tasks, evictions>>
    BY <1>4 DEF vars, redis, clocks
  <2>2. QED
    BY <2>1 DEF SerialInv, Score, ScoreOfState
<1>5. QED
  BY <1>1, <1>2, <1>3, <1>4 DEF Next

\* With one handler at a time, whatever the users, the room size and the cap,
\* and wherever restarts, timers, sweeps and the eviction fall between the
\* commands of a handler, the stored score changes by whole operations of the
\* abstract game only.
THEOREM RoomImplementsGame == OneHandler => (Spec => ImplementsGame)
<1> SUFFICES ASSUME OneHandler PROVE Spec => ImplementsGame
  OBVIOUS
<1>1. Init => RoomInv /\ SerialInv /\ AbstractGame!Init
  BY InitRoomInv, InitSerial
<1>2. RoomInv /\ SerialInv /\ [Next]_vars
         => RoomInv' /\ SerialInv' /\ [AbstractGame!Next]_Score
  BY NextRoomInv, NextSerial
<1>3. QED
  BY <1>1, <1>2, PTL DEF Spec, ImplementsGame, AbstractGame!Spec

=============================================================================
