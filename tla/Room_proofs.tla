----------------------------- MODULE Room_proofs -----------------------------
(***************************************************************************)
(* Theorems about Room, for any users and room size, any number of         *)
(* handlers under way at once and any number of restarts.                  *)
(***************************************************************************)
EXTENDS Room, Scoreboard_proofs

-----------------------------------------------------------------------------
(* The inductive invariant: what is stored, what handlers have read and    *)
(* what they are about to write are all possible scores                    *)

Distinct(order) == \A i, j \in DOMAIN order : order[i] = order[j] => i = j

FinishersDistinct(finished) ==
    \A i, j \in DOMAIN finished : finished[i].userId = finished[j].userId => i = j

\* A user that has filled its target has the place it came in at, one that has
\* resigned the last.
Placed(finished, n) == \A i \in DOMAIN finished : finished[i].finishPos \in {i, n}

\* A finisher need not have a seat: a join that was overwritten leaves a socket
\* that takes itself for a player, and may resign.
SoundState(s) ==
    /\ s \in State
    /\ Len(s.turnOrder) \in Counts /\ Distinct(s.turnOrder)
    /\ s.currentTurnIndex \in 1..Len(s.turnOrder)
    /\ FinishersDistinct(s.finishedPlayers)
    /\ Placed(s.finishedPlayers, Len(s.turnOrder))
    /\ s.status = "completed" <=> IsOver(s, s.finishedPlayers) \/ s.endReason = "stalemate"
    /\ s.status = "active" => CurrentPlayer(s) \notin Winners(s)

SoundSnapshot(r) ==
    /\ r \in Snapshot
    /\ Distinct(r.players)
    /\ r.state = NoState \/ SoundState(r.state)

SoundRoom(r) == r = NoRoom \/ SoundSnapshot(r)

ByUser    == {"join", "watch", "seated", "start", "counted", "move", "resign"}
Seating   == {"seated", "counted"}
WithState == {"saveState", "started", "append", "saveLog", "logged", "refreshed", "persist"}
OtherPcs  == {"gameOver", "tick", "timeout", "listed", "sweep", "recover", "recovered"}

TaskRecord ==
    [pc : ByUser \union WithState \union OtherPcs, user : Users \union {Server},
     room : Snapshot \union {NoRoom}, read : Snapshot \union {NoRoom},
     next : State \union {NoState},
     then : {"none", "finish", "started", "append", "persist"}]

SoundTask(k) ==
    \/ k = Idle
    \/ /\ k \in TaskRecord
       /\ SoundRoom(k.room) /\ SoundRoom(k.read)
       /\ k.next = NoState \/ SoundState(k.next)
       /\ k.pc \in ByUser => k.user \in Users
       /\ k.pc \in Seating => SoundSnapshot(k.room)
       /\ k.pc = "counted" => Len(k.room.players) \in Counts
       /\ k.pc \in WithState => SoundSnapshot(k.room) /\ SoundState(k.next)
       /\ k.pc = "saveState" => k.then # "none"

SoundTasks ==
    /\ tasks \in [Tasks -> TaskRecord \union {Idle}]
    /\ \A t \in Tasks : SoundTask(tasks[t])

ClocksOK ==
    /\ waiting \in BOOLEAN
    /\ deadline \in Instants /\ timer \in Instants
    /\ strays \in [{"past", "future"} -> Nat]
    /\ conn \in [Users -> {"out", "player", "spectator"}]
    /\ {evictions, calls, crashes} \subseteq Nat

RoomInv == SoundRoom(room) /\ SoundTasks /\ ClocksOK

-----------------------------------------------------------------------------
(* Scores *)

\* The state a game starts with.
LEMMA StartIsSound ==
    ASSUME NEW order \in Seq(Users), Distinct(order), Len(order) \in Counts
    PROVE  SoundState(StartState(order))
<1> DEFINE s == StartState(order)
<1>1. s \in State /\ s.turnOrder = order /\ s.currentTurnIndex = 1 /\ s.finishedPlayers = <<>>
      /\ s.status = "active" /\ s.endReason = "none"
  BY DEF StartState, State
<1> HIDE DEF s
<1>2. Winners(s) = {}
  BY <1>1 DEF Winners
<1>3. ~IsOver(s, <<>>) /\ 1 \in 1..Len(order)
  <2>1. PlayerCount(s) = Len(order) /\ Len(order) > 1 /\ Len(order) \in Int
    <3>1. Len(order) \in {2, 3, 4, 6}
      BY DEF Counts
    <3>2. PlayerCount(s) = Len(order)
      BY <1>1 DEF PlayerCount
    <3>3. QED
      BY <3>1, <3>2
  <2>2. Len(<<>>) = 0
    OBVIOUS
  <2>3. QED
    BY <2>1, <2>2 DEF IsOver
<1>4. QED
  BY <1>1, <1>2, <1>3 DEF SoundState, FinishersDistinct, Placed, s

\* What the lemmas on turns want to know of a score.
LEMMA SoundScore ==
    ASSUME NEW s, SoundState(s)
    PROVE  /\ s \in State
           /\ ScoreOf(s, s.turnOrder)
           /\ PlayerCount(s) = Len(s.turnOrder) /\ PlayerCount(s) \in Counts
           /\ CurrentPlayer(s) \in Users
           /\ s.finishedPlayers \in Seq(Finisher)
  BY DEF SoundState, State, ScoreOf, PlayerCount, CurrentPlayer, Distinct, Counts

\* Somebody who has not finished is added to those who have.
LEMMA AppendFinisher ==
    ASSUME NEW finished \in Seq(Finisher), FinishersDistinct(finished),
           NEW e \in Finisher, e.userId \notin FinishedIds(finished),
           NEW n, Placed(finished, n), e.finishPos \in {Len(finished) + 1, n}
    PROVE  /\ Append(finished, e) \in Seq(Finisher)
           /\ FinishersDistinct(Append(finished, e))
           /\ Placed(Append(finished, e), n)
<1> DEFINE after == Append(finished, e)
<1>1. /\ after \in Seq(Finisher) /\ Len(finished) \in Nat
      /\ DOMAIN after = 1..(Len(finished) + 1) /\ DOMAIN finished = 1..Len(finished)
      /\ after[Len(finished) + 1] = e
      /\ \A i \in DOMAIN finished : after[i] = finished[i]
  OBVIOUS
<1> HIDE DEF after
<1>2. \A i \in DOMAIN finished : finished[i].userId # e.userId
  BY DEF FinishedIds
<1>3. FinishersDistinct(after)
  BY <1>1, <1>2 DEF FinishersDistinct
<1>4. Placed(after, n)
  BY <1>1 DEF Placed
<1>5. QED
  BY <1>1, <1>3, <1>4 DEF after

\* A move of a running game, by its user or by the timer.
LEMMA MovedIsSound ==
    ASSUME NEW s, SoundState(s), s.status = "active", NEW won \in BOOLEAN
    PROVE  SoundState(Moved(s, won))
<1> DEFINE n == Len(s.turnOrder)
           before == s.finishedPlayers
           after == FinishedAfter(s, won)
           m == Moved(s, won)
<1>1. /\ s \in State /\ ScoreOf(s, s.turnOrder) /\ PlayerCount(s) = n /\ n \in Counts
      /\ CurrentPlayer(s) \in Users /\ before \in Seq(Finisher)
  BY SoundScore
<1>2. /\ FinishersDistinct(before) /\ Placed(before, n)
      /\ Len(before) \in Nat /\ Len(before) < n - 1
  BY <1>1 DEF SoundState, IsOver, Counts
<1>3. /\ after \in Seq(Finisher) /\ FinishersDistinct(after) /\ Placed(after, n)
      /\ Len(after) \in Nat /\ Len(after) < n
  <2> DEFINE e == [userId |-> CurrentPlayer(s), finishPos |-> Len(before) + 1]
  <2>1. e \in Finisher /\ e.userId = CurrentPlayer(s) /\ e.finishPos = Len(before) + 1
    BY <1>1, <1>2 DEF Finisher
  <2>2. CASE won /\ CurrentPlayer(s) \notin FinishedIds(before)
    <3>1. after = Append(before, e)
      BY <2>2 DEF FinishedAfter
    <3> HIDE DEF e, after
    <3>2. after \in Seq(Finisher) /\ FinishersDistinct(after) /\ Placed(after, n)
      BY <1>1, <1>2, <2>1, <2>2, <3>1, AppendFinisher
    <3>3. Len(after) = Len(before) + 1
      BY <1>1, <2>1, <3>1
    <3>4. QED
      BY <1>1, <1>2, <3>2, <3>3 DEF Counts
  <2>3. CASE ~(won /\ CurrentPlayer(s) \notin FinishedIds(before))
    <3>1. after = before
      BY <2>3 DEF FinishedAfter
    <3>2. QED
      BY <1>1, <1>2, <3>1 DEF Counts
  <2>4. QED
    BY <2>2, <2>3
<1> HIDE DEF after
<1>4. NextTurnIndex(s, after) \in OpenSeats(s, after)
  BY <1>1, <1>3, NextTurnIsOpen
<1>5. /\ NextTurnIndex(s, after) \in 1..n
      /\ s.turnOrder[NextTurnIndex(s, after)] \notin FinishedIds(after)
  BY <1>1, <1>4 DEF OpenSeats
<1>6. /\ m.turnOrder = s.turnOrder /\ m.finishedPlayers = after
      /\ m.currentTurnIndex = NextTurnIndex(s, after)
      /\ m.status = IF IsOver(s, after) THEN "completed" ELSE "active"
      /\ m.endReason = s.endReason /\ m \in State
  <2> DEFINE i == NextTurnIndex(s, after)
  <2>1. i \in Nat
    BY <1>1, <1>5 DEF Counts
  <2> DEFINE status == IF IsOver(s, after) THEN "completed" ELSE s.status
  <2>2. status \in {"active", "completed"}
    OBVIOUS
  <2> DEFINE b == [s EXCEPT !.finishedPlayers = after, !.currentTurnIndex = i, !.status = status]
  <2>3. m = [b EXCEPT !.moveCount = s.moveCount + 1, !.timerEndsAt = "future"]
    BY DEF Moved, AfterMove, after
  <2> HIDE DEF i, status, m
  <2>4. /\ m.turnOrder = s.turnOrder /\ m.finishedPlayers = after /\ m.currentTurnIndex = i
        /\ m.status = status /\ m.endReason = s.endReason
    BY <1>1, <2>3 DEF State
  <2>5. m \in State
    <3>1. b \in State
      BY <1>1, <1>3, <2>1, <2>2 DEF State
    <3>2. s.moveCount + 1 \in Nat
      BY <1>1 DEF State
    <3> HIDE DEF b
    <3>3. QED
      BY <2>3, <3>1, <3>2 DEF State
  <2>6. QED
    BY <2>4, <2>5 DEF i, status
<1> HIDE DEF m
<1>7. m.status = "completed" <=> IsOver(m, m.finishedPlayers) \/ m.endReason = "stalemate"
  BY <1>1, <1>6 DEF IsOver, PlayerCount, SoundState
<1>8. CurrentPlayer(m) \notin Winners(m)
  <2>1. Winners(m) \subseteq FinishedIds(after)
    BY <1>6 DEF Winners, FinishedIds
  <2>2. QED
    BY <1>5, <1>6, <2>1 DEF CurrentPlayer
<1>9. QED
  BY <1>1, <1>3, <1>5, <1>6, <1>7, <1>8 DEF SoundState, m

\* A resignation, at any time: it makes no winner.
LEMMA ResignedIsSound ==
    ASSUME NEW s, SoundState(s), NEW u \in Users, u \notin FinishedIds(s.finishedPlayers)
    PROVE  SoundState(AfterResign(s, u))
<1> DEFINE n == Len(s.turnOrder)
           e == [userId |-> u, finishPos |-> PlayerCount(s)]
           before == s.finishedPlayers
           after == Append(before, e)
           m == AfterResign(s, u)
<1>1. s \in State /\ PlayerCount(s) = n /\ n \in Counts /\ before \in Seq(Finisher)
  BY SoundScore
<1>2. e \in Finisher /\ e.userId = u /\ e.finishPos = n
  BY <1>1 DEF Finisher, Counts
<1>3. after \in Seq(Finisher) /\ FinishersDistinct(after) /\ Placed(after, n)
  <2> HIDE DEF e
  <2>1. FinishersDistinct(before) /\ Placed(before, n)
    BY DEF SoundState
  <2>2. QED
    BY <1>1, <1>2, <2>1, AppendFinisher
<1>4. /\ m.turnOrder = s.turnOrder /\ m.finishedPlayers = after
      /\ m.currentTurnIndex = s.currentTurnIndex
      /\ m.status = IF IsOver(s, after) THEN "completed" ELSE s.status
      /\ m.endReason = IF IsOver(s, after) THEN "resign" ELSE s.endReason
      /\ m \in State
  <2> HIDE DEF after
  <2>1. m = [s EXCEPT !.finishedPlayers = after,
                      !.status    = IF IsOver(s, after) THEN "completed" ELSE s.status,
                      !.endReason = IF IsOver(s, after) THEN "resign" ELSE s.endReason]
    BY DEF AfterResign, after
  <2>2. QED
    BY <1>1, <1>3, <2>1 DEF State
<1>5. m.status = "completed" <=> IsOver(m, m.finishedPlayers) \/ m.endReason = "stalemate"
  <2>1. IsOver(m, m.finishedPlayers) <=> IsOver(s, after)
    BY <1>4 DEF IsOver, PlayerCount
  <2>2. Len(after) = Len(before) + 1 /\ Len(before) \in Nat
    BY <1>1, <1>2
  <2>3. IsOver(s, before) => IsOver(s, after)
    BY <1>1, <2>2 DEF IsOver, Counts
  <2>4. QED
    BY <1>4, <2>1, <2>3 DEF SoundState
<1>6. Winners(m) \subseteq Winners(s)
  <2>1. SUFFICES ASSUME NEW k \in DOMAIN after, after[k].finishPos < n
                 PROVE  after[k].userId \in Winners(s)
    BY <1>1, <1>4 DEF Winners, PlayerCount
  <2>2. k \in DOMAIN before /\ after[k] = before[k]
    BY <1>1, <1>2, <2>1 DEF Counts
  <2>3. QED
    BY <1>1, <2>1, <2>2 DEF Winners
<1>7. m.status = "active" => CurrentPlayer(m) \notin Winners(m)
  BY <1>4, <1>6 DEF SoundState, CurrentPlayer
<1>8. QED
  <2> HIDE DEF after, m
  <2>1. QED
    BY <1>1, <1>3, <1>4, <1>5, <1>7 DEF SoundState, m

\* The log has outgrown its cap.
LEMMA StalematedIsSound ==
    ASSUME NEW s, SoundState(s)
    PROVE  SoundState(Stalemated(s))
<1> DEFINE m == Stalemated(s)
<1>1. /\ m \in State /\ m.status = "completed" /\ m.endReason = "stalemate"
      /\ m.turnOrder = s.turnOrder /\ m.currentTurnIndex = s.currentTurnIndex
      /\ m.finishedPlayers = s.finishedPlayers
  <2>1. s \in State
    BY SoundScore
  <2>2. QED
    BY <2>1 DEF Stalemated, State
<1> HIDE DEF m
<1>2. QED
  BY <1>1 DEF SoundState, m

\* Time passes.
LEMMA AgedIsSound ==
    ASSUME NEW s, SoundState(s)
    PROVE  SoundState(AgedState(s))
<1> DEFINE m == [s EXCEPT !.timerEndsAt = "past"]
<1>1. /\ m \in State /\ m.status = s.status /\ m.endReason = s.endReason
      /\ m.turnOrder = s.turnOrder /\ m.currentTurnIndex = s.currentTurnIndex
      /\ m.finishedPlayers = s.finishedPlayers
  BY SoundScore DEF State
<1>2. AgedState(s) = m \/ AgedState(s) = s
  BY DEF AgedState
<1> HIDE DEF m
<1>3. SoundState(m)
  BY <1>1 DEF SoundState, IsOver, PlayerCount, CurrentPlayer, Winners
<1>4. QED
  BY <1>2, <1>3

-----------------------------------------------------------------------------
(* Snapshots *)

LEMMA StatedIsSound ==
    ASSUME NEW r, SoundSnapshot(r), NEW s, SoundState(s)
    PROVE  SoundSnapshot([r EXCEPT !.state = s])
<1>1. s \in State
  BY SoundScore
<1>2. /\ [r EXCEPT !.state = s] \in Snapshot
      /\ [r EXCEPT !.state = s].state = s /\ [r EXCEPT !.state = s].players = r.players
  BY <1>1 DEF SoundSnapshot, Snapshot
<1>3. QED
  BY <1>2 DEF SoundSnapshot

LEMMA LoggedIsSound ==
    ASSUME NEW r, SoundSnapshot(r), NEW log \in Seq(Nat)
    PROVE  SoundSnapshot([r EXCEPT !.moveLog = log])
<1>1. /\ [r EXCEPT !.moveLog = log] \in Snapshot
      /\ [r EXCEPT !.moveLog = log].state = r.state
      /\ [r EXCEPT !.moveLog = log].players = r.players
  BY DEF SoundSnapshot, Snapshot
<1>2. QED
  BY <1>1 DEF SoundSnapshot

\* A user without a seat takes one.
LEMMA JoinedIsSound ==
    ASSUME NEW r, SoundSnapshot(r), NEW u \in Users, u \notin Seated(r)
    PROVE  SoundSnapshot([r EXCEPT !.players = Append(r.players, u)])
<1> DEFINE after == Append(r.players, u)
           j == [r EXCEPT !.players = after]
<1>1. r.players \in Seq(Users) /\ Distinct(r.players)
  BY DEF SoundSnapshot, Snapshot
<1>2. /\ after \in Seq(Users) /\ Len(r.players) \in Nat
      /\ DOMAIN after = 1..(Len(r.players) + 1) /\ DOMAIN r.players = 1..Len(r.players)
      /\ after[Len(r.players) + 1] = u
      /\ \A i \in DOMAIN r.players : after[i] = r.players[i]
  BY <1>1
<1> HIDE DEF after
<1>3. \A i \in DOMAIN r.players : r.players[i] # u
  BY DEF Seated
<1>4. Distinct(after)
  BY <1>1, <1>2, <1>3, SMTT(30) DEF Distinct
<1>5. j \in Snapshot /\ j.state = r.state /\ j.players = after
  BY <1>2 DEF SoundSnapshot, Snapshot
<1> HIDE DEF j
<1>6. QED
  BY <1>4, <1>5 DEF SoundSnapshot, j, after

LEMMA CountedIsSound ==
    ASSUME NEW r, SoundSnapshot(r), NEW n \in Counts
    PROVE  /\ SoundSnapshot([r EXCEPT !.playerCount = n])
           /\ [r EXCEPT !.playerCount = n].players = r.players
<1>1. /\ [r EXCEPT !.playerCount = n] \in Snapshot
      /\ [r EXCEPT !.playerCount = n].state = r.state
      /\ [r EXCEPT !.playerCount = n].players = r.players
  BY DEF SoundSnapshot, Snapshot
<1>2. QED
  BY <1>1 DEF SoundSnapshot

LEMMA AgedRoomIsSound ==
    ASSUME NEW r, SoundSnapshot(r)
    PROVE  SoundSnapshot(AgedRoom(r)) /\ AgedRoom(r).players = r.players
<1>1. CASE r.state = NoState
  <2>1. AgedState(r.state) = r.state
    BY <1>1 DEF AgedState
  <2>2. AgedRoom(r) = r
    BY <2>1 DEF AgedRoom, SoundSnapshot, Snapshot
  <2>3. QED
    BY <2>2
<1>2. CASE r.state # NoState
  <2>1. SoundState(AgedState(r.state))
    BY <1>2, AgedIsSound DEF SoundSnapshot
  <2>2. AgedRoom(r) = r \/ AgedRoom(r) = [r EXCEPT !.state = AgedState(r.state)]
    BY DEF AgedRoom
  <2>3. [r EXCEPT !.state = AgedState(r.state)].players = r.players
    BY DEF SoundSnapshot, Snapshot
  <2>4. SoundSnapshot([r EXCEPT !.state = AgedState(r.state)])
    BY <2>1, StatedIsSound
  <2>5. CASE AgedRoom(r) = r
    BY <2>5
  <2>6. CASE AgedRoom(r) = [r EXCEPT !.state = AgedState(r.state)]
    BY <2>3, <2>4, <2>6
  <2>7. QED
    BY <2>2, <2>5, <2>6
<1>3. QED
  BY <1>1, <1>2

\* A room that is there is a sound snapshot; one with a running game has a
\* sound state.
LEMMA ActiveIsSound ==
    ASSUME NEW r, SoundRoom(r), Active(r)
    PROVE  SoundSnapshot(r) /\ SoundState(r.state) /\ r.state.status = "active"
  BY DEF SoundRoom, Active, SoundSnapshot

LEMMA RoomTypes ==
    ASSUME NEW r, SoundRoom(r)
    PROVE  r \in Snapshot \union {NoRoom}
  BY DEF SoundRoom, SoundSnapshot

-----------------------------------------------------------------------------
(* Tasks *)

\* Rooms and a task of the invariant, as the lemmas on steps want them.
LEMMA TaskFacts ==
    ASSUME SoundTasks, NEW t \in Tasks, tasks[t].pc # "idle"
    PROVE  /\ tasks[t] \in TaskRecord
           /\ SoundTask(tasks[t])
           /\ SoundRoom(tasks[t].room) /\ SoundRoom(tasks[t].read)
           /\ tasks[t].pc \in ByUser => tasks[t].user \in Users
           /\ tasks[t].pc \in Seating => SoundSnapshot(tasks[t].room)
           /\ tasks[t].pc = "counted" => Len(tasks[t].room.players) \in Counts
           /\ tasks[t].pc \in WithState =>
                 SoundSnapshot(tasks[t].room) /\ SoundState(tasks[t].next)
           /\ tasks[t].pc = "saveState" => tasks[t].then # "none"
  BY DEF SoundTasks, SoundTask, Idle

\* A new handler: nothing but the room it has read.
LEMMA NewTask ==
    ASSUME NEW pc \in {"join", "watch", "start", "move", "resign"} \union OtherPcs,
           NEW u, u \in Users \/ (u = Server /\ pc \in OtherPcs),
           NEW r, SoundRoom(r)
    PROVE  SoundTask(Task(pc, u, r))
<1> DEFINE k == Task(pc, u, r)
<1>1. /\ k.pc = pc /\ k.user = u /\ k.room = r /\ k.read = NoRoom /\ k.next = NoState
      /\ k.then = "none"
  BY DEF Task
<1>2. k \in TaskRecord
  BY RoomTypes DEF Task, TaskRecord, ByUser
<1>3. SoundRoom(NoRoom)
  BY DEF SoundRoom
<1>4. /\ pc \notin Seating /\ pc # "counted" /\ pc \notin WithState /\ pc # "saveState"
      /\ pc \in ByUser => u \in Users
  BY DEF Seating, WithState, ByUser, OtherPcs
<1> HIDE DEF k
<1>5. QED
  BY <1>1, <1>2, <1>3, <1>4 DEF SoundTask, k

\* Once a handler has become another sound one, all are sound.
LEMMA BecomesSound ==
    ASSUME SoundTasks, NEW t \in Tasks, NEW k, SoundTask(k), Become(t, k)
    PROVE  SoundTasks'
<1>1. k \in TaskRecord \union {Idle}
  BY DEF SoundTask
<1>2. \A x \in Tasks : tasks'[x] = IF x = t THEN k ELSE tasks[x]
  BY DEF Become, SoundTasks
<1>3. tasks' \in [Tasks -> TaskRecord \union {Idle}]
  BY <1>1 DEF Become, SoundTasks
<1>4. QED
  BY <1>2, <1>3 DEF SoundTasks

LEMMA FinishesSound ==
    ASSUME SoundTasks, NEW t \in Tasks, Finish(t)
    PROVE  SoundTasks'
<1>1. SoundTask(Idle) /\ Become(t, Idle)
  BY DEF SoundTask, Finish, Become
<1>2. QED
  BY <1>1, BecomesSound

LEMMA BeginsSound ==
    ASSUME SoundTasks, SoundRoom(room),
           NEW pc \in {"join", "watch", "start", "move", "resign"} \union OtherPcs,
           NEW u, u \in Users \/ (u = Server /\ pc \in OtherPcs), Begin(pc, u)
    PROVE  SoundTasks'
<1>1. PICK t \in Tasks : Become(t, Task(pc, u, room))
  BY DEF Begin
<1>2. SoundTask(Task(pc, u, room))
  BY NewTask
<1>3. QED
  BY <1>1, <1>2, BecomesSound

\* A handler that has a state to save, or has saved it, goes on.
LEMMA StatefulTask ==
    ASSUME NEW k \in TaskRecord, k.pc \in WithState,
           SoundSnapshot(k.room), SoundRoom(k.read), SoundState(k.next),
           k.pc = "saveState" => k.then # "none"
    PROVE  SoundTask(k)
<1>1. k.pc \notin ByUser /\ k.pc \notin Seating /\ k.pc # "counted"
  BY DEF WithState, ByUser, Seating
<1>2. QED
  BY <1>1 DEF SoundTask, SoundRoom

\* setRoomState with a sound state.
LEMMA SetsSoundState ==
    ASSUME SoundTasks, SoundRoom(room), NEW t \in Tasks, tasks[t].pc # "idle",
           NEW r, SoundSnapshot(r), NEW s, SoundState(s),
           NEW then \in {"finish", "started", "append", "persist"},
           SetRoomState(t, r, s, then)
    PROVE  SoundTasks'
<1> DEFINE k == [tasks[t] EXCEPT !.pc = "saveState", !.room = r, !.read = room,
                                 !.next = s, !.then = then]
<1>1. tasks[t] \in TaskRecord
  BY TaskFacts
<1>2. r \in Snapshot /\ room \in Snapshot \union {NoRoom} /\ s \in State
  BY RoomTypes, SoundScore DEF SoundSnapshot
<1>3. /\ k \in TaskRecord /\ k.pc = "saveState" /\ k.room = r /\ k.read = room
      /\ k.next = s /\ k.then = then
  BY <1>1, <1>2 DEF TaskRecord, WithState
<1>4. Become(t, k)
  BY DEF SetRoomState
<1> HIDE DEF k
<1>5. k.pc \in WithState
  BY <1>3 DEF WithState
<1>6. SoundTask(k)
  BY <1>3, <1>5, StatefulTask
<1>7. QED
  BY <1>4, <1>6, BecomesSound

\* A handler with a state goes on to another step with what it has read.
LEMMA GoesOnSound ==
    ASSUME SoundTasks, NEW t \in Tasks, tasks[t].pc \in WithState,
           NEW pc \in WithState \ {"saveState"}, NEW r, SoundSnapshot(r),
           NEW x, SoundRoom(x),
           Become(t, [tasks[t] EXCEPT !.pc = pc, !.room = r, !.read = x])
    PROVE  SoundTasks'
<1> DEFINE k == [tasks[t] EXCEPT !.pc = pc, !.room = r, !.read = x]
<1>1. tasks[t] \in TaskRecord /\ SoundState(tasks[t].next)
  BY TaskFacts DEF WithState
<1>2. r \in Snapshot /\ x \in Snapshot \union {NoRoom}
  BY RoomTypes DEF SoundSnapshot
<1>3. k \in TaskRecord /\ k.pc = pc /\ k.room = r /\ k.read = x /\ k.next = tasks[t].next
  BY <1>1, <1>2 DEF TaskRecord
<1> HIDE DEF k
<1>4. SoundTask(k)
  BY <1>1, <1>3, StatefulTask DEF WithState
<1>5. QED
  BY <1>4, BecomesSound DEF k

\* The same, when the snapshot stays.
LEMMA GoesOnWithItsRoom ==
    ASSUME SoundTasks, NEW t \in Tasks, tasks[t].pc \in WithState,
           NEW pc \in WithState \ {"saveState"}, NEW x, SoundRoom(x),
           Become(t, [tasks[t] EXCEPT !.pc = pc, !.read = x])
    PROVE  SoundTasks'
<1>1. tasks[t] \in TaskRecord /\ SoundSnapshot(tasks[t].room)
  BY TaskFacts DEF WithState
<1>2. [tasks[t] EXCEPT !.pc = pc, !.read = x]
         = [tasks[t] EXCEPT !.pc = pc, !.room = tasks[t].room, !.read = x]
  BY <1>1 DEF TaskRecord
<1>3. QED
  BY <1>1, <1>2, GoesOnSound, ZenonT(30)

-----------------------------------------------------------------------------
(* Joining and starting *)

\* Between the reply and the next command of a join.
LEMMA EntersSound ==
    ASSUME SoundTasks, SoundRoom(room), ClocksOK, NEW t \in Tasks,
           tasks[t].pc \in {"join", "watch", "seated"},
           NEW r, SoundSnapshot(r), EnterRoom(t, r)
    PROVE  SoundTasks' /\ conn' \in [Users -> {"out", "player", "spectator"}]
<1>1. conn' \in [Users -> {"out", "player", "spectator"}]
  BY DEF EnterRoom, Role, ClocksOK
<1>2. CASE Finish(t)
  BY <1>1, <1>2, FinishesSound
<1>3. CASE /\ Len(r.players) = r.playerCount
           /\ SetRoomState(t, r, StartState(r.players), "started")
  <2>1. r.players \in Seq(Users) /\ Distinct(r.players) /\ Len(r.players) \in Counts
    BY <1>3 DEF SoundSnapshot, Snapshot
  <2>2. SoundState(StartState(r.players))
    BY <2>1, StartIsSound
  <2>3. QED
    BY <1>1, <1>3, <2>2, SetsSoundState
<1>4. QED
  BY <1>2, <1>3 DEF EnterRoom

LEMMA JoinStep ==
    ASSUME RoomInv, NEW t \in Tasks, Join(t)
    PROVE  RoomInv'
<1> DEFINE r == tasks[t].room
           u == tasks[t].user
           joined == [r EXCEPT !.players = Append(r.players, u)]
<1>1. /\ SoundTasks /\ SoundRoom(room) /\ ClocksOK
      /\ tasks[t].pc \in {"join", "watch"}
  BY DEF RoomInv, Join, At
<1>2. tasks[t] \in TaskRecord /\ SoundRoom(r) /\ SoundRoom(tasks[t].read) /\ u \in Users
  BY <1>1, TaskFacts DEF ByUser
<1>3. CASE r = NoRoom
  <2>1. Finish(t) /\ UNCHANGED <<room, waiting, conn>>
    BY <1>3 DEF Join
  <2>2. SoundTasks'
    BY <1>1, <2>1, FinishesSound
  <2>3. QED
    BY <1>1, <2>1, <2>2 DEF RoomInv, Join, ClocksOK, clocks, budgets
<1>4. CASE /\ r # NoRoom /\ u \notin Seated(r)
           /\ SaveRoom(joined) /\ UNCHANGED conn
           /\ Become(t, [tasks[t] EXCEPT !.pc = "seated", !.room = joined])
  <2>1. SoundSnapshot(joined)
    BY <1>2, <1>4, JoinedIsSound DEF SoundRoom
  <2> DEFINE k == [tasks[t] EXCEPT !.pc = "seated", !.room = joined]
  <2> HIDE DEF joined
  <2>2. /\ k \in TaskRecord /\ k.pc = "seated" /\ k.room = joined /\ k.user = u
        /\ k.read = tasks[t].read /\ k.next = tasks[t].next
    <3>1. joined \in Snapshot
      BY <2>1 DEF SoundSnapshot
    <3>2. QED
      BY <1>2, <3>1 DEF TaskRecord, ByUser
  <2>3. Become(t, k)
    BY <1>4 DEF joined
  <2> HIDE DEF k
  <2>4. SoundTask(k)
    <3>1. tasks[t].next = NoState \/ SoundState(tasks[t].next)
      BY <1>1, <1>2 DEF SoundTasks, SoundTask, Idle
    <3>2. k.pc \notin WithState
      BY <2>2 DEF WithState
    <3>3. QED
      BY <1>2, <2>1, <2>2, <3>1, <3>2 DEF SoundTask, SoundRoom
  <2>5. SoundTasks'
    BY <1>1, <2>3, <2>4, BecomesSound
  <2>6. room' = joined /\ waiting' \in BOOLEAN
    BY <1>4 DEF SaveRoom, joined
  <2>7. QED
    BY <1>1, <1>4, <2>1, <2>5, <2>6 DEF RoomInv, SoundRoom, Join, ClocksOK, clocks, budgets
<1>5. CASE r # NoRoom /\ EnterRoom(t, r) /\ UNCHANGED <<room, waiting>>
  <2>1. SoundTasks' /\ conn' \in [Users -> {"out", "player", "spectator"}]
    BY <1>1, <1>2, <1>5, EntersSound DEF SoundRoom
  <2>2. QED
    BY <1>1, <1>5, <2>1 DEF RoomInv, Join, ClocksOK, clocks, budgets
<1>6. QED
  BY <1>3, <1>4, <1>5 DEF Join

LEMMA AfterSeatStep ==
    ASSUME RoomInv, NEW t \in Tasks, AfterSeat(t)
    PROVE  RoomInv'
<1>1. /\ SoundTasks /\ SoundRoom(room) /\ ClocksOK /\ tasks[t].pc = "seated"
  BY DEF RoomInv, AfterSeat, At
<1>2. SoundSnapshot(tasks[t].room)
  BY <1>1, TaskFacts DEF Seating
<1>3. SoundTasks' /\ conn' \in [Users -> {"out", "player", "spectator"}]
  BY <1>1, <1>2, EntersSound DEF AfterSeat
<1>4. QED
  BY <1>1, <1>3 DEF RoomInv, AfterSeat, ClocksOK, redis, clocks, budgets

\* What is written as a deadline is an instant.
LEMMA TimerInstants ==
    ASSUME NEW r, SoundSnapshot(r)
    PROVE  TimerInstant(r) \in {"past", "future"}
<1>1. CASE r.state = NoState
  BY <1>1 DEF TimerInstant
<1>2. CASE r.state # NoState
  <2>1. r.state \in State
    BY <1>2 DEF SoundSnapshot, SoundState
  <2>2. QED
    BY <1>2, <2>1 DEF TimerInstant, State
<1>3. QED
  BY <1>1, <1>2

LEMMA SchedulesSound ==
    ASSUME ClocksOK, NEW r, SoundSnapshot(r), Schedule(r),
           UNCHANGED <<waiting, conn, calls, crashes>>
    PROVE  ClocksOK'
<1>1. TimerInstant(r) \in Instants
  BY TimerInstants DEF Instants
<1>2. QED
  BY <1>1 DEF ClocksOK, Schedule

LEMMA StartedStep ==
    ASSUME RoomInv, NEW t \in Tasks, Started(t)
    PROVE  RoomInv'
<1>1. /\ SoundTasks /\ SoundRoom(room) /\ ClocksOK /\ tasks[t].pc = "started"
  BY DEF RoomInv, Started, At
<1>2. SoundSnapshot([tasks[t].room EXCEPT !.state = tasks[t].next])
  BY <1>1, TaskFacts, StatedIsSound DEF WithState
<1>3. SoundTasks' /\ ClocksOK'
  BY <1>1, <1>2, FinishesSound, SchedulesSound DEF Started, budgets
<1>4. QED
  BY <1>1, <1>3 DEF RoomInv, Started

LEMMA StartRequestStep ==
    ASSUME RoomInv, NEW t \in Tasks, StartRequest(t)
    PROVE  RoomInv'
<1> DEFINE r == tasks[t].room
           counted == [r EXCEPT !.playerCount = Len(r.players)]
<1>1. /\ SoundTasks /\ SoundRoom(room) /\ ClocksOK /\ tasks[t].pc = "start"
  BY DEF RoomInv, StartRequest, At
<1>2. tasks[t] \in TaskRecord /\ SoundRoom(r) /\ SoundRoom(tasks[t].read) /\ tasks[t].user \in Users
  BY <1>1, TaskFacts DEF ByUser
<1>3. CASE Finish(t) /\ UNCHANGED <<room, waiting>>
  <2>1. SoundTasks'
    BY <1>1, <1>3, FinishesSound
  <2>2. QED
    BY <1>1, <1>3, <2>1 DEF RoomInv, StartRequest, ClocksOK, clocks, budgets
<1>4. CASE /\ r # NoRoom /\ MayStartWith(Len(r.players)) /\ SaveRoom(counted)
           /\ Become(t, [tasks[t] EXCEPT !.pc = "counted", !.room = counted])
  <2>1. /\ SoundSnapshot(counted) /\ Len(counted.players) \in Counts
    <3>1. Len(r.players) \in Counts /\ SoundSnapshot(r)
      BY <1>2, <1>4 DEF MayStartWith, Counts, SoundRoom
    <3>2. QED
      BY <3>1, CountedIsSound
  <2> DEFINE k == [tasks[t] EXCEPT !.pc = "counted", !.room = counted]
  <2> HIDE DEF counted
  <2>2. /\ k \in TaskRecord /\ k.pc = "counted" /\ k.room = counted /\ k.user = tasks[t].user
        /\ k.read = tasks[t].read /\ k.next = tasks[t].next
    <3>1. counted \in Snapshot
      BY <2>1 DEF SoundSnapshot
    <3>2. QED
      BY <1>2, <3>1 DEF TaskRecord, ByUser
  <2>3. Become(t, k)
    BY <1>4 DEF counted
  <2> HIDE DEF k
  <2>4. SoundTask(k)
    <3>1. tasks[t].next = NoState \/ SoundState(tasks[t].next)
      BY <1>1, <1>2 DEF SoundTasks, SoundTask, Idle
    <3>2. k.pc \notin WithState
      BY <2>2 DEF WithState
    <3>3. QED
      BY <1>2, <2>1, <2>2, <3>1, <3>2 DEF SoundTask, SoundRoom
  <2>5. SoundTasks'
    BY <1>1, <2>3, <2>4, BecomesSound
  <2>6. room' = counted /\ waiting' \in BOOLEAN
    BY <1>4 DEF SaveRoom, counted
  <2>7. QED
    BY <1>1, <2>1, <2>5, <2>6 DEF RoomInv, SoundRoom, StartRequest, ClocksOK, clocks, budgets
<1>5. QED
  BY <1>3, <1>4 DEF StartRequest

LEMMA StartCountedStep ==
    ASSUME RoomInv, NEW t \in Tasks, StartCounted(t)
    PROVE  RoomInv'
<1> DEFINE r == tasks[t].room
<1>1. /\ SoundTasks /\ SoundRoom(room) /\ ClocksOK /\ tasks[t].pc = "counted"
  BY DEF RoomInv, StartCounted, At
<1>2. SoundSnapshot(r) /\ Len(r.players) \in Counts
  BY <1>1, TaskFacts DEF Seating
<1>3. SoundState(StartState(r.players))
  BY <1>2, StartIsSound DEF SoundSnapshot, Snapshot
<1>4. SoundTasks'
  BY <1>1, <1>2, <1>3, SetsSoundState DEF StartCounted
<1>5. QED
  BY <1>1, <1>4 DEF RoomInv, StartCounted, ClocksOK, redis, clocks, budgets

-----------------------------------------------------------------------------
(* Moves, resignations and the end of the game *)

LEMMA MoveAttemptStep ==
    ASSUME RoomInv, NEW t \in Tasks, MoveAttempt(t) \/ OnTimeout(t)
    PROVE  RoomInv'
<1> DEFINE r == tasks[t].room
<1>1. /\ SoundTasks /\ SoundRoom(room) /\ ClocksOK /\ tasks[t].pc # "idle" /\ SoundRoom(r)
  BY TaskFacts DEF RoomInv, MoveAttempt, OnTimeout, At
<1>2. CASE Finish(t)
  BY <1>1, <1>2, FinishesSound DEF MoveAttempt, OnTimeout, RoomInv, ClocksOK, redis, clocks, budgets
<1>3. ASSUME NEW won \in BOOLEAN, Active(r), SetRoomState(t, r, Moved(r.state, won), "append")
      PROVE  RoomInv'
  <2>1. SoundSnapshot(r) /\ SoundState(r.state) /\ r.state.status = "active"
    BY <1>1, <1>3, ActiveIsSound
  <2>2. SoundState(Moved(r.state, won))
    BY <2>1, MovedIsSound
  <2>3. SoundTasks'
    BY <1>1, <1>3, <2>1, <2>2, SetsSoundState
  <2>4. QED
    BY <1>1, <2>3 DEF MoveAttempt, OnTimeout, RoomInv, ClocksOK, redis, clocks, budgets
<1>4. QED
  BY <1>2, <1>3 DEF MoveAttempt, OnTimeout, MayMove

LEMMA SaveStateStep ==
    ASSUME RoomInv, NEW t \in Tasks, SaveState(t)
    PROVE  RoomInv'
<1> DEFINE k == tasks[t]
<1>1. /\ SoundTasks /\ SoundRoom(room) /\ ClocksOK /\ k.pc = "saveState"
  BY DEF RoomInv, SaveState, At
<1>2. /\ k \in TaskRecord /\ SoundRoom(k.read) /\ SoundState(k.next) /\ k.then # "none"
  BY <1>1, TaskFacts DEF WithState
<1>3. SoundRoom(room') /\ waiting' \in BOOLEAN
  <2>1. CASE k.read = NoRoom
    BY <1>1, <2>1 DEF SaveState, ClocksOK
  <2>2. CASE k.read # NoRoom
    <3>1. SoundSnapshot([k.read EXCEPT !.state = k.next])
      BY <1>2, <2>2, StatedIsSound DEF SoundRoom
    <3>2. room' = [k.read EXCEPT !.state = k.next] /\ waiting' \in BOOLEAN
      BY <2>2 DEF SaveState, SaveRoom
    <3>3. QED
      BY <3>1, <3>2 DEF SoundRoom
  <2>3. QED
    BY <2>1, <2>2
<1>4. SoundTasks'
  <2>1. CASE k.then = "finish"
    BY <1>1, <2>1, FinishesSound DEF SaveState
  <2>2. CASE k.then # "finish"
    <3>1. Become(t, [k EXCEPT !.pc = k.then, !.read = NoRoom])
      BY <2>2 DEF SaveState
    <3>2. k.then \in WithState \ {"saveState"} /\ k.pc \in WithState
      BY <1>1, <1>2, <2>2 DEF TaskRecord, WithState
    <3>3. SoundRoom(NoRoom)
      BY DEF SoundRoom
    <3>4. QED
      BY <1>1, <3>1, <3>2, <3>3, GoesOnWithItsRoom
  <2>3. QED
    BY <2>1, <2>2
<1>5. QED
  BY <1>1, <1>3, <1>4 DEF RoomInv, SaveState, ClocksOK, clocks, budgets

\* appendMove and the refresh of the handler's log read the room.
LEMMA ReadStep ==
    ASSUME RoomInv, NEW t \in Tasks, AppendRead(t) \/ Refresh(t)
    PROVE  RoomInv'
<1>1. /\ SoundTasks /\ SoundRoom(room) /\ ClocksOK /\ tasks[t].pc \in WithState
  BY DEF RoomInv, AppendRead, Refresh, At, WithState
<1>2. SoundTasks'
  BY <1>1, GoesOnWithItsRoom DEF AppendRead, Refresh, WithState
<1>3. QED
  BY <1>1, <1>2 DEF RoomInv, AppendRead, Refresh, ClocksOK, redis, clocks, budgets

LEMMA SaveLogStep ==
    ASSUME RoomInv, NEW t \in Tasks, SaveLog(t)
    PROVE  RoomInv'
<1> DEFINE r == tasks[t].read
           n == MoveNumber(tasks[t].room)
<1>1. /\ SoundTasks /\ SoundRoom(room) /\ ClocksOK /\ tasks[t].pc = "saveLog"
  BY DEF RoomInv, SaveLog, At
<1>2. SoundRoom(r) /\ SoundSnapshot(tasks[t].room)
  BY <1>1, TaskFacts DEF WithState
<1>3. n \in Nat
  BY <1>2 DEF MoveNumber, SoundSnapshot, Snapshot
<1>4. SoundRoom(room') /\ waiting' \in BOOLEAN
  <2>1. CASE r = NoRoom
    BY <1>1, <2>1 DEF SaveLog, ClocksOK
  <2>2. CASE r # NoRoom
    <3>1. SoundSnapshot(r) /\ Append(r.moveLog, n) \in Seq(Nat)
      BY <1>2, <1>3, <2>2 DEF SoundRoom, SoundSnapshot, Snapshot
    <3>2. SoundSnapshot([r EXCEPT !.moveLog = Append(r.moveLog, n)])
      BY <3>1, LoggedIsSound
    <3>3. room' = [r EXCEPT !.moveLog = Append(r.moveLog, n)] /\ waiting' \in BOOLEAN
      BY <2>2 DEF SaveLog, SaveRoom
    <3>4. QED
      BY <3>2, <3>3 DEF SoundRoom
  <2>3. QED
    BY <2>1, <2>2
<1>5. SoundTasks'
  <2>1. SoundRoom(NoRoom)
    BY DEF SoundRoom
  <2>2. QED
    BY <1>1, <2>1, GoesOnWithItsRoom DEF SaveLog, WithState
<1>6. QED
  BY <1>1, <1>4, <1>5 DEF RoomInv, SaveLog, ClocksOK, clocks, budgets

LEMMA AfterAppendStep ==
    ASSUME RoomInv, NEW t \in Tasks, AfterAppend(t)
    PROVE  RoomInv'
<1> DEFINE k == tasks[t]
           r == WithFreshLog(k)
<1>1. /\ SoundTasks /\ SoundRoom(room) /\ ClocksOK /\ k.pc = "refreshed" /\ k.pc \in WithState
  BY DEF RoomInv, AfterAppend, At, WithState
<1>2. /\ SoundRoom(k.read) /\ SoundSnapshot(k.room) /\ SoundState(k.next)
  BY <1>1, TaskFacts DEF WithState
<1>3. SoundSnapshot(r)
  <2>1. CASE k.read = NoRoom
    BY <1>2, <2>1 DEF WithFreshLog
  <2>2. CASE k.read # NoRoom
    <3>1. k.read.moveLog \in Seq(Nat)
      BY <1>2, <2>2 DEF SoundRoom, SoundSnapshot, Snapshot
    <3>2. QED
      BY <1>2, <2>2, <3>1, LoggedIsSound DEF WithFreshLog
  <2>3. QED
    BY <2>1, <2>2
<1> HIDE DEF r
<1>4. ClocksOK'
  <2>1. UNCHANGED <<waiting, conn, calls, crashes>>
    BY DEF AfterAppend, budgets
  <2>2. CASE UNCHANGED <<deadline, clocks>>
    BY <1>1, <2>1, <2>2 DEF ClocksOK, clocks
  <2>3. CASE Schedule(r)
    BY <1>1, <1>3, <2>1, <2>3, SchedulesSound
  <2>4. CASE k.read # NoRoom /\ Schedule(k.read)
    BY <1>1, <1>2, <2>1, <2>4, SchedulesSound DEF SoundRoom
  <2>5. QED
    BY <2>2, <2>3, <2>4 DEF AfterAppend, r
<1>5. SoundTasks'
  <2>1. CASE SetRoomState(t, r, Stalemated(k.next), "persist")
    BY <1>1, <1>2, <1>3, <2>1, StalematedIsSound, SetsSoundState
  <2>2. CASE Become(t, [k EXCEPT !.pc = "persist", !.room = r, !.read = NoRoom])
    <3>1. SoundRoom(NoRoom) /\ "persist" \in WithState \ {"saveState"}
      BY DEF SoundRoom, WithState
    <3>2. QED
      BY <1>1, <1>3, <2>2, <3>1, GoesOnSound
  <2>3. CASE Finish(t)
    BY <1>1, <2>3, FinishesSound
  <2>4. QED
    BY <2>1, <2>2, <2>3 DEF AfterAppend, r
<1>6. QED
  BY <1>1, <1>4, <1>5 DEF RoomInv, AfterAppend

LEMMA ResignStep ==
    ASSUME RoomInv, NEW t \in Tasks, Resign(t)
    PROVE  RoomInv'
<1> DEFINE r == tasks[t].room
           u == tasks[t].user
<1>1. /\ SoundTasks /\ SoundRoom(room) /\ ClocksOK /\ tasks[t].pc = "resign"
  BY DEF RoomInv, Resign, At
<1>2. SoundRoom(r) /\ u \in Users
  BY <1>1, TaskFacts DEF ByUser
<1>3. CASE Finish(t)
  BY <1>1, <1>3, FinishesSound DEF Resign, RoomInv, ClocksOK, redis, clocks, budgets
<1>4. CASE /\ r # NoRoom /\ r.state # NoState /\ u \notin FinishedIds(r.state.finishedPlayers)
           /\ \E then \in {"persist", "finish"} :
                 SetRoomState(t, r, AfterResign(r.state, u), then)
  <2>1. SoundSnapshot(r) /\ SoundState(r.state)
    BY <1>2, <1>4 DEF SoundRoom, SoundSnapshot
  <2>2. SoundState(AfterResign(r.state, u))
    BY <1>2, <1>4, <2>1, ResignedIsSound
  <2>3. SoundTasks'
    BY <1>1, <1>4, <2>1, <2>2, SetsSoundState
  <2>4. QED
    BY <1>1, <2>3 DEF Resign, RoomInv, ClocksOK, redis, clocks, budgets
<1>5. QED
  BY <1>3, <1>4 DEF Resign

LEMMA GameOverStep ==
    ASSUME RoomInv, NEW t \in Tasks, Persist(t) \/ GameOver(t)
    PROVE  RoomInv'
<1>1. SoundTasks /\ SoundRoom(room) /\ ClocksOK
  BY DEF RoomInv
<1>2. CASE Persist(t)
  <2>1. SoundTask(Task("gameOver", Server, NoRoom))
    BY NewTask DEF SoundRoom, OtherPcs
  <2>2. SoundTasks'
    BY <1>1, <1>2, <2>1, BecomesSound DEF Persist
  <2>3. QED
    BY <1>1, <1>2, <2>2 DEF RoomInv, Persist, ClocksOK, redis, clocks, budgets
<1>3. CASE GameOver(t)
  <2>1. SoundTasks'
    BY <1>1, <1>3, FinishesSound DEF GameOver
  <2>2. QED
    BY <1>1, <1>3, <2>1 DEF RoomInv, GameOver, ClocksOK, Instants, budgets
<1>4. QED
  BY <1>2, <1>3

LEMMA EvictStep ==
    ASSUME RoomInv, Evict
    PROVE  RoomInv'
<1>1. SoundTasks /\ ClocksOK
  BY DEF RoomInv
<1>2. SoundTasks'
  BY <1>1 DEF Evict, SoundTasks
<1>3. SoundRoom(room')
  BY DEF Evict, DeleteRoom, SoundRoom
<1>4. evictions' \in Nat
  <2>1. evictions \in Nat
    BY <1>1 DEF ClocksOK
  <2>2. QED
    BY <2>1 DEF Evict
<1>5. ClocksOK'
  <2>1. waiting' = FALSE /\ UNCHANGED <<deadline, conn, timer, strays, calls, crashes>>
    BY DEF Evict, DeleteRoom, budgets
  <2>2. QED
    BY <1>1, <1>4, <2>1 DEF ClocksOK
<1>6. QED
  BY <1>2, <1>3, <1>5 DEF RoomInv

-----------------------------------------------------------------------------
(* Time, the sweep and restarts *)

LEMMA ElapseStep ==
    ASSUME RoomInv, Elapse
    PROVE  RoomInv'
<1>1. SoundTasks /\ SoundRoom(room) /\ ClocksOK
  BY DEF RoomInv
<1>2. ASSUME NEW r, SoundRoom(r) PROVE SoundRoom(AgedRoom(r))
  <2>1. CASE r = NoRoom
    BY <2>1 DEF AgedRoom, SoundRoom
  <2>2. CASE SoundSnapshot(r)
    BY <2>2, AgedRoomIsSound DEF SoundRoom
  <2>3. QED
    BY <1>2, <2>1, <2>2 DEF SoundRoom
<1>3. ASSUME NEW t \in Tasks PROVE SoundTask(tasks'[t])
  <2>1. CASE tasks[t].pc = "idle"
    <3>1. tasks'[t] = Idle
      BY <2>1 DEF Elapse, At
    <3>2. QED
      BY <3>1 DEF SoundTask
  <2>2. CASE tasks[t].pc # "idle"
    <3> DEFINE k == tasks[t]
               a == [k EXCEPT !.room = AgedRoom(k.room), !.read = AgedRoom(k.read),
                              !.next = AgedState(k.next)]
    <3>1. tasks'[t] = a
      BY <2>2 DEF Elapse, At
    <3>2. k \in TaskRecord /\ SoundRoom(k.room) /\ SoundRoom(k.read) /\ SoundTask(k)
      BY <1>1, <2>2, TaskFacts
    <3>3. SoundRoom(AgedRoom(k.room)) /\ SoundRoom(AgedRoom(k.read))
      BY <1>2, <3>2
    <3>4. AgedState(k.next) = NoState \/ SoundState(AgedState(k.next))
      <4>1. k.next = NoState \/ SoundState(k.next)
        BY <2>2, <3>2 DEF SoundTask, Idle
      <4>2. QED
        BY <4>1, AgedIsSound DEF AgedState
    <3>5. /\ AgedRoom(k.room) \in Snapshot \union {NoRoom}
          /\ AgedRoom(k.read) \in Snapshot \union {NoRoom}
          /\ AgedState(k.next) \in State \union {NoState}
      BY <3>3, <3>4, RoomTypes, SoundScore
    <3>6. /\ a \in TaskRecord /\ a.pc = k.pc /\ a.user = k.user /\ a.then = k.then
          /\ a.room = AgedRoom(k.room) /\ a.read = AgedRoom(k.read)
          /\ a.next = AgedState(k.next)
      BY <3>2, <3>5 DEF TaskRecord
    <3> HIDE DEF a
    <3>7. /\ k.pc \in ByUser => k.user \in Users
          /\ k.pc \in Seating => SoundSnapshot(k.room)
          /\ k.pc = "counted" => Len(k.room.players) \in Counts
          /\ k.pc \in WithState => SoundSnapshot(k.room) /\ SoundState(k.next)
          /\ k.pc = "saveState" => k.then # "none"
      BY <1>1, <2>2, TaskFacts
    <3>8. k.pc \in Seating => SoundSnapshot(a.room)
      BY <3>6, <3>7, AgedRoomIsSound
    <3>9. k.pc = "counted" => Len(a.room.players) \in Counts
      BY <3>6, <3>7, AgedRoomIsSound DEF Seating
    <3>10. k.pc \in WithState => SoundSnapshot(a.room) /\ SoundState(a.next)
      BY <3>6, <3>7, AgedRoomIsSound, AgedIsSound
    <3>11. SoundTask(a)
      BY <3>3, <3>4, <3>6, <3>7, <3>8, <3>9, <3>10 DEF SoundTask
    <3>12. QED
      BY <3>1, <3>11
  <2>3. QED
    BY <2>1, <2>2
<1>4. SoundTasks'
  <2>1. DOMAIN tasks' = Tasks /\ tasks' = [t \in Tasks |-> tasks'[t]]
    BY DEF Elapse
  <2>2. \A t \in Tasks : tasks'[t] \in TaskRecord \union {Idle}
    BY <1>3 DEF SoundTask
  <2>3. QED
    BY <1>3, <2>1, <2>2 DEF SoundTasks
<1>5. ClocksOK'
  <2>1. strays["past"] + strays["future"] \in Nat
    BY <1>1 DEF ClocksOK
  <2>2. strays' \in [{"past", "future"} -> Nat]
    <3>1. strays' = [past |-> strays["past"] + strays["future"], future |-> 0]
      BY DEF Elapse
    <3>2. \A n \in Nat : [past |-> n, future |-> 0] \in [{"past", "future"} -> Nat]
      OBVIOUS
    <3>3. QED
      BY <2>1, <3>1, <3>2
  <2>3. QED
    BY <1>1, <2>2 DEF ClocksOK, Elapse, Instants, budgets
<1>6. QED
  BY <1>1, <1>2, <1>4, <1>5 DEF RoomInv, Elapse

LEMMA FireStep ==
    ASSUME RoomInv, Fire
    PROVE  RoomInv'
<1>1. SoundTasks /\ SoundRoom(room) /\ ClocksOK
  BY DEF RoomInv
<1>2. SoundTasks'
  BY <1>1, BeginsSound DEF Fire, OtherPcs
<1>3. timer' \in Instants /\ strays' \in [{"past", "future"} -> Nat]
  <2>1. CASE timer' = "none" /\ UNCHANGED strays
    BY <1>1, <2>1 DEF ClocksOK, Instants
  <2>2. CASE strays["past"] > 0 /\ strays' = [strays EXCEPT !["past"] = @ - 1] /\ UNCHANGED timer
    BY <1>1, <2>2 DEF ClocksOK
  <2>3. QED
    BY <2>1, <2>2 DEF Fire
<1>4. QED
  BY <1>1, <1>2, <1>3 DEF RoomInv, Fire, ClocksOK, redis, budgets

LEMMA TickStep ==
    ASSUME RoomInv, NEW t \in Tasks, Tick(t)
    PROVE  RoomInv'
<1>1. SoundTasks /\ SoundRoom(room) /\ ClocksOK
  BY DEF RoomInv
<1>2. SoundTasks'
  <2>1. CASE Finish(t)
    BY <1>1, <2>1, FinishesSound
  <2>2. CASE Become(t, Task("timeout", Server, room))
    <3>1. SoundTask(Task("timeout", Server, room))
      BY <1>1, NewTask DEF OtherPcs
    <3>2. QED
      BY <1>1, <2>2, <3>1, BecomesSound
  <2>3. QED
    BY <2>1, <2>2 DEF Tick
<1>3. UNCHANGED clocks \/ Rearm
  BY DEF Tick
<1>4. /\ timer' \in Instants /\ strays' \in [{"past", "future"} -> Nat] /\ evictions' = evictions
  <2>1. CASE UNCHANGED clocks
    BY <1>1, <2>1 DEF ClocksOK, clocks
  <2>2. CASE Rearm
    <3>1. timer = "none" \/ timer \in {"past", "future"}
      BY <1>1 DEF ClocksOK, Instants
    <3>2. strays' \in [{"past", "future"} -> Nat]
      BY <1>1, <2>2, <3>1 DEF Rearm, ClocksOK
    <3>3. QED
      BY <2>2, <3>2 DEF Rearm, Instants
  <2>3. QED
    BY <1>3, <2>1, <2>2
<1>5. QED
  BY <1>1, <1>2, <1>4 DEF RoomInv, Tick, ClocksOK, Instants, budgets

LEMMA SweepStep ==
    ASSUME RoomInv, SweepCall \/ \E t \in Tasks : SweepRead(t) \/ Sweep(t)
    PROVE  RoomInv'
<1>1. SoundTasks /\ SoundRoom(room) /\ ClocksOK
  BY DEF RoomInv
<1>2. CASE SweepCall
  <2>1. SoundTask(Task("listed", Server, NoRoom))
    BY NewTask DEF SoundRoom, OtherPcs
  <2>2. SoundTasks'
    BY <1>1, <1>2, <2>1, BecomesSound DEF SweepCall
  <2>3. QED
    BY <1>1, <1>2, <2>2 DEF RoomInv, SweepCall, Call, ClocksOK, redis, clocks
<1>3. ASSUME NEW t \in Tasks, SweepRead(t) PROVE RoomInv'
  <2>1. SoundTask(Task("sweep", Server, room))
    BY <1>1, NewTask DEF OtherPcs
  <2>2. SoundTasks'
    BY <1>1, <1>3, <2>1, BecomesSound DEF SweepRead
  <2>3. QED
    BY <1>1, <1>3, <2>2 DEF RoomInv, SweepRead, ClocksOK, redis, clocks, budgets
<1>4. ASSUME NEW t \in Tasks, Sweep(t) PROVE RoomInv'
  <2>1. SoundTasks'
    BY <1>1, <1>4, FinishesSound DEF Sweep
  <2>2. SoundRoom(room') /\ waiting' = FALSE
    BY <1>1, <1>4 DEF Sweep, DeleteRoom, SoundRoom
  <2>3. QED
    BY <1>1, <1>4, <2>1, <2>2 DEF RoomInv, Sweep, ClocksOK, clocks, budgets
<1>5. QED
  BY <1>2, <1>3, <1>4

LEMMA RestartStep ==
    ASSUME RoomInv, Crash \/ \E t \in Tasks : RecoverRead(t) \/ Recover(t)
    PROVE  RoomInv'
<1>1. SoundTasks /\ SoundRoom(room) /\ ClocksOK
  BY DEF RoomInv
<1>2. CASE Crash
  <2>1. SoundTask(Task("recover", Server, NoRoom)) /\ SoundTask(Idle)
    BY NewTask DEF SoundRoom, OtherPcs, SoundTask
  <2>2. \A t \in Tasks : tasks'[t] = Task("recover", Server, NoRoom) \/ tasks'[t] = Idle
    BY <1>2 DEF Crash
  <2>3. tasks' = [t \in Tasks |-> tasks'[t]]
    BY <1>2 DEF Crash
  <2>4. \A t \in Tasks : SoundTask(tasks'[t])
    BY <2>1, <2>2
  <2>5. SoundTasks'
    BY <2>3, <2>4 DEF SoundTasks, SoundTask
  <2>6. QED
    BY <1>1, <1>2, <2>5 DEF RoomInv, Crash, ClocksOK, Instants, redis
<1>3. ASSUME NEW t \in Tasks, RecoverRead(t) PROVE RoomInv'
  <2>1. SoundTask(Task("recovered", Server, room))
    BY <1>1, NewTask DEF OtherPcs
  <2>2. SoundTasks'
    BY <1>1, <1>3, <2>1, BecomesSound DEF RecoverRead
  <2>3. QED
    BY <1>1, <1>3, <2>2 DEF RoomInv, RecoverRead, ClocksOK, redis, clocks, budgets
<1>4. ASSUME NEW t \in Tasks, Recover(t) PROVE RoomInv'
  <2>1. SoundTasks'
    BY <1>1, <1>4, FinishesSound DEF Recover
  <2>2. SoundRoom(tasks[t].room)
    BY <1>1, <1>4, TaskFacts DEF Recover, At
  <2>3. CASE Active(tasks[t].room)
    <3>1. SoundSnapshot(tasks[t].room)
      BY <2>2, <2>3, ActiveIsSound
    <3>2. ClocksOK'
      BY <1>1, <1>4, <2>3, <3>1, SchedulesSound DEF Recover, budgets
    <3>3. QED
      BY <1>1, <1>4, <2>1, <3>2 DEF RoomInv, Recover
  <2>4. CASE ~Active(tasks[t].room)
    BY <1>1, <1>4, <2>1, <2>4 DEF RoomInv, Recover, ClocksOK, Instants, clocks, budgets
  <2>5. QED
    BY <2>3, <2>4
<1>5. QED
  BY <1>2, <1>3, <1>4

LEMMA ClientStep ==
    ASSUME RoomInv, NEW u \in Users, Client(u)
    PROVE  RoomInv'
<1>1. SoundTasks /\ SoundRoom(room) /\ ClocksOK
  BY DEF RoomInv
<1>2. /\ \E pc \in {"join", "watch", "start", "move", "resign"} : Begin(pc, u)
      /\ Call /\ UNCHANGED <<redis, record, conn, clocks, crashes>>
  BY DEF Client, JoinCall, StartCall, MoveCall, ResignCall
<1>3. SoundTasks'
  BY <1>1, <1>2, BeginsSound
<1>4. QED
  BY <1>1, <1>2, <1>3 DEF RoomInv, Call, ClocksOK, redis, clocks

-----------------------------------------------------------------------------
(* The theorems *)

LEMMA InitRoomInv == Init => RoomInv
<1> SUFFICES ASSUME Init PROVE RoomInv
  OBVIOUS
<1>1. SoundRoom(room)
  <2>1. room \in Snapshot
    BY RoomAssumption DEF Init, Snapshot, Counts
  <2>2. room.players = <<Host>> /\ room.state = NoState
    BY DEF Init
  <2>3. Distinct(<<Host>>)
    BY DEF Distinct
  <2>4. QED
    BY <2>1, <2>2, <2>3 DEF SoundRoom, SoundSnapshot
<1>2. SoundTasks
  BY DEF Init, SoundTasks, SoundTask
<1>3. ClocksOK
  BY DEF Init, ClocksOK, Instants
<1>4. QED
  BY <1>1, <1>2, <1>3 DEF RoomInv

LEMMA NextRoomInv == RoomInv /\ [Next]_vars => RoomInv'
<1> SUFFICES ASSUME RoomInv, [Next]_vars PROVE RoomInv'
  OBVIOUS
<1>1. ASSUME NEW t \in Tasks, Step(t) PROVE RoomInv'
  BY <1>1, JoinStep, AfterSeatStep, StartedStep, StartRequestStep, StartCountedStep,
     MoveAttemptStep, ReadStep, SaveLogStep, AfterAppendStep, ResignStep, SaveStateStep,
     GameOverStep, TickStep, SweepStep, RestartStep
  DEF Step
<1>2. ASSUME NEW u \in Users, Client(u) PROVE RoomInv'
  BY <1>2, ClientStep
<1>3. CASE Evict \/ Elapse \/ Fire \/ SweepCall \/ Crash
  BY <1>3, EvictStep, ElapseStep, FireStep, SweepStep, RestartStep
<1>4. CASE UNCHANGED vars
  BY <1>4 DEF vars, RoomInv, SoundTasks, ClocksOK, redis, clocks, budgets
<1>5. QED
  BY <1>1, <1>2, <1>3, <1>4 DEF Next

\* The room, its indexes, timers and counters have their types in every
\* reachable state.
THEOREM RoomTypeCorrect == Spec => []TypeOK
<1>1. RoomInv => TypeOK
  BY DEF RoomInv, SoundRoom, SoundSnapshot, Snapshot, Seated, ClocksOK, TypeOK
<1>2. QED
  BY <1>1, InitRoomInv, NextRoomInv, PTL DEF Spec

\* However many handlers, timers, sweeps and restarts overlap, and whichever
\* updates are lost, the score stored in Redis is one a game can have: nobody
\* has finished twice, the game is over exactly when all but one have finished
\* or by stalemate, and the turn is not a winner's.
THEOREM StoredScoresAreSound == Spec => []StoredScoreIsSound
<1>1. RoomInv => StoredScoreIsSound
  BY DEF RoomInv, SoundRoom, SoundSnapshot, SoundState, FinishersDistinct, StoredScoreIsSound
<1>2. QED
  BY <1>1, InitRoomInv, NextRoomInv, PTL DEF Spec

-----------------------------------------------------------------------------
(* The record *)

\* Only emitGameOver writes it.
LEMMA RecordKept ==
    ASSUME [Next]_vars
    PROVE  UNCHANGED record \/ \E t \in Tasks : Persist(t)
<1>1. ASSUME NEW t \in Tasks, Step(t) PROVE UNCHANGED record \/ Persist(t)
  BY <1>1 DEF Step, Join, AfterSeat, Started, StartRequest, StartCounted, MoveAttempt, AppendRead,
              SaveLog, Refresh, AfterAppend, Resign, SaveState, GameOver, Tick, OnTimeout,
              SweepRead, Sweep, RecoverRead, Recover
<1>2. ASSUME NEW u \in Users, Client(u) PROVE UNCHANGED record
  BY <1>2 DEF Client, JoinCall, StartCall, MoveCall, ResignCall
<1>3. CASE Evict \/ Elapse \/ Fire \/ SweepCall \/ Crash
  BY <1>3 DEF Evict, Elapse, Fire, SweepCall, Crash
<1>4. QED
  BY <1>1, <1>2, <1>3 DEF Next, vars

\* What a sound state is ranked by, if the schema's keys let it be recorded.
LEMMA SoundIsRankable ==
    ASSUME NEW s, SoundState(s),
           FinishedIds(s.finishedPlayers) \subseteq {s.turnOrder[i] : i \in DOMAIN s.turnOrder}
    PROVE  Rankable(s)
<1>1. s.turnOrder \in Seq(Users) /\ s.finishedPlayers \in Seq(Finisher)
  BY SoundScore DEF State
<1>2. QED
  BY <1>1 DEF Rankable, SoundState, Distinct, FinishersDistinct

LEMMA PersistRanks ==
    ASSUME RoomInv, RecordIsRanked, NEW t \in Tasks, Persist(t)
    PROVE  RecordIsRanked'
<1> DEFINE s == tasks[t].next
           f == s.finishedPlayers
           n == Len(s.turnOrder)
           order == FinishOrder(s)
<1>1. SoundState(s)
  BY TaskFacts DEF RoomInv, Persist, At, SoundTask, WithState, Idle
<1> HIDE DEF s
<1>2. CASE UNCHANGED record
  BY <1>2 DEF RecordIsRanked
<1>3. CASE Persistable(tasks[t].room, s) /\ record'.finishOrder = order
  <2>1. Rankable(s)
    BY <1>1, <1>3, SoundIsRankable DEF Persistable
  <2>2. n \in Counts /\ Placed(f, n) /\ DOMAIN f = 1..Len(f)
    BY <1>1, SoundScore DEF SoundState
  <2>3. /\ Len(f) \in Nat /\ Len(order) = n /\ DOMAIN order = 1..n
        /\ \A i \in 1..Len(f) : order[i] = f[i]
        /\ \A i \in 1..n : i > Len(f) => order[i].finishPos = i
        /\ \A i, j \in 1..n : order[i].userId = order[j].userId => i = j
    BY <2>1, FinishOrderRanks
  <2> HIDE DEF order
  <2>4. ASSUME NEW i \in 1..n PROVE order[i].finishPos \in {i, n}
    <3>1. CASE i > Len(f)
      BY <2>3, <3>1
    <3>2. CASE ~(i > Len(f))
      <4>1. i \in 1..Len(f)
        BY <2>3, <3>2
      <4>2. QED
        BY <2>2, <2>3, <4>1 DEF Placed
    <3>3. QED
      BY <3>1, <3>2
  <2>5. QED
    BY <1>3, <2>2, <2>3, <2>4 DEF RecordIsRanked
<1>4. QED
  BY <1>2, <1>3 DEF Persist, s

\* However handlers overlap, a persisted game ranks every player exactly once
\* and nobody else (persistCompletedGame and the keys of the schema).
THEOREM RecordsAreRanked == Spec => []RecordIsRanked
<1>1. Init => RecordIsRanked
  BY DEF Init, RecordIsRanked
<1>2. RoomInv /\ RecordIsRanked /\ [Next]_vars => RecordIsRanked'
  <2> SUFFICES ASSUME RoomInv, RecordIsRanked, [Next]_vars PROVE RecordIsRanked'
    OBVIOUS
  <2>1. CASE UNCHANGED record
    BY <2>1 DEF RecordIsRanked
  <2>2. QED
    BY <2>1, RecordKept, PersistRanks
<1>3. QED
  BY <1>1, <1>2, InitRoomInv, NextRoomInv, PTL DEF Spec

=============================================================================
