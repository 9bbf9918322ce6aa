# Halma: a TLA+ model of the game and its server

Models, model-checking runs and machine-checked proofs for the Chinese
Checkers ("Halma") monorepo: the rule engine in `packages/game-engine`, the
server in `apps/server` (game rooms, sessions, ratings, room list, limiters) and
the state a web client keeps of all that in `apps/web`. Source references are to
files of the repository, `path:line`; files without a path are the server's.

    tlc -workers 2 -config match_three.cfg MCReplay    # a run, see the table below
    tlapm Match_proofs.tla                             # the proofs of a module

## 1. Inventory

| Part | State it keeps | Operations | Interacts with |
|---|---|---|---|
| **Rule engine** `packages/game-engine/src` | none (pure functions on `GameState`) | `createInitialBoard`, `validateMove`, `getValidDestinations`, `findPath`, `getAllValidMoves`, `applyMove`, `checkWin` | called by the server (attempts, previews, timer moves) and by the web client |
| **Live rooms** `apps/server/src/socket.ts`, rooms half of `store.ts` | Redis: `room:{id}` (players, `GameState`, move log), indexes `rooms:waiting`, `rooms:public`, sorted set `turn:deadlines`; process: `turnTimerHandles`, eviction timeouts, `socket.data`, move token buckets | `ROOM_JOIN`, `GAME_START_REQUEST`, `GAME_MOVE_ATTEMPT`, `GAME_RESIGN`, preview, chat, turn timer, idle sweep, eviction, recovery at boot | engine; `persistCompletedGame`; events to clients |
| **Finishing a game** `persistGame.ts`, `elo.ts`, `prisma/schema.prisma` | Postgres: `Game`, `GamePlayer`, `Move`, `EloRating`, `EloHistory` | one transaction per game: finish order, rating changes, rows; history, leaderboard and replay read them; deleting an account rewrites seats | called by `emitGameOver`; accounts |
| **Sessions** `auth.ts`, auth routes of `routes.ts`, `apps/web` `api/client.ts`, `stores/auth.ts` | Postgres: `User`, `RefreshToken`, `PasswordReset`; per browser: the `cc_rt` cookie and `cc_auth` in localStorage; per tab: the access token | register, log in (password, Google), refresh, log out, forgot and reset, list and revoke sessions, delete the account, clean up | HTTP API, socket handshake, 5-minute token recheck |
| **HTTP API** `routes.ts`, users half of `store.ts` | none of its own but the `/rooms` cache | accounts, profiles, history, room creation and list, leaderboard, replay data | store, sessions, ratings |
| **Users store and public-room index** `store.ts` | Postgres users; Redis set `rooms:public` beside the room keys | check-then-create of users; list, with clean-up of entries whose room is gone | HTTP API; rooms |
| **Rate limiters** `rateLimit.ts`, `socket.ts:82-92` | Redis sorted sets; in-memory buckets | sliding window, fixed-window bucket | every route, every move attempt |
| **Web client** `apps/web/src` | board copy, animation queue, selection and destinations (`stores/game.ts`), one socket, page state | apply snapshots, `MOVE_CONFIRMED` and previews, animate, move, reconnect; poll the lobby; step through a replay | socket events, HTTP API |
| **Integrations** `lib/*`, `env.ts`, `index.ts` | none | mail, S3, breach lookup, logging, set-up | pure I/O |

### What is hard

Handlers are `async` functions that read the whole room from Redis, decide, and
write the whole room back, with one to six awaits in between; nothing locks a
room, and the store's two updaters (`setRoomState`, `appendMove`) are
get-modify-set. A turn timer whose handle is process-local and whose deadline
is in Redis plays for users who do not; a restart may fall between any two
commands. On the engine's side, legality is written three times, the blocking
rule lets users move each other's marbles, a game goes on after its first
winner, and users finish by winning or by resigning at any moment.

The rest is the same trouble elsewhere. Refresh tokens are read, then marked as
exchanged, then replaced, in three statements that two tabs may interleave; an answer
may be lost, and the client's own logout or login may overtake an earlier request.
Ratings are read, computed and written back as absolute values by transactions that
only lock what they have written. The list of rooms is answered from a cache
that is filled after an await. A client puts its board together from a snapshot, the
events after it and its own animations, over a socket that loses connections
and never leaves a room it has joined.

### What makes each part correct

* **Rule engine:** marbles are neither created nor lost; users finish at most
  once, and the game is over exactly when all but one have; the turn never
  rests on a winner and a winner's zone stays filled; the three legality
  algorithms agree.
* **Live rooms:** what is stored is always the score of a possible game; the log
  has every move once, in order, and is bounded; a running game is timed; the timer
  acts only when a turn's time is up; waiting rooms can be swept and games are
  not; every started game ends, is persisted and evicted; all of that across
  restarts, where the code provides for them.
* **Finishing:** the persisted game is the room's; it ranks everybody once; a
  user's rating adds up the changes of its games, the leaderboard counts them, a
  game's changes cancel out, and a game keeps its seats when accounts go.
* **Sessions:** a token is exchanged once; sessions that were ended stay ended; a
  browser does not come to hold a token that would end them all.
* **Room list:** no answer is older than the cache allows, and an open lobby comes to
  show the rooms there are.
* **Limiters:** no window of time serves more than the limit.
* **Web client:** the board is always a position of the game, in the end the current
  one; moves are animated once and in order; destinations shown are the selected
  marble's; a replay shows the game that was played.

`PROJECT.json` lists the components with their status and every hazard with
its line and the properties that cover it.

## 2. Modules

| Module | Models | Depends on |
|---|---|---|
| `HexBoard` | `board.ts`: cells, triangles, rotations, players' home points; the radius `N` is a parameter (the program's is 4) | |
| `Rules` | `initialBoard.ts`, `winCheck.ts`, board halves of `moves.ts` and `validators.ts`, as operators on a board | `HexBoard` |
| `Scoreboard` | the score half of a `GameState`: turn order and index, finish list, status, end reason; `applyMove`'s and the resignation handler's effect on it | |
| `Match` | one game, one call at a time: attempts, timer moves, resignations | `Rules`, `Scoreboard` |
| `Match_proofs` | the theorems about `Match` and `Replay` | `Replay`, `Scoreboard_proofs` |
| `Game` | the abstract game: started once, every change is one whole operation, gone only after it is completed | `Scoreboard` |
| `Room` | one room on the server: Redis, handlers split at their awaits, timers, sweep, persisting, eviction, restarts | `Scoreboard` |
| `Replay` | a game, its move log with the cap, and the replay page that plays the log | `Match` |
| `Sessions` | accounts, refresh-token rows, reset tokens, the HTTP handlers one await at a time, cookies and tabs | |
| `Ledger` | the transaction that records a game, ratings, account deletion, leaderboard | `Scoreboard`, `Sums` |
| `Limits` | the sliding window and the move bucket | `Sums` |
| `Sums` | sums over finite sets | |
| `Lobby` | the public-room index, `GET /rooms` with its cache, a lobby page that polls | |
| `WebGame` | the web client's game store, socket and pages, beside what the server emits | |
| `RoomGame` | a room seen as a `Game`: the refinement mapping | `Room`, `Game` |
| `Scoreboard_proofs` | lemmas on the turn order | `Scoreboard` |
| `Room_proofs`, `Sessions_proofs` | theorems about `Room` and `Sessions` | |
| `Web_proofs` | theorems about `Lobby` and `WebGame` | `Lobby`, `WebGame` |
| `Accounts_proofs` | theorems about `Ledger` and `Limits`, lemmas on sums | `Ledger`, `Limits`, `Scoreboard_proofs` |
| `RoomGame_proofs` | the room implements the game | `RoomGame`, `Room_proofs` |
| `RoomSerial_proofs` | what the room keeps while no two handlers overlap | `RoomGame_proofs` |
| `MCMatch`, `MCReplay`, `MCBoard`, `MCRoom`, `MCAccounts`, `MCWeb` | instances for TLC | |

**Match.** `board` is `GameState.board` with the owner of the marble on each
cell (its colour is a function of the owner); `game` is the rest.
`MoveAttempt(p)` is the `GAME_MOVE_ATTEMPT` handler with a path taken from
`ClientPaths`, everything a client may send; `MoveAllowed` is `validateMove`
after its turn checks, `HasTheMove`. `Timeout` is `onTimeout`: any member of
`getAllValidMoves`. `FindPaths` is the set of shortest paths of which `findPath`
returns the one its direction order favours. The breadth-first search of
`getValidDestinations` is the closure `HopClosure`. The do-while of `applyMove`
is `NextTurnIndex`, the first open seat after the current one.

**Room.** `room` is the JSON value in Redis or `NoRoom`; `waiting` and
`deadline` are the memberships in `rooms:waiting` and `turn:deadlines`. Each
element of `Tasks` is a place for one handler under way; its record holds the
`pc`, the snapshot the handler read (`room` in the code), what `setRoomState` or
`appendMove` has read but not yet written, and the state it will write. One step is
the code that runs when a reply arrives, together with the command it sends
next:

| Code | Steps |
|---|---|
| `ROOM_JOIN`, `socket.ts:160` | `JoinCall` reads, `Join` takes a seat and saves or goes on, `AfterSeat` starts a full room |
| `GAME_START_REQUEST`, `:197` | `StartCall`, `StartRequest` (saves the player count), `StartCounted` |
| `startGame`, `:432` | `SetRoomState`, `SaveState`, `Started` (arms the timer) |
| `GAME_MOVE_ATTEMPT`, `:240` | `MoveCall`, `MoveAttempt`, `SaveState`, `AppendRead`, `SaveLog`, `Refresh`, `AfterAppend` |
| `GAME_RESIGN`, `:356` | `ResignCall`, `Resign`, `SaveState` |
| `emitGameOver`, `:466` | `Persist`, `GameOver`, and `Evict` when the timeout fires |
| `scheduleTurnTimer`, `tick`, `onTimeout`, `:512-619` | `Schedule`, `Fire`, `Tick`, `Rearm`, `OnTimeout`, then as a move |
| `sweepIdleRooms`, `store.ts:358` | `SweepCall`, `SweepRead`, `Sweep` |
| restart and `recoverTurnTimers`, `:555` | `Crash`, `RecoverRead`, `Recover` |

Time has two instants, past and future; `Elapse` lets every instant written down
so far pass, in Redis, in timers and in the snapshots handlers hold. `strays`
counts the timeouts that `turnTimerHandles` no longer points at: only the early-fire
branch of the tick makes them (`socket.ts:529-533`). The board is reduced to two
choices: an attempt of the user to move is legal or not, and a legal
move fills the target or not.

**Replay.** The log grows by the pair of cells each move changes, and the game is
called a stalemate when it is full. `Load` gives the page the seats and the log;
`Start` is the position it builds by itself (`Replay.tsx:41`), `Shown` the board after
`step` moves; `Scrub`, `PlayOrPause` and `Tick` move it. The replay is not told of
resignations, so its turn and its finishers need not be the game's; its boards have to
be, and the rest too when nobody resigned.

**Sessions.** Each element of `Slots` is a place for one HTTP request, from the
moment a tab sends it until the answer is heard or lost. Its `pc` says which
await of which handler it is in: `sent`, then for a refresh `rotate`, `issue` and
`whoami`. A token row has its status (unused, live, revoked or gone; a live one may have expired)
and ghosts that say where it comes from: `login`, how often all sessions had been ended
at the login it descends from; `raced`, it was issued by a handler that had looked
before the last of these; `uses` and `contested`, how often it was exchanged and
whether two requests had found it live at once. `ends` counts, for each account, the
events that end all its sessions; `upset` collects the browsers that lost an
answer. The client half is the fetch wrapper: a 401
is answered by a refresh and one retry, a refresh that fails by a logout that is
not waited for (`api/client.ts`, `stores/auth.ts:45`).

**Ledger.** `EndOfGame` begins a game's transaction, `ReadRating`, `WriteSeat` and
`Commit` are its statements; isolation is read committed, a row that was written is
locked until the end, a cycle of waits aborts a transaction
(`DeadlockAbort`), and one may fail by itself. `DeleteMoves` and `DeleteUser`
are the two steps of deleting an account: its seats go to a stand-in, then the row goes,
with what the foreign keys make of it. Scores are those `Scoreboard` produces.

**Limits, Lobby.** Both are the code on a clock: `Recorded` is the Redis
transaction of `rateLimit.ts:31`, `HasToken` the bucket of `socket.ts:85`. In `Lobby`,
a request for `GET /rooms` looks at the cache, reads the index, reads the rooms,
fills the cache stamped with the time before all that, and answers with what the cache holds
by then; ages are counted from the earliest thing a list has read. The page keeps
whichever answer comes last.

**WebGame.** A board is the sequence of the moves made on the starting position, so
a move applied twice or not at all shows. The server's half (`live`, `joins`,
`wire`) is what `Room` does as one client sees it: a move is saved, then emitted
to the channels' members; a join reads the room, then enters the channel, then sends the
snapshot. `store` is `useGameStore`; `Started` and `Applied` are its reducers of a snapshot
and of a confirmed move; `Pick`, `PickOldMove`, `Attempt` and the page actions are the user's.
`unsettled` collects why the store may differ from the server: a connection lost
(`drop`), a snapshot that overlapped a move (`gap`), an event of another room
(`foreign`), a snapshot while animations waited (`skipped`), a preview request that found no
game to be answered about (`unanswered`).

Definitions named `X_Something` with a comment "Mutant" are not used by the model:
each is `X` with a slip a programmer could make, and shows that some property
depends on `X` being right.

## 3. Runs

| Run | Checks | Size |
|---|---|---|
| `match_three` (`MCReplay`) | all games of 3 users, radius 1, blocking rule on; all replays of games with a short log | 401 298 states, about 3 min |
| `board_radius2` | the first 4 moves of 2 users on radius 2 | 5 047 states, about 1 min |
| `room_serial` | a 3-seat room, handlers one after the other, liveness included | 79 965 states, 20 s |
| `room_restart` | the same with 2 restarts anywhere | 916 084 states, about 2.5 min |
| `room_racing` | 2 handlers interleaved | 3.2 million states, 2 to 4 min |
| `accounts` | sessions; the recording of games; the limiters | 500 182 states, about 2 min |
| `web` | a game as a web client sees it; the lobby; liveness included | 564 023 states, about 2 min |
| `evicted_into_target`, `resigner_gains`, `double_move`, `restart_untimed`, `sweep_started` | five statements of the repository the code does not keep | seconds |

`match_three`, `accounts` and `web` each hold parts that share no state. A variable
chosen at the start (`recorded`, `focus`) says which part a behaviour is about; the
others stand still.

**match_three** explores every position: one marble per user, 13 cells, moves by
attempt and by timer, resignations at any time and after the end.
`TypeOK`, `MarblesConserved`, `EndsWhenDecided` (which is
`CompletedWhenDecided` for games that did not fill their log: the code looks at the length
of the finish list, the property at the users who have not finished, so it fails too when
somebody is listed twice),
`WinnersStayHome` and `TurnSkipsWinners` are the engine's correctness as listed
above; `MovesAgree` compares the three legality algorithms for every path of at most
`MaxHops` jumps, straight from the client's side, in every position. **board_radius2**
asks `MovesAgree` again where triangles have three cells and
hops chain around them. In `recorded` behaviours the cap is four, the log has five moves at most and
`ReplayShowsTheGame` compares every board the page can show with the one the game
had then, for games with resignations, winners, evictions and timer moves.

**room_serial.** With no two handlers at once: `LogFollowsGame` (numbers 1, 2, 3,
... and as many as the game counts), `RunningGameIsTimed` (one timer, not
later than the deadline, listed for a restart), `RecordMatchesRoom` (the
persisted game is the room's, whatever late resignations follow; not the finish order
of a stalemate, see below), `NoGameIsLost`, `TimerWaitsForDeadline` (the timer
takes no move before the turn's time is up, although `onTimeout` arms the next timer from
its stale snapshot, `socket.ts:617`), and `GamesEnd`: every running game
leads to an evicted room. All but `GamesEnd` are also proved (`RoomSerial_proofs`).

**room_restart.** `ImplementsGame`: with the room's score as the abstract
`game`, every step of the server is a step of `Game` or a stutter, wherever a
restart cuts a handler (also proved, see `RoomGame_proofs`). `LogStaysBounded` needs one extra entry per restart
because a restart may fall between the append and the verdict on it.
`ListedGamesAreTimed`: a listed deadline gets its timer at the next boot.
`WaitingRoomIsListed`: no waiting room escapes the sweep. `OnlyPlayersPlay`: a seat once
taken is kept, so a socket that is told it plays has one, and the players of the room are
those of the game; where two joins overlap it fails (`socket.ts:169`). These four are also
proved.

**room_racing.** Handlers overlapping freely lose updates; still,
`StoredScoreIsSound` (distinct finishers, completed exactly when decided or
stalemated, no turn for a winner) and `RecordIsRanked` (each player ranked once)
hold. Both are also proved (`Room_proofs`).

**accounts, sessions.** An account, a browser with two tabs, two requests under way, 3
clicks and a mishap (crash, refusal, lost answer, expiry) at any moment. The code
does lose sessions and does let some survive that were to end; the properties
say exactly when. `EndedSessionsStayEnded`: a token is live after a logout, a reset or
a detected reuse only if it comes from a later login, or its handler was under way
at that moment. `SingleUse`: a token is exchanged twice only if two requests found it live
together. `CookieIsCurrent`: a browser keeps an exchanged token, which would end
all its sessions when next presented, only after a lost answer or while the exchange
is under way; two tabs that race leave it with one of the new tokens, or with none.

**accounts, ledger.** Two games of three players, in the modes for two and for
more, recorded at the same time, by four scores (a win, a resignation, a stalemate,
a game for three), with a failing transaction and two accounts that may be
deleted. `RatingAddsUp` leaves out players whose games overlap: their updates
are lost (`persistGame.ts:59`). `LeaderboardCounts` leaves nobody out, since the counters
are incremented in the database; games, wins and losses are each compared with the history. `SeatsAreKept`, `ChangesBalance` (to within the
rounding of each change).

**accounts, limits.** `ServedPerWindow`: every window, wherever it begins, serves at most
the maximum. `PlayedPerWindow`: the bucket lets at most twice the limit through in
a span of its length, which two adjoining windows reach.

**web, game.** A visit to game A, whose 2 moves are made meanwhile and which may end,
and to game B that runs; 3 inputs of the user or the network. `ViewIsAPosition`,
`ViewIsCurrent`, `PreviewsSettle`, `AnimationsInOrder`, and `MovesArrive`: a client
that has lost nothing catches up again and again.

**web, lobby.** One room, two requests under way, 3 changes. `AnswersAreFresh`: no
answer contains anything read longer before the request than the cache's time to live;
`LobbyCatchesUp`: once the rooms stand still, the page comes to show them and goes on to.

### Disagreements with the repository's own words

1. *`winCheck.ts:5`*, "A player wins when all 10 of their marbles occupy the opposing
   home triangle": an opponent's eviction can complete a user's zone, and `applyMove`
   looks at the mover only (`evicted_into_target`; it needs adjacent home points,
   so four users).
2. *`elo.ts:5`*, "Winner +delta, loser -delta": places are taken from the order of
   `finishedPlayers`, where a resigner comes before those who have not finished, so in a game for two the
   resigner gains rating and the other loses it (`resigner_gains`).
3. *`schema.prisma:144`*, `@@unique([gameId, moveNumber])`: two overlapping attempts
   log one number (`double_move`); the game can then not be persisted.
4. *`socket.ts:73-75`*, "so timers survive restart": not if the restart falls between the
   save of the started game and the write of its deadline (`restart_untimed`).
5. *`store.ts:355`*, "with no active game": the sweep deletes a room whose game was
   started after it read it (`sweep_started`).

Also met on the way, without a run of their own:

* Rooms. A resignation after a stalemate changes the stored finish order and
  `endReason` of a game that has been persisted (`socket.ts:360` looks at no status), which is why
  `RecordMatchesRoom` exempts the order of a stalemate. Two joins that overlap lose a
  player. A room saved after its deletion is back, and a listing under way may drop
  it from the index. `DESIGN.md:507` promises a snapshot after a reconnection, but the
  client joins only when a page opens.
* Web client. The socket never leaves a room, so events and previews of one game are applied
  to the board of the next; `store.reset` is never called; a join of a completed room
  gets no snapshot; animations that wait survive a new snapshot; a cell chosen
  in the move history may get the destinations asked for another marble
  (`MoveHistory.tsx:37`). The replay counts turns and finishers of another game
  than was played when somebody resigned.
* Sessions. `GET /me/sessions` never marks the current session: the cookie's path is
  `/api/v1/auth` (`routes.ts:51`, `:415-428`). A refresh that comes late signs a tab that has logged out
  in again; a logout overtakes the next login. Registration that stops between
  creating the user and setting the password leaves a name nobody can use. A login
  with a wrong password is a 401 like any other and refreshes the session of whoever was
  signed in before. `socket.ts:148` says "expired or been revoked" and checks expiry.
  `DESIGN.md:761` calls refresh tokens single-use; see `SingleUse`.
* Limiters. `rateLimit.ts:7` says "Survives restarts and shares state across server
  replicas"; the bucket's name is drawn per process (`:23`) and no caller passes one.
* Ratings. The floor of 100 of `DESIGN.md:660` is not in the code.

### Bounds, and why they are enough

* Radius 1 keeps every rule at work (steps, chains, evictions, wins, the skipping of
  finished users) in a space TLC exhausts; what a larger triangle adds, more
  marbles per user and longer chains around them, is run to 4 moves on
  radius 2, and every property is proved for every radius.
  `MaxHops` = 4 (3 on radius 2) bounds only what clients send; the timer's and
  the preview's paths are not bounded, nor are the clients' in the proofs.
* Three users in `Room`: one can finish while two play on. `MoveLogCap` is 2
  (serial), 0 (racing): the code compares the length with the constant, whose
  size does not matter. `MaxMoves` is never reached in the serial runs, where
  the cap ends a game first. `MaxCalls` bounds client calls and sweeps, not the
  timer: 7 (serial), 6 (restarts), 4 (racing); seating three users takes 2.
* Two overlapping handlers suffice for each race listed under hazards except
  those that need a bystander; symmetry of the places is used in `room_racing` only,
  which checks no liveness.
* `MaxCrashes` = 2: a second restart can hit the recovery of the first.
* Sessions: two tabs and two requests make each race; four tokens are a login, its
  exchange and one more of each. Accounts do not interact, so there is one. Tabs and
  places are interchangeable, and the run checks safety only, so it uses symmetry.
* Ledger: a lost update, a lock and a deadlock need two games and two players in
  both; the third makes the order of rows matter. `WinShare` is a linear
  stand-in for the logistic curve; nothing depends on its values but their size.
* Limits: windows of 2 moments and limits of 2, so that a window holds a full load at
  either end.
* Web: two moves are the least that can be swapped or skipped; what happens to a third
  happens to the second. Of the other game only the presence matters. `CacheTtl` is 0 and ages
  stop at 1: between "fresh" and "stale" nothing is told apart.
* Replay: five moves let two of three users win or the last one resign, radius 1.

### Fairness

`FairSpec` assumes that a handler under way goes on (Redis and Postgres
answer), that time passes, that due timeouts fire (`setTimeout`) and so do evictions.
Nothing is assumed of clients: `GamesEnd` rests on the timer alone. Weak
fairness is enough since `MaxCalls` leaves the only place for handlers
free in the end; a server that clients can keep busy for ever would need
strong fairness of `Fire`. `BoardMayBlock` is FALSE there: a user without a
legal move would stop the game (`socket.ts:574`).

`web` assumes that Node runs what is ready and the network delivers what was sent
(`WebProgress`), that the browser polls while the lobby is open (`Poll`), that
requests are answered one step after the other (`ServePoll`), and that time passes
(`Ages`); nothing of the user, of lost connections and of failing requests. `accounts`
checks no liveness and assumes nothing.

Deadlock checking is off in every run: a completed game and an evicted room are
final.

## 4. Proofs

### The rules: `Match_proofs`, `Scoreboard_proofs`

`Match_proofs` proves, for every radius, every legal number of users, with or
without the blocking rule and whatever paths clients send, and for any cap of the log:

| Theorem | States |
|---|---|
| `TypeCorrect` | `Spec => []TypeOK` |
| `MarblesAreConserved` | `Spec => []MarblesConserved` |
| `MarblesAreCounted` | each user has always N(N + 1)/2 marbles, ten on radius 4 |
| `WinsAreAllHome` | `checkWin` holds of a user exactly when all its marbles are in its target |
| `WinnersAreSafe` | `Spec => []WinnersStayHome` |
| `TurnsSkipWinners` | `Spec => []TurnSkipsWinners` |
| `FinishOrderSound` | `Spec => [](FinishOnce /\ CompletedWhenDecided)` |
| `LegalityAgreed` | `Spec => []MovesAgree` |
| `PathsAreShortest` | `findPath` returns exactly the shortest of the paths `validateMove` accepts |
| `GamesEndWhenDecided` | `ReplaySpec => []EndsWhenDecided` |
| `ReplayIsFaithful` | `ReplaySpec => []ReplayShowsTheGame` |

`Scoreboard_proofs` holds the lemmas on the turn order that `Room_proofs` uses too.
The theorems about a game follow from the inductive `Inv`, the conjunction of those properties
(of `EndsWhenCounted`, which looks at the length of the finish list as the code does, for
the last, and that a stalemate is over; the others below are
consequences of it or of the types); `match_three` checks its parts on an instance, `FinishOnce`
and the count as far as `EndsWhenDecided` needs them. No conjunct but the marble count is
inductive alone. A move lifts the mover's marble or one in the mover's target zone.
A winner's marble in its zone is neither: the winner is not the mover
(`TurnSkipsWinners`), and the mover's zone is disjoint from the winner's
(`TrianglesDisjoint`, `TargetZones`). `TurnSkipsWinners` needs that the do-while of `applyMove`
finds a seat whose user has not finished (`OpenSeatExists`, by counting: a finish
list without duplicates that is shorter than the turn order misses somebody),
hence `FinishOnce`: each user finishes at most once; and `EndsWhenCounted` gives that a
running game has such a seat. `DecidedIsCounted` counts back: with `FinishOnce`, the list is
long enough exactly when at most one user is not on it. A resigner always gets position `playerCount`, which no winner of a
running game can get, so resigning makes no winner. `MarblesConserved` counts: the
lifted and the landing cell differ because one is occupied and the other empty.

`WinsAreAllHome` follows from the count: turning the top triangle by sixths onto another one
loses no cell (`TrianglesAreEqual`), so a target is as large as the home its user's
marbles come from, and of two finite sets of one size neither contains the other without
being it. `TriangleSize` counts a triangle's columns.

`LegalityAgreed` compares three algorithms of which two search. Their loops are recursive functions on the
sets of cells and of paths the loop may hold, and that such a function exists at all has to
be proved first: `LoopExists` gives to each input the result of the input at which the
loop stops that lies in every set which contains the former and is closed under one more
round; an input and the next one have the same. A chain (`HopChains`) is a sequence of cells without repetitions
whose neighbours are a jump apart. `ClosureIsChained`: `getValidDestinations` reaches
exactly the ends of chains from its marble. `SearchIsShortest`: `findPath` holds, round by round,
the chains of one length, and stops at the first length at which one arrives; that
length is at most the number of cells. `AllowedPaths`: `validateMove` accepts a step,
or the chains. Hence `PathsAreShortest`, for any board whatever; with
`ShownIsPlayable` on the evictions' exclusions, which the algorithms state each in its
own way, `LegalityAgreed` for the positions of a game.

`ReplayIsFaithful` relates the page to a game that is over when it loads. `LogLeads` is what
`ReplayInv` adds: from the starting position, applying the log's entries one after the
other gives the recorded trace of boards, and the last of them is the board
(`LogIsCurrent`). Each entry is two cells, from which `applyMove` must do again what the
server did, with a turn and finishers it has counted by itself; that a replayed entry
moves the same marbles needs only the board. Without resignations turn and finishers are the same too. `Shown` is a
recursive function of the step; its values are found one step after the other, the least step at
which it would go wrong being none (`LeastNatural`).

Assumptions: `NAssumption` (radius at least 1), `TurnOrderAssumption` (2, 3, 4
or 6 distinct users), `BlockingRuleAssumption`, `NoMarbleAssumption`,
`ClientPathsAssumption` (paths of at least two coordinates, as the payload
schema and `validateMove` have it). TLC evaluates them in every run of `Match`.

### Rooms: `Room_proofs`, `RoomGame_proofs`, `RoomSerial_proofs`

For any users, any room size the code allows, any number of handlers, sweeps and timers
under way at once and any number of restarts: `RoomTypeCorrect` (`Spec => []TypeOK`),
`StoredScoresAreSound` (`Spec => []StoredScoreIsSound`) and `RecordsAreRanked`
(`Spec => []RecordIsRanked`).

`StoredScoreIsSound` alone is not inductive: a handler saves what it made of a
snapshot read long before. `RoomInv` therefore says of everything stored, everything any
handler holds and everything it is about to write that it is a sound score
(`SoundState`), and where in a handler which of these exist. Each of the score's
changes leads from sound to sound (`MovedIsSound`, `ResignedIsSound`,
`StalematedIsSound`, `AgedIsSound`), so a lost update replaces one
sound score by another. A finisher need not have a seat: a join that was overwritten leaves a
socket that believes it plays. `RecordsAreRanked` follows from the types and from what
`Scoreboard_proofs` shows of `FinishOrder`: the users who have not finished, taken in turn
order, fill the places behind the finishers without a gap or a repetition
(`InTurnOrder` counts seats). The record is rejected by the schema's keys if a finisher is repeated or
has no seat. Assumption: `RoomAssumption`.

`RoomGame_proofs` proves the refinement that `room_restart` checks:
`RoomImplementsGame == OneHandler => (Spec => ImplementsGame)`, for any users, room
size and cap and any number of restarts, timers and sweeps. `OneHandler` says that at most
one handler is under way, as when events come further apart than a handler takes;
the timers, the sweep and the eviction are handlers too, and a restart may cut any of
them. Without it the theorem is false: a lost update takes the score back.

A saved score must be an operation of `Game` on the stored one, while the handler made it
from a snapshot. So `SerialInv` says, of each point of a handler, how what it holds relates
to the stored room: until it saves, its snapshot *is* the stored room; what it will save
`Follows` the stored room (the start, one move, one resignation or the stalemate); what
it logs or persists afterwards has been saved; and an eviction is only due of a game
that has ended. The other lemmas show that the operations commute with the
mapping (`MovedScore`, `ResignedScore`, `StalematedScore`, `StartScore`), and that the
deadline's passing is invisible to it (`AgedScore`). `RoomInv` gives the types.
Assumptions: `RoomAssumption`; `SentinelAssumption` and `NoGameAssumption`, which tell a room,
a state and a game from the values that mean there is none, and the server from the users.

`RoomSerial_proofs` proves, again for any users, room size, cap and number of
sweeps and timers, the properties of `room_serial` and `room_restart`:

| Theorem | States | Supposes |
|---|---|---|
| `OnlyPlayersAreLetIn` | `[]OnlyPlayersPlay` | `OneHandler` |
| `WaitingRoomsAreListed` | `[]WaitingRoomIsListed` | `OneHandler` |
| `LogsStayBounded` | `[]LogStaysBounded` | `OneHandler` |
| `TimersWait` | `TimerWaitsForDeadline` | `OneHandler` |
| `ListedGamesKeepTimers` | `[]ListedGamesAreTimed` | `OneHandler`, `MovesExist` |
| `RunningGamesAreTimed` | `[]RunningGameIsTimed` | `OneHandler`, `MovesExist`, `NoRestarts` |
| `LogsFollowGames` | `[]LogFollowsGame` | `OneHandler`, `NoRestarts` |
| `GamesAreKept` | `[]NoGameIsLost` | `OneHandler`, `NoRestarts`, `NoneRecorded` |
| `RecordsMatchRooms` | `[]RecordMatchesRoom` | `OneHandler` |

The suppositions are needed. Where handlers overlap, the repository makes none of them
wait for another, and each of the properties can fail: two attempts at once log one number and, at the
cap, two entries too many; a handler that re-arms beside another leaves a second timer; a
move saved between `tick`'s look at the clock and `onTimeout`'s save is one the timer should
have waited for; a sweep that overlaps a start and a join with a stale room leaves a waiting room unlisted.
What holds with any overlap is in `Room_proofs` (`StoredScoresAreSound`, `RecordsAreRanked`).
Likewise without overlap: a restart between the save of a move and its log entry
leaves a move unlogged, one before the persist loses the record, and `onTimeout`
(`socket.ts:574`) arms nothing for a user without a legal move. `NoneRecorded` tells a
record from the value that means there is none. None of the properties is inductive: each is
broken while a handler is under way. `HandlerInv` says by how much, on top of
`RoomInv` and `SerialInv`:

* the log is one entry behind the game exactly between the save of a move and the save of
  its entry, and the entry to come carries the next number (`LogTask`); its length
  exceeds the cap only while the verdict is pending or the game has ended
  (`BoundTask`);
* the timer is absent exactly while the handlers run that it started, or those of a boot,
  and a pending one is never due after the stored deadline; nobody has lost
  sight of a timer (`TimedTask`, `NoStrays`). For `TimersWait`, the snapshot of a handler of the
  timer carries a deadline that has passed, and stays so (`WaitTask`);
* finishers, those about to be saved included, have seats, and so has
  everybody whose socket believes it plays (`SeatTask`, `PlayersSeated`): with the numbering of
  the log this is what the schema's keys ask of a record, so the transaction succeeds;
* a completed game is either in the hands of the handler that records it, or recorded and its
  eviction planned (`RecordTask`).

`RecordsMatchRooms` needs `FitInv` besides: a record that is there has the length of the
room's log and, unless the log has passed its cap, its finish order; a handler about to save a state over a
recorded game saves a completed one with the same order; and a stalemate's log has passed the cap,
which is how a late resignation can tell.

There is one lemma per action; steps that write nothing share `PlainStep`, the handlers that end
`QuitKept`, those that save a state `SetsKept`.

### Sessions: `Sessions_proofs`

For any accounts, browsers, tabs, tokens, requests under way, crashes and lost
answers:

| Theorem | States |
|---|---|
| `SessionsTypeCorrect` | `SessionsSpec => []SessionsTypeOK` |
| `EndedStayEnded` | `SessionsSpec => []EndedSessionsStayEnded` |
| `ExchangedOnce` | `SessionsSpec => []SingleUse` |
| `CookiesAreCurrent` | `SessionsSpec => []CookieIsCurrent` |

`SessionsInv` adds to the first two what a handler knows that is about to issue
a token (`SoundJobs`): how often the account's sessions had been ended when it looked
(`seen`), and that the login it looked at counted then. If they were
ended since, `seen` is behind `ends` and the row is marked as raced; if not, the
new row's login counts. `UseInv` says of a token that is not contested that at most one
request is exchanging it and that nobody is once it was exchanged; all steps but
three (issuing a token, the read and the write of a refresh) change neither uses nor who is
exchanging, which is shown once for all of them. Assumption: `SessionsAssumption`.

`CookieInv` is about what a browser holds, its cookie or a token in a request of its tabs: tokens held were
issued (`HeldAreIssued`), no two browsers hold one token (`HeldByOne`), and a token just issued
is unused and nobody's cookie until its answer is heard (`NewTokens`). Hence an
exchange concerns one browser, and when it happens the browser's own request is the one that
has to bring the new cookie: either it is on its way (`OnTheWay`), or its tab has stopped listening and
the browser is upset (`AbortedUpset`). A second tab that finds the token revoked brings a cleared
cookie, which is no exchanged token either. This showed that the race of two tabs need not be
excepted in `CookieIsCurrent`: it used to be.

### What the client is shown: `Web_proofs`

`AnswersStayFresh` (`LobbySpec => []AnswersAreFresh`) for any number of rooms,
overlapping requests and any time to live. `LobbyInv` orders the ages: whatever a request
has read is no older than the request, the cache's contents no older than
its stamp. A request that fills the cache late stamps it with the time before its own
reading, hence too old rather than too young. Assumption: `LobbyAssumption`.

For any games, and any number of moves, joins, pages, clicks and lost connections:

| Theorem | States |
|---|---|
| `WebIsTyped` | `WebSpec => []WebTypeOK` |
| `BoardsArePositions` | `WebSpec => []ViewIsAPosition` |
| `BoardsAreCurrent` | `WebSpec => []ViewIsCurrent` |
| `PreviewsAreOfTheSelection` | `WebSpec => []PreviewsSettle` |
| `MovesAreAnimatedInOrder` | `WebSpec => []AnimationsInOrder` |

`applyConfirmedMove` looks at no move number, so what the store shows is right only if the
events that are still under way are the right ones. `WebInv` says so of every event on the
wire: behind a move, or a snapshot that overlapped with none, come the moves that
follow it, each once and in order up to the last one emitted (`MovesFollow`), and the end if the game
has ended (`EndFollows`); and an answer to a preview is about no older position than any event
before it (`WireOK`). `StoreOK` says the same of the store, which the whole wire follows unless a
connection was lost. Emitting adds at the end what is missing there, receiving
takes the first event and puts the store in its place, and a join that enters late with an old snapshot
is the `gap`. `PreviewsOK` orders the clicks: answers on the wire, then requests, and the
selected marble is the last; `AnimationsOK`, that what is animated and what waits is the end of the board.
The server's steps are shown for any sequence of events; of the user's steps only the
selection remains to be shown (`UserStep`). Assumption: `WebGameAssumption`.

The proof corrected `PreviewsSettle`. It had excepted too little: a request of a client
that is in no game, or in one that waits or has been deleted, stays unanswered (`socket.ts:228`), and
the answer to an earlier click then stays on the board for the marble clicked on last. The bounds
of `web` were too small to show it. Such requests are now marked (`unanswered`), and the
property states of all others more than before: it no longer supposes
that the socket's game is the one shown, nor that the game still runs.

### Ratings and limiters: `Accounts_proofs`

For any accounts, games, number of transactions at once, failures, deadlocks and deletions,
any two windows and limits, any length of time:

| Theorem | States | Supposes |
|---|---|---|
| `SeatsArePreserved` | `LedgerSpec => []SeatsAreKept` | |
| `LeaderboardIsCounted` | `LedgerSpec => []LeaderboardCounts` | |
| `RatingsAddUp` | `LedgerSpec => []RatingAddsUp` | `SharesAreNumbers` |
| `ChangesCancel` | `LedgerSpec => []ChangesBalance` | `SharesAreNumbers` |
| `WindowsAreServed` | `LimitsSpec => []ServedPerWindow` | |
| `WindowsArePlayed` | `LimitsSpec => []PlayedPerWindow` | |

`LedgerInv` says of each transaction what it has read and written: the accounts whose seats it
has written are still there (their foreign key holds a lock), so a deletion has either moved no seat of it or finds
its seats when they are committed; a seat is the player's while the account exists and the
stand-in's afterwards, which is nobody's account (`StandInAssumption`). `RatingInv` adds
that a rating read by a transaction is the stored one as long as the player is not in `overlapped`
(`Fresh`), and that of such players at most one game is being recorded (`Alone`).
`ChangesBalance` counts twice: the sum over the seats of the sums over their pairs is the sum
over all pairs of a change and its opposite, and rounding moves each seat by at most a half
(`elo.ts:50`). Assumptions: `LedgerAssumption`, where `Outcomes` are ranked games as `RecordsAreRanked`
has them; `SharesAreNumbers`, that the parameter `WinShare` gives integers, which TLC
cannot evaluate.

For the limiters: a request is served only if the members of the set, which include all served ones of the
window, do not exceed the limit (`HitsCount`), and older windows lose members only. Of the bucket,
`BucketCounts` bounds what was played in the current bucket and in the one before; a span of a
window's length meets no third (`socket.ts:85`). Assumption: `LimitsAssumption`.

The lemmas on sums (`Total`) are proved from the definition of the community modules' fold, by taking a least
set at which they would fail.

TLC evaluates the named assumptions in the runs.

### Only model-checked

Liveness, which is under fairness and out of the prover's reach: `GamesEnd`, `MovesArrive`
and `LobbyCatchesUp`. Every other property of a passing run is a theorem.

## 5. Not modelled

* Chat, the admin and audit pages, data export, avatars and profile texts: validation
  around one database call, no state that anything here relies on.
* The CSRF pair (set and cleared with the refresh cookie), passwords and their hashes,
  mail, the audit log, linking a Google identity to an account by its address.
* The keyboard cursor, rendering, sound, texts and settings of the web client.
* A user's presence in several rooms (but for the events of another room in
  `WebGame`); errors thrown by Redis inside a handler of a room; limiters that let everything
  pass while Redis fails.
* Several replicas of the server: timers, the cache and the buckets are those of one
  process. `room_racing` lets handlers overlap as those of replicas would.
* The logistic curve of `expectedScore`.

## 6. Plan

Done: the rules, the room, their proofs and the refinement of `Game`; recording (`Ledger`), the web client and
the replay (`WebGame`, `Replay`), `Sessions`, `Limits`, `Lobby`.

Next: a room together with its client instead of the outline of the
room in `WebGame`; a second replica with its own timers; three time-outs
in a row (`DESIGN.md`, 3.5), which the code does not have, beside the idle sweep.
