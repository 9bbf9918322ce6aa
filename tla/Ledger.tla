------------------------------- MODULE Ledger -------------------------------
(***************************************************************************)
(* What finished games leave in Postgres: seats, rating changes and        *)
(* ratings, written by one transaction per game (persistCompletedGame), and *)
(* the deletion of an account, which moves the user's seats to a stand-in. *)
(*                                                                         *)
(* Transactions are read committed: a statement sees what was committed    *)
(* before it, a row that a transaction has written is locked until its end, *)
(* and of two that wait for each other one is aborted.                     *)
(***************************************************************************)
EXTENDS Scoreboard, Sums

CONSTANTS
    Players,            \* the accounts
    Leavers,            \* bound: those of them that may be deleted
    GameIds,            \* numbers
    Outcomes,           \* the scores a game may end with (RecordIsRanked of Room)
    WinShare(_, _),     \* K_BASE times 1 - expectedScore(ra, rb), rounded
    MaxFailures         \* bound: transactions that fail by themselves

ASSUME LedgerAssumption ==
    /\ MaxFailures \in Nat
    /\ Leavers \subseteq Players /\ GameIds \subseteq Nat
    /\ \A s \in Outcomes :
          /\ s.status = "completed"
          /\ s.turnOrder \in Seq(Players) /\ PlayerCount(s) \in {2, 3, 4, 6}
          /\ \A i, j \in DOMAIN s.turnOrder : s.turnOrder[i] = s.turnOrder[j] => i = j
          /\ s.finishedPlayers \in Seq([userId : Players, finishPos : Nat])
          /\ \A i, j \in DOMAIN s.finishedPlayers :
                 s.finishedPlayers[i].userId = s.finishedPlayers[j].userId => i = j
          /\ FinishedIds(s.finishedPlayers) \subseteq {s.turnOrder[i] : i \in DOMAIN s.turnOrder}

VARIABLES
    accounts,   \* table User: the accounts that still have their row
    rating,     \* table EloRating: a record per player and mode, or NoRating
    games,      \* tables Game, GamePlayer and EloHistory, written together
    persists,   \* the transaction of each game
    deletions,  \* of each account: whether its deletion has moved seats, and of which games
    overlapped, \* ghost: players two of whose games were persisted at once
    failures

ledgerVars == <<accounts, rating, games, persists, deletions, overlapped, failures>>

Modes == {"2p", "multi"}
ModeOf(s) == IF PlayerCount(s) = 2 THEN "2p" ELSE "multi"

NoRating == [present |-> FALSE, rating |-> 1200, played |-> 0, wins |-> 0, losses |-> 0]

-----------------------------------------------------------------------------
(* computeEloDeltas: each pair counts for whoever is listed first *)

\* Mutant: both users of a pair are given the first one's change.
PairChange_SameSign(order, before, i, j) ==
    WinShare(before[order[IF i < j THEN i ELSE j].userId],
             before[order[IF i < j THEN j ELSE i].userId])

\* The change that the pair (i, j) brings to the user listed at i.
PairChange(order, before, i, j) ==
    IF i < j THEN WinShare(before[order[i].userId], before[order[j].userId])
             ELSE -WinShare(before[order[j].userId], before[order[i].userId])

\* Math.round of x / n.
Rounded(x, n) == (2 * x + n) \div (2 * n)

EloDelta(order, before, i) ==
    Rounded(Total([j \in DOMAIN order |-> PairChange(order, before, i, j)], DOMAIN order \ {i}),
            Len(order) - 1)

\* The rows of a game: what its transaction writes, given the ratings it read.
Seats(s, before) ==
    LET order == FinishOrder(s)
    IN  [i \in DOMAIN order |->
            [user |-> order[i].userId, pos |-> order[i].finishPos,
             before |-> before[order[i].userId],
             delta |-> IF s.endReason = "stalemate" THEN 0 ELSE EloDelta(order, before, i)]]

-----------------------------------------------------------------------------
(* persistCompletedGame *)

\* An element of the order at a time: read all ratings, then write each seat.
Persisting(pc, s, at, before) == [pc |-> pc, score |-> s, at |-> at, before |-> before]

NotPlayed == Persisting("none", NewGame(<<>>), 0, <<>>)

UserAt(g) == FinishOrder(persists[g].score)[persists[g].at].userId

\* The rating rows a transaction has written and so locked.
Locked(g) ==
    IF persists[g].pc # "write" THEN {}
    ELSE {<<FinishOrder(persists[g].score)[i].userId, ModeOf(persists[g].score)>> :
             i \in 1..(persists[g].at - 1)}

SeatsWritten(g) == {lock[1] : lock \in Locked(g)}

Wants(g) == <<UserAt(g), ModeOf(persists[g].score)>>

Blocks(h, g) == h # g /\ Wants(g) \in Locked(h)

EndOfGame(g, s) ==
    /\ persists[g].pc = "none"
    /\ \A h \in GameIds : h < g => persists[h].pc # "none"     \* which id is immaterial
    /\ persists' = [persists EXCEPT ![g] = Persisting("read", s, 1, <<>>)]
    /\ UNCHANGED <<accounts, rating, games, deletions, overlapped, failures>>

ReadRating(g) ==
    LET p == persists[g]
        n == Len(FinishOrder(p.score))
        u == UserAt(g)
        known == [v \in DOMAIN p.before \union {u} |->
                    IF v = u THEN rating[u][ModeOf(p.score)].rating ELSE p.before[v]]
    IN  /\ p.pc = "read"
        /\ persists' = [persists EXCEPT ![g] =
              IF p.at = n THEN Persisting("write", p.score, 1, known)
                          ELSE Persisting("read", p.score, p.at + 1, known)]
        /\ overlapped' = overlapped \union
              {v \in {u} : \E h \in GameIds \ {g} :
                  /\ persists[h].pc \in {"read", "write"}
                  /\ ModeOf(persists[h].score) = ModeOf(p.score)
                  /\ u \in DOMAIN persists[h].before}
        /\ UNCHANGED <<accounts, rating, games, deletions, failures>>

Failed(g) == persists' = [persists EXCEPT ![g].pc = "failed", ![g].before = <<>>]

\* One seat: its foreign key needs the account, its rating row is locked.
WriteSeat(g) ==
    LET p == persists[g]
    IN  /\ p.pc = "write" /\ p.at <= Len(FinishOrder(p.score))
        /\ IF UserAt(g) \in accounts
           THEN /\ \A h \in GameIds : ~Blocks(h, g)
                /\ persists' = [persists EXCEPT ![g].at = @ + 1]
           ELSE Failed(g)
        /\ UNCHANGED <<accounts, rating, games, deletions, overlapped, failures>>

\* Mutants: counters are written back as they were read; a rating that is there
\* is left as it is.
Updated_Counted(r, seat, n, ranked) ==
    [present |-> TRUE, rating |-> seat.before + seat.delta, played |-> 1,
     wins |-> IF ranked /\ seat.pos = 1 THEN 1 ELSE 0,
     losses |-> IF ranked /\ seat.pos = n THEN 1 ELSE 0]

Updated_Once(r, seat, n, ranked) ==
    [present |-> TRUE, rating |-> IF r.present THEN r.rating ELSE seat.before + seat.delta,
     played |-> r.played + 1,
     wins |-> r.wins + (IF ranked /\ seat.pos = 1 THEN 1 ELSE 0),
     losses |-> r.losses + (IF ranked /\ seat.pos = n THEN 1 ELSE 0)]

\* The upsert: the rating as computed, the counters incremented.
Updated(r, seat, n, ranked) ==
    [present |-> TRUE, rating |-> seat.before + seat.delta, played |-> r.played + 1,
     wins |-> r.wins + (IF ranked /\ seat.pos = 1 THEN 1 ELSE 0),
     losses |-> r.losses + (IF ranked /\ seat.pos = n THEN 1 ELSE 0)]

Commit(g) ==
    LET p == persists[g]
        seats == Seats(p.score, p.before)
        ranked == p.score.endReason # "stalemate"
        SeatOfUser(u) == CHOOSE i \in DOMAIN seats : seats[i].user = u
    IN  /\ p.pc = "write" /\ p.at > Len(seats)
        /\ games' = [games EXCEPT ![g] = seats]
        /\ rating' = [u \in Players |->
              IF \E i \in DOMAIN seats : seats[i].user = u
              THEN [rating[u] EXCEPT ![ModeOf(p.score)] =
                       Updated(@, seats[SeatOfUser(u)], Len(seats), ranked)]
              ELSE rating[u]]
        /\ persists' = [persists EXCEPT ![g].pc = "done", ![g].before = <<>>]
        /\ UNCHANGED <<accounts, deletions, overlapped, failures>>

\* The database aborts one of two transactions that wait for each other.
DeadlockAbort(g) ==
    /\ persists[g].pc = "write" /\ persists[g].at <= Len(FinishOrder(persists[g].score))
    /\ \E h \in GameIds :
          /\ persists[h].pc = "write" /\ persists[h].at <= Len(FinishOrder(persists[h].score))
          /\ Blocks(h, g) /\ Blocks(g, h)
    /\ Failed(g)
    /\ UNCHANGED <<accounts, rating, games, deletions, overlapped, failures>>

\* A transaction that takes too long, or a database that is gone.
PersistFails(g) ==
    /\ persists[g].pc \in {"read", "write"}
    /\ failures < MaxFailures
    /\ failures' = failures + 1
    /\ Failed(g)
    /\ UNCHANGED <<accounts, rating, games, deletions, overlapped>>

-----------------------------------------------------------------------------
(* DELETE /me: seats to the stand-in, then the row and what hangs on it *)

StandIn(u) == <<"deleted_user", u>>

ASSUME StandInAssumption == \A u \in Players : StandIn(u) \notin Players

HasSeat(u, g) == \E i \in DOMAIN games[g] : games[g][i].user = u

DeleteMoves(u) ==
    /\ u \in accounts /\ deletions[u].pc = "none"
    /\ deletions' = [deletions EXCEPT ![u] = [pc |-> "moved", seats |-> {g \in GameIds : HasSeat(u, g)}]]
    /\ UNCHANGED <<accounts, rating, games, persists, overlapped, failures>>

\* Mutant: the seats that were not moved go with the user.
Standing_Dropped(u, seats) ==
    SelectSeq([i \in DOMAIN seats |-> IF seats[i].user = u
                                      THEN [seats[i] EXCEPT !.user = StandIn(u)] ELSE seats[i]],
              LAMBDA seat : seat.user \in accounts)

Standing(u, seats) ==
    [i \in DOMAIN seats |->
        IF seats[i].user = u THEN [seats[i] EXCEPT !.user = StandIn(u)] ELSE seats[i]]

\* Waits for transactions that have seated the user; a seat committed since
\* the others were moved still refers to the user, and undoes the deletion.
DeleteUser(u) ==
    LET d == deletions[u]
    IN  /\ d.pc = "moved"
        /\ \A h \in GameIds : u \notin SeatsWritten(h)
        /\ IF \E g \in GameIds \ d.seats : HasSeat(u, g)
           THEN /\ deletions' = [deletions EXCEPT ![u] = [pc |-> "none", seats |-> {}]]
                /\ UNCHANGED <<accounts, rating, games>>
           ELSE /\ accounts' = accounts \ {u}
                /\ rating' = [rating EXCEPT ![u] = [m \in Modes |-> NoRating]]
                /\ games' = [g \in GameIds |-> Standing(u, games[g])]
                /\ deletions' = [deletions EXCEPT ![u].pc = "done"]
        /\ UNCHANGED <<persists, overlapped, failures>>

-----------------------------------------------------------------------------
(* What the pages show *)

\* GET /users/:username/games.
GamesOf(u, mode) ==
    {g \in GameIds : HasSeat(u, g) /\ (mode = "2p") = (Len(games[g]) = 2)}

\* GET /leaderboard: a row per rating, best first; here, who has a row.
Leaderboard(mode) == {u \in Players : rating[u][mode].present}

Deltas(seats) == [i \in DOMAIN seats |-> seats[i].delta]

SeatIn(g, u) == games[g][CHOOSE i \in DOMAIN games[g] : games[g][i].user = u]

-----------------------------------------------------------------------------
LedgerInit ==
    /\ accounts = Players
    /\ rating = [u \in Players |-> [m \in Modes |-> NoRating]]
    /\ games = [g \in GameIds |-> <<>>]
    /\ persists = [g \in GameIds |-> NotPlayed]
    /\ deletions = [u \in Players |-> [pc |-> "none", seats |-> {}]]
    /\ overlapped = {}
    /\ failures = 0

LedgerNext ==
    \/ \E g \in GameIds :
          \/ \E s \in Outcomes : EndOfGame(g, s)
          \/ ReadRating(g) \/ WriteSeat(g) \/ Commit(g)
          \/ DeadlockAbort(g) \/ PersistFails(g)
    \/ \E u \in Leavers : DeleteMoves(u) \/ DeleteUser(u)

LedgerSpec == LedgerInit /\ [][LedgerNext]_ledgerVars

-----------------------------------------------------------------------------
\* A player's rating is what the history page adds up to, 1200 and the change
\* of every game, unless two of the player's games were persisted at once.
RatingAddsUp ==
    \A u \in accounts \ overlapped, m \in Modes :
        rating[u][m].rating =
            1200 + Total([g \in GamesOf(u, m) |-> SeatIn(g, u).delta], GamesOf(u, m))

\* The counters count however transactions overlap: the leaderboard has a row
\* for exactly the players with a recorded game of its mode, with as many
\* games as their history shows, and the first and the last places among them
\* for wins and losses, a stalemate's being neither.
LeaderboardCounts ==
    \A m \in Modes :
        /\ Leaderboard(m) = {u \in accounts : GamesOf(u, m) # {}}
        /\ \A u \in Leaderboard(m) :
              /\ rating[u][m].played = Cardinality(GamesOf(u, m))
              /\ rating[u][m].wins = Cardinality({g \in GamesOf(u, m) :
                    SeatIn(g, u).pos = 1 /\ persists[g].score.endReason # "stalemate"})
              /\ rating[u][m].losses = Cardinality({g \in GamesOf(u, m) :
                    /\ SeatIn(g, u).pos = Len(games[g])
                    /\ persists[g].score.endReason # "stalemate"})

\* A recorded game keeps a seat for each of its players, whoever deletes an
\* account, and while the game is being recorded: the player or its stand-in.
SeatsAreKept ==
    \A g \in GameIds : persists[g].pc = "done" =>
        /\ Len(games[g]) = PlayerCount(persists[g].score)
        /\ \A i \in DOMAIN games[g] :
              LET u == FinishOrder(persists[g].score)[i].userId
              IN  games[g][i].user = IF u \in accounts THEN u ELSE StandIn(u)

\* What one user wins others lose: the changes of a game cancel out but for
\* rounding, at most one half per player.
ChangesBalance ==
    \A g \in GameIds :
        LET total == Total(Deltas(games[g]), DOMAIN games[g])
        IN  2 * total <= Len(games[g]) /\ -2 * total <= Len(games[g])

\* elo.ts: "Winner +delta, loser -delta".  Who resigns from a game for two
\* has lost it.
ResignerDoesNotGain ==
    \A g \in GameIds : persists[g].pc = "done" /\ Len(games[g]) = 2 =>
        \A i \in DOMAIN persists[g].score.finishedPlayers :
            LET f == persists[g].score.finishedPlayers[i]
            IN  f.finishPos = 2 => \A j \in DOMAIN games[g] :
                                       games[g][j].user = f.userId => games[g][j].delta <= 0

=============================================================================
