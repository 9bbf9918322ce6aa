----------------------------- MODULE Web_proofs -----------------------------
(***************************************************************************)
(* What a web client is shown.                                             *)
(*                                                                         *)
(* The first part is about Lobby: an answer of GET /rooms is never older   *)
(* than the cache may be, for any number of rooms, of requests under way   *)
(* and of changes.  Every step of a handler makes its own request sound,   *)
(* time keeps all of them sound, and the others only lose requests.        *)
(*                                                                         *)
(* The second part is about WebGame, for any games and any number of       *)
(* moves, pages, clicks and lost connections.  The invariant says of every *)
(* event on the wire what comes behind it: behind a move or an exact       *)
(* snapshot come the moves that follow, each once and in order, and the    *)
(* end if the game has ended.  So does the wire as a whole follow what the *)
(* store shows, and taking the first event keeps that.                     *)
(***************************************************************************)
EXTENDS WebGame, Lobby, TLAPS

-----------------------------------------------------------------------------
(* The room list                                                           *)

KeyStatuses == {"new", "waiting", "active", "completed", "gone"}
AgeRange == 0..MaxAge
Lists == SUBSET (RoomIds \X KeyStatuses)

PollType ==
    [pc : {"idle", "sent", "ids", "mget", "clean", "fill", "answer"}, heard : BOOLEAN,
     age : AgeRange, read : AgeRange, ids : SUBSET RoomIds, rooms : Lists, lag : AgeRange]

CacheType == [filled : BOOLEAN, age : AgeRange, read : AgeRange, rooms : Lists]

RoomTypes ==
    /\ stored \in [RoomIds -> KeyStatuses]
    /\ public \subseteq RoomIds
    /\ held \subseteq RoomIds \X KeyStatuses

\* What a handler has read, it has read since it began; what it answers was
\* read no longer before the request than the cache lives.
SoundPoll(x) ==
    /\ x \in PollType
    /\ x.read <= x.age
    /\ x.pc = "answer" => x.lag <= CacheTtl

\* What the cache holds was read after the moment it is stamped with.
SoundCache == cache \in CacheType /\ cache.read <= cache.age

SoundPolls == polls \in [Polls -> PollType] /\ \A p \in Polls : SoundPoll(polls[p])

LobbyInv == RoomTypes /\ SoundPolls /\ SoundCache

-----------------------------------------------------------------------------
\* Time keeps ages in their range and in their order.
LEMMA OlderMonotone ==
    ASSUME NEW a \in AgeRange, NEW b \in AgeRange, a <= b
    PROVE  Older(a) \in AgeRange /\ Older(b) \in AgeRange /\ Older(a) <= Older(b)
  BY LobbyAssumption DEF Older, AgeRange

LEMMA ZeroIsAnAge == 0 \in AgeRange /\ 0 <= CacheTtl
  BY LobbyAssumption DEF AgeRange

LEMMA NoPollIsSound == SoundPoll(NoPoll)
  BY ZeroIsAnAge DEF NoPoll, SoundPoll, PollType, Lists, AgeRange

\* An answer with a list that was read recently enough is sound.
LEMMA AnsweredIsSound ==
    ASSUME SoundPolls, NEW p \in Polls, NEW rooms \in Lists, NEW lag \in AgeRange,
           lag <= CacheTtl
    PROVE  SoundPoll(Answered(p, rooms, lag))
<1>1. polls[p].heard \in BOOLEAN
  BY DEF SoundPolls, PollType
<1>2. QED
  BY <1>1, NoPollIsSound DEF Answered, SoundPoll, PollType

\* One request changes, to a sound one.
LEMMA OneSoundPoll ==
    ASSUME SoundPolls, NEW p \in Polls, NEW x, SoundPoll(x), polls' = [polls EXCEPT ![p] = x]
    PROVE  SoundPolls'
<1>1. x \in PollType
  BY DEF SoundPoll
<1>2. polls' \in [Polls -> PollType]
  BY <1>1 DEF SoundPolls
<1>3. ASSUME NEW q \in Polls PROVE SoundPoll(polls'[q])
  <2>1. polls'[q] = IF q = p THEN x ELSE polls[q]
    BY DEF SoundPolls
  <2>2. QED
    BY <2>1 DEF SoundPolls
<1>4. QED
  BY <1>2, <1>3 DEF SoundPolls, SoundPoll

\* Every request changes, each to a sound one.
LEMMA AllSoundPolls ==
    ASSUME NEW f, polls' = [p \in Polls |-> f[p]], \A p \in Polls : SoundPoll(f[p])
    PROVE  SoundPolls'
  BY DEF SoundPolls, SoundPoll

LEMMA InitEstablishes == LobbyInit => LobbyInv
<1> SUFFICES ASSUME LobbyInit PROVE LobbyInv
  OBVIOUS
<1>1. RoomTypes
  BY DEF LobbyInit, RoomTypes, KeyStatuses
<1>2. SoundPolls
  BY NoPollIsSound DEF LobbyInit, SoundPolls, SoundPoll
<1>3. SoundCache
  BY ZeroIsAnAge DEF LobbyInit, SoundCache, NoCache, CacheType, Lists, AgeRange
<1> QED
  BY <1>1, <1>2, <1>3 DEF LobbyInv

-----------------------------------------------------------------------------
(* The rooms *)

\* Handlers that read or save a room leave the requests and the cache alone.
LEMMA RoomStep ==
    ASSUME LobbyInv,
           \/ \E r \in RoomIds : CreateRoom(r) \/ GetRoom(r) \/ DeletesRoom(r)
           \/ \E h \in held : SavesRoom(h)
    PROVE  LobbyInv'
<1>1. UNCHANGED <<polls, cache>>
  BY DEF CreateRoom, GetRoom, DeletesRoom, SavesRoom
<1>2. SoundPolls' /\ SoundCache'
  BY <1>1 DEF LobbyInv, SoundPolls, SoundPoll, SoundCache
<1>3. RoomTypes'
  <2>1. CASE \E r \in RoomIds : CreateRoom(r)
    BY <2>1 DEF LobbyInv, RoomTypes, CreateRoom, KeyStatuses
  <2>2. CASE \E r \in RoomIds : GetRoom(r)
    BY <2>2 DEF LobbyInv, RoomTypes, GetRoom, KeyStatuses
  <2>3. CASE \E r \in RoomIds : DeletesRoom(r)
    BY <2>3 DEF LobbyInv, RoomTypes, DeletesRoom, KeyStatuses
  <2>4. ASSUME NEW h \in held, SavesRoom(h) PROVE RoomTypes'
    <3>1. h[1] \in RoomIds
      BY DEF LobbyInv, RoomTypes
    <3>2. PICK status \in Became(h[2]) :
            /\ stored' = [stored EXCEPT ![h[1]] = status]
            /\ public' = Indexed(h[1], status)
            /\ held' = held \ {h}
      BY <2>4 DEF SavesRoom
    <3>3. status \in KeyStatuses
      BY DEF Became, KeyStatuses
    <3>4. QED
      BY <3>1, <3>2, <3>3 DEF LobbyInv, RoomTypes, Indexed
  <2>5. QED
    BY <2>1, <2>2, <2>3, <2>4
<1>4. QED
  BY <1>2, <1>3 DEF LobbyInv

-----------------------------------------------------------------------------
(* GET /rooms *)

\* A step of one request that leaves the cache alone.
LEMMA OnePollStep ==
    ASSUME LobbyInv, NEW p \in Polls, NEW x, SoundPoll(x), polls' = [polls EXCEPT ![p] = x],
           UNCHANGED <<stored, held, cache>>, public' \subseteq RoomIds
    PROVE  LobbyInv'
<1>1. SoundPolls'
  BY OneSoundPoll DEF LobbyInv
<1>2. RoomTypes' /\ SoundCache'
  BY DEF LobbyInv, RoomTypes, SoundCache
<1>3. QED
  BY <1>1, <1>2 DEF LobbyInv

LEMMA PollStep ==
    ASSUME LobbyInv, NEW p \in Polls, Poll(p) \/ PollFails(p) \/ ShowAnswer(p)
    PROVE  LobbyInv'
<1> DEFINE sent == [NoPoll EXCEPT !.pc = "sent", !.heard = TRUE]
<1>1. SoundPoll(sent)
  BY NoPollIsSound DEF SoundPoll, PollType
<1>2. UNCHANGED <<stored, public, held, cache>>
  BY DEF Poll, PollFails, ShowAnswer, roomVars
<1>3. public' \subseteq RoomIds
  BY <1>2 DEF LobbyInv, RoomTypes
<1>4. PICK x \in {sent, NoPoll} : polls' = [polls EXCEPT ![p] = x]
  BY DEF Poll, PollFails, ShowAnswer
<1>5. SoundPoll(x)
  BY <1>1, NoPollIsSound
<1>6. QED
  BY <1>2, <1>3, <1>4, <1>5, OnePollStep

\* What the cache answers was read no longer ago than its stamp, and that is fresh.
LEMMA LookInCacheStep ==
    ASSUME LobbyInv, NEW p \in Polls, LookInCache(p)
    PROVE  LobbyInv'
<1>1. public' \subseteq RoomIds /\ UNCHANGED <<stored, held, cache>>
  BY DEF LookInCache, roomVars, LobbyInv, RoomTypes
<1>2. SoundPoll(polls[p]) /\ polls[p].pc = "sent"
  BY DEF LookInCache, LobbyInv, SoundPolls
<1>3. CASE CacheIsFresh
  <2>1. /\ cache.rooms \in Lists /\ cache.read \in AgeRange /\ cache.age \in AgeRange
        /\ cache.read <= cache.age /\ cache.age <= CacheTtl
    BY <1>3 DEF LobbyInv, SoundCache, CacheType, CacheIsFresh
  <2>2. cache.read <= CacheTtl
    BY <2>1, LobbyAssumption DEF AgeRange
  <2>3. SoundPoll(Answered(p, cache.rooms, cache.read))
    BY <2>1, <2>2, AnsweredIsSound DEF LobbyInv
  <2>4. polls' = [polls EXCEPT ![p] = Answered(p, cache.rooms, cache.read)]
    BY <1>3 DEF LookInCache
  <2>5. QED
    BY <1>1, <2>3, <2>4, OnePollStep
<1>4. CASE ~CacheIsFresh
  <2>1. polls' = [polls EXCEPT ![p] = [polls[p] EXCEPT !.pc = "ids"]]
    BY <1>4 DEF LookInCache
  <2>2. SoundPoll([polls[p] EXCEPT !.pc = "ids"])
    BY <1>2 DEF SoundPoll, PollType
  <2>3. QED
    BY <1>1, <2>1, <2>2, OnePollStep
<1>5. QED
  BY <1>3, <1>4

\* A handler that has just read is sound, whatever it read.
LEMMA HasReadIsSound ==
    ASSUME NEW y, SoundPoll(y), NEW pc \in {"mget", "clean", "fill"}, NEW ids \in SUBSET RoomIds,
           NEW rooms \in Lists
    PROVE  /\ SoundPoll([y EXCEPT !.pc = pc, !.ids = ids, !.read = 0])
           /\ SoundPoll([y EXCEPT !.pc = pc, !.ids = ids, !.read = 0, !.rooms = rooms])
<1> DEFINE z == [y EXCEPT !.pc = pc, !.ids = ids, !.read = 0]
           w == [y EXCEPT !.pc = pc, !.ids = ids, !.read = 0, !.rooms = rooms]
<1>1. y \in PollType /\ 0 <= y.age
  BY LobbyAssumption DEF SoundPoll, PollType, AgeRange
<1>2. z \in PollType /\ w \in PollType
  BY <1>1, ZeroIsAnAge DEF PollType
<1>3. /\ z.read = 0 /\ z.age = y.age /\ z.pc = pc
      /\ w.read = 0 /\ w.age = y.age /\ w.pc = pc
  BY <1>1 DEF PollType
<1>4. SoundPoll(z) /\ SoundPoll(w)
  <2> HIDE DEF z, w
  <2> QED
    BY <1>1, <1>2, <1>3 DEF SoundPoll
<1>5. QED
  BY <1>4

LEMMA SMembersStep ==
    ASSUME LobbyInv, NEW p \in Polls, SMembers(p)
    PROVE  LobbyInv'
<1> DEFINE x == [polls[p] EXCEPT !.pc = IF public = {} THEN "fill" ELSE "mget",
                                 !.ids = public, !.read = 0]
<1>1. public' \subseteq RoomIds /\ UNCHANGED <<stored, held, cache>>
  BY DEF SMembers, roomVars, LobbyInv, RoomTypes
<1>2. polls' = [polls EXCEPT ![p] = x]
  BY DEF SMembers, LobbyInv, SoundPolls
<1>3. SoundPoll(polls[p]) /\ public \subseteq RoomIds
  BY DEF LobbyInv, SoundPolls, RoomTypes
<1>4. SoundPoll(x)
  <2>1. polls[p].rooms \in Lists
    BY <1>3 DEF SoundPoll, PollType
  <2>2. PICK pc \in {"mget", "fill"} : x = [polls[p] EXCEPT !.pc = pc, !.ids = public, !.read = 0]
    OBVIOUS
  <2>3. QED
    BY <1>3, <2>1, <2>2, HasReadIsSound
<1>5. QED
  BY <1>1, <1>2, <1>4, OnePollStep

LEMMA MGetStep ==
    ASSUME LobbyInv, NEW p \in Polls, MGet(p)
    PROVE  LobbyInv'
<1> DEFINE found == {r \in polls[p].ids : stored[r] \notin {"new", "gone"}}
           rooms == {l \in Listed : l[1] \in found}
           ids == polls[p].ids \ found
           x == [polls[p] EXCEPT !.pc = "clean", !.ids = ids, !.read = 0, !.rooms = rooms]
<1>1. public' \subseteq RoomIds /\ UNCHANGED <<stored, held, cache>>
  BY DEF MGet, roomVars, LobbyInv, RoomTypes
<1>2. polls' = [polls EXCEPT ![p] = x]
  BY DEF MGet, LobbyInv, SoundPolls
<1>3. SoundPoll(polls[p])
  BY DEF LobbyInv, SoundPolls
<1>4. rooms \in Lists
  BY DEF Listed, Lists, LobbyInv, RoomTypes
<1>5. ids \subseteq RoomIds
  BY <1>3 DEF SoundPoll, PollType
<1>6. SoundPoll(x)
  BY <1>3, <1>4, <1>5, HasReadIsSound
<1>7. QED
  BY <1>1, <1>2, <1>6, OnePollStep

LEMMA SRemStaleStep ==
    ASSUME LobbyInv, NEW p \in Polls, SRemStale(p)
    PROVE  LobbyInv'
<1>1. PICK r \in polls[p].ids :
        /\ public' = public \ {r}
        /\ polls' = [polls EXCEPT ![p] = [polls[p] EXCEPT !.ids = polls[p].ids \ {r}]]
  BY DEF SRemStale, LobbyInv, SoundPolls
<1>2. public' \subseteq RoomIds /\ UNCHANGED <<stored, held, cache>>
  BY <1>1 DEF SRemStale, LobbyInv, RoomTypes
<1>3. SoundPoll(polls[p])
  BY DEF LobbyInv, SoundPolls
<1>4. SoundPoll([polls[p] EXCEPT !.ids = polls[p].ids \ {r}])
  <2>1. polls[p].ids \ {r} \subseteq RoomIds
    BY <1>3 DEF SoundPoll, PollType
  <2>2. QED
    BY <1>3, <2>1 DEF SoundPoll, PollType
<1>5. QED
  BY <1>1, <1>2, <1>4, OnePollStep

\* The stamp is the beginning of the handler, and the rooms were read after it.
LEMMA FillCacheStep ==
    ASSUME LobbyInv, NEW p \in Polls, FillCache(p)
    PROVE  LobbyInv'
<1>1. SoundPoll(polls[p])
  BY DEF LobbyInv, SoundPolls
<1>2. /\ polls[p].age \in AgeRange /\ polls[p].read \in AgeRange
      /\ polls[p].read <= polls[p].age /\ polls[p].rooms \in Lists
  BY <1>1 DEF SoundPoll, PollType
<1>3. cache' = [filled |-> TRUE, age |-> polls[p].age, read |-> polls[p].read,
                rooms |-> polls[p].rooms]
  BY DEF FillCache, Stamp
<1>4. SoundCache'
  BY <1>2, <1>3 DEF SoundCache, CacheType
<1>5. SoundPoll(Answered(p, polls[p].rooms, 0))
  BY <1>2, ZeroIsAnAge, AnsweredIsSound DEF LobbyInv
<1>6. polls' = [polls EXCEPT ![p] = Answered(p, polls[p].rooms, 0)]
  BY DEF FillCache
<1>7. SoundPolls'
  BY <1>5, <1>6, OneSoundPoll DEF LobbyInv
<1>8. RoomTypes'
  BY DEF FillCache, roomVars, LobbyInv, RoomTypes
<1>9. QED
  BY <1>4, <1>7, <1>8 DEF LobbyInv

\* Time passes for the cache and for whoever is in a handler.
LEMMA AgesStep ==
    ASSUME LobbyInv, Ages
    PROVE  LobbyInv'
<1> DEFINE f == [p \in Polls |->
                    IF polls[p].pc \in {"ids", "mget", "clean", "fill"}
                    THEN [polls[p] EXCEPT !.age = Older(@), !.read = Older(@)] ELSE polls[p]]
<1>1. ASSUME NEW p \in Polls PROVE SoundPoll(f[p])
  <2>1. SoundPoll(polls[p])
    BY DEF LobbyInv, SoundPolls
  <2>2. /\ Older(polls[p].age) \in AgeRange /\ Older(polls[p].read) \in AgeRange
        /\ Older(polls[p].read) <= Older(polls[p].age)
    BY <2>1, OlderMonotone DEF SoundPoll, PollType
  <2>3. CASE polls[p].pc \in {"ids", "mget", "clean", "fill"}
    <3>1. f[p] = [polls[p] EXCEPT !.age = Older(polls[p].age), !.read = Older(polls[p].read)]
      BY <2>3
    <3>2. QED
      BY <2>1, <2>2, <2>3, <3>1 DEF SoundPoll, PollType
  <2>4. CASE polls[p].pc \notin {"ids", "mget", "clean", "fill"}
    BY <2>1, <2>4
  <2>5. QED
    BY <2>3, <2>4
<1>2. polls' = [p \in Polls |-> f[p]]
  BY DEF Ages
<1>3. SoundPolls'
  <2> HIDE DEF f
  <2> QED
    BY <1>1, <1>2, AllSoundPolls
<1>4. SoundCache'
  <2>1. /\ cache \in CacheType
        /\ Older(cache.age) \in AgeRange /\ Older(cache.read) \in AgeRange
        /\ Older(cache.read) <= Older(cache.age)
    BY OlderMonotone DEF LobbyInv, SoundCache, CacheType
  <2>2. CASE cache.filled
    <3>1. cache' = [cache EXCEPT !.age = Older(cache.age), !.read = Older(cache.read)]
      BY <2>2 DEF Ages
    <3>2. QED
      BY <2>1, <3>1 DEF SoundCache, CacheType
  <2>3. CASE ~cache.filled
    BY <2>3 DEF Ages, LobbyInv, SoundCache
  <2>4. QED
    BY <2>2, <2>3
<1>5. RoomTypes'
  BY DEF Ages, roomVars, LobbyInv, RoomTypes
<1>6. QED
  BY <1>3, <1>4, <1>5 DEF LobbyInv

-----------------------------------------------------------------------------
(* The page *)

LEMMA PageStep ==
    ASSUME LobbyInv, EnterLobby \/ LeaveLobby
    PROVE  LobbyInv'
<1>1. RoomTypes' /\ SoundCache'
  BY DEF EnterLobby, LeaveLobby, roomVars, LobbyInv, RoomTypes, SoundCache
<1>2. CASE EnterLobby
  BY <1>1, <1>2 DEF EnterLobby, LobbyInv, SoundPolls, SoundPoll
<1>3. CASE LeaveLobby
  <2> DEFINE f == [p \in Polls |-> [polls[p] EXCEPT !.heard = FALSE]]
  <2>1. ASSUME NEW p \in Polls PROVE SoundPoll(f[p])
    BY DEF LobbyInv, SoundPolls, SoundPoll, PollType
  <2>2. polls' = [p \in Polls |-> f[p]]
    BY <1>3 DEF LeaveLobby
  <2>3. SoundPolls'
    <3> HIDE DEF f
    <3> QED
      BY <2>1, <2>2, AllSoundPolls
  <2>4. QED
    BY <1>1, <2>3 DEF LobbyInv
<1>4. QED
  BY <1>2, <1>3

-----------------------------------------------------------------------------
LEMMA StepPreserves == LobbyInv /\ [LobbyNext]_lobbyVars => LobbyInv'
<1> SUFFICES ASSUME LobbyInv, [LobbyNext]_lobbyVars PROVE LobbyInv'
  OBVIOUS
<1>1. CASE \/ \E r \in RoomIds : CreateRoom(r) \/ GetRoom(r) \/ DeletesRoom(r)
           \/ \E h \in held : SavesRoom(h)
  BY <1>1, RoomStep
<1>2. ASSUME NEW p \in Polls, Poll(p) \/ ServePoll(p) \/ PollFails(p) PROVE LobbyInv'
  BY <1>2, PollStep, LookInCacheStep, SMembersStep, MGetStep, SRemStaleStep, FillCacheStep
  DEF ServePoll
<1>3. CASE Ages
  BY <1>3, AgesStep
<1>4. CASE EnterLobby \/ LeaveLobby
  BY <1>4, PageStep
<1>5. CASE UNCHANGED lobbyVars
  BY <1>5 DEF lobbyVars, roomVars, LobbyInv, RoomTypes, SoundPolls, SoundPoll, SoundCache
<1>6. QED
  BY <1>1, <1>2, <1>3, <1>4, <1>5 DEF LobbyNext

\* However many requests are under way, however slow each is and whichever fills
\* the cache last, no answer of GET /rooms holds anything that was read longer
\* before its request than ROOMS_CACHE_TTL_MS.
THEOREM AnswersStayFresh == LobbySpec => []AnswersAreFresh
<1>1. LobbyInv => AnswersAreFresh
  BY DEF LobbyInv, SoundPolls, SoundPoll, AnswersAreFresh
<1>2. QED
  BY <1>1, InitEstablishes, StepPreserves, PTL DEF LobbySpec

-----------------------------------------------------------------------------
(* The game store: what is of which type                                   *)

Statuses == {"waiting", "active", "completed", "over"}

Lives == [Rooms -> [status : Statuses, moves : Nat, emitted : Nat, announced : BOOLEAN]]

Events ==
    {GameStart(g, n, x) : g \in Rooms, n \in Nat, x \in BOOLEAN}
    \union {MoveConfirmed(g, n) : g \in Rooms, n \in Nat}
    \union {GameOver(g) : g \in Rooms}
    \union {ValidDestinations(g, n, m) : g \in Rooms, n \in Nat, m \in Nat \ {0}}

Moves == Rooms \X Nat

Stores ==
    [game : Rooms \union {NoGame}, status : {"idle", "active", "completed"},
     board : Seq(Moves), myTurn : BOOLEAN, selected : Int,
     dests : [game : Rooms \union {NoGame}, moves : Nat, marble : Nat],
     animating : Seq(Moves), pending : Seq(Moves), history : BOOLEAN]

LivesOK(lives) ==
    /\ lives \in Lives
    /\ \A g \in Rooms :
          /\ lives[g].emitted <= lives[g].moves /\ lives[g].moves <= MaxPlayed[g]
          /\ lives[g].status = "over" => lives[g].emitted = lives[g].moves

\* What a join has read of its game may be old, but the game had it.
JoinsOK(js, lives) ==
    /\ js \subseteq [game : Rooms, pc : {"sent", "read"}, status : Statuses, moves : Nat]
    /\ \A j \in js : j.moves <= lives[j.game].moves

ServerTyped == LivesOK(live) /\ JoinsOK(joins, live)

LinkTyped ==
    /\ socket \in [up : BOOLEAN, channels : SUBSET Rooms, game : Rooms \union {NoGame}]
    /\ wire \in Seq(Events)
    /\ previews \in Seq(Nat \ {0})

ClientTyped ==
    /\ page \in Rooms \union {LobbyPage}
    /\ store \in Stores
    /\ store.selected \in OldMove..inputs
    /\ store.dests.marble = NoMarble => store.dests = NoDests
    /\ unsettled \subseteq {"gap", "foreign", "skipped", "drop", "unanswered"}
    /\ inputs \in Nat

\* A socket that is down hears nothing; one that has a game is in its channel.
Connected ==
    /\ ~socket.up => /\ socket.channels = {} /\ joins = {} /\ wire = <<>> /\ previews = <<>>
                     /\ "drop" \in unsettled
    /\ socket.game # NoGame => socket.game \in socket.channels

Types == ServerTyped /\ LinkTyped /\ ClientTyped /\ Connected

-----------------------------------------------------------------------------
(* What is on the wire.  The operators are about any sequence of events.   *)

\* Behind the p-th event come the moves of game g that follow the n-th, each
\* once and in order, up to the last one emitted.
MovesFollow(w, last, g, n, p) ==
    /\ n <= last
    /\ \A q \in DOMAIN w : q > p /\ w[q].kind = "moved" /\ w[q].game = g =>
          n < w[q].moves /\ w[q].moves <= last
    /\ n < last => \E q \in DOMAIN w : q > p /\ w[q] = MoveConfirmed(g, n + 1)

EndFollows(w, g, p) == \E q \in DOMAIN w : q > p /\ w[q] = GameOver(g)

\* Events that tell how many moves a game has.
Stated(e) == e.kind \in {"start", "moved"}

Exact(e) == e.kind = "start" /\ e.exact

EventOK(w, lives, channels, p) ==
    /\ Stated(w[p]) => w[p].game \in channels /\ w[p].moves <= lives[w[p].game].moves
    /\ w[p].kind = "moved" \/ Exact(w[p]) =>
          MovesFollow(w, lives[w[p].game].emitted, w[p].game, w[p].moves, p)
    /\ Exact(w[p]) /\ lives[w[p].game].status = "over" => EndFollows(w, w[p].game, p)
    /\ w[p].kind = "over" => lives[w[p].game].status = "over"
    /\ w[p].kind = "preview" =>
          /\ w[p].moves <= lives[w[p].game].moves
          /\ \A q \in DOMAIN w : q < p /\ Stated(w[q]) /\ w[q].game = w[p].game =>
                w[q].moves <= w[p].moves

WireOK(w, lives, channels) == \A p \in DOMAIN w : EventOK(w, lives, channels, p)

-----------------------------------------------------------------------------
(* What the store knows                                                    *)

\* It shows a position of its game; it shows the one to which the next move belongs.
Sure(st, why) == st.game # NoGame /\ why \intersect {"gap", "foreign"} = {}
Follows(st, why) == Sure(st, why) /\ "drop" \notin why

StoreOK(st, why, w, lives, channels) ==
    /\ Sure(st, why) =>
          /\ st.board = Board(st.game, Len(st.board))
          /\ st.myTurn = MyTurn(Len(st.board))
          /\ Len(st.board) <= lives[st.game].emitted
          /\ st.status = "completed" => lives[st.game].status = "over"
          /\ st.dests # NoDests => /\ st.dests.game = st.game
                                   /\ Len(st.board) <= st.dests.moves
                                   /\ st.dests.moves <= lives[st.game].moves
          /\ \A p \in DOMAIN w : w[p].kind = "preview" /\ w[p].game = st.game =>
                Len(st.board) <= w[p].moves
    /\ Follows(st, why) =>
          /\ st.game \in channels
          /\ MovesFollow(w, lives[st.game].emitted, st.game, Len(st.board), 0)
          /\ lives[st.game].status = "over" /\ st.status # "completed" => EndFollows(w, st.game, 0)

-----------------------------------------------------------------------------
(* Previews                                                                *)

OnItsWay(w, m) == \E p \in DOMAIN w : w[p].kind = "preview" /\ w[p].marble = m
Asked(pr, m) == \E i \in DOMAIN pr : pr[i] = m

\* Previews are answered in the order of the clicks, and the last click's is the last.
PreviewsOK(st, why, w, pr, n) ==
    /\ \A p, q \in DOMAIN w : p < q /\ w[p].kind = "preview" /\ w[q].kind = "preview" =>
          w[p].marble < w[q].marble
    /\ \A i, k \in DOMAIN pr : i < k => pr[i] < pr[k]
    /\ \A p \in DOMAIN w, i \in DOMAIN pr : w[p].kind = "preview" => w[p].marble < pr[i]
    /\ \A p \in DOMAIN w : w[p].kind = "preview" => st.dests.marble < w[p].marble /\ w[p].marble <= n
    /\ \A i \in DOMAIN pr : st.dests.marble < pr[i] /\ pr[i] <= n
    /\ st.selected > 0 =>
          /\ st.dests.marble <= st.selected
          /\ \A p \in DOMAIN w : w[p].kind = "preview" => w[p].marble <= st.selected
          /\ \A i \in DOMAIN pr : pr[i] <= st.selected
          /\ why \intersect {"drop", "unanswered"} = {} =>
                st.dests.marble = st.selected \/ OnItsWay(w, st.selected) \/ Asked(pr, st.selected)

LastOf(queue, board) ==
    /\ Len(queue) <= Len(board)
    /\ queue = SubSeq(board, Len(board) - Len(queue) + 1, Len(board))

\* One move at a time is animated, and none waits if none is animated.
AnimationsOK(st, why) ==
    /\ Len(st.animating) <= 1
    /\ "skipped" \notin why =>
          /\ st.animating = <<>> => st.pending = <<>>
          /\ LastOf(st.animating \o st.pending, st.board)

WebInv ==
    /\ Types
    /\ WireOK(wire, live, socket.channels)
    /\ StoreOK(store, unsettled, wire, live, socket.channels)
    /\ PreviewsOK(store, unsettled, wire, previews, inputs)
    /\ AnimationsOK(store, unsettled)

-----------------------------------------------------------------------------
(* Events and sequences                                                    *)

LEMMA EventIs ==
    ASSUME NEW e \in Events
    PROVE  /\ e.kind \in {"start", "moved", "over", "preview"}
           /\ e.game \in Rooms
           /\ e.kind # "over" => e.moves \in Nat
           /\ e.kind = "start" => e.exact \in BOOLEAN
           /\ e.kind = "preview" => e.marble \in Nat \ {0}
           /\ e.kind = "moved" => e = MoveConfirmed(e.game, e.moves)
           /\ e.kind = "over" => e = GameOver(e.game)
  BY DEF Events, GameStart, MoveConfirmed, GameOver, ValidDestinations

LEMMA EventsAre ==
    ASSUME NEW g \in Rooms, NEW n \in Nat
    PROVE  /\ \A x \in BOOLEAN : LET e == GameStart(g, n, x) IN
                 e \in Events /\ e.kind = "start" /\ e.game = g /\ e.moves = n /\ e.exact = x
           /\ LET e == MoveConfirmed(g, n) IN
                 e \in Events /\ e.kind = "moved" /\ e.game = g /\ e.moves = n
           /\ LET e == GameOver(g) IN e \in Events /\ e.kind = "over" /\ e.game = g
           /\ \A m \in Nat \ {0} : LET e == ValidDestinations(g, n, m) IN
                 e \in Events /\ e.kind = "preview" /\ e.game = g /\ e.moves = n /\ e.marble = m
  BY DEF Events, GameStart, MoveConfirmed, GameOver, ValidDestinations

LEMMA AppendIs ==
    ASSUME NEW S, NEW w \in Seq(S), NEW e \in S
    PROVE  /\ Append(w, e) \in Seq(S)
           /\ Len(w) \in Nat /\ DOMAIN w = 1..Len(w)
           /\ Len(Append(w, e)) = Len(w) + 1 /\ DOMAIN Append(w, e) = 1..(Len(w) + 1)
           /\ \A i \in DOMAIN w : Append(w, e)[i] = w[i]
           /\ Append(w, e)[Len(w) + 1] = e
  OBVIOUS

LEMMA TailIs ==
    ASSUME NEW S, NEW w \in Seq(S), w # <<>>
    PROVE  /\ Tail(w) \in Seq(S)
           /\ Len(w) \in Nat \ {0} /\ DOMAIN w = 1..Len(w)
           /\ Len(Tail(w)) = Len(w) - 1 /\ DOMAIN Tail(w) = 1..(Len(w) - 1)
           /\ \A i \in DOMAIN Tail(w) : Tail(w)[i] = w[i + 1]
           /\ Head(w) = w[1] /\ Head(w) \in S
  OBVIOUS

-----------------------------------------------------------------------------
(* Sequences of events that grow at the end and shrink at the front        *)

\* Another event comes behind.
LEMMA FollowsAppend ==
    ASSUME NEW w \in Seq(Events), NEW e \in Events, NEW last \in Nat, NEW g \in Rooms,
           NEW n \in Nat, NEW p \in Nat, MovesFollow(w, last, g, n, p),
           ~(e.kind = "moved" /\ e.game = g)
    PROVE  MovesFollow(Append(w, e), last, g, n, p)
<1> DEFINE v == Append(w, e)
<1>1. /\ DOMAIN v = 1..(Len(w) + 1) /\ v[Len(w) + 1] = e /\ DOMAIN w = 1..Len(w) /\ Len(w) \in Nat
      /\ \A q \in DOMAIN w : v[q] = w[q]
  BY AppendIs
<1> HIDE DEF v
<1>2. \A q \in DOMAIN v : v[q].kind = "moved" /\ v[q].game = g => q \in DOMAIN w /\ v[q] = w[q]
  BY <1>1
<1>3. \A q \in DOMAIN w : q \in DOMAIN v /\ v[q] = w[q]
  BY <1>1
<1>4. MovesFollow(v, last, g, n, p)
  BY <1>2, <1>3 DEF MovesFollow
<1>5. QED
  BY <1>4 DEF v

\* The next move comes behind.
LEMMA FollowsMove ==
    ASSUME NEW w \in Seq(Events), NEW last \in Nat, NEW g \in Rooms,
           NEW n \in Nat, NEW p \in Nat, p <= Len(w), MovesFollow(w, last, g, n, p)
    PROVE  MovesFollow(Append(w, MoveConfirmed(g, last + 1)), last + 1, g, n, p)
<1> DEFINE e == MoveConfirmed(g, last + 1)
           new == Append(w, e)
<1>1. e \in Events /\ e.kind = "moved" /\ e.game = g /\ e.moves = last + 1
  BY EventsAre
<1> HIDE DEF e
<1>2. \A q \in DOMAIN w : w[q].kind = "moved" => w[q].moves \in Nat
  BY EventIs
<1>3. /\ DOMAIN new = 1..(Len(w) + 1) /\ new[Len(w) + 1] = e /\ DOMAIN w = 1..Len(w) /\ Len(w) \in Nat
      /\ \A q \in DOMAIN w : new[q] = w[q]
  BY <1>1, AppendIs
<1> HIDE DEF new
<1>4. \A q \in DOMAIN new : q > p /\ new[q].kind = "moved" /\ new[q].game = g =>
          n < new[q].moves /\ new[q].moves <= last + 1
  BY <1>1, <1>2, <1>3 DEF MovesFollow
<1>5. \E q \in DOMAIN new : q > p /\ new[q] = MoveConfirmed(g, n + 1)
  <2>1. CASE n = last
    BY <1>3, <2>1 DEF e
  <2>2. CASE n < last
    BY <1>3, <2>2 DEF MovesFollow
  <2>3. QED
    BY <2>1, <2>2 DEF MovesFollow
<1>6. QED
  BY <1>4, <1>5 DEF MovesFollow, new, e

\* The first event has gone: what follows it, and what followed the store unless
\* it was a move.
LEMMA FollowsTail ==
    ASSUME NEW w \in Seq(Events), w # <<>>, NEW last \in Nat, NEW g \in Rooms,
           NEW n \in Nat, NEW p \in Nat, MovesFollow(w, last, g, n, p)
    PROVE  /\ p # 0 => MovesFollow(Tail(w), last, g, n, p - 1)
           /\ p = 0 /\ ~(w[1].kind = "moved" /\ w[1].game = g) => MovesFollow(Tail(w), last, g, n, 0)
<1>1. /\ DOMAIN w = 1..Len(w) /\ DOMAIN Tail(w) = 1..(Len(w) - 1) /\ Len(w) \in Nat \ {0}
      /\ \A q \in DOMAIN Tail(w) : Tail(w)[q] = w[q + 1]
  BY TailIs
<1>2. \A m \in Nat : MoveConfirmed(g, m).kind = "moved" /\ MoveConfirmed(g, m).game = g
  BY DEF MoveConfirmed
<1>3. ASSUME NEW k \in Nat, p <= k + 1,
             \A q \in DOMAIN w : q > p /\ w[q].kind = "moved" /\ w[q].game = g => q > k + 1
      PROVE  MovesFollow(Tail(w), last, g, n, k)
  <2>1. \A q \in DOMAIN Tail(w) : q > k /\ Tail(w)[q].kind = "moved" /\ Tail(w)[q].game = g =>
            n < Tail(w)[q].moves /\ Tail(w)[q].moves <= last
    BY <1>1, <1>3 DEF MovesFollow
  <2>2. ASSUME n < last
        PROVE  \E q \in DOMAIN Tail(w) : q > k /\ Tail(w)[q] = MoveConfirmed(g, n + 1)
    <3>1. PICK q \in DOMAIN w : q > p /\ w[q] = MoveConfirmed(g, n + 1)
      BY <2>2 DEF MovesFollow
    <3>2. q > k + 1
      BY <1>2, <1>3, <3>1
    <3>3. q - 1 \in DOMAIN Tail(w) /\ q - 1 > k /\ Tail(w)[q - 1] = w[q]
      BY <1>1, <3>2
    <3>4. QED
      BY <3>1, <3>3
  <2>3. QED
    BY <2>1, <2>2 DEF MovesFollow
<1>4. ASSUME p # 0
      PROVE  MovesFollow(Tail(w), last, g, n, p - 1)
  BY <1>1, <1>3, <1>4
<1>5. ASSUME p = 0, ~(w[1].kind = "moved" /\ w[1].game = g)
      PROVE  MovesFollow(Tail(w), last, g, n, 0)
  BY <1>1, <1>3, <1>5
<1>6. QED
  BY <1>4, <1>5

LEMMA EndAppend ==
    ASSUME NEW w \in Seq(Events), NEW e \in Events, NEW g \in Rooms, NEW p \in Nat, p <= Len(w)
    PROVE  /\ EndFollows(w, g, p) => EndFollows(Append(w, e), g, p)
           /\ EndFollows(Append(w, GameOver(g)), g, p)
<1>1. EndFollows(w, g, p) => EndFollows(Append(w, e), g, p)
  BY AppendIs DEF EndFollows
<1>2. GameOver(g) \in Events
  BY EventsAre
<1>3. QED
  BY <1>1, <1>2, AppendIs DEF EndFollows

LEMMA EndTail ==
    ASSUME NEW w \in Seq(Events), w # <<>>, NEW g \in Rooms, NEW p \in Nat, EndFollows(w, g, p)
    PROVE  /\ p # 0 => EndFollows(Tail(w), g, p - 1)
           /\ p = 0 /\ ~(w[1].kind = "over" /\ w[1].game = g) => EndFollows(Tail(w), g, 0)
<1>1. /\ DOMAIN w = 1..Len(w) /\ DOMAIN Tail(w) = 1..(Len(w) - 1) /\ Len(w) \in Nat \ {0}
      /\ \A q \in DOMAIN Tail(w) : Tail(w)[q] = w[q + 1]
  BY TailIs
<1>2. PICK q \in DOMAIN w : q > p /\ w[q] = GameOver(g)
  BY DEF EndFollows
<1>3. w[q].kind = "over" /\ w[q].game = g
  BY <1>2 DEF GameOver
<1>4. q # 1 => q - 1 \in DOMAIN Tail(w) /\ Tail(w)[q - 1] = GameOver(g)
  BY <1>1, <1>2
<1>5. QED
  BY <1>1, <1>2, <1>3, <1>4 DEF EndFollows

-----------------------------------------------------------------------------
(* What is on the wire stays in order                                      *)

\* The server goes on with its games and emits nothing.
Silent(lives, new) ==
    \A g \in Rooms : /\ new[g].emitted = lives[g].emitted /\ lives[g].moves <= new[g].moves
                     /\ new[g].status = "over" <=> lives[g].status = "over"

LEMMA SilentWire ==
    ASSUME NEW w \in Seq(Events), NEW lives \in Lives, NEW new \in Lives, NEW channels,
           Silent(lives, new), WireOK(w, lives, channels)
    PROVE  WireOK(w, new, channels)
<1>1. \A p \in DOMAIN w : w[p] \in Events
  OBVIOUS
<1>2. \A p \in DOMAIN w : w[p].game \in Rooms /\ (w[p].kind # "over" => w[p].moves \in Nat)
                          /\ w[p].kind \in {"start", "moved", "over", "preview"}
  BY <1>1, EventIs
<1>3. \A g \in Rooms : lives[g].moves \in Nat /\ new[g].moves \in Nat
  BY DEF Lives
<1>4. QED
  BY <1>2, <1>3 DEF WireOK, EventOK, Silent, Stated, Exact

LEMMA SilentStore ==
    ASSUME NEW w, NEW lives \in Lives, NEW new \in Lives, NEW channels, NEW st \in Stores, NEW why,
           Silent(lives, new), StoreOK(st, why, w, lives, channels)
    PROVE  StoreOK(st, why, w, new, channels)
<1>1. \A g \in Rooms : lives[g].moves \in Nat /\ new[g].moves \in Nat
  BY DEF Lives
<1>2. (Sure(st, why) => st.game \in Rooms) /\ st.dests.moves \in Nat
  BY DEF Sure, Stores
<1>3. Follows(st, why) => Sure(st, why)
  BY DEF Follows
<1>4. QED
  BY <1>1, <1>2, <1>3 DEF StoreOK, Silent

LEMMA EventsInWire ==
    ASSUME NEW w \in Seq(Events)
    PROVE  \A p \in DOMAIN w :
              /\ w[p].kind \in {"start", "moved", "over", "preview"}
              /\ w[p].game \in Rooms
              /\ w[p].kind # "over" => w[p].moves \in Nat
              /\ w[p].kind = "preview" => w[p].marble \in Nat \ {0}
              /\ w[p].kind = "moved" => w[p] = MoveConfirmed(w[p].game, w[p].moves)
              /\ w[p].kind = "over" => w[p] = GameOver(w[p].game)
<1>1. \A p \in DOMAIN w : w[p] \in Events
  OBVIOUS
<1>2. QED
  BY <1>1, EventIs

LEMMA LivesAre ==
    ASSUME NEW lives \in Lives, NEW g \in Rooms
    PROVE  lives[g].status \in Statuses /\ lives[g].moves \in Nat /\ lives[g].emitted \in Nat
  BY DEF Lives

\* A snapshot or an answer to a preview, of the present position.
LEMMA AppendWire ==
    ASSUME NEW w \in Seq(Events), NEW lives \in Lives, NEW channels, NEW more,
           NEW e \in Events, e.kind \in {"start", "preview"}, channels \subseteq more,
           e.kind = "start" => e.game \in more /\ e.moves <= lives[e.game].moves,
           Exact(e) => e.moves = lives[e.game].emitted /\ lives[e.game].status # "over",
           e.kind = "preview" => e.moves = lives[e.game].moves,
           WireOK(w, lives, channels)
    PROVE  WireOK(Append(w, e), lives, more)
<1> DEFINE new == Append(w, e)
<1>1. /\ DOMAIN new = 1..(Len(w) + 1) /\ new[Len(w) + 1] = e /\ DOMAIN w = 1..Len(w) /\ Len(w) \in Nat
      /\ \A q \in DOMAIN w : new[q] = w[q]
  BY AppendIs
<1>2. \A p \in DOMAIN w : /\ w[p].game \in Rooms
                          /\ Stated(w[p]) \/ w[p].kind = "preview" => w[p].moves \in Nat
  BY EventsInWire DEF Stated
<1>3. e.game \in Rooms /\ e.moves \in Nat /\ ~(e.kind = "moved") /\ ~(e.kind = "over")
  BY EventIs
<1>4. lives[e.game].moves \in Nat /\ lives[e.game].emitted \in Nat
  BY <1>3, LivesAre
<1>5. ASSUME NEW p \in DOMAIN w
      PROVE  EventOK(new, lives, more, p)
  <2>1. new[p] = w[p] /\ w[p].game \in Rooms /\ p \in Nat /\ p <= Len(w)
    BY <1>1, <1>2
  <2>2. w[p].kind = "moved" \/ Exact(w[p]) =>
            MovesFollow(new, lives[w[p].game].emitted, w[p].game, w[p].moves, p)
    <3> SUFFICES ASSUME w[p].kind = "moved" \/ Exact(w[p])
                 PROVE  MovesFollow(new, lives[w[p].game].emitted, w[p].game, w[p].moves, p)
      OBVIOUS
    <3>1. w[p].moves \in Nat
      BY <1>2 DEF Exact, Stated
    <3>2. MovesFollow(w, lives[w[p].game].emitted, w[p].game, w[p].moves, p)
      BY DEF WireOK, EventOK
    <3>3. lives[w[p].game].emitted \in Nat
      BY <2>1, LivesAre
    <3>4. QED
      BY <1>3, <2>1, <3>1, <3>2, <3>3, FollowsAppend
  <2>3. Exact(w[p]) /\ lives[w[p].game].status = "over" => EndFollows(new, w[p].game, p)
    BY <2>1, EndAppend DEF WireOK, EventOK
  <2>4. \A q \in DOMAIN new : q < p => q \in DOMAIN w /\ new[q] = w[q]
    BY <1>1
  <2> HIDE DEF new
  <2>5. QED
    BY <2>1, <2>2, <2>3, <2>4 DEF WireOK, EventOK
<1>6. ASSUME e.kind = "preview", NEW q \in DOMAIN w, Stated(w[q]), w[q].game = e.game
      PROVE  w[q].moves <= e.moves
  BY <1>6 DEF WireOK, EventOK
<1>7. Exact(e) => MovesFollow(new, lives[e.game].emitted, e.game, e.moves, Len(w) + 1)
  BY <1>1, <1>3, <1>4 DEF MovesFollow
<1> HIDE DEF new
<1>8. ASSUME NEW p \in DOMAIN new, p = Len(w) + 1
      PROVE  EventOK(new, lives, more, p)
  <2>1. new[p] = e
    BY <1>1, <1>8
  <2>2. \A q \in DOMAIN new : q < p => q \in DOMAIN w /\ new[q] = w[q]
    BY <1>1, <1>8
  <2>3. e.kind = "preview" => \A q \in DOMAIN new : q < p /\ Stated(new[q]) /\ new[q].game = e.game =>
                                   new[q].moves <= e.moves
    BY <1>6, <2>2
  <2>4. e.kind = "preview" => e.moves <= lives[e.game].moves
    BY <1>4
  <2>5. Stated(e) => e.game \in more /\ e.moves <= lives[e.game].moves
    BY <1>3 DEF Stated
  <2>6. QED
    BY <1>3, <1>7, <1>8, <2>1, <2>3, <2>4, <2>5 DEF EventOK
<1>9. \A p \in DOMAIN new : p \in DOMAIN w \/ p = Len(w) + 1
  BY <1>1
<1>10. WireOK(new, lives, more)
  BY <1>5, <1>8, <1>9 DEF WireOK
<1>11. QED
  BY <1>10 DEF new

\* EmitMove: the next move of game g.
Sends(lives, new, g) ==
    /\ \A h \in Rooms : /\ new[h].moves = lives[h].moves /\ new[h].status = lives[h].status
                        /\ h # g => new[h].emitted = lives[h].emitted
    /\ new[g].emitted = lives[g].emitted + 1 /\ lives[g].emitted < lives[g].moves

LEMMA FollowsSent ==
    ASSUME NEW w \in Seq(Events), NEW lives \in Lives, NEW new \in Lives, NEW g \in Rooms, Sends(lives, new, g),
           NEW h \in Rooms, NEW n \in Nat, NEW p \in Nat, p <= Len(w), MovesFollow(w, lives[h].emitted, h, n, p)
    PROVE  MovesFollow(Append(w, MoveConfirmed(g, lives[g].emitted + 1)), new[h].emitted, h, n, p)
<1> DEFINE e == MoveConfirmed(g, lives[g].emitted + 1)
<1>1. lives[g].emitted \in Nat /\ lives[h].emitted \in Nat
  BY LivesAre
<1>2. e \in Events /\ e.kind = "moved" /\ e.game = g
  BY <1>1, EventsAre
<1>3. CASE h = g
  BY <1>1, <1>3, FollowsMove DEF Sends
<1>4. CASE h # g
  <2>1. new[h].emitted = lives[h].emitted
    BY <1>4 DEF Sends
  <2> HIDE DEF e
  <2>2. MovesFollow(Append(w, e), lives[h].emitted, h, n, p)
    BY <1>1, <1>2, <1>4, FollowsAppend
  <2>3. QED
    BY <2>1, <2>2 DEF e
<1>5. QED
  BY <1>3, <1>4

LEMMA MoveWire ==
    ASSUME NEW w \in Seq(Events), NEW lives \in Lives, NEW new \in Lives, NEW channels,
           NEW g \in Rooms, Sends(lives, new, g), WireOK(w, lives, channels)
    PROVE  /\ g \in channels => WireOK(Append(w, MoveConfirmed(g, lives[g].emitted + 1)), new, channels)
           /\ g \notin channels => WireOK(w, new, channels)
<1> DEFINE e == MoveConfirmed(g, lives[g].emitted + 1)
           v == Append(w, e)
<1>1. \A p \in DOMAIN w : /\ w[p].kind \in {"start", "moved", "over", "preview"}
                          /\ w[p].game \in Rooms /\ (w[p].kind # "over" => w[p].moves \in Nat)
  BY EventsInWire
<1>2. lives[g].emitted \in Nat /\ lives[g].moves \in Nat /\ new[g].emitted = lives[g].emitted + 1
  BY LivesAre DEF Sends
<1>3. e \in Events /\ e.kind = "moved" /\ e.game = g /\ e.moves = lives[g].emitted + 1
  BY <1>2, EventsAre
<1>4. ASSUME g \notin channels
      PROVE  WireOK(w, new, channels)
  BY <1>1, <1>4 DEF WireOK, EventOK, Sends, Stated, Exact
<1>5. ASSUME NEW p \in DOMAIN w, w[p].kind = "moved" \/ Exact(w[p])
      PROVE  MovesFollow(v, new[w[p].game].emitted, w[p].game, w[p].moves, p)
  <2>1. MovesFollow(w, lives[w[p].game].emitted, w[p].game, w[p].moves, p)
    BY <1>5 DEF WireOK, EventOK
  <2>2. w[p].moves \in Nat /\ p \in Nat /\ p <= Len(w)
    BY <1>1, <1>5 DEF Exact
  <2>3. QED
    BY <1>1, <2>1, <2>2, FollowsSent
<1> HIDE DEF e
<1>6. /\ DOMAIN v = 1..(Len(w) + 1) /\ v[Len(w) + 1] = e /\ DOMAIN w = 1..Len(w) /\ Len(w) \in Nat
      /\ \A q \in DOMAIN w : v[q] = w[q]
  BY <1>3, AppendIs
<1>7. ASSUME NEW p \in DOMAIN w, Exact(w[p]), lives[w[p].game].status = "over"
      PROVE  EndFollows(v, w[p].game, p)
  <2>1. p \in Nat /\ p <= Len(w)
    BY <1>6
  <2>2. QED
    BY <1>1, <1>3, <1>7, <2>1, EndAppend DEF WireOK, EventOK
<1> HIDE DEF v
<1>8. ASSUME g \in channels
      PROVE  WireOK(v, new, channels)
  <2>1. ASSUME NEW p \in DOMAIN w
        PROVE  EventOK(v, new, channels, p)
    <3>1. \A q \in DOMAIN v : q < p => q \in DOMAIN w /\ v[q] = w[q]
      BY <1>6
    <3>2. \A h \in Rooms : new[h].moves = lives[h].moves /\ new[h].status = lives[h].status
      BY DEF Sends
    <3>3. v[p] = w[p] /\ w[p].game \in Rooms
      BY <1>1, <1>6
    <3>4. QED
      BY <1>5, <1>7, <3>1, <3>2, <3>3 DEF WireOK, EventOK
  <2>2. EventOK(v, new, channels, Len(w) + 1)
    <3>1. MovesFollow(v, new[g].emitted, g, e.moves, Len(w) + 1)
      BY <1>2, <1>3, <1>6 DEF MovesFollow
    <3>2. e.moves <= new[g].moves
      BY <1>2, <1>3 DEF Sends
    <3>3. QED
      BY <1>3, <1>6, <1>8, <3>1, <3>2 DEF EventOK, Exact
  <2>3. QED
    BY <1>6, <2>1, <2>2 DEF WireOK
<1>9. QED
  BY <1>4, <1>8 DEF v, e

\* EmitOver: the end of game g.
Ends(lives, new, g) ==
    /\ \A h \in Rooms : /\ new[h].moves = lives[h].moves /\ new[h].emitted = lives[h].emitted
                        /\ h # g => new[h].status = lives[h].status
    /\ new[g].status = "over"

LEMMA OverWire ==
    ASSUME NEW w \in Seq(Events), NEW lives \in Lives, NEW new \in Lives, NEW channels,
           NEW g \in Rooms, Ends(lives, new, g), WireOK(w, lives, channels)
    PROVE  /\ g \in channels => WireOK(Append(w, GameOver(g)), new, channels)
           /\ g \notin channels => WireOK(w, new, channels)
<1> DEFINE e == GameOver(g)
           v == Append(w, e)
<1>1. \A p \in DOMAIN w : /\ w[p].kind \in {"start", "moved", "over", "preview"}
                          /\ w[p].game \in Rooms /\ (w[p].kind # "over" => w[p].moves \in Nat)
  BY EventsInWire
<1>2. e \in Events /\ e.kind = "over" /\ e.game = g
  BY EventsAre
<1>3. ASSUME g \notin channels
      PROVE  WireOK(w, new, channels)
  BY <1>1, <1>3 DEF WireOK, EventOK, Ends, Stated, Exact
<1>4. ASSUME NEW p \in DOMAIN w, Exact(w[p]), new[w[p].game].status = "over"
      PROVE  EndFollows(v, w[p].game, p)
  <2>1. p \in Nat /\ p <= Len(w)
    OBVIOUS
  <2>2. w[p].game = g \/ lives[w[p].game].status = "over"
    BY <1>1, <1>4 DEF Ends
  <2>3. QED
    BY <1>1, <1>2, <1>4, <2>1, <2>2, EndAppend DEF WireOK, EventOK
<1> HIDE DEF e
<1>5. /\ DOMAIN v = 1..(Len(w) + 1) /\ v[Len(w) + 1] = e /\ DOMAIN w = 1..Len(w) /\ Len(w) \in Nat
      /\ \A q \in DOMAIN w : v[q] = w[q]
  BY <1>2, AppendIs
<1>6. ASSUME NEW p \in DOMAIN w, w[p].kind = "moved" \/ Exact(w[p])
      PROVE  MovesFollow(v, new[w[p].game].emitted, w[p].game, w[p].moves, p)
  <2>1. MovesFollow(w, lives[w[p].game].emitted, w[p].game, w[p].moves, p)
    BY <1>6 DEF WireOK, EventOK
  <2>2. w[p].moves \in Nat /\ p \in Nat /\ new[w[p].game].emitted = lives[w[p].game].emitted
    BY <1>1, <1>5, <1>6 DEF Exact, Ends
  <2>3. lives[w[p].game].emitted \in Nat
    BY <1>1, LivesAre
  <2>4. QED
    BY <1>1, <1>2, <2>1, <2>2, <2>3, FollowsAppend
<1> HIDE DEF v
<1>7. ASSUME g \in channels
      PROVE  WireOK(v, new, channels)
  <2>1. ASSUME NEW p \in DOMAIN w
        PROVE  EventOK(v, new, channels, p)
    <3>1. \A q \in DOMAIN v : q < p => q \in DOMAIN w /\ v[q] = w[q]
      BY <1>5
    <3>2. \A h \in Rooms : new[h].moves = lives[h].moves /\ (lives[h].status = "over" => new[h].status = "over")
      BY DEF Ends
    <3>3. v[p] = w[p] /\ w[p].game \in Rooms
      BY <1>1, <1>5
    <3>4. QED
      BY <1>4, <1>6, <3>1, <3>2, <3>3 DEF WireOK, EventOK
  <2>2. EventOK(v, new, channels, Len(w) + 1)
    BY <1>2, <1>5 DEF EventOK, Exact, Stated, Ends
  <2>3. QED
    BY <1>5, <2>1, <2>2 DEF WireOK
<1>8. QED
  BY <1>3, <1>7 DEF v, e

\* Receive: the first event has been taken.
LEMMA TailWire ==
    ASSUME NEW w \in Seq(Events), NEW lives \in Lives, NEW channels, w # <<>>, WireOK(w, lives, channels)
    PROVE  WireOK(Tail(w), lives, channels)
<1> DEFINE v == Tail(w)
<1>1. /\ DOMAIN w = 1..Len(w) /\ DOMAIN v = 1..(Len(w) - 1) /\ Len(w) \in Nat \ {0}
      /\ \A q \in DOMAIN v : v[q] = w[q + 1]
  BY TailIs
<1>2. \A p \in DOMAIN w : /\ w[p].kind \in {"start", "moved", "over", "preview"}
                          /\ w[p].game \in Rooms /\ (w[p].kind # "over" => w[p].moves \in Nat)
  BY EventsInWire
<1>3. SUFFICES ASSUME NEW p \in DOMAIN v PROVE EventOK(v, lives, channels, p)
  BY DEF WireOK
<1>4. p + 1 \in DOMAIN w /\ v[p] = w[p + 1] /\ p + 1 # 0 /\ (p + 1) - 1 = p /\ p + 1 \in Nat
  BY <1>1
<1>5. EventOK(w, lives, channels, p + 1)
  BY <1>4 DEF WireOK
<1>6. v[p].kind = "moved" \/ Exact(v[p]) => MovesFollow(v, lives[v[p].game].emitted, v[p].game, v[p].moves, p)
  <2> SUFFICES ASSUME v[p].kind = "moved" \/ Exact(v[p])
               PROVE  MovesFollow(v, lives[v[p].game].emitted, v[p].game, v[p].moves, p)
    OBVIOUS
  <2>1. MovesFollow(w, lives[v[p].game].emitted, v[p].game, v[p].moves, p + 1)
    BY <1>4, <1>5 DEF EventOK
  <2>2. v[p].game \in Rooms /\ v[p].moves \in Nat
    BY <1>2, <1>4 DEF Exact
  <2>3. lives[v[p].game].emitted \in Nat
    BY <2>2, LivesAre
  <2>4. QED
    BY <1>4, <2>1, <2>2, <2>3, FollowsTail
<1>7. Exact(v[p]) /\ lives[v[p].game].status = "over" => EndFollows(v, v[p].game, p)
  BY <1>2, <1>4, <1>5, EndTail DEF EventOK
<1>8. ASSUME v[p].kind = "preview", NEW q \in DOMAIN v, q < p, Stated(v[q]), v[q].game = v[p].game
      PROVE  v[q].moves <= v[p].moves
  <2>1. q + 1 \in DOMAIN w /\ v[q] = w[q + 1] /\ q + 1 < p + 1
    BY <1>1, <1>8
  <2>2. QED
    BY <1>4, <1>5, <1>8, <2>1 DEF EventOK
<1> HIDE DEF v
<1>9. EventOK(v, lives, channels, p)
  BY <1>4, <1>5, <1>6, <1>7, <1>8 DEF EventOK
<1>10. QED
  BY <1>9 DEF v

-----------------------------------------------------------------------------
(* What the store knows stays true while events are put on the wire        *)

LEMMA StoreIs ==
    ASSUME NEW st \in Stores, NEW why
    PROVE  /\ Sure(st, why) => st.game \in Rooms
           /\ Follows(st, why) => Sure(st, why)
           /\ Len(st.board) \in Nat
  BY DEF Stores, Sure, Follows

LEMMA AppendStore ==
    ASSUME NEW w \in Seq(Events), NEW lives \in Lives, NEW channels, NEW more,
           NEW e \in Events, e.kind \in {"start", "preview"}, channels \subseteq more,
           e.kind = "preview" => e.moves = lives[e.game].moves,
           \A g \in Rooms : lives[g].emitted <= lives[g].moves,
           NEW st \in Stores, NEW why, StoreOK(st, why, w, lives, channels)
    PROVE  StoreOK(st, why, Append(w, e), lives, more)
<1> DEFINE v == Append(w, e)
<1>1. /\ DOMAIN v = 1..(Len(w) + 1) /\ v[Len(w) + 1] = e /\ DOMAIN w = 1..Len(w) /\ Len(w) \in Nat
      /\ \A q \in DOMAIN w : v[q] = w[q]
  BY AppendIs
<1>2. ASSUME Follows(st, why)
      PROVE  /\ MovesFollow(v, lives[st.game].emitted, st.game, Len(st.board), 0)
             /\ lives[st.game].status = "over" /\ st.status # "completed" => EndFollows(v, st.game, 0)
  <2>1. st.game \in Rooms /\ Len(st.board) \in Nat /\ lives[st.game].emitted \in Nat
    BY <1>2, StoreIs, LivesAre
  <2>2. MovesFollow(w, lives[st.game].emitted, st.game, Len(st.board), 0)
    BY <1>2 DEF StoreOK
  <2>3. MovesFollow(v, lives[st.game].emitted, st.game, Len(st.board), 0)
    BY <2>1, <2>2, FollowsAppend
  <2>4. lives[st.game].status = "over" /\ st.status # "completed" => EndFollows(v, st.game, 0)
    BY <1>1, <1>2, <2>1, EndAppend DEF StoreOK
  <2>5. QED
    BY <2>3, <2>4
<1> HIDE DEF v
<1>3. ASSUME Sure(st, why), NEW p \in DOMAIN v, v[p].kind = "preview", v[p].game = st.game
      PROVE  Len(st.board) <= v[p].moves
  <2>1. st.game \in Rooms /\ Len(st.board) \in Nat /\ lives[st.game].emitted \in Nat
        /\ lives[st.game].moves \in Nat /\ lives[st.game].emitted <= lives[st.game].moves
    BY <1>3, StoreIs, LivesAre
  <2>2. Len(st.board) <= lives[st.game].emitted
    BY <1>3 DEF StoreOK
  <2>3. CASE p \in DOMAIN w
    BY <1>1, <1>3, <2>3 DEF StoreOK
  <2>4. CASE p = Len(w) + 1
    BY <1>1, <1>3, <2>1, <2>2, <2>4
  <2>5. QED
    BY <1>1, <2>3, <2>4
<1>4. StoreOK(st, why, v, lives, more)
  BY <1>2, <1>3 DEF StoreOK
<1>5. QED
  BY <1>4 DEF v

LEMMA MoveStore ==
    ASSUME NEW w \in Seq(Events), NEW lives \in Lives, NEW new \in Lives, NEW channels,
           NEW g \in Rooms, Sends(lives, new, g),
           NEW st \in Stores, NEW why, StoreOK(st, why, w, lives, channels)
    PROVE  /\ g \in channels =>
                 StoreOK(st, why, Append(w, MoveConfirmed(g, lives[g].emitted + 1)), new, channels)
           /\ g \notin channels => StoreOK(st, why, w, new, channels)
<1> DEFINE e == MoveConfirmed(g, lives[g].emitted + 1)
           v == Append(w, e)
<1>1. lives[g].emitted \in Nat /\ (Sure(st, why) => st.game \in Rooms) /\ Len(st.board) \in Nat
      /\ (Follows(st, why) => Sure(st, why))
  BY LivesAre, StoreIs
<1>2. e \in Events /\ e.kind = "moved"
  BY <1>1, EventsAre
<1>3. ASSUME Sure(st, why)
      PROVE  Len(st.board) <= new[st.game].emitted /\ new[st.game].moves = lives[st.game].moves
             /\ new[st.game].status = lives[st.game].status
  <2>1. st.game \in Rooms /\ lives[st.game].emitted \in Nat
    BY <1>1, <1>3, LivesAre
  <2>2. Len(st.board) <= lives[st.game].emitted
    BY <1>3 DEF StoreOK
  <2>3. QED
    BY <1>1, <2>1, <2>2 DEF Sends
<1>4. ASSUME g \notin channels
      PROVE  StoreOK(st, why, w, new, channels)
  <2>1. ASSUME Follows(st, why)
        PROVE  new[st.game].emitted = lives[st.game].emitted
    BY <1>1, <1>4, <2>1 DEF StoreOK, Sends
  <2>2. QED
    BY <1>1, <1>3, <2>1 DEF StoreOK
<1>5. ASSUME Follows(st, why)
      PROVE  /\ MovesFollow(v, new[st.game].emitted, st.game, Len(st.board), 0)
             /\ lives[st.game].status = "over" /\ st.status # "completed" => EndFollows(v, st.game, 0)
  <2>1. MovesFollow(w, lives[st.game].emitted, st.game, Len(st.board), 0) /\ st.game \in Rooms
        /\ Len(w) \in Nat
    BY <1>1, <1>5 DEF StoreOK
  <2>2. MovesFollow(v, new[st.game].emitted, st.game, Len(st.board), 0)
    BY <1>1, <2>1, FollowsSent
  <2> HIDE DEF e
  <2>3. lives[st.game].status = "over" /\ st.status # "completed" => EndFollows(v, st.game, 0)
    BY <1>2, <1>5, <2>1, EndAppend DEF StoreOK
  <2>4. QED
    BY <2>2, <2>3
<1> HIDE DEF e
<1>6. /\ DOMAIN v = 1..(Len(w) + 1) /\ v[Len(w) + 1] = e /\ DOMAIN w = 1..Len(w) /\ Len(w) \in Nat
      /\ \A q \in DOMAIN w : v[q] = w[q]
  BY <1>2, AppendIs
<1> HIDE DEF v
<1>7. ASSUME g \in channels
      PROVE  StoreOK(st, why, v, new, channels)
  <2>1. \A p \in DOMAIN v : v[p].kind = "preview" => p \in DOMAIN w /\ v[p] = w[p]
    BY <1>2, <1>6
  <2>2. QED
    BY <1>1, <1>3, <1>5, <2>1 DEF StoreOK
<1>8. QED
  BY <1>4, <1>7 DEF v, e

LEMMA OverStore ==
    ASSUME NEW w \in Seq(Events), NEW lives \in Lives, NEW new \in Lives, NEW channels,
           NEW g \in Rooms, Ends(lives, new, g),
           NEW st \in Stores, NEW why, StoreOK(st, why, w, lives, channels)
    PROVE  /\ g \in channels => StoreOK(st, why, Append(w, GameOver(g)), new, channels)
           /\ g \notin channels => StoreOK(st, why, w, new, channels)
<1> DEFINE e == GameOver(g)
           v == Append(w, e)
<1>1. /\ Sure(st, why) => st.game \in Rooms
      /\ Len(st.board) \in Nat
      /\ Follows(st, why) => Sure(st, why)
  BY StoreIs
<1>2. e \in Events /\ e.kind = "over" /\ e.game = g
  BY EventsAre
<1>3. ASSUME Sure(st, why)
      PROVE  new[st.game].emitted = lives[st.game].emitted /\ new[st.game].moves = lives[st.game].moves
             /\ (lives[st.game].status = "over" => new[st.game].status = "over")
             /\ (st.game # g => new[st.game].status = lives[st.game].status)
  BY <1>1, <1>3 DEF Ends
<1>4. ASSUME g \notin channels
      PROVE  StoreOK(st, why, w, new, channels)
  <2>1. ASSUME Follows(st, why)
        PROVE  st.game # g
    BY <1>1, <1>4, <2>1 DEF StoreOK
  <2>2. QED
    BY <1>1, <1>3, <2>1 DEF StoreOK
<1>5. ASSUME Follows(st, why)
      PROVE  /\ MovesFollow(v, lives[st.game].emitted, st.game, Len(st.board), 0)
             /\ new[st.game].status = "over" /\ st.status # "completed" => EndFollows(v, st.game, 0)
  <2>1. st.game \in Rooms /\ lives[st.game].emitted \in Nat /\ Len(w) \in Nat
    BY <1>1, <1>5, LivesAre
  <2>2. MovesFollow(w, lives[st.game].emitted, st.game, Len(st.board), 0)
    BY <1>5 DEF StoreOK
  <2>3. CASE st.game = g
    BY <1>1, <1>2, <2>1, <2>2, <2>3, EndAppend, FollowsAppend
  <2>4. CASE st.game # g
    <3> HIDE DEF e
    <3>1. MovesFollow(v, lives[st.game].emitted, st.game, Len(st.board), 0)
      BY <1>1, <1>2, <2>1, <2>2, FollowsAppend
    <3>2. new[st.game].status = lives[st.game].status
      BY <1>1, <1>3, <1>5, <2>4
    <3>3. lives[st.game].status = "over" /\ st.status # "completed" => EndFollows(v, st.game, 0)
      BY <1>2, <1>5, <2>1, EndAppend DEF StoreOK
    <3>4. QED
      BY <3>1, <3>2, <3>3
  <2>5. QED
    BY <2>3, <2>4
<1> HIDE DEF e
<1>6. /\ DOMAIN v = 1..(Len(w) + 1) /\ v[Len(w) + 1] = e /\ DOMAIN w = 1..Len(w) /\ Len(w) \in Nat
      /\ \A q \in DOMAIN w : v[q] = w[q]
  BY <1>2, AppendIs
<1> HIDE DEF v
<1>7. ASSUME g \in channels
      PROVE  StoreOK(st, why, v, new, channels)
  <2>1. \A p \in DOMAIN v : v[p].kind = "preview" => p \in DOMAIN w /\ v[p] = w[p]
    BY <1>2, <1>6
  <2>2. QED
    BY <1>1, <1>3, <1>5, <2>1 DEF StoreOK
<1>8. QED
  BY <1>4, <1>7 DEF v, e

-----------------------------------------------------------------------------
(* Receive                                                                 *)

LEMMA BoardIs ==
    ASSUME NEW g, NEW n \in Nat
    PROVE  /\ Len(Board(g, n)) = n
           /\ Append(Board(g, n), <<g, n + 1>>) = Board(g, n + 1)
           /\ g \in Rooms => Board(g, n) \in Seq(Moves)
  BY DEF Board, Moves

LEMMA StartedIs ==
    ASSUME store \in Stores, NEW e \in Events, e.kind = "start"
    PROVE  LET st == Started(e)
           IN  /\ st \in Stores /\ st.game = e.game /\ st.status = "active"
               /\ st.board = Board(e.game, e.moves) /\ st.myTurn = MyTurn(e.moves)
               /\ st.selected = NoMarble /\ st.dests = NoDests
               /\ st.animating = <<>> /\ st.pending = store.pending
<1>1. e.game \in Rooms /\ e.moves \in Nat
  BY EventIs
<1>2. Board(e.game, e.moves) \in Seq(Moves) /\ MyTurn(e.moves) \in BOOLEAN
  BY <1>1, BoardIs DEF MyTurn
<1>3. <<>> \in Seq(Moves) /\ NoMarble \in Int /\ NoMarble \in Nat
  BY DEF NoMarble
<1>4. QED
  BY <1>1, <1>2, <1>3 DEF Started, Stores, NoDests

LEMMA AppliedIs ==
    ASSUME store \in Stores, NEW e \in Events, e.kind = "moved"
    PROVE  LET st == Applied(e)
               move == <<e.game, e.moves>>
           IN  /\ st \in Stores /\ st.game = store.game /\ st.status = store.status
               /\ st.board = Append(store.board, move) /\ st.myTurn = MyTurn(e.moves)
               /\ st.selected = NoMarble /\ st.dests = NoDests
               /\ store.animating = <<>> => st.animating = <<move>> /\ st.pending = store.pending
               /\ store.animating # <<>> => /\ st.animating = store.animating
                                            /\ st.pending = Append(store.pending, move)
<1>1. e.game \in Rooms /\ e.moves \in Nat
  BY EventIs
<1>2. <<e.game, e.moves>> \in Moves /\ MyTurn(e.moves) \in BOOLEAN
  BY <1>1 DEF MyTurn, Moves
<1>3. NoMarble \in Int /\ NoMarble \in Nat
  BY DEF NoMarble
<1>4. /\ Append(store.board, <<e.game, e.moves>>) \in Seq(Moves)
      /\ Append(store.pending, <<e.game, e.moves>>) \in Seq(Moves)
      /\ <<<<e.game, e.moves>>>> \in Seq(Moves)
  BY <1>2 DEF Stores
<1>5. QED
  BY <1>1, <1>2, <1>3, <1>4 DEF Applied, Stores, NoDests

\* The four kinds of events, and what each does to the store.
LEMMA ReceiveIs ==
    ASSUME Types, Receive
    PROVE  LET e == wire[1]
               foreign == IF e.game = store.game THEN {} ELSE {"foreign"}
           IN  /\ wire # <<>> /\ wire' = Tail(wire) /\ e \in Events /\ 1 \in DOMAIN wire
               /\ UNCHANGED <<live, socket, joins, previews, page, inputs>>
               /\ \/ /\ e.kind = "start"
                     /\ store' = Started(e)
                     /\ unsettled' = (IF e.exact THEN {} ELSE {"gap"}) \union
                                     (IF store.pending = <<>> THEN {} ELSE {"skipped"})
                  \/ /\ e.kind = "moved"
                     /\ store' = Applied(e)
                     /\ unsettled' = unsettled \union foreign \union
                                     (IF "drop" \in unsettled THEN {"gap"} ELSE {})
                  \/ /\ e.kind = "over"
                     /\ store' = [store EXCEPT !.status = "completed"]
                     /\ unsettled' = unsettled \union foreign
                  \/ /\ e.kind = "preview"
                     /\ store' = [store EXCEPT !.dests = [game |-> e.game, moves |-> e.moves,
                                                          marble |-> e.marble]]
                     /\ unsettled' = unsettled \union foreign
<1>1. wire \in Seq(Events) /\ wire # <<>> /\ wire' = Tail(wire)
  BY DEF Types, LinkTyped, Receive
<1>2. Head(wire) = wire[1] /\ wire[1] \in Events /\ 1 \in DOMAIN wire
  BY <1>1, TailIs
<1>3. QED
  BY <1>1, <1>2 DEF Receive

LEMMA ReceiveStore ==
    ASSUME Types, WireOK(wire, live, socket.channels),
           StoreOK(store, unsettled, wire, live, socket.channels), Receive
    PROVE  StoreOK(store, unsettled, wire, live, socket.channels)'
<1> DEFINE e == wire[1]
           v == Tail(wire)
           st == store'
           why == unsettled'
           ch == socket.channels
<1> USE DEF Types, LinkTyped, ClientTyped, ServerTyped, LivesOK
<1>1. /\ wire \in Seq(Events) /\ live \in Lives /\ store \in Stores /\ wire # <<>>
      /\ e \in Events /\ 1 \in DOMAIN wire
      /\ UNCHANGED <<live, socket>> /\ wire' = v
  BY ReceiveIs
<1>2. /\ DOMAIN v = 1..(Len(wire) - 1) /\ Len(wire) \in Nat \ {0} /\ DOMAIN wire = 1..Len(wire)
      /\ \A q \in DOMAIN v : v[q] = wire[q + 1]
  BY <1>1, TailIs
<1>3. /\ e.kind \in {"start", "moved", "over", "preview"} /\ e.game \in Rooms
      /\ e.kind # "over" => e.moves \in Nat
  BY <1>1, EventIs
<1>4. EventOK(wire, live, ch, 1)
  BY <1>1 DEF WireOK
<1>5. \A q \in DOMAIN v : q + 1 \in DOMAIN wire /\ v[q] = wire[q + 1] /\ 1 < q + 1
  BY <1>2
<1>6. live[e.game].emitted \in Nat /\ live[e.game].moves \in Nat
  BY <1>1, <1>3, LivesAre
<1>7. ASSUME Stated(e), NEW q \in DOMAIN v, v[q].kind = "preview", v[q].game = e.game
      PROVE  e.moves <= v[q].moves
  BY <1>1, <1>5, <1>7 DEF WireOK, EventOK
<1> HIDE DEF Types, LinkTyped, ClientTyped, ServerTyped, LivesOK
\* A snapshot: exact, or nothing is claimed.
<1>8. CASE e.kind = "start"
  <2>1. /\ st.game = e.game /\ st.status = "active"
        /\ st.board = Board(e.game, e.moves) /\ st.myTurn = MyTurn(e.moves) /\ st.dests = NoDests
    BY <1>1, <1>8, StartedIs, ReceiveIs
  <2>2. Len(st.board) = e.moves
    BY <1>3, <1>8, <2>1, BoardIs
  <2>3. Sure(st, why) => e.exact
    <3>1. why = (IF e.exact THEN {} ELSE {"gap"}) \union (IF store.pending = <<>> THEN {} ELSE {"skipped"})
      BY <1>8, ReceiveIs
    <3> HIDE DEF why
    <3>2. QED
      BY <3>1 DEF Sure
  <2>4. ASSUME Sure(st, why)
        PROVE  /\ e.moves <= live[e.game].emitted
               /\ MovesFollow(v, live[e.game].emitted, e.game, e.moves, 0)
               /\ live[e.game].status = "over" => EndFollows(v, e.game, 0)
    <3>1. Exact(e)
      BY <1>8, <2>3, <2>4 DEF Exact
    <3>2. MovesFollow(wire, live[e.game].emitted, e.game, e.moves, 1)
      BY <1>4, <3>1 DEF EventOK
    <3>3. MovesFollow(v, live[e.game].emitted, e.game, e.moves, 1 - 1)
      BY <1>1, <1>3, <1>6, <1>8, <3>2, FollowsTail
    <3>4. live[e.game].status = "over" => EndFollows(v, e.game, 1 - 1)
      BY <1>1, <1>3, <1>4, <3>1, EndTail DEF EventOK
    <3>5. QED
      BY <3>2, <3>3, <3>4 DEF MovesFollow
  <2>5. Stated(e) /\ e.game \in ch
    BY <1>4, <1>8 DEF EventOK, Stated
  <2> HIDE DEF e, v, st, why, ch
  <2>6. StoreOK(st, why, v, live, ch)
    BY <1>7, <2>1, <2>2, <2>4, <2>5 DEF StoreOK, Follows
  <2>7. QED
    BY <1>1, <2>6 DEF st, why, v, ch
\* A move: the next one, if the store is known to follow its game.
<1>9. CASE e.kind = "moved"
  <2>1. /\ st.game = store.game /\ st.status = store.status
        /\ st.board = Append(store.board, <<e.game, e.moves>>) /\ st.myTurn = MyTurn(e.moves)
        /\ st.dests = NoDests
    BY <1>1, <1>9, AppliedIs, ReceiveIs
  <2>2. ASSUME Sure(st, why)
        PROVE  Follows(store, unsettled) /\ e.game = store.game
    <3>1. why = unsettled \union (IF e.game = store.game THEN {} ELSE {"foreign"}) \union
                (IF "drop" \in unsettled THEN {"gap"} ELSE {})
      BY <1>9, ReceiveIs
    <3> HIDE DEF why
    <3>2. QED
      BY <2>1, <2>2, <3>1 DEF Sure, Follows
  <2>3. ASSUME Sure(st, why)
        PROVE  /\ e.moves = Len(store.board) + 1 /\ e.moves <= live[e.game].emitted
               /\ MovesFollow(v, live[e.game].emitted, e.game, e.moves, 0)
    <3>1. MovesFollow(wire, live[e.game].emitted, e.game, Len(store.board), 0)
      BY <2>2, <2>3 DEF StoreOK
    <3>2. MovesFollow(wire, live[e.game].emitted, e.game, e.moves, 1)
      BY <1>4, <1>9 DEF EventOK
    <3>3. Len(store.board) \in Nat /\ e.moves \in Nat
      BY <1>1, <1>3, <1>9, StoreIs
    <3>4. Len(store.board) < e.moves /\ e.moves <= live[e.game].emitted
      BY <1>1, <1>9, <3>1 DEF MovesFollow
    <3>5. PICK q \in DOMAIN wire : wire[q] = MoveConfirmed(e.game, Len(store.board) + 1)
      BY <1>6, <3>1, <3>3, <3>4 DEF MovesFollow
    <3>6. wire[q].kind = "moved" /\ wire[q].game = e.game /\ wire[q].moves = Len(store.board) + 1
      BY <3>5 DEF MoveConfirmed
    <3>7. q = 1 \/ q > 1
      BY <1>2
    <3>8. q > 1 => e.moves < Len(store.board) + 1
      BY <3>2, <3>6 DEF MovesFollow
    <3>9. e.moves = Len(store.board) + 1
      BY <3>3, <3>4, <3>6, <3>7, <3>8
    <3>10. MovesFollow(v, live[e.game].emitted, e.game, e.moves, 1 - 1)
      BY <1>1, <1>3, <1>6, <1>9, <3>2, FollowsTail
    <3>11. QED
      BY <3>4, <3>9, <3>10
  <2>4. ASSUME Sure(st, why)
        PROVE  st.board = Board(e.game, e.moves) /\ Len(st.board) = e.moves
    <3>1. Len(store.board) \in Nat
      BY <1>1, StoreIs
    <3>2. store.board = Board(e.game, Len(store.board))
      BY <2>2, <2>4 DEF StoreOK, Follows
    <3>3. Append(Board(e.game, Len(store.board)), <<e.game, Len(store.board) + 1>>)
              = Board(e.game, Len(store.board) + 1)
      BY <3>1, BoardIs
    <3>4. st.board = Board(e.game, e.moves)
      BY <2>1, <2>3, <2>4, <3>2, <3>3
    <3>5. QED
      BY <1>3, <1>9, <3>4, BoardIs
  <2>5. ASSUME Sure(st, why)
        PROVE  /\ live[e.game].status = "over" /\ st.status # "completed" => EndFollows(v, e.game, 0)
               /\ st.status = "completed" => live[e.game].status = "over"
               /\ e.game \in ch
    <3>1. /\ live[e.game].status = "over" /\ st.status # "completed" => EndFollows(wire, e.game, 0)
          /\ st.status = "completed" => live[e.game].status = "over"
          /\ e.game \in ch
      BY <2>1, <2>2, <2>5 DEF StoreOK, Follows
    <3>2. EndFollows(wire, e.game, 0) => EndFollows(v, e.game, 0)
      BY <1>1, <1>3, <1>9, EndTail
    <3>3. QED
      BY <3>1, <3>2
  <2>6. Stated(e)
    BY <1>9 DEF Stated
  <2> HIDE DEF e, v, st, why, ch
  <2>7. StoreOK(st, why, v, live, ch)
    BY <1>7, <2>1, <2>2, <2>3, <2>4, <2>5, <2>6 DEF StoreOK, Follows
  <2>8. QED
    BY <1>1, <2>7 DEF st, why, v, ch
\* The end of the game, or an answer to a preview: the board stays.
<1>10. CASE e.kind \in {"over", "preview"}
  <2>1. /\ st.game = store.game /\ st.board = store.board /\ st.myTurn = store.myTurn
        /\ e.kind = "over" => st.status = "completed" /\ st.dests = store.dests
        /\ e.kind = "preview" => st.status = store.status /\ st.dests.game = e.game /\ st.dests.moves = e.moves
    BY <1>1, <1>10, ReceiveIs DEF Stores
  <2>2. /\ why = unsettled \union (IF e.game = store.game THEN {} ELSE {"foreign"})
    BY <1>10, ReceiveIs
  <2>3. ASSUME Sure(st, why)
        PROVE  Sure(store, unsettled) /\ e.game = store.game
    <3> HIDE DEF why
    <3>1. QED
      BY <2>1, <2>2, <2>3 DEF Sure
  <2>4. Follows(st, why) => Follows(store, unsettled)
    <3> HIDE DEF why
    <3>1. QED
      BY <2>2, <2>3 DEF Follows
  <2>5. ASSUME Follows(st, why)
        PROVE  /\ MovesFollow(v, live[e.game].emitted, e.game, Len(store.board), 0)
               /\ live[e.game].status = "over" /\ st.status # "completed" => EndFollows(v, e.game, 0)
    <3>1. e.game = store.game
      BY <2>3, <2>5 DEF Follows
    <3>2. MovesFollow(wire, live[e.game].emitted, e.game, Len(store.board), 0)
      BY <2>4, <2>5, <3>1 DEF StoreOK
    <3>3. MovesFollow(v, live[e.game].emitted, e.game, Len(store.board), 0)
      BY <1>1, <1>3, <1>6, <1>10, <3>2, FollowsTail, StoreIs
    <3>4. live[e.game].status = "over" /\ st.status # "completed" =>
              EndFollows(wire, e.game, 0) /\ e.kind = "preview"
      BY <1>10, <2>1, <2>4, <2>5, <3>1 DEF StoreOK
    <3>5. EndFollows(wire, e.game, 0) /\ e.kind = "preview" => EndFollows(v, e.game, 0)
      BY <1>1, <1>3, EndTail
    <3>6. QED
      BY <3>3, <3>4, <3>5
  <2>6. ASSUME Sure(st, why), NEW q \in DOMAIN v, v[q].kind = "preview", v[q].game = store.game
        PROVE  Len(store.board) <= v[q].moves
    BY <1>5, <2>3, <2>6 DEF StoreOK
  <2>7. ASSUME Sure(st, why)
        PROVE  /\ st.status = "completed" => live[store.game].status = "over"
               /\ st.dests # NoDests => /\ st.dests.game = st.game
                                        /\ Len(st.board) <= st.dests.moves
                                        /\ st.dests.moves <= live[st.game].moves
    BY <1>1, <1>4, <1>10, <2>1, <2>3, <2>7 DEF StoreOK, EventOK
  <2> HIDE DEF e, v, st, why, ch
  <2>8. StoreOK(st, why, v, live, ch)
    <3>1. Follows(st, why) => st.game \in ch
      BY <2>1, <2>4 DEF StoreOK, ch
    <3>2. QED
      BY <2>1, <2>3, <2>5, <2>6, <2>7, <3>1 DEF StoreOK, Follows
  <2>9. QED
    BY <1>1, <2>8 DEF st, why, v, ch
<1>11. QED
  BY <1>3, <1>8, <1>9, <1>10

-----------------------------------------------------------------------------
(* The server's steps                                                      *)

LEMMA SilentJoins ==
    ASSUME NEW lives \in Lives, NEW new \in Lives, Silent(lives, new), NEW js, JoinsOK(js, lives)
    PROVE  JoinsOK(js, new)
<1>1. \A g \in Rooms : lives[g].moves \in Nat /\ new[g].moves \in Nat
  BY DEF Lives
<1>2. QED
  BY <1>1 DEF JoinsOK, Silent

LEMMA SilentSelf ==
    ASSUME NEW lives \in Lives
    PROVE  Silent(lives, lives)
<1>1. ASSUME NEW g \in Rooms
      PROVE  /\ lives[g].emitted = lives[g].emitted /\ lives[g].moves <= lives[g].moves
             /\ lives[g].status = "over" <=> lives[g].status = "over"
  <2>1. lives[g].moves \in Nat
    BY LivesAre
  <2>2. QED
    BY <2>1
<1>2. QED
  BY <1>1, Zenon DEF Silent

\* A game that goes on without an event.
LEMMA SilentStep ==
    ASSUME WebInv, LivesOK(live'), Silent(live, live'),
           UNCHANGED <<socket, joins, previews, wire, page, store, unsettled, inputs>>
    PROVE  WebInv'
<1>1. live \in Lives /\ live' \in Lives /\ wire \in Seq(Events) /\ store \in Stores
  BY DEF WebInv, Types, ServerTyped, LinkTyped, ClientTyped, LivesOK
<1>2. Types'
  <2>1. JoinsOK(joins, live')
    BY <1>1, SilentJoins DEF WebInv, Types, ServerTyped
  <2>2. QED
    BY <2>1 DEF WebInv, Types, ServerTyped, LinkTyped, ClientTyped, Connected
<1>3. WireOK(wire, live', socket.channels)
  BY <1>1, SilentWire DEF WebInv
<1>4. StoreOK(store, unsettled, wire, live', socket.channels)
  BY <1>1, SilentStore DEF WebInv
<1>5. PreviewsOK(store, unsettled, wire, previews, inputs)' /\ AnimationsOK(store, unsettled)'
  BY DEF WebInv
<1>6. QED
  BY <1>2, <1>3, <1>4, <1>5 DEF WebInv

LEMMA SaveIs ==
    ASSUME LivesOK(live), NEW g \in Rooms, live[g].status = "active", live[g].moves < MaxPlayed[g],
           SaveMove(g)
    PROVE  LivesOK(live') /\ Silent(live, live')
<1>1. live[g].emitted \in Nat /\ live[g].moves \in Nat /\ live[g] \in
          [status : Statuses, moves : Nat, emitted : Nat, announced : BOOLEAN]
  BY DEF LivesOK, Lives
<1>2. live' \in Lives /\ live'[g].moves = live[g].moves + 1 /\ live'[g].emitted = live[g].emitted
      /\ live'[g].status = "active" /\ \A h \in Rooms \ {g} : live'[h] = live[h]
  BY <1>1 DEF LivesOK, Lives, SaveMove
<1>3. MaxPlayed[g] \in Nat
  BY WebGameAssumption
<1>4. \A h \in Rooms : live[h].moves \in Nat /\ live[h].emitted \in Nat
  BY DEF LivesOK, Lives
<1>5. QED
  BY <1>1, <1>2, <1>3, <1>4 DEF LivesOK, Silent

LEMMA ServerStep ==
    ASSUME WebInv, NEW g \in Rooms, StartSave(g) \/ PlayMove(g) \/ Decide(g)
    PROVE  WebInv'
<1>1. LivesOK(live)
  BY DEF WebInv, Types, ServerTyped
<1>2. live \in Lives /\ \A h \in Rooms : live[h].moves \in Nat
  BY <1>1 DEF LivesOK, Lives
<1>3. LivesOK(live') /\ Silent(live, live')
  <2>1. CASE PlayMove(g)
    BY <1>1, <2>1, SaveIs DEF PlayMove
  <2>2. ASSUME NEW s \in {"active", "completed"}, NEW a \in BOOLEAN, live[g].status # "over",
               live' = [live EXCEPT ![g].status = s, ![g].announced = a]
        PROVE  LivesOK(live') /\ Silent(live, live')
    <3>1. live' \in Lives
      <4>1. s \in Statuses
        BY <2>2 DEF Statuses
      <4> DEFINE Record == [status : Statuses, moves : Nat, emitted : Nat, announced : BOOLEAN]
                 r == [live[g] EXCEPT !.status = s, !.announced = a]
      <4>2. live \in [Rooms -> Record] /\ live[g] \in Record
        BY <1>2 DEF Lives
      <4>3. r \in Record
        BY <2>2, <4>1, <4>2
      <4>4. live' = [live EXCEPT ![g] = r]
        BY <2>2, <4>2
      <4> HIDE DEF Record, r
      <4>5. live' \in [Rooms -> Record]
        BY <4>2, <4>3, <4>4
      <4>6. QED
        BY <4>5 DEF Lives, Record
    <3>2. \A h \in Rooms : /\ live'[h].moves = live[h].moves /\ live'[h].emitted = live[h].emitted
                           /\ h # g => live'[h] = live[h]
          /\ live'[g].status = s
      BY <1>2, <2>2 DEF Lives
    <3>3. live'[g].status # "over"
      BY <2>2, <3>2
    <3>4. LivesOK(live')
      BY <1>1, <3>1, <3>2, <3>3 DEF LivesOK
    <3>5. \A h \in Rooms : live'[h].status = "over" <=> live[h].status = "over"
      BY <2>2, <3>2, <3>3
    <3>6. \A h \in Rooms : live'[h].emitted = live[h].emitted /\ live[h].moves <= live'[h].moves
      BY <1>2, <3>2
    <3>7. Silent(live, live')
      BY <3>5, <3>6 DEF Silent
    <3>8. QED
      BY <3>4, <3>7
  <2>3. CASE StartSave(g)
    BY <2>2, <2>3 DEF StartSave
  <2>4. CASE Decide(g)
    <3>1. live[g].announced \in BOOLEAN
      BY <1>2 DEF Lives
    <3>2. live' = [live EXCEPT ![g].status = "completed", ![g].announced = live[g].announced]
      BY <1>2, <2>4 DEF Decide, Lives
    <3>3. QED
      BY <2>2, <2>4, <3>1, <3>2 DEF Decide
  <2>5. QED
    BY <2>1, <2>3, <2>4
<1>4. UNCHANGED <<socket, joins, previews, wire, page, store, unsettled, inputs>>
  BY DEF StartSave, PlayMove, Decide
<1>5. QED
  BY <1>3, <1>4, SilentStep

\* Events that are no answers to previews change nothing about those.
LEMMA PreviewsAppend ==
    ASSUME NEW w \in Seq(Events), NEW e \in Events, e.kind # "preview",
           NEW st, NEW why, NEW pr, NEW n, PreviewsOK(st, why, w, pr, n)
    PROVE  PreviewsOK(st, why, Append(w, e), pr, n)
<1> DEFINE v == Append(w, e)
<1>1. /\ DOMAIN v = 1..(Len(w) + 1) /\ v[Len(w) + 1] = e /\ DOMAIN w = 1..Len(w) /\ Len(w) \in Nat
      /\ \A q \in DOMAIN w : v[q] = w[q]
  BY AppendIs
<1> HIDE DEF v
<1>2. \A p \in DOMAIN v : v[p].kind = "preview" => p \in DOMAIN w /\ v[p] = w[p]
  BY <1>1
<1>3. \A p \in DOMAIN w : p \in DOMAIN v /\ v[p] = w[p]
  BY <1>1
<1>4. \A m : OnItsWay(w, m) => OnItsWay(v, m)
  BY <1>3 DEF OnItsWay
<1>5. PreviewsOK(st, why, v, pr, n)
  BY <1>2, <1>4 DEF PreviewsOK
<1>6. QED
  BY <1>5 DEF v

\* What remains to be shown of a step that only emits.
LEMMA EmitStep ==
    ASSUME WebInv, LivesOK(live'), JoinsOK(joins, live'),
           UNCHANGED <<socket, joins, previews, page, store, unsettled, inputs>>,
           wire' \in Seq(Events), socket.channels = {} => wire' = wire,
           WireOK(wire', live', socket.channels),
           StoreOK(store, unsettled, wire', live', socket.channels),
           PreviewsOK(store, unsettled, wire', previews, inputs)
    PROVE  WebInv'
<1>1. Types'
  BY DEF WebInv, Types, ServerTyped, LinkTyped, ClientTyped, Connected
<1>2. AnimationsOK(store, unsettled)'
  BY DEF WebInv
<1>3. QED
  BY <1>1, <1>2 DEF WebInv

LEMMA StartEmitStep ==
    ASSUME WebInv, NEW g \in Rooms, StartEmit(g)
    PROVE  WebInv'
<1> DEFINE e == GameStart(g, 0, Emitted(g, 0))
<1>1. /\ LivesOK(live) /\ live \in Lives /\ wire \in Seq(Events) /\ store \in Stores /\ JoinsOK(joins, live)
      /\ WireOK(wire, live, socket.channels) /\ StoreOK(store, unsettled, wire, live, socket.channels)
      /\ PreviewsOK(store, unsettled, wire, previews, inputs)
  BY DEF WebInv, Types, ServerTyped, LinkTyped, ClientTyped, LivesOK
<1>2. \A h \in Rooms : /\ live'[h].status = live[h].status
                       /\ live'[h].moves = live[h].moves /\ live'[h].emitted = live[h].emitted
      /\ live' \in Lives
  BY <1>1 DEF Lives, StartEmit
<1>3. \A h \in Rooms : live[h].moves \in Nat /\ live[h].emitted \in Nat
  BY <1>1 DEF Lives
<1>4. LivesOK(live') /\ Silent(live, live')
  BY <1>1, <1>2, <1>3 DEF LivesOK, Silent
<1>5. /\ JoinsOK(joins, live') /\ WireOK(wire, live', socket.channels)
      /\ StoreOK(store, unsettled, wire, live', socket.channels)
  BY <1>1, <1>2, <1>4, SilentJoins, SilentWire, SilentStore
<1>6. /\ e \in Events /\ e.kind = "start" /\ e.game = g /\ e.moves = 0
      /\ e.exact => live[g].emitted = 0 /\ live[g].status # "over"
  <2>1. Emitted(g, 0) \in BOOLEAN
    BY DEF Emitted
  <2>2. e \in Events /\ e.kind = "start" /\ e.game = g /\ e.moves = 0 /\ e.exact = Emitted(g, 0)
    BY <2>1, EventsAre
  <2>3. QED
    BY <2>2 DEF Emitted
<1>7. UNCHANGED <<socket, joins, previews, page, store, unsettled, inputs>>
  BY DEF StartEmit
<1>8. wire' = IF g \in socket.channels THEN Append(wire, e) ELSE wire
  BY DEF StartEmit, Emit
<1> HIDE DEF e
<1>9. CASE g \in socket.channels
  <2>1. wire' = Append(wire, e) /\ wire' \in Seq(Events)
    BY <1>1, <1>6, <1>8, <1>9, AppendIs
  <2>2. WireOK(wire', live', socket.channels)
    BY <1>1, <1>2, <1>3, <1>5, <1>6, <1>9, <2>1, AppendWire DEF Exact
  <2>3. StoreOK(store, unsettled, wire', live', socket.channels)
    BY <1>1, <1>2, <1>4, <1>5, <1>6, <2>1, AppendStore DEF LivesOK
  <2>4. PreviewsOK(store, unsettled, wire', previews, inputs)
    BY <1>1, <1>6, <2>1, PreviewsAppend
  <2>5. QED
    BY <1>4, <1>5, <1>7, <1>9, <2>1, <2>2, <2>3, <2>4, EmitStep
<1>10. CASE g \notin socket.channels
  BY <1>1, <1>4, <1>5, <1>7, <1>8, <1>10, EmitStep
<1>11. QED
  BY <1>9, <1>10

LEMMA EmitMoveStep ==
    ASSUME WebInv, NEW g \in Rooms, EmitMove(g)
    PROVE  WebInv'
<1> DEFINE e == MoveConfirmed(g, live[g].emitted + 1)
<1>1. /\ LivesOK(live) /\ live \in Lives /\ wire \in Seq(Events) /\ store \in Stores /\ JoinsOK(joins, live)
      /\ WireOK(wire, live, socket.channels) /\ StoreOK(store, unsettled, wire, live, socket.channels)
      /\ PreviewsOK(store, unsettled, wire, previews, inputs)
  BY DEF WebInv, Types, ServerTyped, LinkTyped, ClientTyped, LivesOK
<1>2. \A h \in Rooms : live[h].moves \in Nat /\ live[h].emitted \in Nat
  BY <1>1 DEF Lives
<1>3. live' \in Lives /\ Sends(live, live', g)
  <2> DEFINE Record == [status : Statuses, moves : Nat, emitted : Nat, announced : BOOLEAN]
             r == [live[g] EXCEPT !.emitted = @ + 1]
  <2>1. live \in [Rooms -> Record] /\ live[g] \in Record
    BY <1>1 DEF Lives
  <2>2. /\ r \in Record /\ r.status = live[g].status /\ r.moves = live[g].moves
        /\ r.emitted = live[g].emitted + 1
    BY <1>2, <2>1
  <2>3. live' = [live EXCEPT ![g] = r] /\ live[g].emitted < live[g].moves
    BY <2>1 DEF EmitMove, Unsent
  <2> HIDE DEF Record, r
  <2>4. live' \in [Rooms -> Record] /\ live'[g] = r /\ \A h \in Rooms \ {g} : live'[h] = live[h]
    BY <2>1, <2>2, <2>3
  <2>5. live' \in Lives
    BY <2>4 DEF Lives, Record
  <2>6. Sends(live, live', g)
    BY <1>2, <2>2, <2>3, <2>4 DEF Sends
  <2>7. QED
    BY <2>5, <2>6
<1>4. LivesOK(live') /\ JoinsOK(joins, live')
  <2>1. live[g].status # "over"
    BY <1>1, <1>2 DEF LivesOK, EmitMove, Unsent
  <2>2. LivesOK(live')
    BY <1>1, <1>2, <1>3, <2>1 DEF LivesOK, Sends
  <2>3. QED
    BY <1>1, <1>3, <2>2 DEF JoinsOK, Sends
<1>5. e \in Events /\ e.kind = "moved"
  BY <1>2, EventsAre
<1>6. UNCHANGED <<socket, joins, previews, page, store, unsettled, inputs>>
  BY DEF EmitMove
<1>7. wire' = IF g \in socket.channels THEN Append(wire, e) ELSE wire
  BY DEF EmitMove, Emit
<1>8. CASE g \in socket.channels
  <2>1. wire' = Append(wire, e)
    BY <1>7, <1>8
  <2>2. WireOK(wire', live', socket.channels)
    BY <1>1, <1>3, <1>8, <2>1, MoveWire
  <2>3. StoreOK(store, unsettled, wire', live', socket.channels)
    BY <1>1, <1>3, <1>8, <2>1, MoveStore
  <2> HIDE DEF e
  <2>4. PreviewsOK(store, unsettled, wire', previews, inputs) /\ wire' \in Seq(Events)
    BY <1>1, <1>5, <2>1, PreviewsAppend, AppendIs
  <2>5. QED
    BY <1>4, <1>6, <1>8, <2>2, <2>3, <2>4, EmitStep
<1>9. CASE g \notin socket.channels
  <2>1. wire' = wire
    BY <1>7, <1>9
  <2>2. WireOK(wire', live', socket.channels)
    BY <1>1, <1>3, <1>9, <2>1, MoveWire
  <2>3. StoreOK(store, unsettled, wire', live', socket.channels)
    BY <1>1, <1>3, <1>9, <2>1, MoveStore
  <2>4. QED
    BY <1>1, <1>4, <1>6, <2>1, <2>2, <2>3, EmitStep
<1>10. QED
  BY <1>8, <1>9

LEMMA EmitOverStep ==
    ASSUME WebInv, NEW g \in Rooms, EmitOver(g)
    PROVE  WebInv'
<1> DEFINE e == GameOver(g)
<1>1. /\ LivesOK(live) /\ live \in Lives /\ wire \in Seq(Events) /\ store \in Stores /\ JoinsOK(joins, live)
      /\ WireOK(wire, live, socket.channels) /\ StoreOK(store, unsettled, wire, live, socket.channels)
      /\ PreviewsOK(store, unsettled, wire, previews, inputs)
  BY DEF WebInv, Types, ServerTyped, LinkTyped, ClientTyped, LivesOK
<1>2. live' \in Lives /\ Ends(live, live', g)
  BY <1>1 DEF Lives, EmitOver, Ends, Statuses
<1>3. LivesOK(live') /\ JoinsOK(joins, live')
  <2>1. live[g].emitted = live[g].moves
    BY DEF EmitOver
  <2>2. LivesOK(live')
    BY <1>1, <1>2, <2>1 DEF LivesOK, Ends
  <2>3. QED
    BY <1>1, <1>2, <2>2 DEF JoinsOK, Ends
<1>4. e \in Events /\ e.kind = "over"
  BY EventsAre
<1>5. UNCHANGED <<socket, joins, previews, page, store, unsettled, inputs>>
  BY DEF EmitOver
<1>6. wire' = IF g \in socket.channels THEN Append(wire, e) ELSE wire
  BY DEF EmitOver, Emit
<1>7. CASE g \in socket.channels
  <2>1. wire' = Append(wire, e)
    BY <1>6, <1>7
  <2>2. WireOK(wire', live', socket.channels)
    BY <1>1, <1>2, <1>7, <2>1, OverWire
  <2>3. StoreOK(store, unsettled, wire', live', socket.channels)
    BY <1>1, <1>2, <1>7, <2>1, OverStore
  <2> HIDE DEF e
  <2>4. PreviewsOK(store, unsettled, wire', previews, inputs) /\ wire' \in Seq(Events)
    BY <1>1, <1>4, <2>1, PreviewsAppend, AppendIs
  <2>5. QED
    BY <1>3, <1>5, <1>7, <2>2, <2>3, <2>4, EmitStep
<1>8. CASE g \notin socket.channels
  <2>1. wire' = wire
    BY <1>6, <1>8
  <2>2. WireOK(wire', live', socket.channels)
    BY <1>1, <1>2, <1>8, <2>1, OverWire
  <2>3. StoreOK(store, unsettled, wire', live', socket.channels)
    BY <1>1, <1>2, <1>8, <2>1, OverStore
  <2>4. QED
    BY <1>1, <1>3, <1>5, <2>1, <2>2, <2>3, EmitStep
<1>9. QED
  BY <1>7, <1>8

LEMMA JoinReadStep ==
    ASSUME WebInv, NEW j \in joins, JoinRead(j)
    PROVE  WebInv'
<1>1. JoinsOK(joins, live) /\ live \in Lives
  BY DEF WebInv, Types, ServerTyped, LivesOK
<1>2. j \in [game : Rooms, pc : {"sent", "read"}, status : Statuses, moves : Nat]
  BY <1>1 DEF JoinsOK
<1>3. live[j.game].status \in Statuses /\ live[j.game].moves \in Nat
  BY <1>1, <1>2, LivesAre
<1>4. JoinsOK(joins', live)
  <2> DEFINE k == [j EXCEPT !.pc = "read", !.status = live[j.game].status, !.moves = live[j.game].moves]
  <2>1. k \in [game : Rooms, pc : {"sent", "read"}, status : Statuses, moves : Nat]
        /\ k.game = j.game /\ k.moves = live[j.game].moves
    BY <1>2, <1>3
  <2>2. joins' \subseteq joins \union {k}
    BY DEF JoinRead
  <2> HIDE DEF k
  <2>3. QED
    BY <1>1, <1>3, <2>1, <2>2 DEF JoinsOK
<1>5. UNCHANGED <<live, socket, previews, wire, page, store, unsettled, inputs>> /\ (joins = {} => joins' = {})
  BY DEF JoinRead
<1>6. Types'
  BY <1>4, <1>5 DEF WebInv, Types, ServerTyped, LinkTyped, ClientTyped, Connected
<1>7. /\ WireOK(wire, live, socket.channels)' /\ StoreOK(store, unsettled, wire, live, socket.channels)'
      /\ PreviewsOK(store, unsettled, wire, previews, inputs)' /\ AnimationsOK(store, unsettled)'
  BY <1>5 DEF WebInv
<1>8. QED
  BY <1>6, <1>7 DEF WebInv

\* More channels, and nothing else.
LEMMA MoreChannels ==
    ASSUME NEW w \in Seq(Events), NEW lives, NEW channels, NEW more, channels \subseteq more, NEW st, NEW why
    PROVE  /\ WireOK(w, lives, channels) => WireOK(w, lives, more)
           /\ StoreOK(st, why, w, lives, channels) => StoreOK(st, why, w, lives, more)
  BY DEF WireOK, EventOK, StoreOK

LEMMA JoinEnterStep ==
    ASSUME WebInv, NEW j \in joins, JoinEnter(j)
    PROVE  WebInv'
<1> DEFINE g == j.game
           e == GameStart(g, j.moves, Emitted(g, j.moves))
           more == socket'.channels
<1>1. /\ LivesOK(live) /\ live \in Lives /\ wire \in Seq(Events) /\ store \in Stores /\ JoinsOK(joins, live)
      /\ WireOK(wire, live, socket.channels) /\ StoreOK(store, unsettled, wire, live, socket.channels)
      /\ PreviewsOK(store, unsettled, wire, previews, inputs)
      /\ socket \in [up : BOOLEAN, channels : SUBSET Rooms, game : Rooms \union {NoGame}]
  BY DEF WebInv, Types, ServerTyped, LinkTyped, ClientTyped, LivesOK
<1>2. g \in Rooms /\ j.moves \in Nat /\ j.moves <= live[g].moves
  BY <1>1 DEF JoinsOK
<1>3. /\ e \in Events /\ e.kind = "start" /\ e.game = g /\ e.moves = j.moves
      /\ e.exact => live[g].emitted = j.moves /\ live[g].status # "over"
  <2>1. Emitted(g, j.moves) \in BOOLEAN
    BY DEF Emitted
  <2>2. e \in Events /\ e.kind = "start" /\ e.game = g /\ e.moves = j.moves /\ e.exact = Emitted(g, j.moves)
    BY <1>2, <2>1, EventsAre
  <2>3. QED
    BY <2>2 DEF Emitted
<1>4. /\ more = socket.channels \union {g} /\ socket'.game = g /\ socket'.up = socket.up
      /\ socket' \in [up : BOOLEAN, channels : SUBSET Rooms, game : Rooms \union {NoGame}]
  BY <1>1, <1>2 DEF JoinEnter, Entered
<1>5. wire' \in {wire, Append(wire, e)} /\ joins' \subseteq joins
      /\ UNCHANGED <<live, previews, page, store, unsettled, inputs>>
  BY DEF JoinEnter
<1>6. \A h \in Rooms : live[h].emitted <= live[h].moves
  BY <1>1 DEF LivesOK
<1> HIDE DEF e, more, g
<1>7. /\ Append(wire, e) \in Seq(Events)
      /\ WireOK(Append(wire, e), live, more)
      /\ StoreOK(store, unsettled, Append(wire, e), live, more)
      /\ PreviewsOK(store, unsettled, Append(wire, e), previews, inputs)
  <2>1. e.kind \in {"start", "preview"} /\ socket.channels \subseteq more
    BY <1>3, <1>4
  <2>2. Exact(e) => e.moves = live[e.game].emitted /\ live[e.game].status # "over"
    BY <1>3 DEF Exact
  <2>3. e.game \in more /\ e.moves <= live[e.game].moves /\ e.kind # "preview"
    BY <1>2, <1>3, <1>4
  <2>4. WireOK(Append(wire, e), live, more)
    BY <1>1, <1>3, <2>1, <2>2, <2>3, AppendWire
  <2>5. StoreOK(store, unsettled, Append(wire, e), live, more)
    BY <1>1, <1>3, <1>6, <2>1, <2>3, AppendStore
  <2>6. QED
    BY <1>1, <1>3, <2>3, <2>4, <2>5, PreviewsAppend, AppendIs
<1>8. WireOK(wire, live, more) /\ StoreOK(store, unsettled, wire, live, more)
  BY <1>1, <1>4, MoreChannels
<1>9. /\ wire' \in Seq(Events) /\ WireOK(wire', live, more)
      /\ StoreOK(store, unsettled, wire', live, more)
      /\ PreviewsOK(store, unsettled, wire', previews, inputs)
  BY <1>1, <1>5, <1>7, <1>8
<1>10. Types'
  <2>1. socket.up
    BY DEF WebInv, Types, Connected
  <2>2. JoinsOK(joins', live)
    BY <1>1, <1>5 DEF JoinsOK
  <2>3. QED
    BY <1>4, <1>5, <1>9, <2>1, <2>2
       DEF WebInv, Types, ServerTyped, LinkTyped, ClientTyped, Connected, more
<1>11. AnimationsOK(store, unsettled)'
  BY <1>5 DEF WebInv
<1>12. QED
  BY <1>5, <1>9, <1>10, <1>11 DEF WebInv, more

-----------------------------------------------------------------------------
(* Previews                                                                *)

\* The next request is answered: the answer goes on the wire in its place.
LEMMA PreviewAnswered ==
    ASSUME NEW w \in Seq(Events), NEW pr \in Seq(Nat \ {0}), pr # <<>>, NEW e \in Events,
           e.kind = "preview", e.marble = Head(pr), NEW st \in Stores, NEW why, NEW n \in Nat,
           PreviewsOK(st, why, w, pr, n)
    PROVE  PreviewsOK(st, why, Append(w, e), Tail(pr), n)
<1> DEFINE v == Append(w, e)
           rest == Tail(pr)
<1>1. /\ DOMAIN v = 1..(Len(w) + 1) /\ v[Len(w) + 1] = e /\ DOMAIN w = 1..Len(w) /\ Len(w) \in Nat
      /\ \A q \in DOMAIN w : v[q] = w[q]
  BY AppendIs
<1>2. /\ DOMAIN pr = 1..Len(pr) /\ DOMAIN rest = 1..(Len(pr) - 1) /\ Len(pr) \in Nat \ {0}
      /\ \A i \in DOMAIN rest : rest[i] = pr[i + 1]
      /\ e.marble = pr[1] /\ e.marble \in Nat \ {0}
  BY TailIs
<1>3. \A p \in DOMAIN w : w[p].kind = "preview" => w[p].marble \in Nat
  BY EventsInWire
<1>4. \A i \in DOMAIN pr : pr[i] \in Nat
  OBVIOUS
<1>5. st.selected \in Int /\ st.dests.marble \in Nat
  BY DEF Stores
<1> HIDE DEF v, rest
<1>6. \A i \in DOMAIN rest : i + 1 \in DOMAIN pr /\ 1 < i + 1 /\ rest[i] = pr[i + 1]
  BY <1>2
<1>7. 1 \in DOMAIN pr
  BY <1>2
<1>8. ASSUME NEW p \in DOMAIN v, NEW q \in DOMAIN v, p < q, v[p].kind = "preview", v[q].kind = "preview"
      PROVE  v[p].marble < v[q].marble
  <2>1. p \in DOMAIN w /\ v[p] = w[p]
    BY <1>1, <1>8
  <2>2. CASE q \in DOMAIN w
    BY <1>1, <1>8, <2>1, <2>2 DEF PreviewsOK
  <2>3. CASE q = Len(w) + 1
    BY <1>1, <1>2, <1>7, <1>8, <2>1, <2>3 DEF PreviewsOK
  <2>4. QED
    BY <1>1, <2>2, <2>3
<1>9. \A i, k \in DOMAIN rest : i < k => rest[i] < rest[k]
  <2> SUFFICES ASSUME NEW i \in DOMAIN rest, NEW k \in DOMAIN rest, i < k PROVE rest[i] < rest[k]
    OBVIOUS
  <2>1. i + 1 < k + 1
    BY <1>2
  <2>2. QED
    BY <1>6, <2>1 DEF PreviewsOK
<1>10. ASSUME NEW p \in DOMAIN v, v[p].kind = "preview"
       PROVE  /\ \A i \in DOMAIN rest : v[p].marble < rest[i]
              /\ st.dests.marble < v[p].marble /\ v[p].marble <= n
              /\ st.selected > 0 => v[p].marble <= st.selected
  <2>1. CASE p \in DOMAIN w
    BY <1>1, <1>6, <1>10, <2>1 DEF PreviewsOK
  <2>2. CASE p = Len(w) + 1
    BY <1>1, <1>2, <1>6, <1>7, <2>2 DEF PreviewsOK
  <2>3. QED
    BY <1>1, <2>1, <2>2
<1>11. \A i \in DOMAIN rest : /\ st.dests.marble < rest[i] /\ rest[i] <= n
                              /\ st.selected > 0 => rest[i] <= st.selected
  BY <1>6 DEF PreviewsOK
<1>12. \A m : OnItsWay(w, m) \/ Asked(pr, m) => OnItsWay(v, m) \/ Asked(rest, m)
  <2> SUFFICES ASSUME NEW m, OnItsWay(w, m) \/ Asked(pr, m) PROVE OnItsWay(v, m) \/ Asked(rest, m)
    OBVIOUS
  <2>1. CASE OnItsWay(w, m)
    BY <1>1, <2>1 DEF OnItsWay
  <2>2. CASE Asked(pr, m)
    <3>1. PICK i \in DOMAIN pr : pr[i] = m
      BY <2>2 DEF Asked
    <3>2. CASE i = 1
      <4>1. Len(w) + 1 \in DOMAIN v /\ v[Len(w) + 1].kind = "preview" /\ v[Len(w) + 1].marble = m
        BY <1>1, <1>2, <3>1, <3>2
      <4>2. QED
        BY <4>1 DEF OnItsWay
    <3>3. CASE i # 1
      <4>1. i - 1 \in DOMAIN rest /\ (i - 1) + 1 = i
        BY <1>2, <3>3
      <4>2. QED
        BY <1>2, <3>1, <4>1 DEF Asked
    <3>4. QED
      BY <3>2, <3>3
  <2>3. QED
    BY <2>1, <2>2
<1>13. PreviewsOK(st, why, v, rest, n)
  BY <1>8, <1>9, <1>10, <1>11, <1>12 DEF PreviewsOK
<1>14. QED
  BY <1>13 DEF v, rest

\* It is not answered: then it is known why the last click may stay without answer.
LEMMA PreviewUnanswered ==
    ASSUME NEW w, NEW pr \in Seq(Nat \ {0}), pr # <<>>, NEW st, NEW why, NEW n,
           PreviewsOK(st, why, w, pr, n)
    PROVE  PreviewsOK(st, why \union {"unanswered"}, w, Tail(pr), n)
<1> DEFINE rest == Tail(pr)
<1>1. /\ DOMAIN pr = 1..Len(pr) /\ DOMAIN rest = 1..(Len(pr) - 1) /\ Len(pr) \in Nat \ {0}
      /\ \A i \in DOMAIN rest : rest[i] = pr[i + 1]
  BY TailIs
<1> HIDE DEF rest
<1>2. \A i \in DOMAIN rest : i + 1 \in DOMAIN pr /\ rest[i] = pr[i + 1]
  BY <1>1
<1>3. \A i, k \in DOMAIN rest : i < k => i + 1 < k + 1
  BY <1>1
<1>4. PreviewsOK(st, why \union {"unanswered"}, w, rest, n)
  BY <1>2, <1>3 DEF PreviewsOK
<1>5. QED
  BY <1>4 DEF rest

LEMMA PreviewStep ==
    ASSUME WebInv, Preview
    PROVE  WebInv'
<1> DEFINE g == socket.game
           m == Head(previews)
           e == ValidDestinations(g, live[g].moves, m)
<1>1. /\ LivesOK(live) /\ live \in Lives /\ wire \in Seq(Events) /\ store \in Stores /\ JoinsOK(joins, live)
      /\ WireOK(wire, live, socket.channels) /\ StoreOK(store, unsettled, wire, live, socket.channels)
      /\ PreviewsOK(store, unsettled, wire, previews, inputs)
      /\ previews \in Seq(Nat \ {0}) /\ inputs \in Nat
      /\ socket \in [up : BOOLEAN, channels : SUBSET Rooms, game : Rooms \union {NoGame}]
  BY DEF WebInv, Types, ServerTyped, LinkTyped, ClientTyped, LivesOK
<1>2. /\ previews # <<>> /\ previews' = Tail(previews)
      /\ UNCHANGED <<live, socket, joins, page, store, inputs>>
  BY DEF Preview
<1>3. previews' \in Seq(Nat \ {0}) /\ m \in Nat \ {0}
  BY <1>1, <1>2, TailIs
<1>4. socket.up
  BY <1>2 DEF WebInv, Types, Connected
<1>5. CASE wire' = Append(wire, e) /\ g # NoGame /\ UNCHANGED unsettled
  <2>1. g \in Rooms
    BY <1>1, <1>5
  <2>2. live[g].moves \in Nat
    BY <1>1, <2>1, LivesAre
  <2>3. e \in Events /\ e.kind = "preview" /\ e.game = g /\ e.moves = live[g].moves /\ e.marble = m
    BY <1>3, <2>1, <2>2, EventsAre
  <2> HIDE DEF e
  <2>4. /\ wire' \in Seq(Events) /\ WireOK(wire', live, socket.channels)
        /\ StoreOK(store, unsettled, wire', live, socket.channels)
    <3>1. wire' \in Seq(Events)
      BY <1>1, <1>5, <2>3, AppendIs
    <3>2. e.kind \in {"start", "preview"} /\ ~Exact(e) /\ e.kind # "start"
          /\ e.moves = live[e.game].moves /\ socket.channels \subseteq socket.channels
      BY <2>3 DEF Exact
    <3>3. WireOK(wire', live, socket.channels)
      BY <1>1, <1>5, <2>3, <3>2, AppendWire
    <3>4. StoreOK(store, unsettled, wire', live, socket.channels)
      BY <1>1, <1>5, <2>3, <3>2, AppendStore DEF LivesOK
    <3>5. QED
      BY <3>1, <3>3, <3>4
  <2>5. PreviewsOK(store, unsettled, wire', previews', inputs)
    BY <1>1, <1>2, <1>5, <2>3, PreviewAnswered
  <2>6. Types'
    BY <1>2, <1>3, <1>4, <1>5, <2>4 DEF WebInv, Types, ServerTyped, LinkTyped, ClientTyped, Connected
  <2>7. AnimationsOK(store, unsettled)'
    BY <1>2, <1>5 DEF WebInv
  <2>8. QED
    BY <1>2, <1>5, <2>4, <2>5, <2>6, <2>7 DEF WebInv
<1>6. CASE wire' = wire /\ unsettled' = unsettled \union {"unanswered"}
  <2>1. PreviewsOK(store, unsettled', wire, previews', inputs)
    BY <1>1, <1>2, <1>6, PreviewUnanswered
  <2>2. StoreOK(store, unsettled', wire, live, socket.channels)
    BY <1>1, <1>6 DEF StoreOK, Follows, Sure
  <2>3. Types'
    BY <1>2, <1>3, <1>4, <1>6 DEF WebInv, Types, ServerTyped, LinkTyped, ClientTyped, Connected
  <2>4. AnimationsOK(store, unsettled)'
    BY <1>2, <1>6 DEF WebInv, AnimationsOK
  <2>5. QED
    BY <1>1, <1>2, <1>6, <2>1, <2>2, <2>3, <2>4 DEF WebInv
<1>7. QED
  BY <1>5, <1>6 DEF Preview

\* Nothing is selected any more.
LEMMA PreviewsCleared ==
    ASSUME NEW w \in Seq(Events), NEW pr \in Seq(Nat \ {0}), NEW st, NEW why, NEW n,
           PreviewsOK(st, why, w, pr, n),
           NEW new \in Stores, new.selected <= 0, new.dests.marble = 0, NEW newWhy
    PROVE  PreviewsOK(new, newWhy, w, pr, n)
<1>1. \A p \in DOMAIN w : w[p].kind = "preview" => w[p].marble \in Nat \ {0}
  BY EventsInWire
<1>2. \A i \in DOMAIN pr : pr[i] \in Nat \ {0}
  OBVIOUS
<1>3. new.selected \in Int
  BY DEF Stores
<1>4. QED
  BY <1>1, <1>2, <1>3 DEF PreviewsOK

\* The first event has been taken, and is no answer.
LEMMA PreviewsTail ==
    ASSUME NEW w \in Seq(Events), w # <<>>, w[1].kind # "preview",
           NEW pr, NEW st, NEW why, NEW n, PreviewsOK(st, why, w, pr, n)
    PROVE  PreviewsOK(st, why, Tail(w), pr, n)
<1> DEFINE v == Tail(w)
<1>1. /\ DOMAIN w = 1..Len(w) /\ DOMAIN v = 1..(Len(w) - 1) /\ Len(w) \in Nat \ {0}
      /\ \A q \in DOMAIN v : v[q] = w[q + 1]
  BY TailIs
<1> HIDE DEF v
<1>2. \A q \in DOMAIN v : q + 1 \in DOMAIN w /\ v[q] = w[q + 1]
  BY <1>1
<1>3. \A p, q \in DOMAIN v : p < q => p + 1 < q + 1
  BY <1>1
<1>4. \A p \in DOMAIN w : w[p].kind = "preview" => p - 1 \in DOMAIN v /\ v[p - 1] = w[p]
  BY <1>1
<1>5. \A m : OnItsWay(w, m) => OnItsWay(v, m)
  BY <1>4 DEF OnItsWay
<1>6. PreviewsOK(st, why, v, pr, n)
  BY <1>2, <1>3, <1>5 DEF PreviewsOK
<1>7. QED
  BY <1>6 DEF v

\* The first event has been taken, an answer: those to come are for later clicks.
LEMMA PreviewsTaken ==
    ASSUME NEW w \in Seq(Events), w # <<>>, w[1].kind = "preview",
           NEW pr \in Seq(Nat \ {0}), NEW st \in Stores, NEW why, NEW n, PreviewsOK(st, why, w, pr, n),
           NEW new, new.selected = st.selected, new.dests.marble = w[1].marble,
           NEW newWhy, why \subseteq newWhy
    PROVE  PreviewsOK(new, newWhy, Tail(w), pr, n)
<1> DEFINE v == Tail(w)
           m == w[1].marble
<1>1. /\ DOMAIN w = 1..Len(w) /\ DOMAIN v = 1..(Len(w) - 1) /\ Len(w) \in Nat \ {0}
      /\ \A q \in DOMAIN v : v[q] = w[q + 1]
  BY TailIs
<1>2. /\ \A p \in DOMAIN w : w[p].kind = "preview" => w[p].marble \in Nat
      /\ m \in Nat /\ st.dests.marble \in Nat /\ st.selected \in Int
  BY <1>1, EventsInWire DEF Stores
<1> HIDE DEF v
<1>3. \A q \in DOMAIN v : q + 1 \in DOMAIN w /\ v[q] = w[q + 1] /\ 1 < q + 1
  BY <1>1
<1>4. \A p, q \in DOMAIN v : p < q => p + 1 < q + 1
  BY <1>1
<1>5. \A p \in DOMAIN w : p # 1 => p - 1 \in DOMAIN v /\ v[p - 1] = w[p]
  BY <1>1
<1>6. 1 \in DOMAIN w
  BY <1>1
<1>7. \A p \in DOMAIN v : v[p].kind = "preview" => m < v[p].marble
  BY <1>3, <1>6 DEF PreviewsOK
<1>8. \A i \in DOMAIN pr : m < pr[i]
  BY <1>6 DEF PreviewsOK
<1>9. ASSUME st.selected > 0
      PROVE  m <= st.selected
  BY <1>6, <1>9 DEF PreviewsOK
<1>10. ASSUME st.selected > 0, newWhy \intersect {"drop", "unanswered"} = {}
       PROVE  m = st.selected \/ OnItsWay(v, st.selected) \/ Asked(pr, st.selected)
  <2>1. why \intersect {"drop", "unanswered"} = {}
    BY <1>10
  <2>2. st.dests.marble = st.selected \/ OnItsWay(w, st.selected) \/ Asked(pr, st.selected)
    BY <1>10, <2>1 DEF PreviewsOK
  <2>3. st.dests.marble < m
    BY <1>6 DEF PreviewsOK
  <2>4. st.dests.marble # st.selected
    BY <1>2, <1>9, <1>10, <2>3
  <2>5. ASSUME OnItsWay(w, st.selected)
        PROVE  m = st.selected \/ OnItsWay(v, st.selected)
    BY <1>5, <2>5 DEF OnItsWay
  <2>6. QED
    BY <2>2, <2>4, <2>5
<1> HIDE DEF m
<1>11. PreviewsOK(new, newWhy, v, pr, n)
  <2>1. \A p, q \in DOMAIN v : p < q /\ v[p].kind = "preview" /\ v[q].kind = "preview" =>
            v[p].marble < v[q].marble
    BY <1>3, <1>4 DEF PreviewsOK
  <2>2. \A p \in DOMAIN v, i \in DOMAIN pr : v[p].kind = "preview" => v[p].marble < pr[i]
    BY <1>3 DEF PreviewsOK
  <2>3. \A p \in DOMAIN v : v[p].kind = "preview" =>
            v[p].marble <= n /\ (st.selected > 0 => v[p].marble <= st.selected)
    BY <1>3 DEF PreviewsOK
  <2>4. new.dests.marble = m
    BY DEF m
  <2>5. QED
    BY <1>7, <1>8, <1>9, <1>10, <2>1, <2>2, <2>3, <2>4 DEF PreviewsOK
<1>12. QED
  BY <1>11 DEF v

-----------------------------------------------------------------------------
(* Animations                                                              *)

LEMMA LastIs ==
    ASSUME NEW S, NEW queue \in Seq(S), NEW board \in Seq(S)
    PROVE  LastOf(queue, board) <=>
               /\ Len(queue) <= Len(board)
               /\ \A i \in 1..Len(queue) : queue[i] = board[Len(board) - Len(queue) + i]
<1> DEFINE k == Len(board) - Len(queue)
           part == SubSeq(board, k + 1, Len(board))
<1>1. Len(queue) \in Nat /\ Len(board) \in Nat
  OBVIOUS
<1>2. ASSUME Len(queue) <= Len(board)
      PROVE  part \in Seq(S) /\ Len(part) = Len(queue) /\ \A i \in 1..Len(queue) : part[i] = board[k + i]
  BY <1>1, <1>2
<1>3. ASSUME Len(queue) <= Len(board), \A i \in 1..Len(queue) : queue[i] = board[k + i]
      PROVE  queue = part
  <2> HIDE DEF part
  <2>1. part \in Seq(S) /\ Len(part) = Len(queue) /\ \A i \in 1..Len(queue) : part[i] = queue[i]
    BY <1>2, <1>3
  <2>2. QED
    BY <2>1
<1>4. QED
  BY <1>2, <1>3 DEF LastOf

\* Another move is on the board and waits to be animated.
LEMMA LastAppend ==
    ASSUME NEW S, NEW queue \in Seq(S), NEW board \in Seq(S), NEW m \in S, LastOf(queue, board)
    PROVE  LastOf(Append(queue, m), Append(board, m))
<1> DEFINE q == Append(queue, m)
           b == Append(board, m)
<1>1. /\ q \in Seq(S) /\ b \in Seq(S) /\ Len(q) = Len(queue) + 1 /\ Len(b) = Len(board) + 1
      /\ \A i \in 1..Len(queue) : q[i] = queue[i]
      /\ \A i \in 1..Len(board) : b[i] = board[i]
      /\ q[Len(q)] = m /\ b[Len(b)] = m
      /\ Len(queue) \in Nat /\ Len(board) \in Nat
  OBVIOUS
<1> HIDE DEF q, b
<1>2. /\ Len(queue) <= Len(board)
      /\ \A i \in 1..Len(queue) : queue[i] = board[Len(board) - Len(queue) + i]
  BY LastIs
<1>3. \A i \in 1..Len(q) : q[i] = b[Len(b) - Len(q) + i]
  <2> SUFFICES ASSUME NEW i \in 1..Len(q) PROVE q[i] = b[Len(b) - Len(q) + i]
    OBVIOUS
  <2>1. CASE i = Len(q)
    BY <1>1, <2>1
  <2>2. CASE i # Len(q)
    <3>1. i \in 1..Len(queue) /\ Len(board) - Len(queue) + i \in 1..Len(board)
          /\ Len(b) - Len(q) + i = Len(board) - Len(queue) + i
      BY <1>1, <1>2, <2>2
    <3>2. QED
      BY <1>1, <1>2, <3>1
  <2>3. QED
    BY <2>1, <2>2
<1>4. LastOf(q, b)
  <2>1. Len(q) <= Len(b)
    BY <1>1, <1>2
  <2>2. QED
    BY <1>1, <1>3, <2>1, LastIs
<1>5. QED
  BY <1>4 DEF q, b

\* The animation in front is finished.
LEMMA LastTail ==
    ASSUME NEW S, NEW queue \in Seq(S), NEW board \in Seq(S), queue # <<>>, LastOf(queue, board)
    PROVE  LastOf(Tail(queue), board)
<1> DEFINE q == Tail(queue)
<1>1. /\ q \in Seq(S) /\ Len(q) = Len(queue) - 1 /\ Len(queue) \in Nat \ {0} /\ Len(board) \in Nat
      /\ \A i \in 1..Len(q) : q[i] = queue[i + 1]
  BY TailIs
<1> HIDE DEF q
<1>2. /\ Len(queue) <= Len(board)
      /\ \A i \in 1..Len(queue) : queue[i] = board[Len(board) - Len(queue) + i]
  BY LastIs
<1>3. \A i \in 1..Len(q) : q[i] = board[Len(board) - Len(q) + i]
  <2> SUFFICES ASSUME NEW i \in 1..Len(q) PROVE q[i] = board[Len(board) - Len(q) + i]
    OBVIOUS
  <2>1. i + 1 \in 1..Len(queue) /\ Len(board) - Len(queue) + (i + 1) = Len(board) - Len(q) + i
    BY <1>1
  <2>2. QED
    BY <1>1, <1>2, <2>1
<1>4. LastOf(q, board)
  <2>1. Len(q) <= Len(board)
    BY <1>1, <1>2
  <2>2. QED
    BY <1>1, <1>3, <2>1, LastIs
<1>5. QED
  BY <1>4 DEF q

LEMMA NoneIsLast ==
    ASSUME NEW S, NEW board \in Seq(S)
    PROVE  LastOf(<<>>, board)
<1> DEFINE none == <<>>
<1>1. none \in Seq(S) /\ Len(none) = 0 /\ Len(board) \in Nat
  OBVIOUS
<1> HIDE DEF none
<1>2. Len(none) <= Len(board) /\ \A i \in 1..Len(none) : none[i] = board[Len(board) - Len(none) + i]
  BY <1>1
<1>3. LastOf(none, board)
  BY <1>1, <1>2, LastIs
<1>4. QED
  BY <1>3 DEF none

\* What a store whose board and animations stay shows of these.
LEMMA SameAnimations ==
    ASSUME NEW st, NEW why, AnimationsOK(st, why), NEW new, NEW newWhy,
           new.board = st.board, new.animating = st.animating, new.pending = st.pending,
           "skipped" \in why => "skipped" \in newWhy
    PROVE  AnimationsOK(new, newWhy)
  BY DEF AnimationsOK

\* Concatenations of what is animated and what waits.
LEMMA QueueIs ==
    ASSUME NEW S, NEW m \in S, NEW a \in Seq(S), NEW p \in Seq(S)
    PROVE  /\ <<>> \o <<>> = <<>>
           /\ <<m>> \o <<>> = Append(<<>>, m)
           /\ a \o Append(p, m) = Append(a \o p, m)
           /\ a \o p \in Seq(S) /\ <<>> \in Seq(S)
           /\ Len(<<m>>) = 1 /\ <<m>> # <<>> /\ Len(<<>>) = 0
<1>1. a \o Append(p, m) = Append(a \o p, m)
  <2> DEFINE l == a \o Append(p, m)
             r == Append(a \o p, m)
  <2>1. l \in Seq(S) /\ r \in Seq(S) /\ Len(l) = Len(a) + Len(p) + 1 /\ Len(r) = Len(l)
    OBVIOUS
  <2>2. \A i \in 1..Len(l) : l[i] = r[i]
    OBVIOUS
  <2> HIDE DEF l, r
  <2>3. l = r
    BY <2>1, <2>2
  <2>4. QED
    BY <2>3 DEF l, r
<1>2. QED
  BY <1>1

\* The events that change what is animated.
LEMMA StartedAnimations ==
    ASSUME store \in Stores, AnimationsOK(store, unsettled), NEW e \in Events, e.kind = "start",
           NEW why, store.pending = <<>> \/ "skipped" \in why
    PROVE  AnimationsOK(Started(e), why)
<1> DEFINE st == Started(e)
<1>1. st \in Stores /\ st.animating = <<>> /\ st.pending = store.pending
  BY StartedIs
<1> HIDE DEF st
<1>2. st.board \in Seq(Moves)
  BY <1>1 DEF Stores
<1>3. Len(<<>>) = 0 /\ <<>> \o <<>> = <<>>
  OBVIOUS
<1>4. LastOf(<<>>, st.board)
  BY <1>2, NoneIsLast
<1>5. AnimationsOK(st, why)
  BY <1>1, <1>3, <1>4 DEF AnimationsOK
<1>6. QED
  BY <1>5 DEF st

LEMMA AppliedAnimations ==
    ASSUME store \in Stores, AnimationsOK(store, unsettled), NEW e \in Events, e.kind = "moved",
           NEW why, unsettled \subseteq why
    PROVE  AnimationsOK(Applied(e), why)
<1> DEFINE st == Applied(e)
           m == <<e.game, e.moves>>
<1>1. /\ st.board = Append(store.board, m)
      /\ store.animating = <<>> => st.animating = <<m>> /\ st.pending = store.pending
      /\ store.animating # <<>> => st.animating = store.animating /\ st.pending = Append(store.pending, m)
  BY AppliedIs
<1>2. m \in Moves
  BY EventIs DEF Moves
<1>3. store.board \in Seq(Moves) /\ store.animating \in Seq(Moves) /\ store.pending \in Seq(Moves)
  BY DEF Stores
<1> HIDE DEF st, m
<1>4. Len(st.animating) <= 1
  <2> DEFINE one == <<m>>
  <2>1. Len(one) = 1 /\ Len(store.animating) <= 1
    BY <1>2 DEF AnimationsOK
  <2>2. st.animating = one \/ st.animating = store.animating
    BY <1>1
  <2> HIDE DEF one
  <2>3. Len(one) <= 1
    BY <2>1
  <2>4. QED
    BY <2>1, <2>2, <2>3, Zenon
<1>5. ASSUME "skipped" \notin why
      PROVE  /\ st.animating = <<>> => st.pending = <<>>
             /\ LastOf(st.animating \o st.pending, st.board)
  <2>1. /\ store.animating = <<>> => store.pending = <<>>
        /\ LastOf(store.animating \o store.pending, store.board)
    BY <1>5 DEF AnimationsOK
  <2>2. CASE store.animating = <<>>
    <3>1. st.animating = <<m>> /\ st.pending = <<>> /\ store.animating \o store.pending = <<>>
      BY <1>1, <1>2, <1>3, <2>1, <2>2, QueueIs
    <3>2. st.animating \o st.pending = Append(<<>>, m) /\ <<>> \in Seq(Moves) /\ st.animating # <<>>
      BY <1>2, <1>3, <3>1, QueueIs
    <3>3. LastOf(Append(<<>>, m), st.board)
      BY <1>1, <1>2, <1>3, <2>1, <3>1, <3>2, LastAppend
    <3>4. QED
      BY <3>2, <3>3
  <2>3. CASE store.animating # <<>>
    <3>1. st.animating \o st.pending = Append(store.animating \o store.pending, m)
          /\ store.animating \o store.pending \in Seq(Moves)
      <4>1. st.animating = store.animating /\ st.pending = Append(store.pending, m)
        BY <1>1, <2>3
      <4>2. store.animating \o store.pending \in Seq(Moves)
        BY <1>3
      <4>3. \A a \in Seq(Moves), p \in Seq(Moves) : a \o Append(p, m) = Append(a \o p, m)
        BY <1>2, QueueIs
      <4> HIDE DEF m
      <4>4. store.animating \o Append(store.pending, m) = Append(store.animating \o store.pending, m)
        BY <1>3, <4>3, Zenon
      <4>5. QED
        BY <4>1, <4>2, <4>4, Zenon
    <3>2. LastOf(Append(store.animating \o store.pending, m), st.board)
      BY <1>1, <1>2, <1>3, <2>1, <3>1, LastAppend
    <3>3. QED
      BY <1>1, <2>3, <3>1, <3>2
  <2>4. QED
    BY <2>2, <2>3
<1>6. AnimationsOK(st, why)
  BY <1>4, <1>5 DEF AnimationsOK
<1>7. QED
  BY <1>6 DEF st

LEMMA ReceiveStep ==
    ASSUME WebInv, Receive
    PROVE  WebInv'
<1> DEFINE e == wire[1]
<1>1. /\ Types /\ WireOK(wire, live, socket.channels)
      /\ StoreOK(store, unsettled, wire, live, socket.channels)
      /\ PreviewsOK(store, unsettled, wire, previews, inputs) /\ AnimationsOK(store, unsettled)
  BY DEF WebInv
<1>2. /\ live \in Lives /\ wire \in Seq(Events) /\ store \in Stores /\ previews \in Seq(Nat \ {0})
      /\ store.selected \in OldMove..inputs /\ inputs \in Nat
  BY <1>1 DEF Types, ServerTyped, LinkTyped, ClientTyped, LivesOK
<1>3. /\ wire # <<>> /\ wire' = Tail(wire) /\ e \in Events
      /\ UNCHANGED <<live, socket, joins, previews, page, inputs>>
  BY <1>1, ReceiveIs
<1>4. wire' \in Seq(Events) /\ WireOK(wire', live, socket.channels)
  BY <1>1, <1>2, <1>3, TailIs, TailWire
<1>5. StoreOK(store, unsettled, wire, live, socket.channels)'
  BY <1>1, ReceiveStore
<1>6. e.game \in Rooms /\ (e.kind # "over" => e.moves \in Nat) /\ (e.kind = "preview" => e.marble \in Nat \ {0})
  BY <1>3, EventIs
<1>7. NoDests.marble = 0 /\ NoMarble = 0 /\ 0 \in OldMove..inputs
  BY <1>2 DEF NoDests, NoMarble, OldMove
<1> DEFINE Fits ==
           /\ store' \in Stores /\ store'.selected \in OldMove..inputs
           /\ store'.dests.marble = NoMarble => store'.dests = NoDests
           /\ PreviewsOK(store', unsettled', wire', previews, inputs)
           /\ AnimationsOK(store', unsettled')
           /\ unsettled' \subseteq {"gap", "foreign", "skipped", "drop", "unanswered"}
<1>8. unsettled \subseteq {"gap", "foreign", "skipped", "drop", "unanswered"}
  BY <1>1 DEF Types, ClientTyped
<1>9. ASSUME e.kind # "preview"
      PROVE  PreviewsOK(store, unsettled, wire', previews, inputs)
  BY <1>1, <1>2, <1>3, <1>9, PreviewsTail
<1>10. ASSUME e.kind = "start", store' = Started(e),
              unsettled' = (IF e.exact THEN {} ELSE {"gap"}) \union
                           (IF store.pending = <<>> THEN {} ELSE {"skipped"})
       PROVE  Fits
  <2>1. store' \in Stores /\ store'.selected = 0 /\ store'.dests = NoDests
    BY <1>2, <1>3, <1>7, <1>10, StartedIs
  <2>2. PreviewsOK(store', unsettled', wire', previews, inputs)
    BY <1>2, <1>4, <1>7, <1>9, <1>10, <2>1, PreviewsCleared
  <2>3. AnimationsOK(store', unsettled')
    BY <1>1, <1>2, <1>3, <1>10, StartedAnimations
  <2>4. QED
    BY <1>7, <1>10, <2>1, <2>2, <2>3
<1>11. ASSUME e.kind = "moved", store' = Applied(e),
              unsettled' = unsettled \union (IF e.game = store.game THEN {} ELSE {"foreign"}) \union
                           (IF "drop" \in unsettled THEN {"gap"} ELSE {})
       PROVE  Fits
  <2>1. store' \in Stores /\ store'.selected = 0 /\ store'.dests = NoDests
    BY <1>2, <1>3, <1>7, <1>11, AppliedIs
  <2>2. PreviewsOK(store', unsettled', wire', previews, inputs)
    BY <1>2, <1>4, <1>7, <1>9, <1>11, <2>1, PreviewsCleared
  <2>3. AnimationsOK(store', unsettled')
    BY <1>1, <1>2, <1>3, <1>11, AppliedAnimations
  <2>4. QED
    BY <1>7, <1>8, <1>11, <2>1, <2>2, <2>3
<1>12. ASSUME e.kind = "over", store' = [store EXCEPT !.status = "completed"],
              unsettled' = unsettled \union (IF e.game = store.game THEN {} ELSE {"foreign"})
       PROVE  Fits
  <2>1. /\ store' \in Stores /\ store'.selected = store.selected /\ store'.dests = store.dests
        /\ store'.board = store.board /\ store'.animating = store.animating
        /\ store'.pending = store.pending
    BY <1>2, <1>12 DEF Stores
  <2>2. PreviewsOK(store', unsettled', wire', previews, inputs)
    <3>1. unsettled' \intersect {"drop", "unanswered"} = unsettled \intersect {"drop", "unanswered"}
      BY <1>12
    <3>2. QED
      BY <1>9, <1>12, <2>1, <3>1 DEF PreviewsOK
  <2>3. AnimationsOK(store', unsettled')
    BY <1>1, <1>12, <2>1, SameAnimations
  <2>4. QED
    BY <1>1, <1>2, <1>8, <1>12, <2>1, <2>2, <2>3 DEF Types, ClientTyped
<1>13. ASSUME e.kind = "preview",
              store' = [store EXCEPT !.dests = [game |-> e.game, moves |-> e.moves, marble |-> e.marble]],
              unsettled' = unsettled \union (IF e.game = store.game THEN {} ELSE {"foreign"})
       PROVE  Fits
  <2>1. /\ store' \in Stores /\ store'.selected = store.selected
        /\ store'.dests.marble = e.marble
        /\ store'.board = store.board /\ store'.animating = store.animating
        /\ store'.pending = store.pending
    BY <1>2, <1>6, <1>13 DEF Stores
  <2>2. PreviewsOK(store', unsettled', wire', previews, inputs)
    BY <1>1, <1>2, <1>3, <1>13, <2>1, PreviewsTaken
  <2>3. AnimationsOK(store', unsettled')
    <3>1. "skipped" \in unsettled => "skipped" \in unsettled'
      BY <1>13
    <3>2. QED
      BY <1>1, <2>1, <3>1, SameAnimations
  <2>4. QED
    BY <1>2, <1>6, <1>7, <1>8, <1>13, <2>1, <2>2, <2>3
<1>14. Fits
  <2> HIDE DEF Fits
  <2>1. QED
    BY <1>1, <1>10, <1>11, <1>12, <1>13, ReceiveIs
<1>15. Types'
  <2>1. socket.up
    BY <1>1, <1>3 DEF Types, Connected
  <2>2. QED
    BY <1>1, <1>3, <1>4, <1>14, <2>1 DEF Types, ServerTyped, LinkTyped, ClientTyped, Connected
<1>16. QED
  BY <1>3, <1>4, <1>5, <1>14, <1>15 DEF WebInv

-----------------------------------------------------------------------------
(* The user and the browser                                                *)

\* The position shown, with the same destinations or none.
LEMMA StoreKept ==
    ASSUME NEW st, NEW why, NEW w, NEW lives, NEW channels, StoreOK(st, why, w, lives, channels),
           NEW new, new.game = st.game, new.status = st.status, new.board = st.board,
           new.myTurn = st.myTurn, new.dests \in {st.dests, NoDests}
    PROVE  StoreOK(new, why, w, lives, channels)
  BY DEF StoreOK, Sure, Follows

LEMMA PreviewsKept ==
    ASSUME NEW st, NEW why, NEW w \in Seq(Events), NEW pr \in Seq(Nat \ {0}), NEW n \in Nat,
           PreviewsOK(st, why, w, pr, n), NEW m \in Nat, n <= m
    PROVE  PreviewsOK(st, why, w, pr, m)
<1>1. \A p \in DOMAIN w : w[p].kind = "preview" => w[p].marble \in Nat
  BY EventsInWire
<1>2. \A i \in DOMAIN pr : pr[i] \in Nat
  OBVIOUS
<1>3. QED
  BY <1>1, <1>2 DEF PreviewsOK

\* The click asks for a preview: the last that is asked for.
LEMMA PreviewsAsked ==
    ASSUME NEW st \in Stores, NEW why, NEW w \in Seq(Events), NEW pr \in Seq(Nat \ {0}), NEW n \in Nat,
           PreviewsOK(st, why, w, pr, n),
           NEW new, new.selected = n + 1, new.dests = NoDests
    PROVE  PreviewsOK(new, why, w, Append(pr, n + 1), n + 1)
<1> DEFINE m == n + 1
           more == Append(pr, m)
<1>1. /\ DOMAIN more = 1..(Len(pr) + 1) /\ more[Len(pr) + 1] = m /\ DOMAIN pr = 1..Len(pr) /\ Len(pr) \in Nat
      /\ \A i \in DOMAIN pr : more[i] = pr[i]
  OBVIOUS
<1>2. \A p \in DOMAIN w : w[p].kind = "preview" => w[p].marble \in Nat \ {0} /\ w[p].marble <= n
  BY EventsInWire DEF PreviewsOK
<1>3. \A i \in DOMAIN pr : pr[i] \in Nat \ {0} /\ pr[i] <= n
  BY DEF PreviewsOK
<1>4. m \in Nat /\ n < m /\ new.dests.marble = 0 /\ new.selected = m
  BY DEF NoDests, NoMarble
<1> HIDE DEF more, m
<1>5. ASSUME NEW i \in DOMAIN more, NEW k \in DOMAIN more, i < k
      PROVE  more[i] < more[k]
  <2>1. i \in DOMAIN pr /\ more[i] = pr[i]
    BY <1>1, <1>5
  <2>2. CASE k \in DOMAIN pr
    BY <1>1, <1>5, <2>1, <2>2 DEF PreviewsOK
  <2>3. CASE k = Len(pr) + 1
    <3>1. more[k] = m /\ pr[i] \in Nat /\ pr[i] <= n
      BY <1>1, <1>3, <2>1, <2>3
    <3>2. QED
      BY <1>4, <2>1, <3>1
  <2>4. QED
    BY <1>1, <2>2, <2>3
<1>6. \A p \in DOMAIN w, i \in DOMAIN more : w[p].kind = "preview" => w[p].marble < more[i]
  BY <1>1, <1>2, <1>3, <1>4 DEF PreviewsOK
<1>7. ASSUME NEW i \in DOMAIN more
      PROVE  0 < more[i] /\ more[i] <= m
  <2>1. CASE i \in DOMAIN pr
    <3>1. more[i] = pr[i] /\ pr[i] \in Nat \ {0} /\ pr[i] <= n
      BY <1>1, <1>3, <2>1
    <3>2. QED
      BY <1>4, <3>1
  <2>2. CASE i = Len(pr) + 1
    <3>1. more[i] = m
      BY <1>1, <2>2
    <3>2. QED
      BY <1>4, <3>1
  <2>3. QED
    BY <1>1, <2>1, <2>2
<1>8. \A p \in DOMAIN w : w[p].kind = "preview" => 0 < w[p].marble /\ w[p].marble <= m
  BY <1>2, <1>4
<1>9. Asked(more, m)
  BY <1>1 DEF Asked
<1>10. \A p, q \in DOMAIN w : p < q /\ w[p].kind = "preview" /\ w[q].kind = "preview" =>
           w[p].marble < w[q].marble
  BY DEF PreviewsOK
<1>11. PreviewsOK(new, why, w, more, m)
  BY <1>4, <1>5, <1>6, <1>7, <1>8, <1>9, <1>10 DEF PreviewsOK
<1>12. QED
  BY <1>11 DEF more, m

\* Nothing is on its way: nothing is claimed of it.
LEMMA NothingOnTheWay ==
    ASSUME NEW st \in Stores, NEW why, NEW pr, NEW n,
           st.selected > 0 => st.dests.marble <= st.selected /\ "drop" \in why, pr = <<>>
    PROVE  PreviewsOK(st, why, <<>>, pr, n)
<1>1. DOMAIN pr = {} /\ \A p \in DOMAIN <<>> : FALSE
  OBVIOUS
<1>2. QED
  BY <1>1 DEF PreviewsOK

LEMMA SocketIs ==
    ASSUME Types, GetSocket
    PROVE  \/ socket.up /\ socket' = socket
           \/ /\ ~socket.up /\ socket' = Fresh
              /\ joins = {} /\ wire = <<>> /\ previews = <<>> /\ "drop" \in unsettled
  BY DEF GetSocket, Types, Connected

LEMMA FreshIs ==
    /\ Fresh \in [up : BOOLEAN, channels : SUBSET Rooms, game : Rooms \union {NoGame}]
    /\ Fresh.up /\ Fresh.channels = {} /\ Fresh.game = NoGame
    /\ LET lost == [Fresh EXCEPT !.up = FALSE]
       IN  /\ lost \in [up : BOOLEAN, channels : SUBSET Rooms, game : Rooms \union {NoGame}]
           /\ lost.channels = {} /\ lost.game = NoGame
<1>1. {} \subseteq Rooms /\ TRUE \in BOOLEAN /\ NoGame \in Rooms \union {NoGame}
  OBVIOUS
<1>2. Fresh \in [up : BOOLEAN, channels : SUBSET Rooms, game : Rooms \union {NoGame}]
  BY <1>1 DEF Fresh
<1>3. Fresh.up /\ Fresh.channels = {} /\ Fresh.game = NoGame
  BY DEF Fresh
<1> DEFINE lost == [Fresh EXCEPT !.up = FALSE]
<1>4. /\ lost \in [up : BOOLEAN, channels : SUBSET Rooms, game : Rooms \union {NoGame}]
      /\ lost.channels = {} /\ lost.game = NoGame
  BY <1>1 DEF Fresh
<1>5. QED
  BY <1>2, <1>3, <1>4

\* A store that has lost the connection: what it shows it still shows.
LEMMA StoreAlone ==
    ASSUME NEW st, NEW why, NEW w, NEW lives, NEW channels, StoreOK(st, why, w, lives, channels),
           NEW others
    PROVE  StoreOK(st, why \union {"drop"}, <<>>, lives, others)
<1>1. \A p \in DOMAIN <<>> : FALSE
  OBVIOUS
<1>2. QED
  BY <1>1 DEF StoreOK, Sure, Follows

\* What remains to be shown of a step of the user: about the new selection.
LEMMA UserStep ==
    ASSUME WebInv, LivesOK(live'), Silent(live, live'), UNCHANGED <<wire, unsettled>>,
           GetSocket \/ (UNCHANGED <<socket, joins>> /\ (previews = <<>> => previews' = <<>>)),
           JoinsOK(joins', live'), previews' \in Seq(Nat \ {0}),
           page' \in Rooms \union {LobbyPage}, inputs' \in Nat,
           store' \in Stores, store'.selected \in OldMove..inputs', store'.dests \in {store.dests, NoDests},
           store'.game = store.game, store'.status = store.status, store'.board = store.board,
           store'.myTurn = store.myTurn,
           PreviewsOK(store', unsettled, wire, previews', inputs'),
           AnimationsOK(store', unsettled)
    PROVE  WebInv'
<1>1. /\ Types /\ WireOK(wire, live, socket.channels) /\ live \in Lives /\ live' \in Lives
      /\ StoreOK(store, unsettled, wire, live, socket.channels) /\ wire \in Seq(Events)
  BY DEF WebInv, Types, ServerTyped, LinkTyped, LivesOK
<1>2. /\ WireOK(wire, live', socket.channels)
      /\ StoreOK(store', unsettled, wire, live', socket.channels)
  <2>1. WireOK(wire, live', socket.channels)
    BY <1>1, SilentWire
  <2>2. StoreOK(store', unsettled, wire, live, socket.channels)
    BY <1>1, StoreKept
  <2>3. QED
    BY <1>1, <2>1, <2>2, SilentStore
<1>3. store'.dests.marble = NoMarble => store'.dests = NoDests
  BY <1>1 DEF Types, ClientTyped
<1>4. ClientTyped'
  BY <1>1, <1>3 DEF Types, ClientTyped
<1>5. ServerTyped'
  BY DEF ServerTyped
<1>6. CASE socket' = socket /\ (~socket.up => joins' = {} /\ previews' = <<>>)
  <2>1. Types'
    BY <1>1, <1>4, <1>5, <1>6 DEF Types, LinkTyped, Connected
  <2>2. QED
    BY <1>2, <1>6, <2>1 DEF WebInv
<1>7. CASE /\ ~socket.up /\ socket' = Fresh
           /\ joins = {} /\ wire = <<>> /\ previews = <<>> /\ "drop" \in unsettled
  <2>1. Types'
    BY <1>1, <1>4, <1>5, <1>7, FreshIs DEF Types, LinkTyped, Connected
  <2>2. WireOK(<<>>, live', Fresh.channels)
    BY DEF WireOK
  <2>3. StoreOK(store', unsettled, <<>>, live', Fresh.channels)
    <3>1. unsettled \union {"drop"} = unsettled
      BY <1>7
    <3>2. QED
      BY <1>2, <1>7, <3>1, StoreAlone
  <2>4. QED
    BY <1>7, <2>1, <2>2, <2>3 DEF WebInv
<1>8. QED
  <2>1. CASE GetSocket
    BY <1>1, <1>6, <1>7, <2>1, SocketIs
  <2>2. CASE UNCHANGED <<socket, joins>> /\ (previews = <<>> => previews' = <<>>)
    BY <1>1, <1>6, <2>2 DEF Types, Connected
  <2>3. QED
    BY <2>1, <2>2

LEMMA OpenStep ==
    ASSUME WebInv, (\E g \in Rooms : OpenGame(g)) \/ OpenLobby
    PROVE  WebInv'
<1>1. /\ LivesOK(live) /\ live \in Lives /\ JoinsOK(joins, live) /\ previews \in Seq(Nat \ {0})
      /\ wire \in Seq(Events) /\ inputs \in Nat /\ store \in Stores
      /\ store.selected \in OldMove..inputs
      /\ PreviewsOK(store, unsettled, wire, previews, inputs) /\ AnimationsOK(store, unsettled)
  BY DEF WebInv, Types, ServerTyped, LinkTyped, ClientTyped, LivesOK
<1>2. /\ inputs' = inputs + 1 /\ UNCHANGED <<live, previews, wire, store, unsettled>>
      /\ page' \in Rooms \union {LobbyPage}
      /\ GetSocket \/ UNCHANGED <<socket, joins>>
      /\ \/ joins' = joins
         \/ \E g \in Rooms : joins' = joins \union {JoinRequest(g)}
  BY DEF OpenGame, OpenLobby, Input
<1>3. \A g \in Rooms : live[g].moves \in Nat
  BY <1>1 DEF Lives
<1>4. JoinsOK(joins', live)
  <2>1. \A g \in Rooms : /\ JoinRequest(g) \in [game : Rooms, pc : {"sent", "read"}, status : Statuses,
                                                moves : Nat]
                         /\ JoinRequest(g).game = g /\ JoinRequest(g).moves = 0
    BY DEF JoinRequest, Statuses
  <2>2. QED
    BY <1>1, <1>2, <1>3, <2>1 DEF JoinsOK
<1>5. Silent(live, live)
  BY <1>1, SilentSelf
<1>6. PreviewsOK(store, unsettled, wire, previews, inputs') /\ inputs' \in Nat
  BY <1>1, <1>2, PreviewsKept
<1>7. store.selected \in OldMove..inputs'
  BY <1>1, <1>2 DEF OldMove
<1>8. QED
  BY <1>1, <1>2, <1>4, <1>5, <1>6, <1>7, UserStep

\* The clicks.
LEMMA ClickStep ==
    ASSUME WebInv, Pick \/ Unpick \/ PickOldMove \/ Attempt
    PROVE  WebInv'
<1>1. /\ LivesOK(live) /\ live \in Lives /\ JoinsOK(joins, live) /\ previews \in Seq(Nat \ {0})
      /\ wire \in Seq(Events) /\ inputs \in Nat /\ store \in Stores
      /\ store.selected \in OldMove..inputs /\ page \in Rooms \union {LobbyPage}
      /\ PreviewsOK(store, unsettled, wire, previews, inputs) /\ AnimationsOK(store, unsettled)
      /\ Types
  BY DEF WebInv, Types, ServerTyped, LinkTyped, ClientTyped, LivesOK
<1>2. \A g \in Rooms : live[g].moves \in Nat
  BY <1>1 DEF Lives
<1>3. Silent(live, live)
  BY <1>1, SilentSelf
<1>4. NoDests \in [game : Rooms \union {NoGame}, moves : Nat, marble : Nat] /\ NoDests.marble = 0
  BY DEF NoDests, NoMarble
<1>5. ASSUME NEW m \in Int, store' = [store EXCEPT !.selected = m, !.dests = NoDests]
      PROVE  /\ store' \in Stores /\ store'.selected = m /\ store'.dests = NoDests
             /\ store'.game = store.game /\ store'.status = store.status /\ store'.board = store.board
             /\ store'.myTurn = store.myTurn
             /\ AnimationsOK(store', unsettled)
  <2>1. /\ store' \in Stores /\ store'.selected = m /\ store'.dests = NoDests
        /\ store'.game = store.game /\ store'.status = store.status /\ store'.board = store.board
        /\ store'.myTurn = store.myTurn
        /\ store'.animating = store.animating /\ store'.pending = store.pending
    BY <1>1, <1>4, <1>5 DEF Stores
  <2>2. QED
    BY <1>1, <2>1, SameAnimations
<1>6. CASE Pick
  <2>1. /\ store' = [store EXCEPT !.selected = inputs + 1, !.dests = NoDests] /\ GetSocket
        /\ inputs' = inputs + 1
        /\ previews' = IF socket.up THEN Append(previews, inputs + 1) ELSE <<>>
        /\ UNCHANGED <<live, joins, wire, page, unsettled>>
    BY <1>6 DEF Pick, Input
  <2>2. /\ store' \in Stores /\ store'.selected = inputs + 1 /\ store'.dests = NoDests
        /\ store'.game = store.game /\ store'.status = store.status /\ store'.board = store.board
        /\ store'.myTurn = store.myTurn /\ AnimationsOK(store', unsettled)
    <3>1. inputs + 1 \in Int
      BY <1>1
    <3>2. QED
      BY <1>5, <2>1, <3>1
  <2>3. PreviewsOK(store', unsettled, wire, previews', inputs') /\ previews' \in Seq(Nat \ {0})
    <3>1. CASE socket.up
      <4>1. PreviewsOK(store', unsettled, wire, Append(previews, inputs + 1), inputs + 1)
        BY <1>1, <2>2, PreviewsAsked
      <4>2. Append(previews, inputs + 1) \in Seq(Nat \ {0})
        BY <1>1
      <4>3. QED
        BY <2>1, <3>1, <4>1, <4>2
    <3>2. CASE ~socket.up
      <4>1. wire = <<>> /\ "drop" \in unsettled /\ previews' = <<>>
        BY <1>1, <2>1, <3>2 DEF Types, Connected
      <4>2. PreviewsOK(store', unsettled, <<>>, previews', inputs')
        BY <1>1, <1>4, <2>2, <4>1, NothingOnTheWay
      <4>3. QED
        BY <4>1, <4>2
    <3>3. QED
      BY <3>1, <3>2
  <2>4. store'.selected \in OldMove..inputs'
    BY <1>1, <2>1, <2>2 DEF OldMove
  <2>5. JoinsOK(joins', live') /\ LivesOK(live') /\ Silent(live, live') /\ inputs' \in Nat
    BY <1>1, <1>3, <2>1
  <2>6. QED
    BY <1>1, <2>1, <2>2, <2>3, <2>4, <2>5, UserStep
<1>7. ASSUME NEW m \in {OldMove, NoMarble}, store' = [store EXCEPT !.selected = m, !.dests = NoDests],
             inputs' \in {inputs, inputs + 1}, UNCHANGED <<joins, previews, wire, page, unsettled>>,
             GetSocket \/ socket' = socket, LivesOK(live'), Silent(live, live')
      PROVE  WebInv'
  <2>1. m \in Int /\ m <= 0 /\ m \in OldMove..inputs' /\ inputs' \in Nat
    BY <1>1, <1>7 DEF OldMove, NoMarble
  <2>2. /\ store' \in Stores /\ store'.selected = m /\ store'.dests = NoDests
        /\ store'.game = store.game /\ store'.status = store.status /\ store'.board = store.board
        /\ store'.myTurn = store.myTurn /\ AnimationsOK(store', unsettled)
    BY <1>5, <1>7, <2>1
  <2>3. PreviewsOK(store, unsettled, wire, previews, inputs')
    BY <1>1, <1>7, <2>1, PreviewsKept
  <2>4. PreviewsOK(store', unsettled, wire, previews', inputs') /\ previews' \in Seq(Nat \ {0})
    BY <1>1, <1>4, <1>7, <2>1, <2>2, <2>3, PreviewsCleared
  <2>5. JoinsOK(joins', live')
    BY <1>1, <1>7, SilentJoins DEF LivesOK
  <2>6. QED
    BY <1>1, <1>7, <2>1, <2>2, <2>4, <2>5, UserStep
<1>8. CASE Unpick
  BY <1>1, <1>3, <1>7, <1>8 DEF Unpick
<1>9. CASE PickOldMove
  BY <1>1, <1>3, <1>7, <1>9 DEF PickOldMove, Input
<1>10. CASE Attempt
  <2>1. LivesOK(live') /\ Silent(live, live')
    <3>1. CASE /\ socket.game # NoGame /\ live[socket.game].status = "active"
               /\ live[socket.game].moves < MaxPlayed[socket.game] /\ SaveMove(socket.game)
      <4>1. socket.game \in Rooms
        BY <1>1, <3>1 DEF Types, LinkTyped
      <4>2. QED
        BY <1>1, <3>1, <4>1, SaveIs
    <3>2. CASE live' = live
      BY <1>1, <1>3, <3>2
    <3>3. QED
      BY <1>10, <3>1, <3>2 DEF Attempt
  <2>2. QED
    BY <1>1, <1>7, <1>10, <2>1 DEF Attempt
<1>11. QED
  BY <1>6, <1>8, <1>9, <1>10

\* What waits is what comes behind the one that is animated.
LEMMA WaitingIs ==
    ASSUME NEW S, NEW a \in Seq(S), NEW p \in Seq(S), a # <<>>, Len(a) <= 1
    PROVE  a \o p \in Seq(S) /\ a \o p # <<>> /\ Tail(a \o p) = p
<1> DEFINE queue == a \o p
<1>1. Len(a) = 1
  <2> DEFINE n == Len(a)
  <2>1. n \in Nat /\ n <= 1
    OBVIOUS
  <2>2. n # 0
    OBVIOUS
  <2> HIDE DEF n
  <2>3. n = 1
    BY <2>1, <2>2
  <2>4. QED
    BY <2>3 DEF n
<1>2. /\ queue \in Seq(S) /\ Len(queue) = Len(p) + 1 /\ Len(p) \in Nat
      /\ \A i \in 1..Len(p) : queue[i + 1] = p[i]
  <2>1. queue \in Seq(S)
    OBVIOUS
  <2>2. Len(queue) = Len(a) + Len(p) /\ Len(p) \in Nat
    OBVIOUS
  <2>3. ASSUME NEW i \in 1..Len(p)
        PROVE  queue[i + 1] = p[i]
    <3>1. i + 1 \in 1..(Len(a) + Len(p)) /\ ~(i + 1 <= Len(a)) /\ (i + 1) - Len(a) = i
      BY <1>1, <2>2
    <3>2. queue[i + 1] = p[(i + 1) - Len(a)]
      BY <3>1
    <3>3. QED
      BY <3>1, <3>2
  <2>4. QED
    BY <1>1, <2>1, <2>2, <2>3
<1> HIDE DEF queue
<1>3. queue # <<>>
  BY <1>2
<1>4. /\ Tail(queue) \in Seq(S) /\ Len(Tail(queue)) = Len(p)
      /\ \A i \in 1..Len(p) : Tail(queue)[i] = p[i]
  BY <1>2, <1>3
<1>5. Tail(queue) = p
  BY <1>4
<1>6. QED
  BY <1>2, <1>3, <1>5 DEF queue

\* The animation of a move is over; the next one begins.
LEMMA CompleteAnimationStep ==
    ASSUME WebInv, CompleteAnimation
    PROVE  WebInv'
<1>1. /\ LivesOK(live) /\ live \in Lives /\ JoinsOK(joins, live) /\ previews \in Seq(Nat \ {0})
      /\ wire \in Seq(Events) /\ inputs \in Nat /\ store \in Stores
      /\ store.selected \in OldMove..inputs /\ page \in Rooms \union {LobbyPage}
      /\ PreviewsOK(store, unsettled, wire, previews, inputs) /\ AnimationsOK(store, unsettled)
  BY DEF WebInv, Types, ServerTyped, LinkTyped, ClientTyped, LivesOK
<1>3. LivesOK(live) /\ Silent(live, live)
  BY <1>1, SilentSelf
<1>4. /\ store.animating # <<>> /\ UNCHANGED <<live, socket, joins, previews, wire, page, unsettled, inputs>>
      /\ store' = IF store.pending = <<>> THEN [store EXCEPT !.animating = <<>>]
                  ELSE [store EXCEPT !.animating = <<Head(store.pending)>>, !.pending = Tail(@)]
  BY DEF CompleteAnimation
<1> DEFINE old == store.pending
           board == store.board
<1>5. old \in Seq(Moves) /\ board \in Seq(Moves) /\ store.animating \in Seq(Moves)
  BY <1>1 DEF Stores
<1>6. /\ store' \in Stores /\ store'.selected = store.selected /\ store'.dests = store.dests
      /\ store'.game = store.game /\ store'.status = store.status /\ store'.board = board
      /\ store'.myTurn = store.myTurn
      /\ old = <<>> => store'.animating = <<>> /\ store'.pending = <<>>
      /\ old # <<>> => store'.animating = <<Head(old)>> /\ store'.pending = Tail(old)
  <2>1. <<>> \in Seq(Moves) /\ (old # <<>> => Head(old) \in Moves /\ <<Head(old)>> \in Seq(Moves)
                                              /\ Tail(old) \in Seq(Moves))
    BY <1>5
  <2>2. QED
    BY <1>1, <1>4, <2>1 DEF Stores
<1>7. AnimationsOK(store', unsettled)
  <2>1. CASE old = <<>>
    <3> DEFINE none == <<>>
    <3>1. none \o none = none /\ Len(none) <= 1
      OBVIOUS
    <3>2. LastOf(none, board)
      BY <1>5, NoneIsLast
    <3>3. store'.animating = none /\ store'.pending = none
      BY <1>6, <2>1
    <3>4. store'.animating \o store'.pending = none
      BY <3>1, <3>3
    <3>5. LastOf(store'.animating \o store'.pending, store'.board)
      BY <1>6, <3>2, <3>4
    <3>6. Len(store'.animating) <= 1
      BY <3>1, <3>3
    <3>7. QED
      BY <3>3, <3>5, <3>6 DEF AnimationsOK
  <2>2. CASE old # <<>>
    <3> DEFINE one == <<Head(old)>>
               queue == store.animating \o old
    <3>1. Len(one) <= 1 /\ one # <<>>
      OBVIOUS
    <3>2. one \o Tail(old) = old
      BY <1>5, <2>2
    <3>3. ASSUME "skipped" \notin unsettled
          PROVE  LastOf(old, board)
      <4>1. LastOf(queue, board) /\ Len(store.animating) <= 1
        BY <1>1, <3>3 DEF AnimationsOK
      <4> HIDE DEF old
      <4>2. queue \in Seq(Moves) /\ queue # <<>> /\ Tail(queue) = old
        BY <1>4, <1>5, <4>1, WaitingIs
      <4> HIDE DEF queue
      <4>3. QED
        BY <1>5, <4>1, <4>2, LastTail
    <3>4. store'.animating = one /\ store'.pending = Tail(old)
      BY <1>6, <2>2
    <3> HIDE DEF one
    <3>5. QED
      BY <1>6, <3>1, <3>2, <3>3, <3>4 DEF AnimationsOK
  <2>3. QED
    BY <2>1, <2>2
<1>8. PreviewsOK(store', unsettled, wire, previews', inputs')
  BY <1>1, <1>4, <1>6 DEF PreviewsOK
<1>9. JoinsOK(joins', live') /\ inputs' \in Nat /\ previews' \in Seq(Nat \ {0})
      /\ page' \in Rooms \union {LobbyPage} /\ store'.selected \in OldMove..inputs'
      /\ LivesOK(live') /\ Silent(live, live')
  BY <1>1, <1>3, <1>4, <1>6
<1> HIDE DEF old, board
<1>10. store'.board = store.board
  BY <1>6 DEF board
<1>11. QED
  BY <1>4, <1>6, <1>7, <1>8, <1>9, <1>10, UserStep

\* The connection is lost, with what was under way.
LEMMA DropStep ==
    ASSUME WebInv, Drop
    PROVE  WebInv'
<1> DEFINE why == unsettled \union {"drop"}
<1>1. /\ Types /\ AnimationsOK(store, unsettled) /\ inputs \in Nat /\ store \in Stores
      /\ store.selected \in OldMove..inputs
      /\ StoreOK(store, unsettled, wire, live, socket.channels)
      /\ PreviewsOK(store, unsettled, wire, previews, inputs)
  BY DEF WebInv, Types, ClientTyped
<1>2. /\ socket' = [Fresh EXCEPT !.up = FALSE] /\ wire' = <<>> /\ joins' = {} /\ previews' = <<>>
      /\ unsettled' = why /\ UNCHANGED <<live, page, store>> /\ inputs' = inputs + 1
  BY DEF Drop, Input
<1>3. socket' \in [up : BOOLEAN, channels : SUBSET Rooms, game : Rooms \union {NoGame}]
      /\ socket'.channels = {} /\ socket'.game = NoGame
  BY <1>2, FreshIs
<1>4. Types'
  <2>1. ServerTyped'
    BY <1>1, <1>2 DEF Types, ServerTyped, JoinsOK
  <2>2. LinkTyped'
    <3>1. <<>> \in Seq(Events) /\ <<>> \in Seq(Nat \ {0})
      OBVIOUS
    <3>2. QED
      BY <1>2, <1>3, <3>1 DEF LinkTyped
  <2>3. ClientTyped'
    BY <1>1, <1>2 DEF Types, ClientTyped, OldMove
  <2>4. Connected'
    BY <1>2, <1>3 DEF Connected
  <2>5. QED
    BY <2>1, <2>2, <2>3, <2>4 DEF Types
<1>5. WireOK(wire, live, socket.channels)'
  BY <1>2 DEF WireOK
<1>6. StoreOK(store, why, <<>>, live, socket'.channels)
  BY <1>1, StoreAlone
<1>7. PreviewsOK(store, why, previews', previews', inputs')
  <2>1. store.selected > 0 => store.dests.marble <= store.selected
    BY <1>1 DEF PreviewsOK
  <2>2. QED
    BY <1>1, <1>2, <2>1, NothingOnTheWay
<1>8. AnimationsOK(store, why)
  BY <1>1, SameAnimations
<1>9. QED
  BY <1>2, <1>4, <1>5, <1>6, <1>7, <1>8 DEF WebInv

LEMMA ReconnectStep ==
    ASSUME WebInv, Reconnect
    PROVE  WebInv'
<1>1. /\ Types /\ LivesOK(live) /\ live \in Lives /\ inputs \in Nat /\ store \in Stores
      /\ JoinsOK(joins, live) /\ previews \in Seq(Nat \ {0})
      /\ page \in Rooms \union {LobbyPage} /\ store.selected \in OldMove..inputs
      /\ PreviewsOK(store, unsettled, wire, previews, inputs) /\ AnimationsOK(store, unsettled)
  BY DEF WebInv, Types, ServerTyped, LinkTyped, ClientTyped, LivesOK
<1>2. GetSocket /\ UNCHANGED <<live, joins, previews, wire, page, store, unsettled, inputs>>
  BY DEF Reconnect, GetSocket
<1>3. Silent(live, live)
  BY <1>1, SilentSelf
<1>4. QED
  BY <1>1, <1>2, <1>3, UserStep

LEMMA EmptyStoreIs ==
    /\ EmptyStore \in Stores /\ EmptyStore.game = NoGame /\ EmptyStore.selected = 0
    /\ EmptyStore.dests = NoDests /\ NoDests.marble = 0
    /\ \A why, w, lives, channels : StoreOK(EmptyStore, why, w, lives, channels)
    /\ \A why : AnimationsOK(EmptyStore, why)
<1>1. <<>> \in Seq(Moves) /\ NoDests \in [game : Rooms \union {NoGame}, moves : Nat, marble : Nat]
      /\ NoMarble \in Int /\ NoDests.marble = 0
  BY DEF NoDests, NoMarble
<1>2. /\ EmptyStore \in Stores /\ EmptyStore.game = NoGame /\ EmptyStore.selected = 0
      /\ EmptyStore.dests = NoDests
  BY <1>1 DEF EmptyStore, Stores, NoMarble
<1>3. \A why, w, lives, channels : StoreOK(EmptyStore, why, w, lives, channels)
  BY <1>2 DEF StoreOK, Sure, Follows
<1>4. \A why : AnimationsOK(EmptyStore, why)
  <2> DEFINE none == <<>>
  <2>1. none \o none = none /\ Len(none) <= 1
    OBVIOUS
  <2>2. EmptyStore.animating = none /\ EmptyStore.pending = none
    BY DEF EmptyStore
  <2>3. LastOf(none, EmptyStore.board)
    BY <1>2, NoneIsLast DEF Stores
  <2>4. EmptyStore.animating \o EmptyStore.pending = none
    BY <2>1, <2>2
  <2>5. Len(EmptyStore.animating) <= 1
    BY <2>1, <2>2
  <2>6. QED
    BY <2>2, <2>3, <2>4, <2>5 DEF AnimationsOK
<1>5. QED
  BY <1>1, <1>2, <1>3, <1>4

LEMMA ReloadStep ==
    ASSUME WebInv, Reload
    PROVE  WebInv'
<1>1. Types /\ inputs \in Nat /\ LivesOK(live) /\ live \in Lives /\ page \in Rooms \union {LobbyPage}
  BY DEF WebInv, Types, ServerTyped, ClientTyped, LivesOK
<1>2. /\ socket' = Fresh /\ wire' = <<>> /\ previews' = <<>> /\ store' = EmptyStore /\ unsettled' = {}
      /\ joins' = (IF page = LobbyPage THEN {} ELSE {JoinRequest(page)})
      /\ inputs' = inputs + 1 /\ UNCHANGED <<live, page>>
  BY DEF Reload, Input
<1>3. Types'
  <2>1. JoinsOK(joins', live)
    <3>1. \A g \in Rooms : /\ JoinRequest(g) \in [game : Rooms, pc : {"sent", "read"}, status : Statuses,
                                                  moves : Nat]
                           /\ JoinRequest(g).game = g /\ JoinRequest(g).moves = 0
      BY DEF JoinRequest, Statuses
    <3>2. \A g \in Rooms : 0 <= live[g].moves
      BY <1>1, LivesAre
    <3>3. QED
      BY <1>1, <1>2, <3>1, <3>2 DEF JoinsOK
  <2>2. LinkTyped'
    <3>1. <<>> \in Seq(Events) /\ <<>> \in Seq(Nat \ {0})
      OBVIOUS
    <3>2. QED
      BY <1>2, <3>1, FreshIs DEF LinkTyped
  <2>3. ClientTyped'
    BY <1>1, <1>2, EmptyStoreIs DEF ClientTyped, OldMove
  <2>4. Connected'
    BY <1>2, FreshIs DEF Connected
  <2>5. QED
    BY <1>1, <1>2, <2>1, <2>2, <2>3, <2>4 DEF Types, ServerTyped
<1>4. WireOK(wire, live, socket.channels)'
  BY <1>2 DEF WireOK
<1>5. PreviewsOK(store', {}, <<>>, previews', inputs')
  BY <1>2, EmptyStoreIs, NothingOnTheWay
<1>6. QED
  BY <1>2, <1>3, <1>4, <1>5, EmptyStoreIs DEF WebInv

-----------------------------------------------------------------------------
(* The invariant                                                           *)

LEMMA InitInv ==
    ASSUME WebInit
    PROVE  WebInv
<1>1. LivesOK(live)
  <2>1. live \in Lives /\ \A g \in Rooms : live[g].moves = 0 /\ live[g].emitted = 0 /\ live[g].status # "over"
    BY DEF WebInit, Lives, Statuses
  <2>2. QED
    BY <2>1, WebGameAssumption DEF LivesOK
<1>2. Types
  <2>1. ServerTyped
    BY <1>1 DEF ServerTyped, JoinsOK, WebInit
  <2>2. LinkTyped
    <3>1. <<>> \in Seq(Events) /\ <<>> \in Seq(Nat \ {0})
      OBVIOUS
    <3>2. QED
      BY <3>1, FreshIs DEF LinkTyped, WebInit
  <2>3. ClientTyped
    BY EmptyStoreIs DEF ClientTyped, OldMove, WebInit
  <2>4. Connected
    BY FreshIs DEF Connected, WebInit
  <2>5. QED
    BY <2>1, <2>2, <2>3, <2>4 DEF Types
<1>3. WireOK(wire, live, socket.channels)
  BY DEF WireOK, WebInit
<1>4. PreviewsOK(EmptyStore, {}, <<>>, previews, inputs)
  BY EmptyStoreIs, NothingOnTheWay DEF WebInit
<1>5. QED
  BY <1>2, <1>3, <1>4, EmptyStoreIs DEF WebInv, WebInit

LEMMA NextInv ==
    ASSUME WebInv, [WebNext]_webVars
    PROVE  WebInv'
<1>1. CASE WebProgress
  <2>1. ASSUME NEW g \in Rooms, StartEmit(g) \/ EmitMove(g) \/ EmitOver(g)
        PROVE  WebInv'
    BY <2>1, StartEmitStep, EmitMoveStep, EmitOverStep
  <2>2. ASSUME NEW j \in joins, JoinRead(j) \/ JoinEnter(j)
        PROVE  WebInv'
    BY <2>2, JoinReadStep, JoinEnterStep
  <2>3. QED
    BY <1>1, <2>1, <2>2, PreviewStep, ReceiveStep DEF WebProgress
<1>2. CASE \E g \in Rooms : StartSave(g) \/ PlayMove(g) \/ Decide(g) \/ OpenGame(g)
  BY <1>2, ServerStep, OpenStep
<1>3. CASE Pick \/ Unpick \/ PickOldMove \/ Attempt
  BY <1>3, ClickStep
<1>4. CASE Drop \/ Reconnect \/ OpenLobby \/ Reload \/ CompleteAnimation
  BY <1>4, DropStep, ReconnectStep, OpenStep, ReloadStep, CompleteAnimationStep
<1>5. CASE UNCHANGED webVars
  BY <1>5 DEF webVars, WebInv, Types, ServerTyped, LinkTyped, ClientTyped, Connected
<1>6. QED
  BY <1>1, <1>2, <1>3, <1>4, <1>5 DEF WebNext

LEMMA Invariant == WebSpec => []WebInv
<1>1. WebInit => WebInv
  BY InitInv
<1>2. WebInv /\ [WebNext]_webVars => WebInv'
  BY NextInv
<1>3. QED
  BY <1>1, <1>2, PTL DEF WebSpec

\* What follows the store has arrived.
LEMMA NothingIsMissing ==
    ASSUME WebInv, Settled, Follows(store, unsettled)
    PROVE  /\ Len(store.board) = live[store.game].moves
           /\ (store.status = "completed") = (live[store.game].status = "over")
<1> DEFINE g == store.game
           n == Len(store.board)
<1>1. /\ live \in Lives /\ store \in Stores
      /\ StoreOK(store, unsettled, wire, live, socket.channels)
  BY DEF WebInv, Types, ServerTyped, ClientTyped, LivesOK
<1>2. Sure(store, unsettled) /\ g \in Rooms /\ n \in Nat
  BY <1>1, StoreIs
<1>3. wire = <<>> /\ live[g].emitted = live[g].moves /\ live[g].moves \in Nat
  BY <1>1, <1>2, LivesAre DEF Settled
<1>4. /\ n <= live[g].emitted /\ (store.status = "completed" => live[g].status = "over")
      /\ MovesFollow(wire, live[g].emitted, g, n, 0)
      /\ live[g].status = "over" /\ store.status # "completed" => EndFollows(wire, g, 0)
  BY <1>1, <1>2 DEF StoreOK
<1>5. DOMAIN wire = {}
  BY <1>3
<1>6. ~(n < live[g].emitted) /\ ~EndFollows(wire, g, 0)
  BY <1>4, <1>5 DEF MovesFollow, EndFollows
<1> HIDE DEF n
<1>7. n = live[g].moves
  BY <1>2, <1>3, <1>4, <1>6
<1>8. (store.status = "completed") = (live[store.game].status = "over")
  BY <1>4, <1>6
<1>9. QED
  BY <1>7, <1>8 DEF n

\* A store without a game has no destinations, unless those of another game.
Unheard == store.game = NoGame /\ "foreign" \notin unsettled => store.dests = NoDests

LEMMA UnheardStep ==
    ASSUME WebInv, Unheard, [WebNext]_webVars
    PROVE  Unheard'
<1>1. Types /\ store \in Stores
  BY DEF WebInv, Types, ClientTyped
<1>2. CASE Receive
  <2> DEFINE e == wire[1]
  <2>1. e \in Events /\ e.game \in Rooms /\ NoGame \notin Rooms
    BY <1>1, <1>2, ReceiveIs, EventIs, WebGameAssumption
  <2>2. CASE e.kind = "start" /\ store' = Started(e)
    BY <1>1, <2>1, <2>2, StartedIs DEF Unheard
  <2>3. CASE e.kind = "moved" /\ store' = Applied(e)
    BY <1>1, <2>1, <2>3, AppliedIs DEF Unheard
  <2>4. CASE /\ store' = [store EXCEPT !.status = "completed"]
             /\ unsettled' = unsettled \union (IF e.game = store.game THEN {} ELSE {"foreign"})
    BY <1>1, <2>4 DEF Unheard, Stores
  <2>5. CASE /\ store' = [store EXCEPT !.dests = [game |-> e.game, moves |-> e.moves, marble |-> e.marble]]
             /\ unsettled' = unsettled \union (IF e.game = store.game THEN {} ELSE {"foreign"})
    BY <1>1, <2>1, <2>5 DEF Unheard, Stores
  <2>6. QED
    <3> HIDE DEF e
    <3>1. QED
      BY <1>1, <1>2, <2>2, <2>3, <2>4, <2>5, ReceiveIs DEF e
<1>3. CASE store' = store /\ unsettled \subseteq unsettled'
  BY <1>3 DEF Unheard
<1>4. CASE store'.dests = NoDests
  BY <1>4 DEF Unheard
<1>5. ASSUME Pick \/ Unpick \/ PickOldMove \/ Attempt \/ Reload
      PROVE  store'.dests = NoDests
  <2>1. ASSUME NEW m, store' = [store EXCEPT !.selected = m, !.dests = NoDests]
        PROVE  store'.dests = NoDests
    BY <1>1, <2>1 DEF Stores
  <2>2. CASE Reload
    BY <2>2, EmptyStoreIs DEF Reload
  <2>3. QED
    BY <1>5, <2>1, <2>2 DEF Pick, Unpick, PickOldMove, Attempt
<1>6. CASE CompleteAnimation
  <2>1. UNCHANGED unsettled /\ store'.game = store.game /\ store'.dests = store.dests
    BY <1>1, <1>6 DEF CompleteAnimation, Stores
  <2>2. QED
    BY <2>1 DEF Unheard
<1>7. ASSUME NEW g \in Rooms, StartSave(g) \/ PlayMove(g) \/ Decide(g) \/ OpenGame(g)
                              \/ StartEmit(g) \/ EmitMove(g) \/ EmitOver(g)
      PROVE  store' = store /\ unsettled \subseteq unsettled'
  BY <1>7 DEF StartSave, PlayMove, Decide, OpenGame, StartEmit, EmitMove, EmitOver
<1>8. ASSUME NEW j \in joins, JoinRead(j) \/ JoinEnter(j)
      PROVE  store' = store /\ unsettled \subseteq unsettled'
  BY <1>8 DEF JoinRead, JoinEnter
<1>9. ASSUME Preview \/ Drop \/ Reconnect \/ OpenLobby \/ UNCHANGED webVars
      PROVE  store' = store /\ unsettled \subseteq unsettled'
  BY <1>9 DEF Preview, Drop, Reconnect, OpenLobby, webVars
<1>10. QED
  BY <1>2, <1>3, <1>4, <1>5, <1>6, <1>7, <1>8, <1>9 DEF WebNext, WebProgress

LEMMA InvariantUnheard == WebSpec => []Unheard
<1>1. WebInit => Unheard
  BY EmptyStoreIs DEF WebInit, Unheard
<1>2. WebInv /\ Unheard /\ [WebNext]_webVars => Unheard'
  BY UnheardStep
<1>3. QED
  BY <1>1, <1>2, Invariant, PTL DEF WebSpec

-----------------------------------------------------------------------------
(* The theorems                                                            *)

\* Rooms, marbles and ghosts are what they should be, and no game has more moves
\* emitted than saved.
THEOREM WebIsTyped == WebSpec => []WebTypeOK
<1>1. WebInv => WebTypeOK
  BY DEF WebInv, Types, ServerTyped, LinkTyped, ClientTyped, LivesOK, Stores, WebTypeOK
<1>2. QED
  BY <1>1, Invariant, PTL

\* The board and the turn on the page are those of a position the game has had,
\* whatever the pages visited, the connections lost and the snapshots received,
\* unless a snapshot overlapped with a move on its way or an event of another
\* room came in.
THEOREM BoardsArePositions == WebSpec => []ViewIsAPosition
<1>1. ASSUME WebInv
      PROVE  ViewIsAPosition
  <2>1. /\ live \in Lives /\ LivesOK(live) /\ store \in Stores
        /\ StoreOK(store, unsettled, wire, live, socket.channels)
    BY <1>1 DEF WebInv, Types, ServerTyped, ClientTyped, LivesOK
  <2>2. SUFFICES ASSUME Sure(store, unsettled)
                 PROVE  \E n \in 0..live[store.game].moves :
                            store.board = Board(store.game, n) /\ store.myTurn = MyTurn(n)
    BY DEF ViewIsAPosition, Sure
  <2> DEFINE g == store.game
             n == Len(store.board)
  <2>3. g \in Rooms /\ n \in Nat
    BY <2>1, <2>2, StoreIs
  <2>4. live[g].moves \in Nat /\ live[g].emitted \in Nat /\ live[g].emitted <= live[g].moves
    BY <2>1, <2>3, LivesAre DEF LivesOK
  <2>5. store.board = Board(g, n) /\ store.myTurn = MyTurn(n) /\ n <= live[g].emitted
    BY <2>1, <2>2 DEF StoreOK
  <2> HIDE DEF g, n
  <2>6. n \in 0..live[g].moves
    BY <2>3, <2>4, <2>5
  <2>7. QED
    BY <2>5, <2>6 DEF g
<1>2. QED
  BY <1>1, Invariant, PTL

\* Once nothing is under way, a client that lost nothing shows the current
\* position, and shows the game as over just if it is.
THEOREM BoardsAreCurrent == WebSpec => []ViewIsCurrent
<1>1. ASSUME WebInv
      PROVE  ViewIsCurrent
  <2>1. SUFFICES ASSUME Settled, store.game # NoGame, unsettled \subseteq {"skipped", "unanswered"}
                 PROVE  /\ Len(store.board) = live[store.game].moves
                        /\ (store.status = "completed") = (live[store.game].status = "over")
    BY DEF ViewIsCurrent
  <2>2. Follows(store, unsettled)
    BY <2>1 DEF Sure, Follows
  <2>3. QED
    BY <1>1, <2>1, <2>2, NothingIsMissing
<1>2. QED
  BY <1>1, Invariant, PTL

\* Destinations that stay are those of the selected marble in the position shown,
\* however clicks, answers and moves interleave.
THEOREM PreviewsAreOfTheSelection == WebSpec => []PreviewsSettle
<1>1. ASSUME WebInv, Unheard
      PROVE  PreviewsSettle
  <2>1. /\ live \in Lives /\ store \in Stores
        /\ store.selected \in OldMove..inputs /\ inputs \in Nat
        /\ store.dests.marble = NoMarble => store.dests = NoDests
        /\ StoreOK(store, unsettled, wire, live, socket.channels)
        /\ PreviewsOK(store, unsettled, wire, previews, inputs)
    BY <1>1 DEF WebInv, Types, ServerTyped, LinkTyped, ClientTyped, LivesOK
  <2>2. SUFFICES ASSUME Settled, unsettled \subseteq {"skipped"},
                        store.selected \notin {NoMarble, OldMove}, store.dests # NoDests
                 PROVE  store.dests = [game |-> store.game, moves |-> Len(store.board),
                                       marble |-> store.selected]
    BY DEF PreviewsSettle
  <2>3. Sure(store, unsettled) /\ Follows(store, unsettled)
    BY <1>1, <2>2 DEF Unheard, Sure, Follows
  <2>4. store.dests.marble = store.selected
    <3>1. store.selected > 0
      BY <2>1, <2>2 DEF NoMarble, OldMove
    <3>2. ~OnItsWay(wire, store.selected) /\ ~Asked(previews, store.selected)
      BY <2>2 DEF Settled, OnItsWay, Asked
    <3>3. unsettled \intersect {"drop", "unanswered"} = {}
      BY <2>2
    <3>4. QED
      BY <2>1, <3>1, <3>2, <3>3 DEF PreviewsOK
  <2>5. store.game \in Rooms /\ live[store.game].moves \in Nat /\ Len(store.board) \in Nat
    BY <2>1, <2>3, StoreIs, LivesAre
  <2>6. store.dests.game = store.game /\ store.dests.moves = Len(store.board)
    <3>1. Len(store.board) = live[store.game].moves
      BY <1>1, <2>2, <2>3, NothingIsMissing
    <3>2. /\ store.dests.game = store.game /\ Len(store.board) <= store.dests.moves
          /\ store.dests.moves <= live[store.game].moves
      BY <2>1, <2>2, <2>3 DEF StoreOK
    <3>3. store.dests.moves \in Nat
      BY <2>1 DEF Stores
    <3> DEFINE n == Len(store.board)
    <3> HIDE DEF n
    <3>4. QED
      BY <2>5, <3>1, <3>2, <3>3
  <2>7. store.dests \in [game : Rooms \union {NoGame}, moves : Nat, marble : Nat]
    BY <2>1 DEF Stores
  <2>8. QED
    BY <2>4, <2>6, <2>7
<1>2. QED
  BY <1>1, Invariant, InvariantUnheard, PTL

\* The moves being animated and waiting are the last ones of the board, each once
\* and in order, unless a snapshot came while some were waiting.
THEOREM MovesAreAnimatedInOrder == WebSpec => []AnimationsInOrder
<1>1. WebInv => AnimationsInOrder
  BY DEF WebInv, AnimationsOK, LastOf, AnimationsInOrder
<1>2. QED
  BY <1>1, Invariant, PTL

=============================================================================
