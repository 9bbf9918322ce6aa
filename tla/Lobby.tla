------------------------------- MODULE Lobby -------------------------------
(***************************************************************************)
(* The list of open rooms, from Redis to a lobby page: the index           *)
(* rooms:public beside the room keys, the handler of GET /rooms with its   *)
(* cache, one await at a time, and a page that polls it, keeps whatever    *)
(* answer comes last, and may have several requests under way.             *)
(*                                                                         *)
(* Of a room only the status counts here.  Handlers read a room and save   *)
(* it later (Room has them); the client creates public rooms only.  Times  *)
(* are ages, counted up to MaxAge.                                         *)
(***************************************************************************)
EXTENDS Integers, FiniteSets

CONSTANTS
    RoomIds,
    Polls,          \* bound: requests under way at once, numbers
    CacheTtl,       \* ROOMS_CACHE_TTL_MS
    MaxAge,         \* bound: ages above it are not told apart
    MaxChanges      \* bound: rooms read to be changed, lobbies opened, polls failed

ASSUME LobbyAssumption ==
    /\ {CacheTtl, MaxAge, MaxChanges} \subseteq Nat
    /\ CacheTtl < MaxAge
    /\ Polls \subseteq Nat

VARIABLES
    stored,     \* the key of each room: its status; "new" before, "gone" after
    public,     \* rooms:public
    held,       \* rooms that handlers have read and will save
    revived,    \* ghost: rooms saved after they were deleted
    polls,      \* the requests for the list
    cache,      \* roomsCache
    inLobby,    \* the page is open
    shown,      \* the list on the page, or nothing yet
    changes

roomVars  == <<stored, public, held, revived>>
lobbyVars == <<roomVars, polls, cache, inLobby, shown, changes>>

Change == changes < MaxChanges /\ changes' = changes + 1

Nothing == [loaded |-> FALSE, rooms |-> {}]

\* A list is a set of <<room, status>>.
List(rooms) == [loaded |-> TRUE, rooms |-> rooms]

Listed == {<<r, stored[r]>> : r \in {x \in RoomIds : stored[x] \in {"waiting", "active"}}}

-----------------------------------------------------------------------------
(* The rooms *)

CreateRoom(r) ==
    /\ stored[r] = "new"
    /\ stored' = [stored EXCEPT ![r] = "waiting"]
    /\ public' = public \union {r}
    /\ UNCHANGED <<held, revived, polls, cache, inLobby, shown, changes>>

GetRoom(r) ==
    /\ stored[r] \in {"waiting", "active"}
    /\ held = {}
    /\ Change
    /\ held' = {<<r, stored[r]>>}
    /\ UNCHANGED <<stored, public, revived, polls, cache, inLobby, shown>>

Became(status) == IF status = "waiting" THEN {"waiting", "active"} ELSE {"active", "completed"}

Indexed(r, status) == IF status # "completed" THEN public \union {r} ELSE public \ {r}

SavesRoom(h) ==
    \E status \in Became(h[2]) :
        /\ stored' = [stored EXCEPT ![h[1]] = status]
        /\ public' = Indexed(h[1], status)
        /\ revived' = revived \union {r \in {h[1]} : stored[r] = "gone"}
        /\ held' = held \ {h}
        /\ UNCHANGED <<polls, cache, inLobby, shown, changes>>

\* The idle sweep, or the eviction of a completed room.
DeletesRoom(r) ==
    /\ stored[r] \in {"waiting", "completed"}
    /\ stored' = [stored EXCEPT ![r] = "gone"]
    /\ public' = public \ {r}
    /\ UNCHANGED <<held, revived, polls, cache, inLobby, shown, changes>>

-----------------------------------------------------------------------------
(* GET /rooms *)

\* age: since the handler began; read: since it has read the rooms.
NoPoll == [pc |-> "idle", heard |-> FALSE, age |-> 0, read |-> 0, ids |-> {},
           rooms |-> {}, lag |-> 0]

NoCache == [filled |-> FALSE, age |-> 0, read |-> 0, rooms |-> {}]

Poll(p) ==
    /\ inLobby /\ polls[p].pc = "idle"
    /\ \A q \in Polls : polls[q].pc = "idle" => p <= q     \* which place is immaterial
    /\ polls' = [polls EXCEPT ![p] = [NoPoll EXCEPT !.pc = "sent", !.heard = TRUE]]
    /\ UNCHANGED <<roomVars, cache, inLobby, shown, changes>>

\* What is answered was read `lag` before the request came.
Answered(p, rooms, lag) ==
    [NoPoll EXCEPT !.pc = "answer", !.heard = polls[p].heard, !.rooms = rooms, !.lag = lag]

\* Mutant: the cache is kept for good.
CacheIsFresh_Forever == cache.filled

CacheIsFresh == cache.filled /\ cache.age <= CacheTtl

LookInCache(p) ==
    /\ polls[p].pc = "sent"
    /\ polls' = [polls EXCEPT ![p] = IF CacheIsFresh THEN Answered(p, cache.rooms, cache.read)
                                                     ELSE [@ EXCEPT !.pc = "ids"]]
    /\ UNCHANGED <<roomVars, cache, inLobby, shown, changes>>

SMembers(p) ==
    /\ polls[p].pc = "ids"
    /\ polls' = [polls EXCEPT ![p].pc = IF public = {} THEN "fill" ELSE "mget",
                              ![p].ids = public, ![p].read = 0]
    /\ UNCHANGED <<roomVars, cache, inLobby, shown, changes>>

\* All keys at once; then ids holds those without a room.
MGet(p) ==
    LET found == {r \in polls[p].ids : stored[r] \notin {"new", "gone"}}
    IN  /\ polls[p].pc = "mget"
        /\ polls' = [polls EXCEPT ![p].pc = "clean", ![p].ids = @ \ found, ![p].read = 0,
                                  ![p].rooms = {l \in Listed : l[1] \in found}]
        /\ UNCHANGED <<roomVars, cache, inLobby, shown, changes>>

SRemStale(p) ==
    /\ polls[p].pc = "clean"
    /\ \E r \in polls[p].ids :
          /\ public' = public \ {r}
          /\ polls' = [polls EXCEPT ![p].ids = @ \ {r}]
    /\ UNCHANGED <<stored, held, revived, cache, inLobby, shown, changes>>

\* Mutant: the cache is stamped with the moment at which it is filled.
Stamp_Late(p) == 0

\* The time at which the handler began.
Stamp(p) == polls[p].age

\* Whatever is in the cache by now.
FillCache(p) ==
    /\ polls[p].pc \in {"clean", "fill"} /\ (polls[p].pc = "clean" => polls[p].ids = {})
    /\ cache' = [filled |-> TRUE, age |-> Stamp(p), read |-> polls[p].read,
                 rooms |-> polls[p].rooms]
    /\ polls' = [polls EXCEPT ![p] = Answered(p, polls[p].rooms, 0)]
    /\ UNCHANGED <<roomVars, inLobby, shown, changes>>

Older(age) == IF age < MaxAge THEN age + 1 ELSE age

Ages ==
    /\ cache' = IF cache.filled THEN [cache EXCEPT !.age = Older(@), !.read = Older(@)] ELSE cache
    /\ polls' = [p \in Polls |->
          IF polls[p].pc \in {"ids", "mget", "clean", "fill"}
          THEN [polls[p] EXCEPT !.age = Older(@), !.read = Older(@)] ELSE polls[p]]
    /\ UNCHANGED <<roomVars, inLobby, shown, changes>>

-----------------------------------------------------------------------------
(* The page *)

ShowAnswer(p) ==
    /\ polls[p].pc = "answer"
    /\ shown' = IF polls[p].heard THEN List(polls[p].rooms) ELSE shown
    /\ polls' = [polls EXCEPT ![p] = NoPoll]
    /\ UNCHANGED <<roomVars, cache, inLobby, changes>>

\* An error is not shown; the next poll tries again.
PollFails(p) ==
    /\ polls[p].pc = "sent"
    /\ Change
    /\ polls' = [polls EXCEPT ![p] = NoPoll]
    /\ UNCHANGED <<roomVars, cache, inLobby, shown>>

EnterLobby ==
    /\ ~inLobby
    /\ Change
    /\ inLobby' = TRUE /\ shown' = Nothing
    /\ UNCHANGED <<roomVars, polls, cache>>

\* A room was chosen or created; answers still to come are not heard.
LeaveLobby ==
    /\ inLobby
    /\ inLobby' = FALSE /\ shown' = Nothing
    /\ polls' = [p \in Polls |-> [polls[p] EXCEPT !.heard = FALSE]]
    /\ UNCHANGED <<roomVars, cache, changes>>

-----------------------------------------------------------------------------
LobbyInit ==
    /\ stored = [r \in RoomIds |-> "new"] /\ public = {}
    /\ held = {} /\ revived = {}
    /\ polls = [p \in Polls |-> NoPoll]
    /\ cache = NoCache
    /\ inLobby = FALSE /\ shown = Nothing
    /\ changes = 0

\* What the server does for a request, and the page with its answer.
ServePoll(p) ==
    \/ LookInCache(p) \/ SMembers(p) \/ MGet(p) \/ SRemStale(p) \/ FillCache(p)
    \/ ShowAnswer(p)

LobbyNext ==
    \/ \E r \in RoomIds : CreateRoom(r) \/ GetRoom(r) \/ DeletesRoom(r)
    \/ \E h \in held : SavesRoom(h)
    \/ \E p \in Polls : Poll(p) \/ ServePoll(p) \/ PollFails(p)
    \/ Ages \/ EnterLobby \/ LeaveLobby

LobbySpec == LobbyInit /\ [][LobbyNext]_lobbyVars

-----------------------------------------------------------------------------
\* However slow a fetch is and whatever it overwrites in the cache, an answer
\* holds nothing that was read longer before its request than the cache lives.
AnswersAreFresh == \A p \in Polls : polls[p].pc = "answer" => polls[p].lag <= CacheTtl

\* Once the rooms stay as they are, an open lobby comes to show exactly the
\* rooms that wait or are played, and goes on showing them, whatever old
\* answers are still to come; a room saved after its deletion may be missing.
LobbyCatchesUp ==
    <>[](inLobby /\ revived = {} => shown = List(Listed))

=============================================================================
