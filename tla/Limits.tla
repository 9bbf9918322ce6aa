------------------------------- MODULE Limits -------------------------------
(***************************************************************************)
(* The two limiters, for one subject of one route and for one user: the    *)
(* sliding window that rateLimit keeps in a Redis sorted set, and the      *)
(* fixed window that consumeMoveToken keeps in memory.  Both end with the  *)
(* process: the sorted set stays, but its name is drawn at start-up.       *)
(***************************************************************************)
EXTENDS Sums

CONSTANTS
    Window, MaxServed,      \* windowMs, max
    MoveWindow, MaxMoves,   \* MOVE_RATE_WINDOW_MS, MOVE_RATE_MAX
    MaxNow,                 \* bound: the last moment that is looked at
    MaxHits                 \* bound: the requests of one moment

ASSUME LimitsAssumption ==
    /\ {Window, MaxServed, MoveWindow, MaxMoves} \subseteq Nat \ {0}
    /\ {MaxNow, MaxHits} \subseteq Nat

VARIABLES
    now,
    hits,       \* the sorted set: how many members have each score
    served,     \* ghost: how many requests of each moment reached their handler
    bucket,     \* moveBuckets: count and resetAt, or NoBucket
    played      \* ghost: how many move attempts of each moment were let through

limitsVars == <<now, hits, served, bucket, played>>

Moments == 0..MaxNow
Never == [t \in Moments |-> 0]
NoBucket == [count |-> 0, resetAt |-> 0]

\* The window of the given length that ends at t.
Last(length, t) == {x \in Moments : t - length < x /\ x <= t}

-----------------------------------------------------------------------------
Tick == now < MaxNow /\ now' = now + 1 /\ UNCHANGED <<hits, served, bucket, played>>

\* Mutant: scores are evicted one moment early.
Recorded_Early ==
    [t \in Moments |-> IF t <= now - Window + 1 /\ t < now THEN 0
                       ELSE IF t = now THEN hits[t] + 1 ELSE hits[t]]

\* The transaction: evict what has left the window, add, count.  A request that
\* will be refused is added too.
Recorded ==
    [t \in Moments |-> IF t <= now - Window THEN 0
                       ELSE IF t = now THEN hits[t] + 1 ELSE hits[t]]

RateLimit ==
    /\ hits[now] < MaxHits
    /\ hits' = Recorded
    /\ served' = IF Total(hits', Moments) <= MaxServed THEN [served EXCEPT ![now] = @ + 1]
                                                       ELSE served
    /\ UNCHANGED <<now, bucket, played>>

\* Mutant: one more than the limit.
HasToken_OneMore == bucket.count <= MaxMoves

HasToken == bucket.count < MaxMoves

ConsumeMoveToken ==
    /\ \/ /\ bucket.resetAt <= now
          /\ bucket' = [count |-> 1, resetAt |-> now + MoveWindow]
       \/ /\ bucket.resetAt > now /\ HasToken
          /\ bucket' = [bucket EXCEPT !.count = @ + 1]
    /\ played' = [played EXCEPT ![now] = @ + 1]
    /\ UNCHANGED <<now, hits, served>>

\* The buckets of another process are new; the windows start over.
Restart ==
    /\ hits' = Never /\ served' = Never
    /\ bucket' = NoBucket /\ played' = Never
    /\ UNCHANGED now

LimitsInit ==
    /\ now = 0
    /\ hits = Never /\ served = Never
    /\ bucket = NoBucket /\ played = Never

LimitsNext == Tick \/ RateLimit \/ ConsumeMoveToken \/ Restart

LimitsSpec == LimitsInit /\ [][LimitsNext]_limitsVars

-----------------------------------------------------------------------------
\* Since the process came up, no span of a window's length has served more
\* requests than the limit, wherever it begins and however many were refused.
ServedPerWindow == \A t \in Moments : Total(served, Last(Window, t)) <= MaxServed

\* A fixed window lets through as much as two of its lengths may, but no more,
\* in any span of its length.
PlayedPerWindow == \A t \in Moments : Total(played, Last(MoveWindow, t)) <= 2 * MaxMoves

=============================================================================
