-------------------------- MODULE Scoreboard_proofs --------------------------
(***************************************************************************)
(* Lemmas about Scoreboard: the do-while loop of applyMove that looks for  *)
(* the next turn ends, and where.                                          *)
(***************************************************************************)
EXTENDS Scoreboard, FiniteSetTheorems, WellFoundedInduction, TLAPS

\* A non-empty set of naturals has a least element: the first seat, in turn
\* order, at which the do-while of applyMove can stop.
LEMMA LeastNatural ==
    ASSUME NEW S \in SUBSET Nat, S # {}
    PROVE  \E m \in S : \A k \in S : m <= k
<1> DEFINE Less == OpToRel(<, Nat)
<1>1. IsWellFoundedOn(Less, Nat)
  BY NatLessThanWellFounded
<1>2. \A a, b \in Nat : a < b => <<a, b>> \in Less
  BY DEF OpToRel
<1> HIDE DEF Less
<1>3. PICK m \in S : \A k \in S : <<k, m>> \notin Less
  BY <1>1, WFMin
<1>4. \A k \in S : ~(k < m)
  BY <1>2, <1>3
<1>5. \A k \in S : m <= k
  BY <1>4
<1>6. QED
  BY <1>5

LEMMA FirstNaturals == \A k \in Nat : IsFiniteSet(1..k) /\ Cardinality(1..k) = k
<1>1. TAKE k \in Nat
<1>2. Cardinality(1..k) = IF 1 > k THEN 0 ELSE k - 1 + 1
  BY FS_Interval
<1>3. QED
  BY <1>2, FS_Interval

\* A score a game can have: what the lemmas below need of it.
ScoreOf(g, order) ==
    /\ g.turnOrder = order
    /\ g.currentTurnIndex \in 1..Len(order)
    /\ Len(order) \in Nat \ {0}
    /\ \A i, j \in 1..Len(order) : order[i] = order[j] => i = j

\* While fewer users than seats have finished, the do-while of applyMove has
\* a seat to stop at: the loop ends.
LEMMA OpenSeatExists ==
    ASSUME NEW g, NEW order, ScoreOf(g, order),
           NEW S, NEW finished \in Seq(S), Len(finished) < Len(order)
    PROVE  OpenSeats(g, finished) # {}
<1>1. SUFFICES ASSUME OpenSeats(g, finished) = {}
               PROVE  FALSE
  OBVIOUS
<1>2. \A i \in 1..Len(order) : \E k \in 1..Len(finished) : finished[k].userId = order[i]
  BY <1>1 DEF OpenSeats, ScoreOf, FinishedIds, PlayerCount
<1> DEFINE entry == [i \in 1..Len(order) |->
                        CHOOSE k \in 1..Len(finished) : finished[k].userId = order[i]]
<1>3. \A i \in 1..Len(order) : /\ entry[i] \in 1..Len(finished)
                               /\ finished[entry[i]].userId = order[i]
  BY <1>2
<1>4. entry \in [1..Len(order) -> 1..Len(finished)]
  BY <1>3
<1> HIDE DEF entry
<1>5. \A i, j \in 1..Len(order) : i # j => entry[i] # entry[j]
  BY <1>3 DEF ScoreOf
<1>6. /\ IsFiniteSet(1..Len(order)) /\ IsFiniteSet(1..Len(finished))
      /\ Cardinality(1..Len(finished)) < Cardinality(1..Len(order))
  <2>1. Len(order) \in Int /\ Len(finished) \in Nat
    BY DEF ScoreOf
  <2>2. QED
    BY <2>1, FirstNaturals DEF ScoreOf
<1>7. QED
  BY <1>4, <1>5, <1>6, FS_PigeonHole, SMTT(30)

\* The seat applyMove moves on to is one whose user has not finished.
LEMMA NextTurnIsOpen ==
    ASSUME NEW g, NEW order, ScoreOf(g, order),
           NEW S, NEW finished \in Seq(S), Len(finished) < Len(order)
    PROVE  NextTurnIndex(g, finished) \in OpenSeats(g, finished)
<1> DEFINE Open == OpenSeats(g, finished)
           Waits == {TurnsUntil(g, i) : i \in Open}
<1>1. Open # {} /\ Open \subseteq 1..Len(order)
  BY OpenSeatExists DEF OpenSeats, ScoreOf, PlayerCount
<1>2. \A i \in 1..Len(order) : TurnsUntil(g, i) \in Nat
  BY DEF TurnsUntil, ScoreOf, PlayerCount
<1> HIDE DEF Open
<1>3. Waits \in SUBSET Nat /\ Waits # {}
  BY <1>1, <1>2
<1>4. PICK m \in Waits : \A k \in Waits : m <= k
  BY <1>3, LeastNatural
<1>5. \E i \in Open : \A j \in Open : TurnsUntil(g, i) <= TurnsUntil(g, j)
  BY <1>4
<1>6. (CHOOSE i \in Open : \A j \in Open : TurnsUntil(g, i) <= TurnsUntil(g, j)) \in Open
  BY <1>5
<1>7. Len(finished) \in Nat /\ PlayerCount(g) - Len(finished) > 0
  BY DEF ScoreOf, PlayerCount
<1>8. QED
  BY <1>6, <1>7 DEF NextTurnIndex, Open

-----------------------------------------------------------------------------
(* The order a game is recorded in *)

\* InTurnOrder lists every seat of a finite set once.
LEMMA TurnOrderIsBijection ==
    ASSUME NEW n \in Nat, NEW seats \in SUBSET (1..n)
    PROVE  /\ Cardinality(seats) \in Nat
           /\ InTurnOrder(seats) \in Bijection(1..Cardinality(seats), seats)
<1> DEFINE c == Cardinality(seats)
           UpTo(k) == {j \in seats : j <= k}
           rank == [k \in seats |-> Cardinality(UpTo(k))]
           rest == InTurnOrder(seats)
<1>0. \A k \in seats : k \in Int
  OBVIOUS
<1>1. IsFiniteSet(1..n)
  BY FS_Interval
<1>2. IsFiniteSet(seats) /\ \A k \in seats : IsFiniteSet(UpTo(k)) /\ UpTo(k) \subseteq seats
  BY <1>1, FS_Subset
<1>3. c \in Nat /\ \A k \in seats : Cardinality(UpTo(k)) \in Nat
  BY <1>2, FS_CardinalityType
<1>4. ASSUME NEW k \in seats PROVE Cardinality(UpTo(k)) \in 1..c
  <2>1. Cardinality(UpTo(k)) <= c
    BY <1>2, FS_Subset
  <2>2. Cardinality(UpTo(k)) # 0
    BY <1>2, FS_EmptySet
  <2>3. QED
    BY <1>3, <2>1, <2>2
<1>5. ASSUME NEW j \in seats, NEW k \in seats, j < k
      PROVE  Cardinality(UpTo(j)) # Cardinality(UpTo(k))
  <2>1. UpTo(j) \subseteq UpTo(k) /\ k \in UpTo(k) /\ k \notin UpTo(j)
    <3>1. ASSUME NEW i \in seats, i <= j PROVE i <= k
      <4>1. i \in Int /\ j \in Int /\ k \in Int
        BY <1>0
      <4>2. QED
        BY <1>5, <3>1, <4>1
    <3>2. k <= k /\ ~(k <= j)
      BY <1>0, <1>5
    <3>3. QED
      BY <3>1, <3>2
  <2>2. UpTo(j) # UpTo(k)
    BY <2>1
  <2> HIDE DEF UpTo
  <2>3. QED
    BY <1>2, <2>1, <2>2, FS_Subset
<1>6. rank \in Injection(seats, 1..c)
  <2> HIDE DEF UpTo
  <2>1. rank \in [seats -> 1..c]
    BY <1>4
  <2>2. \A j, k \in seats : rank[j] = rank[k] => j = k
    <3>1. \A j, k \in seats : j < k \/ k < j \/ j = k
      BY <1>0
    <3>2. QED
      BY <1>5, <3>1
  <2> HIDE DEF rank
  <2>3. QED
    BY <2>1, <2>2 DEF Injection, IsInjective
<1>7. IsFiniteSet(1..c) /\ Cardinality(1..c) = c
  BY <1>3, FS_Interval
<1>8. rank \in Surjection(seats, 1..c)
  <2> HIDE DEF rank
  <2>1. QED
    BY <1>6, <1>7, FS_Injection
<1>9. \A i \in 1..c : \E k \in seats : Cardinality(UpTo(k)) = i
  <2>1. \A i \in 1..c : \E k \in seats : rank[k] = i
    <3> HIDE DEF rank
    <3>1. QED
      BY <1>8 DEF Surjection
  <2>2. QED
    BY <2>1
<1>10. \A i \in 1..c : rest[i] \in seats /\ Cardinality(UpTo(rest[i])) = i
  BY <1>9 DEF InTurnOrder
<1>11. rest \in [1..c -> seats]
  <2>1. rest = [i \in 1..c |-> rest[i]]
    BY DEF InTurnOrder
  <2> HIDE DEF rest
  <2>2. QED
    BY <1>10, <2>1
<1>12. \A i, j \in 1..c : rest[i] = rest[j] => i = j
  BY <1>10
<1>13. \A k \in seats : \E i \in 1..c : rest[i] = k
  <2> SUFFICES ASSUME NEW k \in seats PROVE \E i \in 1..c : rest[i] = k
    OBVIOUS
  <2>1. PICK i \in 1..c : Cardinality(UpTo(k)) = i
    BY <1>4
  <2>2. rest[i] \in seats /\ Cardinality(UpTo(rest[i])) = Cardinality(UpTo(k))
    BY <1>10, <2>1
  <2> HIDE DEF rest, UpTo
  <2>3. ~(rest[i] < k) /\ ~(k < rest[i])
    BY <1>5, <2>2
  <2>4. rest[i] \in Int /\ k \in Int
    BY <1>0, <2>2
  <2>5. QED
    BY <2>3, <2>4
<1>14. QED
  <2> HIDE DEF rest
  <2>1. IsInjective(rest)
    BY <1>11, <1>12 DEF IsInjective
  <2>2. rest \in Injection(1..c, seats) /\ rest \in Surjection(1..c, seats)
    BY <1>11, <1>13, <2>1 DEF Injection, Surjection
  <2> HIDE DEF c
  <2>3. rest \in Bijection(1..c, seats)
    BY <2>2 DEF Bijection
  <2>4. QED
    BY <1>3, <2>3 DEF c, rest

\* A score whose finishers are distinct users of the turn order.
Rankable(s) ==
    /\ Len(s.turnOrder) \in Nat
    /\ DOMAIN s.turnOrder = 1..Len(s.turnOrder)
    /\ \A i, j \in DOMAIN s.turnOrder : s.turnOrder[i] = s.turnOrder[j] => i = j
    /\ \E S : s.finishedPlayers \in Seq(S)
    /\ \A i, j \in DOMAIN s.finishedPlayers :
           s.finishedPlayers[i].userId = s.finishedPlayers[j].userId => i = j
    /\ FinishedIds(s.finishedPlayers) \subseteq {s.turnOrder[i] : i \in DOMAIN s.turnOrder}

\* As many seats are open as have not finished.
LEMMA OpenSeatCount ==
    ASSUME NEW s, Rankable(s)
    PROVE  /\ OpenSeats(s, s.finishedPlayers) \in SUBSET (1..Len(s.turnOrder))
           /\ Cardinality(OpenSeats(s, s.finishedPlayers))
                  = Len(s.turnOrder) - Len(s.finishedPlayers)
<1> DEFINE n == Len(s.turnOrder)
           m == Len(s.finishedPlayers)
           f == s.finishedPlayers
           open == OpenSeats(s, f)
           closed == (1..n) \ open
           entry == [i \in closed |-> CHOOSE k \in 1..m : f[k].userId = s.turnOrder[i]]
<1>1. n \in Nat /\ m \in Nat /\ DOMAIN f = 1..m /\ DOMAIN s.turnOrder = 1..n
  BY DEF Rankable
<1>2. open \subseteq 1..n
  BY DEF OpenSeats, PlayerCount
<1>3. \A i \in closed : \E k \in 1..m : f[k].userId = s.turnOrder[i]
  BY <1>1 DEF OpenSeats, PlayerCount, FinishedIds
<1>4. \A k \in 1..m : \E i \in closed : f[k].userId = s.turnOrder[i]
  <2> SUFFICES ASSUME NEW k \in 1..m PROVE \E i \in closed : f[k].userId = s.turnOrder[i]
    OBVIOUS
  <2>1. f[k].userId \in FinishedIds(f)
    BY <1>1 DEF FinishedIds
  <2>2. PICK i \in 1..n : f[k].userId = s.turnOrder[i]
    BY <1>1, <2>1 DEF Rankable
  <2>3. i \in closed
    BY <2>1, <2>2 DEF OpenSeats
  <2>4. QED
    BY <2>2, <2>3
<1>5. \A i \in closed : entry[i] \in 1..m /\ f[entry[i]].userId = s.turnOrder[i]
  BY <1>3
<1>6. /\ \A i, j \in 1..n : s.turnOrder[i] = s.turnOrder[j] => i = j
      /\ \A i, j \in 1..m : f[i].userId = f[j].userId => i = j
  BY <1>1 DEF Rankable
<1>7. entry \in Bijection(closed, 1..m)
  <2>1. entry \in [closed -> 1..m]
    BY <1>5
  <2>2. \A i, j \in closed : entry[i] = entry[j] => i = j
    <3> HIDE DEF entry
    <3>1. QED
      BY <1>5, <1>6
  <2>3. \A k \in 1..m : \E i \in closed : entry[i] = k
    <3> SUFFICES ASSUME NEW k \in 1..m PROVE \E i \in closed : entry[i] = k
      OBVIOUS
    <3>1. PICK i \in closed : f[k].userId = s.turnOrder[i]
      BY <1>4
    <3>2. entry[i] = k
      <4> HIDE DEF entry
      <4>1. QED
        BY <1>5, <1>6, <3>1
    <3>3. QED
      BY <3>2
  <2> HIDE DEF entry, closed
  <2>4. entry \in Injection(closed, 1..m)
    BY <2>1, <2>2 DEF Injection, IsInjective
  <2>5. QED
    BY <2>1, <2>3, <2>4 DEF Bijection, Surjection
<1> HIDE DEF entry
<1>8. IsFiniteSet(1..n) /\ Cardinality(1..n) = n /\ Cardinality(1..m) = m
  BY <1>1, FirstNaturals
<1>9. IsFiniteSet(closed) /\ Cardinality(closed) = m
  <2>1. IsFiniteSet(closed)
    BY <1>8, FS_Subset
  <2>2. ExistsBijection(closed, 1..m)
    BY <1>7 DEF ExistsBijection
  <2> HIDE DEF closed
  <2>3. QED
    BY <1>8, <2>1, <2>2, FS_Bijection
<1>10. Cardinality((1..n) \ closed) = n - m
  <2>1. (1..n) \intersect closed = closed
    OBVIOUS
  <2> HIDE DEF closed
  <2>2. QED
    <3>1. Cardinality((1..n) \ closed) = Cardinality(1..n) - Cardinality((1..n) \intersect closed)
      BY <1>8, FS_Difference
    <3>2. QED
      BY <1>8, <1>9, <2>1, <3>1
<1>11. (1..n) \ closed = open
  BY <1>2
<1>12. QED
  BY <1>2, <1>10, <1>11

LEMMA Concatenated ==
    ASSUME NEW T, NEW f \in Seq(T), NEW g \in Seq(T)
    PROVE  /\ f \o g \in Seq(T) /\ Len(f \o g) = Len(f) + Len(g)
           /\ DOMAIN (f \o g) = 1..(Len(f) + Len(g))
           /\ \A i \in 1..Len(f) : (f \o g)[i] = f[i]
           /\ \A i \in 1..(Len(f) + Len(g)) : i > Len(f) => (f \o g)[i] = g[i - Len(f)]
  OBVIOUS

\* persistCompletedGame ranks every user of the turn order once: first those
\* who have finished, as they did, then the others, each by its place.
LEMMA FinishOrderRanks ==
    ASSUME NEW s, Rankable(s)
    PROVE  LET order == FinishOrder(s)
               m == Len(s.finishedPlayers)
               n == Len(s.turnOrder)
           IN  /\ m \in Nat /\ m <= n /\ Len(order) = n /\ DOMAIN order = 1..n
               /\ \A i \in 1..m : order[i] = s.finishedPlayers[i]
               /\ \E T : order \in Seq(T)
               /\ \A i \in 1..n : i > m => /\ order[i] = [userId |-> order[i].userId, finishPos |-> i]
                                          /\ order[i].finishPos = i
                                          /\ order[i].userId \notin FinishedIds(s.finishedPlayers)
               /\ \A i \in 1..n : \E k \in 1..n : order[i].userId = s.turnOrder[k]
               /\ \A i, j \in 1..n : order[i].userId = order[j].userId => i = j
<1> DEFINE f == s.finishedPlayers
           m == Len(f)
           n == Len(s.turnOrder)
           open == OpenSeats(s, f)
           c == Cardinality(open)
           rest == InTurnOrder(open)
           tail == [i \in 1..c |-> [userId |-> s.turnOrder[rest[i]], finishPos |-> m + i]]
           order == FinishOrder(s)
<1>1. n \in Nat /\ m \in Nat /\ DOMAIN f = 1..m /\ DOMAIN s.turnOrder = 1..n
  BY DEF Rankable
<1>2. open \in SUBSET (1..n) /\ c = n - m
  BY OpenSeatCount
<1>3. c \in Nat /\ rest \in Bijection(1..c, open)
  BY <1>1, <1>2, TurnOrderIsBijection
<1>4. /\ rest \in [1..c -> open]
      /\ \A i, j \in 1..c : rest[i] = rest[j] => i = j
  BY <1>3 DEF Bijection, Injection, IsInjective
<1>5. order = f \o tail
  <2>1. DOMAIN rest = 1..c
    BY <1>4
  <2> HIDE DEF rest, c
  <2>2. QED
    BY <2>1 DEF FinishOrder, rest
<1>6. PICK S : f \in Seq(S)
  BY DEF Rankable
<1> HIDE DEF rest, c, order
<1>7. tail \in Seq({tail[i] : i \in 1..c}) /\ Len(tail) = c
  BY <1>3
<1>8. /\ Len(order) = m + c /\ DOMAIN order = 1..(m + c)
      /\ \A i \in 1..m : order[i] = f[i]
      /\ \A i \in 1..(m + c) : i > m => order[i] = tail[i - m]
      /\ \E T : order \in Seq(T)
  <2> DEFINE T == S \union {tail[i] : i \in 1..c}
  <2>1. f \in Seq(T) /\ tail \in Seq(T)
    BY <1>6, <1>7
  <2>2. Len(tail) = c
    BY <1>7
  <2> HIDE DEF T, tail, f
  <2>3. QED
    BY <1>5, <2>1, <2>2, Concatenated
<1>9. m + c = n /\ m <= n
  BY <1>1, <1>2, <1>3
<1>10. \A i \in 1..m : order[i] = f[i]
  BY <1>8
<1>11. ASSUME NEW i \in 1..n, i > m
       PROVE  /\ i - m \in 1..c /\ order[i].finishPos = i
              /\ order[i].userId = s.turnOrder[rest[i - m]]
              /\ order[i] = [userId |-> order[i].userId, finishPos |-> i]
  <2>1. i - m \in 1..c
    BY <1>1, <1>9, <1>11, <1>3
  <2>2. order[i] = tail[i - m]
    BY <1>8, <1>9, <1>11
  <2>3. tail[i - m] = [userId |-> s.turnOrder[rest[i - m]], finishPos |-> m + (i - m)]
    BY <2>1
  <2>4. m + (i - m) = i
    BY <1>1
  <2>5. QED
    BY <2>1, <2>2, <2>3, <2>4
<1>12. ASSUME NEW i \in 1..n, i > m
       PROVE  /\ rest[i - m] \in 1..n
              /\ order[i].userId \notin FinishedIds(f)
  <2>1. rest[i - m] \in open
    BY <1>4, <1>11, <1>12
  <2>2. s.turnOrder[rest[i - m]] \notin FinishedIds(f)
    BY <2>1 DEF OpenSeats
  <2>3. QED
    BY <1>2, <1>11, <1>12, <2>1, <2>2
<1>13. ASSUME NEW i \in 1..n, ~(i > m)
       PROVE  /\ i \in 1..m /\ order[i].userId \in FinishedIds(f)
              /\ \E k \in 1..n : order[i].userId = s.turnOrder[k]
  <2>1. i \in 1..m
    BY <1>1, <1>13
  <2>2. order[i].userId \in FinishedIds(f)
    BY <1>1, <1>10, <2>1 DEF FinishedIds
  <2>3. QED
    BY <1>1, <2>1, <2>2 DEF Rankable
<1>14. ASSUME NEW i \in 1..n, NEW j \in 1..n, order[i].userId = order[j].userId
       PROVE  i = j
  <2>1. CASE i > m /\ j > m
    <3>1. rest[i - m] = rest[j - m]
      <4>1. s.turnOrder[rest[i - m]] = s.turnOrder[rest[j - m]]
        BY <1>11, <1>14, <2>1
      <4>2. rest[i - m] \in 1..n /\ rest[j - m] \in 1..n
        BY <1>12, <2>1
      <4>3. QED
        BY <1>1, <4>1, <4>2 DEF Rankable
    <3>2. i - m = j - m
      BY <1>4, <1>11, <2>1, <3>1
    <3>3. QED
      BY <1>1, <3>2
  <2>2. CASE ~(i > m) /\ ~(j > m)
    BY <1>1, <1>10, <1>13, <1>14, <2>2 DEF Rankable
  <2>3. CASE (i > m) # (j > m)
    BY <1>12, <1>13, <1>14, <2>3
  <2>4. QED
    BY <2>1, <2>2, <2>3
<1>15. \A i \in 1..n : \E k \in 1..n : order[i].userId = s.turnOrder[k]
  BY <1>11, <1>12, <1>13, ZenonT(30)
<1>16. QED
  BY <1>1, <1>8, <1>9, <1>10, <1>11, <1>12, <1>14, <1>15 DEF order

\* The order depends on who plays and who has finished, and on nothing else.
LEMMA SameFinishOrder ==
    ASSUME NEW s, NEW a, a.turnOrder = s.turnOrder, a.finishedPlayers = s.finishedPlayers
    PROVE  FinishOrder(a) = FinishOrder(s)
<1>1. OpenSeats(a, a.finishedPlayers) = OpenSeats(s, s.finishedPlayers)
  BY DEF OpenSeats, PlayerCount
<1>2. QED
  BY <1>1 DEF FinishOrder

\* One user is left and now finishes last: it was ranked last already.
LEMMA LastRankedLast ==
    ASSUME NEW s, Rankable(s), NEW a, NEW u,
           Len(s.finishedPlayers) >= Len(s.turnOrder) - 1,
           u \in {s.turnOrder[i] : i \in DOMAIN s.turnOrder},
           u \notin FinishedIds(s.finishedPlayers),
           a.turnOrder = s.turnOrder,
           a.finishedPlayers = Append(s.finishedPlayers,
                                      [userId |-> u, finishPos |-> Len(s.turnOrder)])
    PROVE  FinishOrder(a) = FinishOrder(s)
<1> DEFINE f == s.finishedPlayers
           m == Len(f)
           n == Len(s.turnOrder)
           e == [userId |-> u, finishPos |-> n]
           g == Append(f, e)
           before == FinishOrder(s)
           after == FinishOrder(a)
<1>1. PICK S : f \in Seq(S)
  BY DEF Rankable
<1>2. n \in Nat /\ m \in Nat /\ DOMAIN f = 1..m /\ e.userId = u
  BY <1>1 DEF Rankable
<1>3. /\ g \in Seq(S \union {e}) /\ Len(g) = m + 1 /\ DOMAIN g = 1..(m + 1)
      /\ g[m + 1] = e /\ \A i \in 1..m : g[i] = f[i]
  <2>1. f \in Seq(S \union {e}) /\ e \in S \union {e}
    BY <1>1
  <2> HIDE DEF e
  <2>2. QED
    BY <1>2, <2>1
<1>4. FinishedIds(g) = FinishedIds(f) \union {u}
  <2> HIDE DEF g, e, f
  <2>1. QED
    BY <1>2, <1>3 DEF FinishedIds
<1>5. Rankable(a)
  <2> HIDE DEF g, e
  <2>1. a.finishedPlayers = g
    BY DEF g, e
  <2>2. \A i, j \in DOMAIN g : g[i].userId = g[j].userId => i = j
    <3>1. \A i \in 1..m : f[i].userId # u
      BY <1>2 DEF FinishedIds
    <3>2. SUFFICES ASSUME NEW i \in 1..(m + 1), NEW j \in 1..(m + 1), g[i].userId = g[j].userId
                   PROVE  i = j
      BY <1>3
    <3>3. \A k \in 1..(m + 1) : k \in 1..m \/ k = m + 1
      BY <1>2
    <3>4. CASE i \in 1..m /\ j \in 1..m
      BY <1>2, <1>3, <3>2, <3>4 DEF Rankable
    <3>5. CASE i = m + 1 /\ j = m + 1
      BY <3>5
    <3>6. CASE (i \in 1..m /\ j = m + 1) \/ (i = m + 1 /\ j \in 1..m)
      BY <1>2, <1>3, <3>1, <3>2, <3>6
    <3>7. QED
      BY <3>3, <3>4, <3>5, <3>6
  <2>3. FinishedIds(g) \subseteq {s.turnOrder[i] : i \in DOMAIN s.turnOrder}
    <3>1. FinishedIds(f) \subseteq {s.turnOrder[i] : i \in DOMAIN s.turnOrder}
      BY DEF Rankable
    <3>2. QED
      BY <1>4, <3>1
  <2>4. \E T : g \in Seq(T)
    BY <1>3
  <2>5. /\ Len(a.turnOrder) \in Nat /\ DOMAIN a.turnOrder = 1..Len(a.turnOrder)
        /\ \A i, j \in DOMAIN a.turnOrder : a.turnOrder[i] = a.turnOrder[j] => i = j
    BY DEF Rankable
  <2> HIDE DEF n
  <2>6. QED
    BY ONLY <2>1, <2>2, <2>3, <2>4, <2>5, a.turnOrder = s.turnOrder DEF Rankable
<1>6. /\ m <= n /\ Len(before) = n /\ DOMAIN before = 1..n
      /\ \A i \in 1..m : before[i] = f[i]
      /\ \E T : before \in Seq(T)
      /\ \A i \in 1..n : i > m => /\ before[i] = [userId |-> before[i].userId, finishPos |-> i]
                                 /\ before[i].userId \notin FinishedIds(f)
      /\ \A i \in 1..n : \E k \in 1..n : before[i].userId = s.turnOrder[k]
  BY FinishOrderRanks
<1>7. /\ m + 1 <= n /\ Len(after) = n
      /\ \A i \in 1..(m + 1) : after[i] = g[i]
      /\ \E T : after \in Seq(T)
  <2>1. /\ Len(g) <= n /\ Len(after) = n
        /\ \A i \in 1..Len(g) : after[i] = g[i]
        /\ \E T : after \in Seq(T)
    <3>1. a.finishedPlayers = g
      OBVIOUS
    <3> HIDE DEF g, after
    <3>2. /\ Len(a.finishedPlayers) <= Len(a.turnOrder)
          /\ Len(FinishOrder(a)) = Len(a.turnOrder)
          /\ \A i \in 1..Len(a.finishedPlayers) : FinishOrder(a)[i] = a.finishedPlayers[i]
          /\ \E T : FinishOrder(a) \in Seq(T)
      BY <1>5, FinishOrderRanks
    <3>3. QED
      BY <3>1, <3>2 DEF after
  <2> HIDE DEF g, after
  <2>2. QED
    BY <1>3, <2>1
<1>8. n = m + 1
  BY <1>2, <1>7
<1>9. \A k \in 1..n : s.turnOrder[k] \in FinishedIds(g)
  <2>1. /\ OpenSeats(a, g) \in SUBSET (1..n) /\ Cardinality(OpenSeats(a, g)) = n - Len(g)
    BY <1>5, OpenSeatCount
  <2>2. IsFiniteSet(OpenSeats(a, g))
    BY <1>2, <2>1, FirstNaturals, FS_Subset
  <2>3. n - Len(g) = 0
    BY <1>2, <1>3, <1>8
  <2>4. OpenSeats(a, g) = {}
    BY <2>1, <2>2, <2>3, FS_EmptySet
  <2> HIDE DEF g
  <2>5. QED
    BY <2>4 DEF OpenSeats, PlayerCount
<1> HIDE DEF before, after, g, e, f
<1>10. before[n] = e
  <2>1. n \in 1..n /\ n > m
    BY <1>2, <1>8
  <2>2. PICK k \in 1..n : before[n].userId = s.turnOrder[k]
    BY <1>6, <2>1
  <2>3. before[n].userId = u
    BY <1>4, <1>6, <1>9, <2>1, <2>2
  <2>4. QED
    BY <1>6, <2>1, <2>3 DEF e
<1>11. \A i \in 1..n : after[i] = before[i]
  <2>1. SUFFICES ASSUME NEW i \in 1..n PROVE after[i] = before[i]
    OBVIOUS
  <2>2. i \in 1..(m + 1)
    BY <1>8
  <2>3. CASE i \in 1..m
    BY <1>3, <1>6, <1>7, <2>2, <2>3
  <2>4. CASE i = m + 1
    BY <1>3, <1>7, <1>8, <1>10, <2>2, <2>4
  <2>5. QED
    BY <1>2, <2>2, <2>3, <2>4
<1>12. before = [i \in 1..n |-> before[i]] /\ after = [i \in 1..n |-> after[i]]
  <2>1. PICK T : before \in Seq(T)
    BY <1>6
  <2>2. PICK V : after \in Seq(V)
    BY <1>7
  <2>3. QED
    BY <1>6, <1>7, <2>1, <2>2
<1>13. QED
  BY <1>11, <1>12 DEF before, after

=============================================================================
