-------------------------- MODULE Accounts_proofs ---------------------------
(***************************************************************************)
(* What the server keeps about accounts beside their sessions: rate limits *)
(* (Limits), and ratings, seats and the leaderboard (Ledger). The first    *)
(* part holds the lemmas on sums over finite sets that both need.          *)
(***************************************************************************)
EXTENDS Ledger, Limits, Scoreboard_proofs, FiniteSetTheorems, WellFoundedInduction, TLAPS

-----------------------------------------------------------------------------
(* Sums over finite sets                                                     *)

\* Induction on finite sets
LEMMA Smallest ==
    ASSUME NEW S, NEW T \in SUBSET FiniteSubsetsOf(S), T # {}
    PROVE  \E x \in T : \A y \in T : ~(y \subseteq x /\ y # x)
<1>1. \E x \in T : \A y \in T : ~ (<<y, x>> \in StrictSubsetOrdering(S))
  BY FS_StrictSubsetOrderingWellFounded, WFMin
<1>2. QED
  BY <1>1 DEF StrictSubsetOrdering, FiniteSubsetsOf

\* The sum over each subset of S, an element at a time.
Partial(f, S, g) ==
    g = [s \in SUBSET S |->
            IF s = {} THEN 0
            ELSE f[CHOOSE x \in s : TRUE] + g[s \ {CHOOSE x \in s : TRUE}]]

LEMMA TotalIs ==
    ASSUME NEW f, NEW S
    PROVE Total(f, S) = (CHOOSE g : Partial(f, S, g))[S]
  BY DEF Total, MapThenSumSet, MapThenFoldSet, Partial

\* two partial-sum functions agree
LEMMA PartialAgree ==
    ASSUME NEW f, NEW S, NEW S2, IsFiniteSet(S), NEW g, NEW h, Partial(f, S, g), Partial(f, S2, h),
           NEW s, s \subseteq S, s \subseteq S2
    PROVE  g[s] = h[s]
<1> SUFFICES ASSUME g[s] # h[s] PROVE FALSE
  OBVIOUS
<1> DEFINE Bad == {x \in SUBSET S : x \subseteq S2 /\ g[x] # h[x]}
<1>1. Bad \in SUBSET FiniteSubsetsOf(S) /\ Bad # {}
  BY FS_Subset DEF FiniteSubsetsOf
<1>2. PICK b \in Bad : \A y \in Bad : ~(y \subseteq b /\ y # b)
  <2> HIDE DEF Bad
  <2>1. QED
    BY <1>1, Smallest
<1>3. b # {}
  BY DEF Partial
<1> DEFINE e == CHOOSE x \in b : TRUE
<1>4. e \in b
  BY <1>3
<1>5. g[b \ {e}] = h[b \ {e}]
  BY <1>2, <1>4
<1>6. g[b] = f[e] + g[b \ {e}] /\ h[b] = f[e] + h[b \ {e}]
  BY <1>3 DEF Partial
<1>7. QED
  BY <1>5, <1>6

\* they exist
LEMMA PartialExists ==
    ASSUME NEW f, NEW S, IsFiniteSet(S)
    PROVE  \E g : Partial(f, S, g)
<1> DEFINE Bad == {x \in SUBSET S : ~\E g : Partial(f, x, g)}
<1> SUFFICES ASSUME Bad # {} PROVE FALSE
  OBVIOUS
<1>1. Bad \in SUBSET FiniteSubsetsOf(S)
  BY FS_Subset DEF FiniteSubsetsOf
<1>2. PICK b \in Bad : \A y \in Bad : ~(y \subseteq b /\ y # b)
  <2> HIDE DEF Bad
  <2>1. QED
    BY <1>1, Smallest
<1>f. \A y \in SUBSET b : IsFiniteSet(y)
  BY FS_Subset
<1> DEFINE e(s) == CHOOSE x \in s : TRUE
           G(y) == CHOOSE g : Partial(f, y, g)
           v(s) == IF s = {} THEN 0 ELSE f[e(s)] + G(s \ {e(s)})[s \ {e(s)}]
           h == [s \in SUBSET b |-> v(s)]
<1>3. ASSUME NEW y \in SUBSET b, y # b PROVE Partial(f, y, G(y))
  BY <1>2, <1>3
<1>4. ASSUME NEW s \in SUBSET b, s # b, s # {} PROVE h[s] = G(s)[s]
  <2>0. e(s) \in s
    BY <1>4
  <2>1. Partial(f, s, G(s)) /\ Partial(f, s \ {e(s)}, G(s \ {e(s)}))
    BY <1>3, <1>4, <2>0
  <2>2. G(s)[s] = f[e(s)] + G(s)[s \ {e(s)}]
    BY <2>1, <1>4 DEF Partial
  <2>3. G(s)[s \ {e(s)}] = G(s \ {e(s)})[s \ {e(s)}]
    BY <2>1, <1>f, PartialAgree
  <2>4. QED
    BY <2>2, <2>3, <1>4
<1>5. ASSUME NEW s \in SUBSET b, s # {} PROVE h[s] = f[e(s)] + h[s \ {e(s)}]
  <2>0. e(s) \in s
    BY <1>5
  <2>1. CASE s \ {e(s)} = {}
    <3>1. Partial(f, {}, G({}))
      BY <1>3, <1>5, <2>0
    <3>2. G({})[{}] = 0
      BY <3>1 DEF Partial
    <3>3. h[s] = f[e(s)] + G(s \ {e(s)})[s \ {e(s)}]
      BY <1>5
    <3>4. h[{}] = 0
      OBVIOUS
    <3> HIDE DEF h, G, e
    <3>5. QED
      BY <3>2, <3>3, <3>4, <2>1
  <2>2. CASE s \ {e(s)} # {}
    BY <2>2, <1>4, <2>0, <1>5
  <2>3. QED
    BY <2>1, <2>2
<1>6. Partial(f, b, h)
  <2>1. h[{}] = 0
    OBVIOUS
  <2>2. h = [s \in SUBSET b |-> h[s]]
    OBVIOUS
  <2> HIDE DEF h
  <2>3. \A s \in SUBSET b : h[s] = IF s = {} THEN 0 ELSE f[e(s)] + h[s \ {e(s)}]
    BY <1>5, <2>1
  <2>4. QED
    BY <2>2, <2>3 DEF Partial
<1>7. QED
  BY <1>6

LEMMA TotalFits ==
    ASSUME NEW f, NEW S, IsFiniteSet(S), NEW T, T \subseteq S, NEW g, Partial(f, S, g)
    PROVE  Total(f, T) = g[T]
<1>1. IsFiniteSet(T)
  BY FS_Subset
<1>2. Partial(f, T, CHOOSE h : Partial(f, T, h))
  BY <1>1, PartialExists
<1>3. (CHOOSE h : Partial(f, T, h))[T] = g[T]
  <2> DEFINE h == CHOOSE h : Partial(f, T, h)
  <2>1. Partial(f, T, h)
    BY <1>2
  <2> HIDE DEF h
  <2>2. h[T] = g[T]
    BY <2>1, <1>1, PartialAgree
  <2>3. QED
    BY <2>2 DEF h
<1>4. QED
  BY <1>3, TotalIs

LEMMA TotalEmpty == \A f : Total(f, {}) = 0
<1> TAKE f
<1>1. PICK g : Partial(f, {}, g)
  BY FS_EmptySet, PartialExists
<1>2. g[{}] = 0
  BY <1>1 DEF Partial
<1>3. QED
  BY <1>1, <1>2, FS_EmptySet, TotalFits

LEMMA TotalChosen ==
    ASSUME NEW f, NEW S, IsFiniteSet(S), S # {}
    PROVE  \E x \in S : Total(f, S) = f[x] + Total(f, S \ {x})
<1> DEFINE e == CHOOSE x \in S : TRUE
<1>1. PICK g : Partial(f, S, g)
  BY PartialExists
<1>2. g[S] = f[e] + g[S \ {e}]
  BY <1>1 DEF Partial
<1>3. Total(f, S) = g[S] /\ Total(f, S \ {e}) = g[S \ {e}]
  BY <1>1, TotalFits
<1>4. e \in S
  OBVIOUS
<1>5. QED
  BY <1>2, <1>3, <1>4

LEMMA TotalInt ==
    ASSUME NEW f, NEW S, IsFiniteSet(S), \A x \in S : f[x] \in Int
    PROVE  Total(f, S) \in Int
<1> DEFINE Bad == {T \in SUBSET S : Total(f, T) \notin Int}
<1> SUFFICES ASSUME Bad # {} PROVE FALSE
  OBVIOUS
<1>1. Bad \in SUBSET FiniteSubsetsOf(S)
  BY FS_Subset DEF FiniteSubsetsOf
<1>2. PICK b \in Bad : \A y \in Bad : ~(y \subseteq b /\ y # b)
  <2> HIDE DEF Bad
  <2>1. QED
    BY <1>1, Smallest
<1>3. b # {}
  BY TotalEmpty
<1>4. PICK x \in b : Total(f, b) = f[x] + Total(f, b \ {x})
  BY <1>1, <1>3, TotalChosen, FS_Subset
<1>5. Total(f, b \ {x}) \in Int
  BY <1>2
<1>6. QED
  BY <1>4, <1>5

\* The order of a sum is immaterial.
LEMMA TotalRemove ==
    ASSUME NEW f, NEW S, IsFiniteSet(S), \A x \in S : f[x] \in Int, NEW z \in S
    PROVE  Total(f, S) = f[z] + Total(f, S \ {z})
<1> DEFINE Bad == {T \in SUBSET S : \E y \in T : Total(f, T) # f[y] + Total(f, T \ {y})}
<1> SUFFICES ASSUME Bad # {} PROVE FALSE
  OBVIOUS
<1>1. Bad \in SUBSET FiniteSubsetsOf(S)
  BY FS_Subset DEF FiniteSubsetsOf
<1>2. PICK b \in Bad : \A y \in Bad : ~(y \subseteq b /\ y # b)
  <2> HIDE DEF Bad
  <2>1. QED
    BY <1>1, Smallest
<1>3. PICK y \in b : Total(f, b) # f[y] + Total(f, b \ {y})
  OBVIOUS
<1>4. PICK x \in b : Total(f, b) = f[x] + Total(f, b \ {x})
  BY <1>1, <1>3, TotalChosen, FS_Subset
<1>5. x # y
  BY <1>3, <1>4
<1>6. Total(f, b \ {x}) = f[y] + Total(f, (b \ {x}) \ {y})
  BY <1>2, <1>5, b \ {x} \notin Bad
<1>7. Total(f, b \ {y}) = f[x] + Total(f, (b \ {y}) \ {x})
  BY <1>2, <1>5, b \ {y} \notin Bad
<1>8. (b \ {x}) \ {y} = (b \ {y}) \ {x}
  OBVIOUS
<1>9. f[x] \in Int /\ f[y] \in Int /\ Total(f, (b \ {x}) \ {y}) \in Int
  BY TotalInt, FS_Subset
<1>10. QED
  BY <1>3, <1>4, <1>6, <1>7, <1>8, <1>9

LEMMA TotalAgree ==
    ASSUME NEW f, NEW g, NEW S, IsFiniteSet(S), \A x \in S : f[x] = g[x]
    PROVE  Total(f, S) = Total(g, S)
<1>1. PICK h : Partial(f, S, h)
  BY PartialExists
<1>2. Partial(g, S, h)
  <2>1. \A s \in SUBSET S : s # {} => (CHOOSE x \in s : TRUE) \in S
    OBVIOUS
  <2>2. QED
    BY <1>1, <2>1 DEF Partial
<1>3. QED
  BY <1>1, <1>2, TotalFits

\* A sum that leaves nothing out but zeros of another with larger terms.
LEMMA TotalBound ==
    ASSUME NEW f, NEW g, NEW S, IsFiniteSet(S), NEW T, IsFiniteSet(T),
           \A x \in S : f[x] \in Nat, \A x \in T : g[x] \in Nat,
           \A x \in S : f[x] # 0 => x \in T /\ f[x] <= g[x]
    PROVE  Total(f, S) <= Total(g, T)
<1> DEFINE Bad == {b \in SUBSET S : ~(Total(f, b) <= Total(g, b \intersect T))}
<1>0. \A b \in SUBSET S : IsFiniteSet(b) /\ IsFiniteSet(b \intersect T)
  BY FS_Subset
<1>1. Bad = {}
  <2> SUFFICES ASSUME Bad # {} PROVE FALSE
    OBVIOUS
  <2>1. Bad \in SUBSET FiniteSubsetsOf(S)
    BY FS_Subset DEF FiniteSubsetsOf
  <2>2. PICK b \in Bad : \A y \in Bad : ~(y \subseteq b /\ y # b)
    <3> HIDE DEF Bad
    <3>1. QED
      BY <2>1, Smallest
  <2>3. b # {}
    BY TotalEmpty
  <2>4. PICK x \in b : TRUE
    BY <2>3
  <2>5. Total(f, b) = f[x] + Total(f, b \ {x})
    BY <1>0, TotalRemove
  <2>6. Total(f, b \ {x}) <= Total(g, (b \ {x}) \intersect T)
    BY <2>2, b \ {x} \notin Bad
  <2>7. /\ Total(f, b \ {x}) \in Int /\ Total(g, (b \ {x}) \intersect T) \in Int
        /\ Total(f, b) \in Int /\ Total(g, b \intersect T) \in Int
    BY <1>0, TotalInt
  <2>8. CASE x \in T
    <3>1. Total(g, b \intersect T) = g[x] + Total(g, (b \intersect T) \ {x})
      BY <1>0, <2>8, TotalRemove
    <3>2. (b \intersect T) \ {x} = (b \ {x}) \intersect T
      OBVIOUS
    <3>3. f[x] <= g[x]
      BY <2>8
    <3>4. QED
      BY <2>5, <2>6, <2>7, <3>1, <3>2, <3>3
  <2>9. CASE x \notin T
    <3>1. f[x] = 0 /\ b \intersect T = (b \ {x}) \intersect T
      BY <2>9
    <3>2. Total(f, b) = Total(f, b \ {x})
      BY <2>5, <2>7, <3>1
    <3>3. QED
      BY <2>6, <3>1, <3>2
  <2>10. QED
    BY <2>8, <2>9
<1>2. Total(f, S) <= Total(g, S \intersect T)
  BY <1>1
<1>3. Total(g, S \intersect T) <= Total(g, T)
  <2> DEFINE Worse == {b \in SUBSET T : S \intersect T \subseteq b /\ ~(Total(g, S \intersect T) <= Total(g, b))}
  <2> SUFFICES ASSUME Worse # {} PROVE FALSE
    OBVIOUS
  <2>1. Worse \in SUBSET FiniteSubsetsOf(T)
    BY FS_Subset DEF FiniteSubsetsOf
  <2>2. PICK b \in Worse : \A y \in Worse : ~(y \subseteq b /\ y # b)
    <3> HIDE DEF Worse
    <3>1. QED
      BY <2>1, Smallest
  <2>3. IsFiniteSet(b) /\ Total(g, b) \in Int /\ Total(g, S \intersect T) \in Int
    BY FS_Subset, TotalInt
  <2>4. PICK x \in b : x \notin S \intersect T
    BY <2>3
  <2>5. Total(g, b) = g[x] + Total(g, b \ {x})
    BY <2>3, TotalRemove
  <2>6. Total(g, b \ {x}) \in Int
    BY <2>3, FS_Subset, TotalInt
  <2>7. Total(g, S \intersect T) <= Total(g, b \ {x})
    BY <2>2, <2>4, b \ {x} \notin Worse
  <2>8. QED
    BY <2>3, <2>5, <2>6, <2>7
<1>4. QED
  BY <1>0, <1>2, <1>3, TotalInt

LEMMA TotalNat ==
    ASSUME NEW f, NEW S, IsFiniteSet(S), \A x \in S : f[x] \in Nat
    PROVE  Total(f, S) \in Nat
<1>1. Total(f, {}) <= Total(f, S)
  BY FS_EmptySet, TotalBound
<1>2. QED
  BY <1>1, TotalEmpty, TotalInt

LEMMA TotalUnion ==
    ASSUME NEW f, NEW S, IsFiniteSet(S), NEW T, IsFiniteSet(T), S \intersect T = {},
           \A x \in S \union T : f[x] \in Int
    PROVE  Total(f, S \union T) = Total(f, S) + Total(f, T)
<1> DEFINE Bad == {b \in SUBSET S : Total(f, b \union T) # Total(f, b) + Total(f, T)}
<1> SUFFICES ASSUME Bad # {} PROVE FALSE
  OBVIOUS
<1>1. Bad \in SUBSET FiniteSubsetsOf(S)
  BY FS_Subset DEF FiniteSubsetsOf
<1>2. PICK b \in Bad : \A y \in Bad : ~(y \subseteq b /\ y # b)
  <2> HIDE DEF Bad
  <2>1. QED
    BY <1>1, Smallest
<1>3. IsFiniteSet(b) /\ IsFiniteSet(b \union T)
  BY FS_Subset, FS_Union
<1>4. PICK x \in b : TRUE
  BY TotalEmpty, TotalInt
<1>5. /\ Total(f, b) = f[x] + Total(f, b \ {x})
      /\ Total(f, b \union T) = f[x] + Total(f, (b \union T) \ {x})
  BY <1>3, TotalRemove
<1>6. (b \union T) \ {x} = (b \ {x}) \union T
  OBVIOUS
<1>7. Total(f, (b \ {x}) \union T) = Total(f, b \ {x}) + Total(f, T)
  BY <1>2, b \ {x} \notin Bad
<1>8. f[x] \in Int /\ Total(f, b \ {x}) \in Int /\ Total(f, T) \in Int
  BY <1>3, FS_Subset, TotalInt
<1>9. Total(f, b \union T) = f[x] + (Total(f, b \ {x}) + Total(f, T))
  BY <1>5, <1>6, <1>7
<1>10. Total(f, b \union T) = Total(f, b) + Total(f, T)
  BY <1>5, <1>8, <1>9
<1>11. QED
  BY <1>10

LEMMA TotalPlus ==
    ASSUME NEW f, NEW g, NEW h, NEW S, IsFiniteSet(S),
           \A x \in S : f[x] \in Int /\ g[x] \in Int /\ h[x] = f[x] + g[x]
    PROVE  Total(h, S) = Total(f, S) + Total(g, S)
<1> DEFINE Bad == {b \in SUBSET S : Total(h, b) # Total(f, b) + Total(g, b)}
<1> SUFFICES ASSUME Bad # {} PROVE FALSE
  OBVIOUS
<1>1. Bad \in SUBSET FiniteSubsetsOf(S)
  BY FS_Subset DEF FiniteSubsetsOf
<1>2. PICK b \in Bad : \A y \in Bad : ~(y \subseteq b /\ y # b)
  <2> HIDE DEF Bad
  <2>1. QED
    BY <1>1, Smallest
<1>3. IsFiniteSet(b) /\ \A x \in S : h[x] \in Int
  BY FS_Subset
<1>4. PICK x \in b : TRUE
  <2>1. Total(h, {}) = 0 /\ Total(f, {}) = 0 /\ Total(g, {}) = 0
    BY TotalEmpty
  <2>2. Total(h, {}) = Total(f, {}) + Total(g, {})
    BY <2>1
  <2>3. QED
    BY <2>2
<1>5. /\ Total(f, b) = f[x] + Total(f, b \ {x})
      /\ Total(g, b) = g[x] + Total(g, b \ {x})
      /\ Total(h, b) = h[x] + Total(h, b \ {x})
  BY <1>3, TotalRemove
<1>6. Total(h, b \ {x}) = Total(f, b \ {x}) + Total(g, b \ {x})
  BY <1>2, b \ {x} \notin Bad
<1>7. Total(f, b \ {x}) \in Int /\ Total(g, b \ {x}) \in Int
  BY <1>3, FS_Subset, TotalInt
<1>8. h[x] = f[x] + g[x] /\ f[x] \in Int /\ g[x] \in Int
  OBVIOUS
<1>9. Total(h, b) = Total(f, b) + Total(g, b)
  BY <1>5, <1>6, <1>7, <1>8
<1>10. QED
  BY <1>9

LEMMA TotalZero ==
    ASSUME NEW f, NEW S, IsFiniteSet(S), \A x \in S : f[x] = 0
    PROVE  Total(f, S) = 0
<1>1. Total(f, S) = Total(f, S) + Total(f, S)
  BY TotalPlus
<1>2. Total(f, S) \in Int
  BY TotalInt
<1>3. \A t \in Int : t = t + t => t = 0
  OBVIOUS
<1>4. QED
  BY <1>1, <1>2, <1>3

\* What one gains of each other the other loses: all gains together are nothing.
LEMMA TotalCancels ==
    ASSUME NEW p, NEW S, IsFiniteSet(S),
           \A i, j \in S : p[i][j] \in Int,
           \A i, j \in S : i # j => p[i][j] = -p[j][i]
    PROVE  Total([i \in S |-> Total(p[i], S \ {i})], S) = 0
<1> DEFINE Gains(b) == [i \in b |-> Total(p[i], b \ {i})]
           Bad == {b \in SUBSET S : Total(Gains(b), b) # 0}
<1> SUFFICES ASSUME Bad # {} PROVE FALSE
  OBVIOUS
<1>1. Bad \in SUBSET FiniteSubsetsOf(S)
  BY FS_Subset DEF FiniteSubsetsOf
<1>2. PICK b \in Bad : \A y \in Bad : ~(y \subseteq b /\ y # b)
  <2> HIDE DEF Bad
  <2>1. QED
    BY <1>1, Smallest
<1>3. PICK z \in b : TRUE
  BY TotalEmpty
<1> DEFINE c == b \ {z}
           here == Gains(b)
           rest == Gains(c)
           from == [i \in c |-> p[i][z]]
<1>4. /\ b \subseteq S /\ IsFiniteSet(b) /\ IsFiniteSet(c)
      /\ \A i \in b : IsFiniteSet(b \ {i}) /\ IsFiniteSet(c \ {i})
  BY FS_Subset
<1>5. \A i \in b : here[i] = Total(p[i], b \ {i}) /\ here[i] \in Int
  BY <1>4, TotalInt
<1>6. \A i \in c : rest[i] = Total(p[i], c \ {i}) /\ rest[i] \in Int
  BY <1>4, TotalInt
<1>7. Total(rest, c) = 0
  BY <1>2, c \notin Bad
<1>8. ASSUME NEW i \in c PROVE here[i] = from[i] + rest[i]
  <2>1. z \in b \ {i} /\ (b \ {i}) \ {z} = c \ {i} /\ IsFiniteSet(b \ {i})
    BY <1>4
  <2>2. \A j \in b \ {i} : p[i][j] \in Int
    BY <1>4
  <2>3. Total(p[i], b \ {i}) = p[i][z] + Total(p[i], (b \ {i}) \ {z})
    BY <2>1, <2>2, TotalRemove
  <2>4. QED
    BY <1>5, <1>6, <2>1, <2>3
<1>9. here[z] = Total(p[z], c)
  BY <1>5
<1>10. \A i \in c : from[i] \in Int /\ p[z][i] \in Int /\ p[z][i] = -from[i]
  BY <1>4
<1> HIDE DEF here, rest, from, c
<1>11. Total(here, b) = here[z] + Total(here, c)
  <2>1. IsFiniteSet(b) /\ \A i \in b : here[i] \in Int
    BY <1>4, <1>5
  <2>2. Total(here, b) = here[z] + Total(here, b \ {z})
    BY ONLY <2>1, z \in b, TotalRemove
  <2>3. QED
    BY <2>2 DEF c
<1>12. Total(here, c) = Total(from, c) + Total(rest, c)
  <2>1. \A i \in c : from[i] \in Int /\ rest[i] \in Int /\ here[i] = from[i] + rest[i]
    BY <1>6, <1>8, <1>10
  <2>2. QED
    BY <1>4, <2>1, TotalPlus
<1>13. Total(p[z], c) + Total(from, c) = 0
  <2> DEFINE none == [i \in c |-> 0]
  <2>1. \A i \in c : none[i] = p[z][i] + from[i] /\ none[i] = 0
    BY <1>10
  <2> HIDE DEF none
  <2>2. Total(none, c) = 0
    BY <1>4, <2>1, TotalZero
  <2>3. Total(none, c) = Total(p[z], c) + Total(from, c)
    BY <1>4, <1>10, <2>1, TotalPlus
  <2>4. QED
    BY <2>2, <2>3
<1>14. Total(p[z], c) \in Int /\ Total(from, c) \in Int
  BY <1>4, <1>10, TotalInt
<1>15. Total(here, b) = 0
  BY <1>7, <1>9, <1>11, <1>12, <1>13, <1>14
<1>16. QED
  BY <1>15 DEF here

\* Each term is a fraction of x with the denominator d, rounded by half at most.
LEMMA TotalRounds ==
    ASSUME NEW x, NEW r, NEW S, IsFiniteSet(S), NEW d \in {1, 2, 3, 5},
           \A i \in S : /\ x[i] \in Int /\ r[i] \in Int
                        /\ 2 * x[i] - d <= 2 * d * r[i] /\ 2 * d * r[i] <= 2 * x[i] + d
    PROVE  /\ 2 * Total(x, S) - d * Cardinality(S) <= 2 * d * Total(r, S)
           /\ 2 * d * Total(r, S) <= 2 * Total(x, S) + d * Cardinality(S)
<1> DEFINE Near(b) ==
        /\ 2 * Total(x, b) - d * Cardinality(b) <= 2 * d * Total(r, b)
        /\ 2 * d * Total(r, b) <= 2 * Total(x, b) + d * Cardinality(b)
           Bad == {b \in SUBSET S : ~Near(b)}
<1> SUFFICES ASSUME Bad # {} PROVE FALSE
  OBVIOUS
<1>1. Bad \in SUBSET FiniteSubsetsOf(S)
  BY FS_Subset DEF FiniteSubsetsOf
<1>2. PICK b \in Bad : \A y \in Bad : ~(y \subseteq b /\ y # b)
  <2> HIDE DEF Bad
  <2>1. QED
    BY <1>1, Smallest
<1>3. IsFiniteSet(b) /\ b \subseteq S
  BY FS_Subset
<1>4. b # {}
  <2>1. Total(x, {}) = 0 /\ Total(r, {}) = 0 /\ Cardinality({}) = 0
    BY TotalEmpty, FS_EmptySet
  <2>2. Near({})
    BY <2>1
  <2>3. QED
    BY <2>2
<1>5. PICK z \in b : TRUE
  BY <1>4
<1> DEFINE c == b \ {z}
<1>6. Near(c)
  BY <1>2, c \notin Bad
<1>7. /\ Total(x, b) = x[z] + Total(x, c) /\ Total(r, b) = r[z] + Total(r, c)
      /\ IsFiniteSet(c) /\ Cardinality(b) = Cardinality(c) + 1
  <2>1. Total(x, b) = x[z] + Total(x, c) /\ Total(r, b) = r[z] + Total(r, c)
    BY <1>3, TotalRemove
  <2>2. IsFiniteSet(c) /\ Cardinality(c) = Cardinality(b) - 1
    BY <1>3, FS_RemoveElement
  <2>3. Cardinality(b) \in Nat
    BY <1>3, FS_CardinalityType
  <2>4. QED
    BY <2>1, <2>2, <2>3
<1> HIDE DEF c
<1>8. /\ x[z] \in Int /\ r[z] \in Int /\ Total(x, c) \in Int /\ Total(r, c) \in Int
      /\ Cardinality(c) \in Nat
      /\ 2 * x[z] - d <= 2 * d * r[z] /\ 2 * d * r[z] <= 2 * x[z] + d
  BY <1>3, <1>7, TotalInt, FS_CardinalityType DEF c
<1>9. Near(b)
  <2>1. CASE d = 1
    BY <1>6, <1>7, <1>8, <2>1
  <2>2. CASE d = 2
    BY <1>6, <1>7, <1>8, <2>2
  <2>3. CASE d = 3
    BY <1>6, <1>7, <1>8, <2>3
  <2>4. CASE d = 5
    BY <1>6, <1>7, <1>8, <2>4
  <2>5. QED
    BY <2>1, <2>2, <2>3, <2>4
<1>10. QED
  BY <1>9

-----------------------------------------------------------------------------
(***************************************************************************)
(* Rate limits, for any limits, windows and length of time: no window of   *)
(* the HTTP limiter serves more requests, and no window of the move        *)
(* limiter plays more moves, than the code allows.                         *)
(***************************************************************************)

LimitsTypeOK ==
    /\ now \in Moments
    /\ {hits, served, played} \subseteq [Moments -> Nat]
    /\ bucket \in [count : Nat, resetAt : Nat]

\* Nothing was served or played later than now, nor served without being hit
\* within the window.
HitsCount ==
    /\ \A t \in Moments : t > now => served[t] = 0 /\ played[t] = 0
    /\ \A t \in Moments : t > now - Window => served[t] <= hits[t]

\* The moments of the current bucket, and those just before it: one more bucket at most.
Current == {t \in Moments : bucket.resetAt - MoveWindow <= t}
Before  == {t \in Moments : bucket.resetAt - 2 * MoveWindow < t /\ t < bucket.resetAt - MoveWindow}

BucketCounts ==
    /\ bucket.resetAt <= now + MoveWindow
    /\ \A t \in Moments : t >= bucket.resetAt => played[t] = 0
    /\ bucket.count <= MaxMoves
    /\ Total(played, Current) <= bucket.count
    /\ Total(played, Before) <= MaxMoves

LimitsInv == LimitsTypeOK /\ HitsCount /\ BucketCounts /\ ServedPerWindow /\ PlayedPerWindow

-----------------------------------------------------------------------------
LEMMA SomeMoments == \A S \in SUBSET Moments : IsFiniteSet(S)
<1>1. IsFiniteSet(Moments)
  BY FS_Interval, LimitsAssumption DEF Moments
<1>2. QED
  BY <1>1, FS_Subset

LEMMA NoneAtAll == \A S \in SUBSET Moments : Total(Never, S) = 0
<1> TAKE S \in SUBSET Moments
<1>1. IsFiniteSet(S) /\ IsFiniteSet({})
  BY SomeMoments
<1>2. Total(Never, S) <= Total(Never, {})
  BY <1>1, TotalBound DEF Never
<1>3. Total(Never, S) \in Nat
  BY <1>1, TotalNat DEF Never
<1>4. QED
  BY <1>2, <1>3, TotalEmpty

LEMMA OneMore ==
    ASSUME NEW f \in [Moments -> Nat], NEW g \in [Moments -> Nat], NEW n \in Moments,
           g[n] = f[n] + 1, \A x \in Moments \ {n} : g[x] = f[x], NEW S \in SUBSET Moments
    PROVE  Total(g, S) = IF n \in S THEN Total(f, S) + 1 ELSE Total(f, S)
<1>1. IsFiniteSet(S) /\ IsFiniteSet(S \ {n})
  BY SomeMoments
<1>2. /\ \A x \in S : f[x] \in Int /\ g[x] \in Int
      /\ \A x \in S \ {n} : g[x] = f[x]
      /\ g[n] = f[n] + 1
  OBVIOUS
<1>3. Total(g, S \ {n}) = Total(f, S \ {n})
  BY <1>1, <1>2, TotalAgree
<1>4. CASE n \in S
  <2>1a. Total(g, S) = g[n] + Total(g, S \ {n})
    BY <1>1, <1>2, <1>4, TotalRemove
  <2>1b. Total(f, S) = f[n] + Total(f, S \ {n})
    BY <1>1, <1>2, <1>4, TotalRemove
  <2>2. Total(f, S \ {n}) \in Int /\ f[n] \in Int
    BY <1>1, <1>2, TotalInt
  <2>3. QED
    BY <1>2, <1>3, <1>4, <2>1a, <2>1b, <2>2
<1>5. CASE n \notin S
  <2>1. S \ {n} = S
    BY <1>5
  <2>2. QED
    BY <1>3, <1>5, <2>1
<1>6. QED
  BY <1>4, <1>5

LEMMA WithIn ==
    ASSUME NEW f \in [Moments -> Nat], NEW S \in SUBSET Moments, NEW T \in SUBSET Moments,
           \A x \in S : f[x] # 0 => x \in T
    PROVE  Total(f, S) <= Total(f, T)
<1>1. IsFiniteSet(S) /\ IsFiniteSet(T)
  BY SomeMoments
<1>2. QED
  BY <1>1, TotalBound

LEMMA TotalsOfMoments ==
    ASSUME NEW f \in [Moments -> Nat], NEW S \in SUBSET Moments
    PROVE  Total(f, S) \in Nat
  BY SomeMoments, TotalNat

LEMMA Constants == /\ Window \in Nat /\ MaxServed \in Nat /\ MoveWindow \in Nat /\ MaxMoves \in Nat
                   /\ Window > 0 /\ MaxServed > 0 /\ MoveWindow > 0 /\ MaxMoves > 0
                   /\ \A t \in Moments : t \in Nat
  BY LimitsAssumption DEF Moments

LEMMA InitLimits == LimitsInit => LimitsInv
<1> SUFFICES ASSUME LimitsInit PROVE LimitsInv
  OBVIOUS
<1>1. now = 0 /\ now \in Moments
  BY LimitsAssumption DEF LimitsInit, Moments
<1>2. Never \in [Moments -> Nat] /\ bucket = [count |-> 0, resetAt |-> 0]
  BY DEF Never, LimitsInit, NoBucket
<1>3. LimitsTypeOK /\ HitsCount
  BY <1>1, <1>2, Constants DEF LimitsInit, LimitsTypeOK, HitsCount, Never
<1>4. \A S \in SUBSET Moments : Total(served, S) = 0 /\ Total(played, S) = 0
  BY NoneAtAll DEF LimitsInit
<1>5. BucketCounts
  <2>1. Current \in SUBSET Moments /\ Before \in SUBSET Moments
    BY DEF Current, Before
  <2>2. Total(played, Current) = 0 /\ Total(played, Before) = 0
    BY <1>4, <2>1
  <2>3. \A t \in Moments : played[t] = 0
    BY DEF LimitsInit, Never
  <2>4. QED
    BY <1>1, <1>2, <2>2, <2>3, Constants DEF BucketCounts
<1>6. ServedPerWindow /\ PlayedPerWindow
  BY <1>4, Constants DEF ServedPerWindow, PlayedPerWindow, Last
<1>7. QED
  BY <1>3, <1>5, <1>6 DEF LimitsInv

LEMMA RestartKeeps == LimitsInv /\ Restart => LimitsInv'
<1> SUFFICES ASSUME LimitsInv, Restart PROVE LimitsInv'
  OBVIOUS
<1>2. Never \in [Moments -> Nat] /\ bucket' = [count |-> 0, resetAt |-> 0] /\ now' \in Moments
  BY DEF Never, Restart, NoBucket, LimitsInv, LimitsTypeOK
<1>3. LimitsTypeOK' /\ HitsCount'
  BY <1>2, Constants DEF Restart, LimitsTypeOK, HitsCount, Never
<1>4. \A S \in SUBSET Moments : Total(served', S) = 0 /\ Total(played', S) = 0
  BY NoneAtAll DEF Restart
<1>5. BucketCounts'
  <2>1. Current' \in SUBSET Moments /\ Before' \in SUBSET Moments
    BY DEF Current, Before
  <2>2. Total(played', Current') = 0 /\ Total(played', Before') = 0
    BY <1>4, <2>1
  <2>3. \A t \in Moments : played'[t] = 0
    BY DEF Restart, Never
  <2>4. QED
    BY <1>2, <2>2, <2>3, Constants DEF BucketCounts
<1>6. ServedPerWindow' /\ PlayedPerWindow'
  BY <1>4, Constants DEF ServedPerWindow, PlayedPerWindow, Last
<1>7. QED
  BY <1>3, <1>5, <1>6 DEF LimitsInv

LEMMA TickKeeps == LimitsInv /\ Tick => LimitsInv'
<1> SUFFICES ASSUME LimitsInv, Tick PROVE LimitsInv'
  OBVIOUS
<1>1. now' = now + 1 /\ now' \in Moments /\ now \in Nat /\ bucket.resetAt \in Nat
      /\ UNCHANGED <<hits, served, bucket, played>>
  BY LimitsAssumption DEF Tick, LimitsInv, LimitsTypeOK, Moments
<1>2. LimitsTypeOK' /\ HitsCount'
  BY <1>1, Constants DEF LimitsInv, LimitsTypeOK, HitsCount
<1>3. BucketCounts'
  BY <1>1, Constants DEF LimitsInv, BucketCounts, Current, Before
<1>4. ServedPerWindow' /\ PlayedPerWindow'
  BY <1>1 DEF LimitsInv, ServedPerWindow, PlayedPerWindow
<1>5. QED
  BY <1>2, <1>3, <1>4 DEF LimitsInv

LEMMA RateLimitKeeps == LimitsInv /\ RateLimit => LimitsInv'
<1> SUFFICES ASSUME LimitsInv, RateLimit PROVE LimitsInv'
  OBVIOUS
<1>1. /\ now \in Moments /\ now \in Nat /\ hits \in [Moments -> Nat] /\ served \in [Moments -> Nat]
      /\ UNCHANGED <<now, bucket, played>>
  BY Constants DEF RateLimit, LimitsInv, LimitsTypeOK
<1>2. /\ hits' \in [Moments -> Nat]
      /\ \A t \in Moments : t > now - Window =>
              hits'[t] = IF t = now THEN hits[t] + 1 ELSE hits[t]
  BY <1>1, Constants DEF RateLimit, Recorded
<1>3. \/ UNCHANGED served
      \/ /\ Total(hits', Moments) <= MaxServed
         /\ served' = [served EXCEPT ![now] = @ + 1]
  BY DEF RateLimit
<1>4. served' \in [Moments -> Nat] /\ LimitsTypeOK'
  BY <1>1, <1>2, <1>3 DEF LimitsInv, LimitsTypeOK
<1>5. HitsCount'
  BY <1>1, <1>2, <1>3, Constants DEF LimitsInv, HitsCount
<1>6. ServedPerWindow'
  <2> SUFFICES ASSUME NEW t \in Moments PROVE Total(served', Last(Window, t)) <= MaxServed
    BY DEF ServedPerWindow
  <2> DEFINE W == Last(Window, t)
  <2>1. W \in SUBSET Moments /\ Total(served, W) <= MaxServed
    BY DEF LimitsInv, ServedPerWindow, Last
  <2>2. CASE UNCHANGED served
    BY <2>1, <2>2
  <2>3. CASE served' = [served EXCEPT ![now] = @ + 1] /\ now \notin W
    <3>1. served'[now] = served[now] + 1 /\ \A x \in Moments \ {now} : served'[x] = served[x]
      BY <1>1, <2>3
    <3>2. Total(served', W) = Total(served, W)
      <4> HIDE DEF W
      <4>1. now \notin W
        BY <2>3
      <4>2. QED
        BY <1>1, <1>4, <2>1, <3>1, <4>1, OneMore
    <3>3. QED
      BY <2>1, <3>2
  <2>4. CASE Total(hits', Moments) <= MaxServed /\ now \in W
    <3>1. \A x \in W : served'[x] # 0 => served'[x] <= hits'[x]
      BY <1>1, <1>2, <1>4, <1>5, <2>4, Constants DEF HitsCount, Last
    <3>2. IsFiniteSet(W) /\ IsFiniteSet(Moments)
      BY SomeMoments, <2>1
    <3>3. Total(served', W) <= Total(hits', Moments)
      <4> HIDE DEF W
      <4>1. QED
        BY <1>2, <1>4, <2>1, <3>1, <3>2, TotalBound
    <3>4. Total(served', W) \in Nat /\ Total(hits', Moments) \in Nat
      BY <1>2, <1>4, <2>1, TotalsOfMoments
    <3>5. QED
      BY <2>4, <3>3, <3>4, Constants
  <2>5. QED
    BY <1>3, <2>2, <2>3, <2>4
<1>7. BucketCounts' /\ PlayedPerWindow'
  BY <1>1 DEF LimitsInv, BucketCounts, Current, Before, PlayedPerWindow
<1>8. QED
  BY <1>4, <1>5, <1>6, <1>7 DEF LimitsInv

LEMMA TokenKeeps == LimitsInv /\ ConsumeMoveToken => LimitsInv'
<1> SUFFICES ASSUME LimitsInv, ConsumeMoveToken PROVE LimitsInv'
  OBVIOUS
<1>0. PICK r : r = bucket.resetAt
  OBVIOUS
<1>1. /\ now \in Moments /\ now \in Nat /\ played \in [Moments -> Nat] /\ r \in Nat
      /\ bucket.count \in Nat /\ UNCHANGED <<now, hits, served>>
      /\ played' = [played EXCEPT ![now] = @ + 1]
      /\ MoveWindow \in Nat /\ MaxMoves \in Nat /\ MoveWindow > 0 /\ MaxMoves > 0
  BY <1>0, Constants DEF ConsumeMoveToken, LimitsInv, LimitsTypeOK
<1>2. /\ played' \in [Moments -> Nat]
      /\ \A S \in SUBSET Moments :
             Total(played', S) = IF now \in S THEN Total(played, S) + 1 ELSE Total(played, S)
  <2>1. played' \in [Moments -> Nat]
    BY <1>1
  <2>2. played'[now] = played[now] + 1 /\ \A x \in Moments \ {now} : played'[x] = played[x]
    BY <1>1
  <2>3. played \in [Moments -> Nat] /\ now \in Moments
    BY <1>1
  <2>4. ASSUME NEW S \in SUBSET Moments
        PROVE  Total(played', S) = IF now \in S THEN Total(played, S) + 1 ELSE Total(played, S)
    BY <2>1, <2>2, <2>3, OneMore
  <2>5. QED
    BY <2>1, <2>4
<1>3. /\ \A t \in Moments : t > now \/ t >= r => played[t] = 0
      /\ r <= now + MoveWindow /\ bucket.count <= MaxMoves
      /\ Total(played, Current) <= bucket.count /\ Total(played, Before) <= MaxMoves
  BY <1>0 DEF LimitsInv, HitsCount, BucketCounts
<1>4. /\ {Current, Before, Current', Before'} \subseteq SUBSET Moments
      /\ \A t \in Moments : Last(MoveWindow, t) \in SUBSET Moments
  BY DEF Current, Before, Last
<1>c. \A x \in Moments : /\ x \in Current <=> r - MoveWindow <= x
                         /\ x \in Before <=> r - 2 * MoveWindow < x /\ x < r - MoveWindow
  BY <1>0 DEF Current, Before
<1>d. r \in Int /\ MoveWindow \in Int /\ \A x \in Moments : x \in Int
  BY <1>1, Constants
<1>e. Current \subseteq Moments /\ Before \subseteq Moments
  BY DEF Current, Before
<1>5. \A S \in SUBSET Moments : Total(played, S) \in Nat /\ Total(played', S) \in Nat
  BY <1>1, <1>2, TotalsOfMoments
<1>6. HitsCount'
  BY <1>1 DEF LimitsInv, HitsCount
<1>7. ServedPerWindow'
  BY <1>1 DEF LimitsInv, ServedPerWindow
<1>8. CASE r <= now /\ bucket' = [count |-> 1, resetAt |-> now + MoveWindow]
  <2>1. bucket'.resetAt = now + MoveWindow /\ bucket'.count = 1
    BY <1>8
  <2>2. now \in Current' /\ now \notin Before'
    BY <1>1, <2>1 DEF Current, Before
  <2>3. Total(played, Current') = 0
    <3>1. Total(played, Current') <= Total(played, {})
      BY <1>1, <1>3, <1>4, <1>8, <2>1, WithIn, Constants DEF Current
    <3>2. QED
      BY <3>1, <1>4, <1>5, TotalEmpty
  <2>4. Total(played, Before') <= Total(played, Current)
    <3>1. \A x \in Before' : x \in Current \/ played[x] = 0
      <4>1. \A x \in Before' : x \in Moments /\ x > r - MoveWindow
        BY <1>0, <1>1, <1>8, <2>1, Constants DEF Before
      <4>2. QED
        BY <1>c, <1>d, <4>1
    <3>2. played \in [Moments -> Nat] /\ Before' \in SUBSET Moments /\ Current \in SUBSET Moments
      BY <1>1, <1>4
    <3>3. QED
      BY <3>1, <3>2, WithIn
  <2>5. BucketCounts'
    <3>1. \A t \in Moments : t >= now + MoveWindow => played'[t] = 0
      BY <1>1, <1>3, Constants
    <3>2. Total(played', Current') = 1 /\ Total(played', Before') = Total(played, Before')
      BY <1>2, <1>4, <2>2, <2>3
    <3>3. Total(played', Before') <= MaxMoves
      BY <3>2, <2>4, <1>1, <1>3, <1>4, <1>5
    <3>4. QED
      BY <1>1, <2>1, <3>1, <3>2, <3>3 DEF BucketCounts
  <2>6. ASSUME NEW t \in Moments PROVE Total(played', Last(MoveWindow, t)) <= 2 * MaxMoves
    <3>1. CASE now \notin Last(MoveWindow, t)
      BY <1>2, <1>4, <3>1 DEF LimitsInv, PlayedPerWindow
    <3>2. CASE now \in Last(MoveWindow, t)
      <4>1. \A x \in Last(MoveWindow, t) : x >= r - MoveWindow
        BY <1>1, <1>8, <3>2, Constants DEF Last
      <4>2. Total(played, Last(MoveWindow, t)) <= Total(played, Current)
        <5>1. \A x \in Last(MoveWindow, t) : x \in Current
          BY <4>1, <1>0, <1>1, <1>4, Constants DEF Current
        <5>2. /\ played \in [Moments -> Nat] /\ Current \in SUBSET Moments
              /\ Last(MoveWindow, t) \in SUBSET Moments
          BY <1>1, <1>4
        <5>3. QED
          BY <5>1, <5>2, WithIn
      <4>3. Total(played', Last(MoveWindow, t)) = Total(played, Last(MoveWindow, t)) + 1
        BY <3>2, <1>2, <1>4
      <4>4. /\ Total(played, Last(MoveWindow, t)) \in Nat /\ Total(played, Current) \in Nat
            /\ Total(played, Current) <= MaxMoves
        BY <1>1, <1>3, <1>4, <1>5
      <4>5. QED
        BY <4>2, <4>3, <4>4, Constants
    <3>3. QED
      BY <3>1, <3>2
  <2>7. LimitsTypeOK'
    BY <1>1, <1>2, <1>8 DEF LimitsInv, LimitsTypeOK
  <2>8. QED
    BY <1>6, <1>7, <2>5, <2>6, <2>7 DEF LimitsInv, PlayedPerWindow
<1>9. CASE r > now /\ HasToken /\ bucket' = [bucket EXCEPT !.count = @ + 1]
  <2>1. /\ bucket' \in [count : Nat, resetAt : Nat]
        /\ bucket'.resetAt = r /\ bucket'.count = bucket.count + 1 /\ bucket'.count <= MaxMoves
    BY <1>0, <1>1, <1>9 DEF HasToken, LimitsInv, LimitsTypeOK
  <2>2. Current' = Current /\ Before' = Before /\ now \in Current /\ now \notin Before
    <3>1. Current' = Current /\ Before' = Before
      BY <1>0, <2>1 DEF Current, Before
    <3>2. now \in Current /\ now \notin Before
      BY <1>0, <1>1, <1>3 DEF Current, Before
    <3>3. QED
      BY <3>1, <3>2
  <2>3. Total(played', Current) <= bucket'.count /\ Total(played', Before) <= MaxMoves
    <3>1. Total(played', Current) = Total(played, Current) + 1
      BY <1>2, <1>4, <2>2
    <3>2. Total(played', Before) = Total(played, Before)
      BY <1>2, <1>4, <2>2
    <3>3. Total(played, Current) \in Nat
      BY <1>4, <1>5
    <3>4. QED
      BY <1>1, <1>3, <2>1, <3>1, <3>2, <3>3
  <2>4. BucketCounts'
    <3>1. \A t \in Moments : t >= r => played'[t] = 0
      BY <1>1, <1>3, <1>9
    <3>2. QED
      BY <1>1, <1>3, <2>1, <2>2, <2>3, <3>1 DEF BucketCounts
  <2>5. ASSUME NEW t \in Moments PROVE Total(played', Last(MoveWindow, t)) <= 2 * MaxMoves
    <3>1. CASE now \notin Last(MoveWindow, t)
      BY <1>2, <1>4, <3>1 DEF LimitsInv, PlayedPerWindow
    <3>2. CASE now \in Last(MoveWindow, t)
      <4>1. \A x \in Last(MoveWindow, t) : x > r - 2 * MoveWindow
        BY <1>1, <1>3, <3>2, Constants DEF Last
      <4>2. Last(MoveWindow, t) \subseteq Current \union Before
        <5>1. \A x \in Last(MoveWindow, t) : x \in Moments
          BY DEF Last
        <5> SUFFICES ASSUME NEW x \in Last(MoveWindow, t) PROVE x \in Current \/ x \in Before
          OBVIOUS
        <5>2. x \in Int /\ x > r - 2 * MoveWindow
          BY <4>1, <5>1, <1>d
        <5>3. r - MoveWindow <= x \/ x < r - MoveWindow
          BY <5>2, <1>d
        <5>4. QED
          BY <1>c, <5>1, <5>2, <5>3
      <4>3. Total(played', Last(MoveWindow, t)) <= Total(played', Current \union Before)
        BY <4>2, <1>2, <1>4, WithIn
      <4>4. Total(played', Current \union Before) = Total(played', Current) + Total(played', Before)
        <5>1. Current \intersect Before = {}
          <6> SUFFICES ASSUME NEW x \in Current, x \in Before PROVE FALSE
            OBVIOUS
          <6>1. x \in Int /\ r - MoveWindow <= x /\ x < r - MoveWindow
            BY <1>c, <1>d, <1>e
          <6>2. QED
            BY <6>1, <1>d
        <5>2. IsFiniteSet(Current) /\ IsFiniteSet(Before) /\ \A x \in Current \union Before : played'[x] \in Int
          BY <1>2, <1>4, SomeMoments
        <5>3. QED
          BY <5>1, <5>2, TotalUnion
      <4>5. /\ Total(played', Current) \in Nat /\ Total(played', Before) \in Nat
            /\ Total(played', Last(MoveWindow, t)) \in Nat /\ bucket'.count \in Nat
        BY <1>4, <1>5, <1>1, <2>1
      <4>6. QED
        BY <4>3, <4>4, <4>5, <2>1, <2>3, <1>1
    <3>3. QED
      BY <3>1, <3>2
  <2>6. LimitsTypeOK'
    BY <1>1, <1>2, <2>1 DEF LimitsInv, LimitsTypeOK
  <2>7. QED
    BY <1>6, <1>7, <2>4, <2>5, <2>6 DEF LimitsInv, PlayedPerWindow
<1>10. QED
  BY <1>0, <1>8, <1>9 DEF ConsumeMoveToken

LEMMA LimitsInvariant == LimitsSpec => []LimitsInv
<1>1. LimitsInv /\ [LimitsNext]_limitsVars => LimitsInv'
  <2> SUFFICES ASSUME LimitsInv, [LimitsNext]_limitsVars PROVE LimitsInv'
    OBVIOUS
  <2>1. CASE UNCHANGED limitsVars
    BY <2>1 DEF limitsVars, LimitsInv, LimitsTypeOK, HitsCount, BucketCounts, Current, Before,
                ServedPerWindow, PlayedPerWindow
  <2>2. QED
    BY <2>1, TickKeeps, RateLimitKeeps, TokenKeeps, RestartKeeps DEF LimitsNext
<1>2. QED
  BY <1>1, InitLimits, PTL DEF LimitsSpec

\* Since the process came up, no span of a window's length has served more
\* requests than rateLimit allows, wherever the span begins.
THEOREM WindowsAreServed == LimitsSpec => []ServedPerWindow
  BY LimitsInvariant, PTL DEF LimitsInv

\* consumeMoveToken lets through at most twice its limit in any such span.
THEOREM WindowsArePlayed == LimitsSpec => []PlayedPerWindow
  BY LimitsInvariant, PTL DEF LimitsInv

-----------------------------------------------------------------------------
(***************************************************************************)
(* Theorems about Ledger, for any accounts, games and outcomes, any number *)
(* of transactions at once and any failures.                               *)
(***************************************************************************)

-----------------------------------------------------------------------------
(* The rows                                                                *)

OrderOf(g) == FinishOrder(persists[g].score)

UsersOf(order, k) == {order[i].userId : i \in 1..k}

Busy(g) == persists[g].pc \in {"read", "write"}

\* Whom a seat refers to: the player, or the stand-in of a deleted account.
Now(u) == IF u \in accounts THEN u ELSE StandIn(u)

SeatRow(seat) == seat = [user |-> seat.user, pos |-> seat.pos, before |-> seat.before,
                     delta |-> seat.delta]

SeatsFor(seats, order) ==
    /\ Len(seats) = Len(order) /\ \E T : seats \in Seq(T)
    /\ \A i \in DOMAIN seats : /\ SeatRow(seats[i])
                               /\ seats[i].user = Now(order[i].userId)
                               /\ seats[i].pos = order[i].finishPos

\* A transaction reads the ratings of all players, then finds the accounts it
\* has written a seat for still there.
Transaction(g) ==
    LET p == persists[g]
        n == Len(OrderOf(g))
    IN  /\ p = [pc |-> p.pc, score |-> p.score, at |-> p.at, before |-> p.before]
        /\ p.pc \in {"none", "read", "write", "done", "failed"}
        /\ p.pc # "none" => p.score \in Outcomes
        /\ p.pc = "read" => p.at \in 1..n /\ DOMAIN p.before = UsersOf(OrderOf(g), p.at - 1)
        /\ p.pc = "write" => /\ p.at \in 1..(n + 1) /\ DOMAIN p.before = UsersOf(OrderOf(g), n)
                             /\ UsersOf(OrderOf(g), p.at - 1) \subseteq accounts
        /\ p.pc # "done" => games[g] = <<>>
        /\ p.pc = "done" => SeatsFor(games[g], OrderOf(g))

TablesOK ==
    /\ accounts \subseteq Players
    /\ DOMAIN rating = Players /\ \A u \in Players : DOMAIN rating[u] = Modes
    /\ DOMAIN games = GameIds /\ DOMAIN persists = GameIds /\ DOMAIN deletions = Players
    /\ \A u \in Players \ accounts, m \in Modes : rating[u][m] = NoRating
    /\ \A u \in Players, m \in Modes : rating[u][m].present \in BOOLEAN
    /\ IsFiniteSet({g \in GameIds : persists[g].pc = "done"})

\* The recorded games of a mode that seat a player.
Played(u, m) ==
    {g \in GameIds : /\ persists[g].pc = "done" /\ ModeOf(persists[g].score) = m
                     /\ \E i \in DOMAIN OrderOf(g) : OrderOf(g)[i].userId = u}

Won(g, u) ==
    /\ persists[g].score.endReason # "stalemate"
    /\ \E i \in DOMAIN OrderOf(g) : OrderOf(g)[i].userId = u /\ OrderOf(g)[i].finishPos = 1

Lost(g, u) ==
    /\ persists[g].score.endReason # "stalemate"
    /\ \E i \in DOMAIN OrderOf(g) :
           OrderOf(g)[i].userId = u /\ OrderOf(g)[i].finishPos = Len(OrderOf(g))

Gain(g, u) == games[g][CHOOSE i \in DOMAIN OrderOf(g) : OrderOf(g)[i].userId = u].delta

Gains(u, m) == [g \in Played(u, m) |-> Gain(g, u)]

\* LeaderboardCounts, of the players and not of the seats that refer to them.
Counted ==
    \A u \in accounts, m \in Modes :
        /\ rating[u][m].present = (Played(u, m) # {})
        /\ rating[u][m].played = Cardinality(Played(u, m))
        /\ rating[u][m].wins = Cardinality({g \in Played(u, m) : Won(g, u)})
        /\ rating[u][m].losses = Cardinality({g \in Played(u, m) : Lost(g, u)})

LedgerInv == TablesOK /\ (\A g \in GameIds : Transaction(g)) /\ Counted

\* What is known as a number: the ratings, if the shares are.
SharesAreNumbers == \A ra, rb \in Int : WinShare(ra, rb) \in Int

Numbers ==
    /\ \A u \in Players, m \in Modes : rating[u][m].rating \in Int
    /\ \A g \in GameIds : /\ \A i \in DOMAIN games[g] : games[g][i].delta \in Int
                          /\ Busy(g) => \A u \in DOMAIN persists[g].before :
                                            persists[g].before[u] \in Int

\* Two transactions of a mode that have both read a rating are known to overlap;
\* otherwise what a transaction has read is still so.
Alone ==
    \A g, h \in GameIds, u \in Players :
        /\ g # h /\ Busy(g) /\ Busy(h) /\ ModeOf(persists[g].score) = ModeOf(persists[h].score)
        /\ u \in DOMAIN persists[g].before /\ u \in DOMAIN persists[h].before
        => u \in overlapped

Fresh ==
    \A g \in GameIds : Busy(g) =>
        \A u \in DOMAIN persists[g].before : u \in accounts \ overlapped =>
            persists[g].before[u] = rating[u][ModeOf(persists[g].score)].rating

RatingSums ==
    \A u \in accounts \ overlapped, m \in Modes :
        rating[u][m].rating =
            1200 + Total(Gains(u, m), Played(u, m))

RatingInv == Numbers /\ Alone /\ Fresh /\ RatingSums /\ ChangesBalance

-----------------------------------------------------------------------------
(* The order in which a game's seats are written                           *)

LEMMA OutcomeOrder ==
    ASSUME NEW s \in Outcomes
    PROVE  LET order == FinishOrder(s)
               n == Len(order)
           IN  /\ n \in {2, 3, 4, 6} /\ n = PlayerCount(s) /\ DOMAIN order = 1..n
               /\ \A i \in 1..n : order[i].userId \in Players
               /\ \A i, j \in 1..n : order[i].userId = order[j].userId => i = j
<1> DEFINE order == FinishOrder(s)
           n == Len(s.turnOrder)
<1>1. n \in {2, 3, 4, 6} /\ n \in Nat /\ DOMAIN s.turnOrder = 1..n
      /\ \A k \in 1..n : s.turnOrder[k] \in Players
  BY LedgerAssumption DEF PlayerCount
<1>2. Rankable(s)
  <2>1. \E S : s.finishedPlayers \in Seq(S)
    BY LedgerAssumption
  <2>2. QED
    BY <1>1, <2>1, LedgerAssumption DEF Rankable
<1>3. /\ Len(order) = n /\ DOMAIN order = 1..n
      /\ \A i \in 1..n : \E k \in 1..n : order[i].userId = s.turnOrder[k]
      /\ \A i, j \in 1..n : order[i].userId = order[j].userId => i = j
  BY <1>2, FinishOrderRanks
<1>4. QED
  BY <1>1, <1>3 DEF PlayerCount

LEMMA SeatsRows ==
    ASSUME NEW s \in Outcomes, NEW before
    PROVE  LET order == FinishOrder(s)
               seats == Seats(s, before)
           IN  /\ Len(seats) = Len(order) /\ DOMAIN seats = DOMAIN order
               /\ \E T : seats \in Seq(T)
               /\ \A i \in DOMAIN order :
                      /\ SeatRow(seats[i])
                      /\ seats[i].user = order[i].userId
                      /\ seats[i].pos = order[i].finishPos
                      /\ seats[i].before = before[order[i].userId]
                      /\ seats[i].delta = IF s.endReason = "stalemate" THEN 0
                                          ELSE EloDelta(order, before, i)
<1> DEFINE order == FinishOrder(s)
           seats == Seats(s, before)
           n == Len(order)
           RowOf(i) == [user |-> order[i].userId, pos |-> order[i].finishPos,
                     before |-> before[order[i].userId],
                     delta |-> IF s.endReason = "stalemate" THEN 0
                               ELSE EloDelta(order, before, i)]
<1>1. n \in Nat /\ DOMAIN order = 1..n
  BY OutcomeOrder
<1>2. seats = [i \in DOMAIN order |-> RowOf(i)]
  BY DEF Seats
<1> HIDE DEF seats, order
<1>3. seats \in Seq({RowOf(i) : i \in 1..n})
  BY <1>1, <1>2
<1>4. Len(seats) = n /\ DOMAIN seats = 1..n
  BY <1>1, <1>2, <1>3
<1>5. \A i \in DOMAIN order : seats[i] = RowOf(i)
  BY <1>2
<1>6. QED
  BY <1>1, <1>3, <1>4, <1>5 DEF SeatRow, order, seats

-----------------------------------------------------------------------------
(* The history of an account                                               *)

LEMMA SeatOfPlayer ==
    TablesOK /\ (\A g \in GameIds : Transaction(g)) =>
        /\ \A u \in accounts, m \in Modes : GamesOf(u, m) = Played(u, m)
        /\ \A u \in Players \ accounts, m \in Modes : GamesOf(u, m) = {}
        /\ \A u \in accounts, m \in Modes : \A g \in Played(u, m) : \A i \in DOMAIN OrderOf(g) :
               OrderOf(g)[i].userId = u => i \in DOMAIN games[g] /\ SeatIn(g, u) = games[g][i]
<1> SUFFICES ASSUME TablesOK, \A g \in GameIds : Transaction(g)
             PROVE  /\ \A u \in accounts, m \in Modes : GamesOf(u, m) = Played(u, m)
                    /\ \A u \in Players \ accounts, m \in Modes : GamesOf(u, m) = {}
                    /\ \A u \in accounts, m \in Modes : \A g \in Played(u, m) :
                           \A i \in DOMAIN OrderOf(g) :
                               OrderOf(g)[i].userId = u =>
                                   i \in DOMAIN games[g] /\ SeatIn(g, u) = games[g][i]
  OBVIOUS
<1> DEFINE users(g) == {OrderOf(g)[i].userId : i \in DOMAIN OrderOf(g)}
<1>1. accounts \subseteq Players
  BY DEF TablesOK
<1>2. ASSUME NEW g \in GameIds, persists[g].pc # "done"
      PROVE  \A u : ~HasSeat(u, g)
  <2>1. games[g] = <<>>
    BY <1>2 DEF Transaction
  <2>2. QED
    BY <2>1 DEF HasSeat
<1>3. ASSUME NEW g \in GameIds, persists[g].pc = "done"
      PROVE  /\ DOMAIN games[g] = DOMAIN OrderOf(g)
             /\ Len(games[g]) = PlayerCount(persists[g].score)
             /\ \A i \in DOMAIN games[g] : /\ games[g][i].user = Now(OrderOf(g)[i].userId)
                                           /\ OrderOf(g)[i].userId \in Players
             /\ \A i, j \in DOMAIN games[g] : OrderOf(g)[i].userId = OrderOf(g)[j].userId => i = j
  <2>1. persists[g].score \in Outcomes /\ SeatsFor(games[g], OrderOf(g))
    BY <1>3 DEF Transaction
  <2>2. /\ DOMAIN OrderOf(g) = 1..Len(OrderOf(g)) /\ Len(OrderOf(g)) = PlayerCount(persists[g].score)
        /\ \A i \in DOMAIN OrderOf(g) : OrderOf(g)[i].userId \in Players
        /\ \A i, j \in DOMAIN OrderOf(g) : OrderOf(g)[i].userId = OrderOf(g)[j].userId => i = j
    BY <2>1, OutcomeOrder DEF OrderOf
  <2>3. DOMAIN games[g] = 1..Len(games[g])
    BY <2>1 DEF SeatsFor
  <2>4. QED
    BY <2>1, <2>2, <2>3 DEF SeatsFor
<1>4. ASSUME NEW g \in GameIds, persists[g].pc = "done", NEW u \in accounts,
             NEW i \in DOMAIN games[g]
      PROVE  games[g][i].user = u <=> OrderOf(g)[i].userId = u
  BY <1>1, <1>3, <1>4, StandInAssumption DEF Now
<1>5. ASSUME NEW u \in accounts, NEW m \in Modes
      PROVE  GamesOf(u, m) = Played(u, m)
  <2>1. ASSUME NEW g \in GameIds
        PROVE  g \in GamesOf(u, m) <=> g \in Played(u, m)
    <3>1. CASE persists[g].pc = "done"
      <4>1. HasSeat(u, g) <=> \E i \in DOMAIN OrderOf(g) : OrderOf(g)[i].userId = u
        BY <1>3, <1>4, <3>1 DEF HasSeat
      <4>2. (m = "2p") = (Len(games[g]) = 2) <=> ModeOf(persists[g].score) = m
        BY <1>3, <3>1 DEF ModeOf, Modes
      <4>3. QED
        BY <4>1, <4>2, <3>1 DEF GamesOf, Played
    <3>2. CASE persists[g].pc # "done"
      BY <1>2, <3>2 DEF GamesOf, Played
    <3>3. QED
      BY <3>1, <3>2
  <2>2. QED
    BY <2>1 DEF GamesOf, Played
<1>6. ASSUME NEW u \in Players \ accounts, NEW m \in Modes
      PROVE  GamesOf(u, m) = {}
  <2>1. ASSUME NEW g \in GameIds PROVE ~HasSeat(u, g)
    <3>1. CASE persists[g].pc = "done"
      BY <1>3, <3>1, StandInAssumption DEF HasSeat, Now
    <3>2. QED
      BY <1>2, <3>1
  <2>2. QED
    BY <2>1 DEF GamesOf
<1>7. ASSUME NEW u \in accounts, NEW m \in Modes, NEW g \in Played(u, m),
             NEW i \in DOMAIN OrderOf(g), OrderOf(g)[i].userId = u
      PROVE  i \in DOMAIN games[g] /\ SeatIn(g, u) = games[g][i]
  <2>1. g \in GameIds /\ persists[g].pc = "done"
    BY DEF Played
  <2>2. i \in DOMAIN games[g] /\ games[g][i].user = u
    BY <1>3, <1>4, <1>7, <2>1
  <2>3. \A j \in DOMAIN games[g] : games[g][j].user = u => j = i
    BY <1>3, <1>4, <1>7, <2>1, <2>2
  <2>4. QED
    BY <2>2, <2>3 DEF SeatIn
<1>8. QED
  BY <1>5, <1>6, <1>7

-----------------------------------------------------------------------------
(* The initial state, and the steps that leave the tables alone            *)

LEMMA LedgerBegins == LedgerInit => LedgerInv
<1> SUFFICES ASSUME LedgerInit PROVE LedgerInv
  OBVIOUS
<1>1. TablesOK
  <2>1. {g \in GameIds : persists[g].pc = "done"} = {}
    BY DEF LedgerInit, NotPlayed, Persisting
  <2>2. IsFiniteSet({g \in GameIds : persists[g].pc = "done"})
    BY <2>1, FS_EmptySet
  <2>3. QED
    BY <2>2 DEF LedgerInit, TablesOK, NoRating
<1>2. ASSUME NEW g \in GameIds PROVE Transaction(g)
  BY DEF LedgerInit, Transaction, NotPlayed, Persisting
<1>3. Counted
  <2>1. \A u, m : Played(u, m) = {}
    BY DEF LedgerInit, Played, NotPlayed, Persisting
  <2>2. Cardinality({}) = 0
    BY FS_EmptySet
  <2>3. ASSUME NEW u \in accounts, NEW m \in Modes
        PROVE  rating[u][m] = NoRating
    BY DEF LedgerInit
  <2>4. \A u, m : /\ {g \in Played(u, m) : Won(g, u)} = {}
                   /\ {g \in Played(u, m) : Lost(g, u)} = {}
    BY <2>1
  <2>5. ASSUME NEW u \in accounts, NEW m \in Modes
        PROVE  /\ rating[u][m].present = (Played(u, m) # {})
               /\ rating[u][m].played = Cardinality(Played(u, m))
               /\ rating[u][m].wins = Cardinality({g \in Played(u, m) : Won(g, u)})
               /\ rating[u][m].losses = Cardinality({g \in Played(u, m) : Lost(g, u)})
    <3>1. /\ rating[u][m].present = FALSE /\ rating[u][m].played = 0
          /\ rating[u][m].wins = 0 /\ rating[u][m].losses = 0
      BY <2>3 DEF NoRating
    <3>2. QED
      BY <2>1, <2>2, <2>4, <3>1
  <2>6. QED
    BY <2>5 DEF Counted
<1>4. QED
  BY <1>1, <1>2, <1>3 DEF LedgerInv

\* A transaction that has not committed may go on, if the tables stay.
LEMMA QuietStep ==
    ASSUME LedgerInv, UNCHANGED <<accounts, rating, games>>,
           DOMAIN persists' = GameIds, DOMAIN deletions' = Players,
           \A g \in GameIds : \/ persists'[g] = persists[g]
                              \/ /\ persists[g].pc # "done" /\ persists'[g].pc # "done"
                                 /\ Transaction(g)'
    PROVE  /\ LedgerInv'
           /\ \A u, m : Played(u, m)' = Played(u, m)
<1>1. ASSUME NEW g \in GameIds PROVE Transaction(g)'
  <2>1. CASE persists'[g] = persists[g]
    <3>1. Transaction(g)
      BY DEF LedgerInv
    <3>2. QED
      BY <2>1, <3>1 DEF Transaction, OrderOf, SeatsFor, Now
  <2>2. QED
    BY <2>1
<1>2. \A g \in GameIds : persists'[g].pc = "done" <=> persists[g].pc = "done"
  OBVIOUS
<1>3. \A g \in GameIds : persists'[g].pc = "done" => persists'[g] = persists[g]
  OBVIOUS
<1>4. TablesOK'
  <2>1. {g \in GameIds : persists'[g].pc = "done"} = {g \in GameIds : persists[g].pc = "done"}
    BY <1>2
  <2>2. QED
    BY <2>1 DEF LedgerInv, TablesOK
<1>5. \A u, m : Played(u, m)' = Played(u, m)
  BY <1>2, <1>3 DEF Played, OrderOf
<1>6. ASSUME NEW u, NEW m
      PROVE  /\ {g \in Played(u, m) : Won(g, u)}' = {g \in Played(u, m) : Won(g, u)}
             /\ {g \in Played(u, m) : Lost(g, u)}' = {g \in Played(u, m) : Lost(g, u)}
  <2>1. \A g \in Played(u, m) : /\ Won(g, u)' <=> Won(g, u)
                                /\ Lost(g, u)' <=> Lost(g, u)
    BY <1>3, <1>2 DEF Played, Won, Lost, OrderOf
  <2>2. QED
    BY <1>5, <2>1
<1>7. Counted'
  <2>1. Counted
    BY DEF LedgerInv
  <2>2. ASSUME NEW u \in accounts, NEW m \in Modes
        PROVE  /\ rating'[u][m].present = (Played(u, m)' # {})
               /\ rating'[u][m].played = Cardinality(Played(u, m)')
               /\ rating'[u][m].wins = Cardinality({g \in Played(u, m) : Won(g, u)}')
               /\ rating'[u][m].losses = Cardinality({g \in Played(u, m) : Lost(g, u)}')
    <3>1. rating'[u][m] = rating[u][m]
      OBVIOUS
    <3>2. /\ rating[u][m].present = (Played(u, m) # {})
          /\ rating[u][m].played = Cardinality(Played(u, m))
          /\ rating[u][m].wins = Cardinality({g \in Played(u, m) : Won(g, u)})
          /\ rating[u][m].losses = Cardinality({g \in Played(u, m) : Lost(g, u)})
      BY <2>1 DEF Counted
    <3>3. QED
      BY <1>5, <1>6, <3>1, <3>2
  <2>3. QED
    BY <2>2 DEF Counted
<1>8. QED
  BY <1>1, <1>4, <1>5, <1>7 DEF LedgerInv

LEMMA EndOfGameKeeps ==
    ASSUME LedgerInv, NEW g \in GameIds, NEW s \in Outcomes, EndOfGame(g, s)
    PROVE  LedgerInv'
<1>1. persists[g].pc = "none" /\ Transaction(g) /\ DOMAIN persists = GameIds
  BY DEF EndOfGame, LedgerInv, TablesOK
<1>2. /\ persists'[g] = [pc |-> "read", score |-> s, at |-> 1, before |-> <<>>]
      /\ \A h \in GameIds : h # g => persists'[h] = persists[h]
  BY <1>1 DEF EndOfGame, Persisting
<1>3. OrderOf(g)' = FinishOrder(s)
  BY <1>2 DEF OrderOf
<1>4. Len(FinishOrder(s)) \in {2, 3, 4, 6}
  BY OutcomeOrder
<1>5. Transaction(g)'
  <2>1. games'[g] = <<>>
    BY <1>1 DEF EndOfGame, Transaction
  <2>2. 1 \in 1..Len(FinishOrder(s))
    BY <1>4
  <2>3. UsersOf(FinishOrder(s), 1 - 1) = {}
    BY DEF UsersOf
  <2>4. DOMAIN <<>> = {}
    OBVIOUS
  <2>5. QED
    BY <1>2, <1>3, <2>1, <2>2, <2>3, <2>4 DEF Transaction
<1>6. QED
  BY <1>1, <1>2, <1>5, QuietStep DEF EndOfGame, LedgerInv, TablesOK

\* What a transaction knows of its order.
LEMMA OrderFacts ==
    ASSUME NEW g \in GameIds, Transaction(g), persists[g].pc # "none"
    PROVE  LET n == Len(OrderOf(g))
           IN  /\ n \in {2, 3, 4, 6} /\ n = PlayerCount(persists[g].score)
               /\ DOMAIN OrderOf(g) = 1..n
               /\ \A i \in 1..n : OrderOf(g)[i].userId \in Players
               /\ \A i, j \in 1..n : OrderOf(g)[i].userId = OrderOf(g)[j].userId => i = j
<1>1. persists[g].score \in Outcomes
  BY DEF Transaction
<1>2. QED
  BY <1>1, OutcomeOrder DEF OrderOf

LEMMA FailedKeeps ==
    ASSUME LedgerInv, NEW g \in GameIds, Failed(g), persists[g].pc # "done", persists[g].pc # "none",
           UNCHANGED <<accounts, rating, games, deletions>>
    PROVE  LedgerInv'
<1>1. Transaction(g) /\ DOMAIN persists = GameIds /\ DOMAIN deletions = Players
  BY DEF LedgerInv, TablesOK
<1>2. /\ persists'[g] = [pc |-> "failed", score |-> persists[g].score, at |-> persists[g].at,
                         before |-> <<>>]
      /\ \A h \in GameIds : h # g => persists'[h] = persists[h]
  <2>1. persists[g] = [pc |-> persists[g].pc, score |-> persists[g].score,
                       at |-> persists[g].at, before |-> persists[g].before]
    BY <1>1 DEF Transaction
  <2>2. QED
    BY <1>1, <2>1 DEF Failed
<1>3. Transaction(g)'
  BY <1>1, <1>2 DEF Transaction
<1>4. DOMAIN persists' = GameIds
  BY <1>1 DEF Failed
<1>5. QED
  BY <1>1, <1>2, <1>3, <1>4, QuietStep

LEMMA ReadRatingKeeps ==
    ASSUME LedgerInv, NEW g \in GameIds, ReadRating(g)
    PROVE  /\ LedgerInv'
           /\ DOMAIN persists'[g].before = DOMAIN persists[g].before \union {UserAt(g)}
           /\ persists'[g].pc \in {"read", "write"} /\ persists'[g].score = persists[g].score
           /\ UserAt(g) \in Players
           /\ \A v \in DOMAIN persists'[g].before :
                  persists'[g].before[v] = IF v = UserAt(g)
                                           THEN rating[v][ModeOf(persists[g].score)].rating
                                           ELSE persists[g].before[v]
<1> DEFINE p == persists[g]
           order == OrderOf(g)
           n == Len(order)
           u == UserAt(g)
           known == [v \in DOMAIN p.before \union {u} |->
                        IF v = u THEN rating[u][ModeOf(p.score)].rating ELSE p.before[v]]
<1>1. Transaction(g) /\ DOMAIN persists = GameIds /\ DOMAIN deletions = Players /\ p.pc = "read"
  BY DEF LedgerInv, TablesOK, ReadRating
<1>2. /\ n \in {2, 3, 4, 6} /\ DOMAIN order = 1..n
      /\ \A i \in 1..n : order[i].userId \in Players
  BY <1>1, OrderFacts
<1>3. p.at \in 1..n /\ DOMAIN p.before = UsersOf(order, p.at - 1) /\ games[g] = <<>>
      /\ p.score \in Outcomes
  BY <1>1 DEF Transaction
<1>4. u = order[p.at].userId
  BY DEF UserAt, OrderOf
<1>5. DOMAIN known = UsersOf(order, p.at)
  <2>1. 1..p.at = (1..(p.at - 1)) \union {p.at}
    BY <1>2, <1>3
  <2>2. QED
    BY <1>3, <1>4, <2>1 DEF UsersOf
<1>6. /\ persists'[g] = IF p.at = n THEN [pc |-> "write", score |-> p.score, at |-> 1, before |-> known]
                        ELSE [pc |-> "read", score |-> p.score, at |-> p.at + 1, before |-> known]
      /\ \A h \in GameIds : h # g => persists'[h] = persists[h]
      /\ DOMAIN persists' = GameIds
  BY <1>1 DEF ReadRating, Persisting, OrderOf
<1> HIDE DEF known, u, n, order, p
<1>7. Transaction(g)'
  <2>1. persists'[g].score = p.score
    BY <1>6
  <2>2. OrderOf(g)' = order
    BY <2>1 DEF OrderOf, order, p
  <2>3. games'[g] = <<>>
    BY <1>3 DEF ReadRating
  <2>4. CASE p.at = n
    <3>1. persists'[g] = [pc |-> "write", score |-> p.score, at |-> 1, before |-> known]
      BY <1>6, <2>4
    <3>2. UsersOf(order, 1 - 1) = {} /\ 1 \in 1..(n + 1)
      BY <1>2 DEF UsersOf
    <3>3. QED
      BY <1>3, <1>5, <2>2, <2>3, <2>4, <3>1, <3>2 DEF Transaction, n
  <2>5. CASE p.at # n
    <3>1. persists'[g] = [pc |-> "read", score |-> p.score, at |-> p.at + 1, before |-> known]
      BY <1>6, <2>5
    <3>2. p.at + 1 \in 1..n /\ (p.at + 1) - 1 = p.at
      BY <1>2, <1>3, <2>5
    <3>3. QED
      BY <1>3, <1>5, <2>2, <2>3, <3>1, <3>2 DEF Transaction, n
  <2>6. QED
    BY <2>4, <2>5
<1>8. persists'[g].pc \in {"read", "write"} /\ persists'[g].score = p.score
      /\ persists'[g].before = known
  BY <1>6
<1>9. LedgerInv'
  <2>1. p.pc # "done" /\ persists'[g].pc # "done"
    BY <1>1, <1>8
  <2>2. UNCHANGED <<accounts, rating, games, deletions>>
    BY DEF ReadRating
  <2>3. QED
    BY <1>1, <1>6, <1>7, <2>1, <2>2, QuietStep DEF p
<1>10. u \in Players
  BY <1>2, <1>3, <1>4
<1>11. QED
  BY <1>8, <1>9, <1>10 DEF known, p, u

LEMMA WriteSeatKeeps ==
    ASSUME LedgerInv, NEW g \in GameIds, WriteSeat(g)
    PROVE  LedgerInv'
<1>1. Transaction(g) /\ DOMAIN persists = GameIds /\ DOMAIN deletions = Players
      /\ persists[g].pc = "write" /\ persists[g].at <= Len(OrderOf(g))
      /\ UNCHANGED <<accounts, rating, games, deletions>>
  BY DEF LedgerInv, TablesOK, WriteSeat, OrderOf
<1>2. CASE UserAt(g) \in accounts
  <2> DEFINE p == persists[g]
             n == Len(OrderOf(g))
  <2>1. /\ persists'[g] = [pc |-> "write", score |-> p.score, at |-> p.at + 1, before |-> p.before]
        /\ \A h \in GameIds : h # g => persists'[h] = persists[h]
        /\ DOMAIN persists' = GameIds
    <3>1. p = [pc |-> p.pc, score |-> p.score, at |-> p.at, before |-> p.before]
      BY <1>1 DEF Transaction
    <3>2. QED
      BY <1>1, <1>2, <3>1 DEF WriteSeat
  <2>2. n \in {2, 3, 4, 6}
    BY <1>1, OrderFacts
  <2>3. p.at \in 1..(n + 1) /\ p.at <= n /\ DOMAIN p.before = UsersOf(OrderOf(g), n)
        /\ UsersOf(OrderOf(g), p.at - 1) \subseteq accounts /\ p.score \in Outcomes
        /\ games[g] = <<>>
    BY <1>1 DEF Transaction
  <2>4. UsersOf(OrderOf(g), (p.at + 1) - 1) \subseteq accounts /\ p.at + 1 \in 1..(n + 1)
    <3>1. 1..((p.at + 1) - 1) = (1..(p.at - 1)) \union {p.at}
      BY <2>2, <2>3
    <3>2. OrderOf(g)[p.at].userId \in accounts
      BY <1>2 DEF UserAt, OrderOf
    <3>3. p.at + 1 \in 1..(n + 1)
      BY <2>2, <2>3
    <3>4. ASSUME NEW i \in 1..((p.at + 1) - 1)
          PROVE  OrderOf(g)[i].userId \in accounts
      <4>1. CASE i = p.at
        BY <3>2, <4>1
      <4>2. CASE i \in 1..(p.at - 1)
        BY <2>3, <4>2 DEF UsersOf
      <4>3. QED
        BY <3>1, <4>1, <4>2
    <3>5. QED
      BY <3>3, <3>4 DEF UsersOf
  <2> HIDE DEF p, n
  <2>5. OrderOf(g)' = OrderOf(g)
    BY <2>1 DEF OrderOf, p
  <2>6. Transaction(g)'
    BY <1>1, <2>1, <2>3, <2>4, <2>5 DEF Transaction, n
  <2>7. persists'[g].pc = "write"
    BY <2>1
  <2>8. QED
    BY <1>1, <2>1, <2>6, <2>7, QuietStep
<1>3. CASE UserAt(g) \notin accounts
  BY <1>1, <1>3, FailedKeeps DEF WriteSeat
<1>4. QED
  BY <1>2, <1>3

-----------------------------------------------------------------------------
(* A commit                                                                *)

Seated(order, u) == \E i \in DOMAIN order : order[i].userId = u

LEMMA CommitWrites ==
    ASSUME LedgerInv, NEW g \in GameIds, Commit(g)
    PROVE  LET p == persists[g]
               order == OrderOf(g)
               seats == Seats(p.score, p.before)
               n == Len(order)
           IN  /\ p.pc = "write" /\ UsersOf(order, n) \subseteq accounts
               /\ DOMAIN p.before = UsersOf(order, n)
               /\ persists'[g] = [pc |-> "done", score |-> p.score, at |-> p.at, before |-> <<>>]
               /\ games'[g] = seats
               /\ \A h \in GameIds : h # g => persists'[h] = persists[h] /\ games'[h] = games[h]
               /\ DOMAIN persists' = GameIds /\ DOMAIN games' = GameIds /\ DOMAIN rating' = Players
               /\ \A u \in Players : DOMAIN rating'[u] = Modes
               /\ \A i \in 1..n :
                      rating'[order[i].userId][ModeOf(p.score)] =
                          Updated(rating[order[i].userId][ModeOf(p.score)], seats[i], n,
                                  p.score.endReason # "stalemate")
               /\ \A u \in Players, m \in Modes :
                      ~(Seated(order, u) /\ m = ModeOf(p.score)) => rating'[u][m] = rating[u][m]
               /\ \A u \in Players, m \in Modes :
                      /\ g \notin Played(u, m)
                      /\ Played(u, m)' = IF Seated(order, u) /\ m = ModeOf(p.score)
                                         THEN Played(u, m) \union {g} ELSE Played(u, m)
<1> DEFINE p == persists[g]
           order == OrderOf(g)
           seats == Seats(p.score, p.before)
           n == Len(order)
           M == ModeOf(p.score)
           ranked == p.score.endReason # "stalemate"
           SeatOfUser(u) == CHOOSE i \in DOMAIN seats : seats[i].user = u
<1>1. /\ Transaction(g) /\ p.pc = "write" /\ DOMAIN persists = GameIds /\ DOMAIN games = GameIds
      /\ DOMAIN rating = Players /\ \A u \in Players : DOMAIN rating[u] = Modes
  BY DEF LedgerInv, TablesOK, Commit
<1>2. /\ n \in {2, 3, 4, 6} /\ DOMAIN order = 1..n
      /\ \A i \in 1..n : order[i].userId \in Players
      /\ \A i, j \in 1..n : order[i].userId = order[j].userId => i = j
  BY <1>1, OrderFacts
<1>3. /\ Len(seats) = n /\ DOMAIN seats = 1..n
      /\ \A i \in 1..n : seats[i].user = order[i].userId
  <2>1. p.score \in Outcomes
    BY <1>1 DEF Transaction
  <2>2. QED
    BY <1>2, <2>1, SeatsRows DEF OrderOf
<1>4. /\ p.at \in 1..(n + 1) /\ DOMAIN p.before = UsersOf(order, n)
      /\ UsersOf(order, p.at - 1) \subseteq accounts
  BY <1>1 DEF Transaction
<1>5. UsersOf(order, n) \subseteq accounts
  <2>1. p.at > n
    BY <1>3 DEF Commit
  <2>2. p.at - 1 = n
    BY <1>2, <1>4, <2>1
  <2>3. QED
    BY <1>4, <2>2
<1>6. persists'[g] = [pc |-> "done", score |-> p.score, at |-> p.at, before |-> <<>>]
      /\ (\A h \in GameIds : h # g => persists'[h] = persists[h])
      /\ DOMAIN persists' = GameIds
  <2>1. p = [pc |-> p.pc, score |-> p.score, at |-> p.at, before |-> p.before]
    BY <1>1 DEF Transaction
  <2>2. persists' = [persists EXCEPT ![g].pc = "done", ![g].before = <<>>]
    BY DEF Commit
  <2>3. QED
    BY <1>1, <2>1, <2>2
<1>7. games'[g] = seats /\ DOMAIN games' = GameIds /\ \A h \in GameIds : h # g => games'[h] = games[h]
  BY <1>1 DEF Commit
<1>8. rating' = [u \in Players |->
                    IF \E i \in DOMAIN seats : seats[i].user = u
                    THEN [rating[u] EXCEPT ![M] = Updated(@, seats[SeatOfUser(u)], Len(seats), ranked)]
                    ELSE rating[u]]
  BY DEF Commit
<1>9. M \in Modes
  BY DEF ModeOf, Modes
<1> HIDE DEF seats, order, n, M, ranked
<1>10. ASSUME NEW i \in 1..n
       PROVE  rating'[order[i].userId][M] = Updated(rating[order[i].userId][M], seats[i], n, ranked)
  <2> DEFINE u == order[i].userId
  <2>1. u \in Players /\ seats[i].user = u /\ \A j \in DOMAIN seats : seats[j].user = u => j = i
    BY <1>2, <1>3
  <2>2. SeatOfUser(u) = i
    BY <1>3, <2>1
  <2> HIDE DEF u, SeatOfUser
  <2>3. rating'[u] = [rating[u] EXCEPT ![M] = Updated(@, seats[SeatOfUser(u)], Len(seats), ranked)]
    BY <1>3, <1>8, <2>1
  <2>4. rating'[u][M] = Updated(rating[u][M], seats[i], n, ranked)
    BY <1>1, <1>3, <1>9, <2>1, <2>2, <2>3
  <2>5. QED
    BY <2>4 DEF u
<1>11. ASSUME NEW u \in Players, NEW m \in Modes, ~(Seated(order, u) /\ m = M)
       PROVE  rating'[u][m] = rating[u][m]
  <2>1. CASE Seated(order, u)
    <3>1. rating'[u] = [rating[u] EXCEPT ![M] = Updated(@, seats[SeatOfUser(u)], Len(seats), ranked)]
      BY <1>2, <1>3, <1>8, <2>1 DEF Seated
    <3> HIDE DEF SeatOfUser
    <3>2. m # M
      BY <1>11, <2>1
    <3>3. QED
      BY <1>1, <3>1, <3>2
  <2>2. CASE ~Seated(order, u)
    <3>1. ~ \E i \in DOMAIN seats : seats[i].user = u
      BY <1>2, <1>3, <2>2 DEF Seated
    <3>2. rating'[u] = rating[u]
      BY <1>8, <3>1
    <3>3. QED
      BY <3>2
  <2>3. QED
    BY <2>1, <2>2
<1>12. \A u \in Players : DOMAIN rating'[u] = Modes
  <2>1. ASSUME NEW u \in Players PROVE DOMAIN rating'[u] = Modes
    <3> HIDE DEF SeatOfUser
    <3>1. QED
      BY <1>1, <1>8
  <2>2. QED
    BY <2>1
<1>13. DOMAIN rating' = Players
  BY <1>8
<1>14. ASSUME NEW u \in Players, NEW m \in Modes
       PROVE  /\ g \notin Played(u, m)
              /\ Played(u, m)' = IF Seated(order, u) /\ m = M
                                 THEN Played(u, m) \union {g} ELSE Played(u, m)
  <2>1. g \notin Played(u, m)
    BY <1>1 DEF Played
  <2>2. ASSUME NEW h \in GameIds, h # g PROVE h \in Played(u, m)' <=> h \in Played(u, m)
    BY <1>6, <2>2 DEF Played, OrderOf
  <2>3. g \in Played(u, m)' <=> Seated(order, u) /\ m = M
    <3>1. OrderOf(g)' = order /\ persists'[g].pc = "done" /\ persists'[g].score = p.score
      BY <1>6 DEF OrderOf, order
    <3>2. QED
      BY <3>1 DEF Played, Seated, M
  <2>4. Played(u, m)' \subseteq GameIds /\ Played(u, m) \subseteq GameIds
    BY DEF Played
  <2>5. \A h : h \in Played(u, m)' <=> IF Seated(order, u) /\ m = M THEN h \in Played(u, m) \/ h = g
                                      ELSE h \in Played(u, m)
    BY <2>1, <2>2, <2>3, <2>4
  <2>6. QED
    BY <2>1, <2>5
<1>15. QED
  BY <1>1, <1>4, <1>5, <1>6, <1>7, <1>10, <1>11, <1>12, <1>13, <1>14
     DEF seats, order, n, M, ranked

LEMMA CommitKeeps ==
    ASSUME LedgerInv, NEW g \in GameIds, Commit(g)
    PROVE  LedgerInv'
<1> DEFINE p == persists[g]
           order == OrderOf(g)
           seats == Seats(p.score, p.before)
           n == Len(order)
           M == ModeOf(p.score)
           ranked == p.score.endReason # "stalemate"
<1>1. /\ p.pc = "write" /\ UsersOf(order, n) \subseteq accounts
      /\ persists'[g] = [pc |-> "done", score |-> p.score, at |-> p.at, before |-> <<>>]
      /\ games'[g] = seats
      /\ \A h \in GameIds : h # g => persists'[h] = persists[h] /\ games'[h] = games[h]
  BY CommitWrites
<1>2. /\ DOMAIN persists' = GameIds /\ DOMAIN games' = GameIds /\ DOMAIN rating' = Players
      /\ \A u \in Players : DOMAIN rating'[u] = Modes
  BY CommitWrites
<1>3. ASSUME NEW i \in 1..n
      PROVE  rating'[order[i].userId][M] = Updated(rating[order[i].userId][M], seats[i], n, ranked)
  BY CommitWrites
<1>4. ASSUME NEW u \in Players, NEW m \in Modes
      PROVE  /\ ~(Seated(order, u) /\ m = M) => rating'[u][m] = rating[u][m]
             /\ g \notin Played(u, m)
             /\ Played(u, m)' = IF Seated(order, u) /\ m = M THEN Played(u, m) \union {g}
                                ELSE Played(u, m)
  BY CommitWrites, ZenonT(30)
<1>5. /\ Transaction(g) /\ p.score \in Outcomes
      /\ n \in {2, 3, 4, 6} /\ DOMAIN order = 1..n
      /\ \A i \in 1..n : order[i].userId \in Players
      /\ \A i, j \in 1..n : order[i].userId = order[j].userId => i = j
  <2>1. Transaction(g)
    BY DEF LedgerInv
  <2>2. p.score \in Outcomes
    BY <1>1, <2>1 DEF Transaction
  <2>3. QED
    BY <1>1, <2>1, <2>2, OrderFacts
<1>6. /\ Len(seats) = n /\ DOMAIN seats = 1..n /\ \E T : seats \in Seq(T)
      /\ \A i \in 1..n : /\ SeatRow(seats[i]) /\ seats[i].user = order[i].userId
                         /\ seats[i].pos = order[i].finishPos
  BY <1>5, SeatsRows DEF OrderOf
<1>7. accounts' = accounts /\ accounts \subseteq Players /\ DOMAIN deletions' = Players
  BY DEF Commit, LedgerInv, TablesOK
<1>8. OrderOf(g)' = order /\ \A h \in GameIds : h # g => OrderOf(h)' = OrderOf(h)
  BY <1>1 DEF OrderOf
<1>9. \A i \in 1..n : order[i].userId \in accounts
  BY <1>1 DEF UsersOf
<1>10. ASSUME NEW u \in Players PROVE Seated(order, u) <=> \E i \in 1..n : order[i].userId = u
  BY <1>5 DEF Seated
<1> HIDE DEF seats, order, n, M, ranked
<1>11. Transaction(g)'
  <2>1. \A i \in 1..n : seats[i].user = Now(OrderOf(g)[i].userId)'
    BY <1>6, <1>7, <1>8, <1>9 DEF Now
  <2>2. SeatsFor(games[g], OrderOf(g))'
    BY <1>1, <1>6, <1>8, <2>1 DEF SeatsFor, n
  <2>3. QED
    BY <1>1, <1>5, <2>2 DEF Transaction
<1>12. ASSUME NEW h \in GameIds, h # g PROVE Transaction(h)'
  <2>1. Transaction(h)
    BY DEF LedgerInv
  <2>2. QED
    BY <1>1, <1>7, <1>8, <1>12, <2>1 DEF Transaction, SeatsFor, Now
<1>13. TablesOK'
  <2>1. \A u \in Players, m \in Modes : rating'[u][m].present \in BOOLEAN
    <3>1. ASSUME NEW u \in Players, NEW m \in Modes PROVE rating'[u][m].present \in BOOLEAN
      <4>1. CASE Seated(order, u) /\ m = M
        <5>1. PICK i \in 1..n : order[i].userId = u
          BY <1>10, <4>1
        <5>2. rating'[u][m] = Updated(rating[u][m], seats[i], n, ranked)
          BY <1>3, <4>1, <5>1
        <5>3. QED
          BY <5>2 DEF Updated
      <4>2. CASE ~(Seated(order, u) /\ m = M)
        BY <1>4, <4>2 DEF LedgerInv, TablesOK
      <4>3. QED
        BY <4>1, <4>2
    <3>2. QED
      BY <3>1
  <2>2. ASSUME NEW u \in Players \ accounts, NEW m \in Modes PROVE rating'[u][m] = NoRating
    <3>1. ~Seated(order, u)
      BY <1>9, <1>10
    <3>2. QED
      BY <1>4, <3>1 DEF LedgerInv, TablesOK
  <2>3. IsFiniteSet({h \in GameIds : persists'[h].pc = "done"})
    <3>1. {h \in GameIds : persists'[h].pc = "done"} =
              {h \in GameIds : persists[h].pc = "done"} \union {g}
      BY <1>1
    <3>2. QED
      BY <3>1, FS_AddElement, SMTT(30) DEF LedgerInv, TablesOK
  <2>4. QED
    BY <1>2, <1>7, <2>1, <2>2, <2>3 DEF TablesOK
<1>14. Counted'
  <2>1. ASSUME NEW u \in accounts, NEW m \in Modes
        PROVE  /\ rating'[u][m].present = (Played(u, m)' # {})
               /\ rating'[u][m].played = Cardinality(Played(u, m)')
               /\ rating'[u][m].wins = Cardinality({h \in Played(u, m) : Won(h, u)}')
               /\ rating'[u][m].losses = Cardinality({h \in Played(u, m) : Lost(h, u)}')
    <3> DEFINE old == Played(u, m)
               won == {h \in old : Won(h, u)}
               lost == {h \in old : Lost(h, u)}
               ended == {h \in GameIds : persists[h].pc = "done"}
    <3>1. /\ u \in Players /\ old \subseteq ended /\ won \subseteq ended /\ lost \subseteq ended
          /\ IsFiniteSet(old) /\ IsFiniteSet(won) /\ IsFiniteSet(lost) /\ g \notin old
      <4>1. IsFiniteSet(ended)
        BY DEF LedgerInv, TablesOK
      <4>2. old \subseteq ended
        BY DEF Played
      <4>3. QED
        BY <1>4, <1>7, <4>1, <4>2, FS_Subset
    <3>2. /\ rating[u][m].present = (old # {})
          /\ rating[u][m].played = Cardinality(old)
          /\ rating[u][m].wins = Cardinality(won)
          /\ rating[u][m].losses = Cardinality(lost)
      BY DEF LedgerInv, Counted
    <3>3. \A h \in old : (Won(h, u)' <=> Won(h, u)) /\ (Lost(h, u)' <=> Lost(h, u))
      BY <1>1, <1>8, <3>1 DEF Won, Lost, Played
    <3>4. CASE ~(Seated(order, u) /\ m = M)
      <4>1. Played(u, m)' = old /\ rating'[u][m] = rating[u][m]
        BY <1>4, <3>1, <3>4
      <4>2. /\ {h \in Played(u, m) : Won(h, u)}' = won
            /\ {h \in Played(u, m) : Lost(h, u)}' = lost
        BY <3>3, <4>1
      <4>3. QED
        BY <3>2, <4>1, <4>2
    <3>5. CASE Seated(order, u) /\ m = M
      <4>1. PICK i \in 1..n : order[i].userId = u
        BY <1>10, <3>1, <3>5
      <4>2. rating'[u][m] = Updated(rating[u][m], seats[i], n, ranked)
        BY <1>3, <3>5, <4>1
      <4>3. Played(u, m)' = old \union {g}
        BY <1>4, <3>1, <3>5
      <4>4. /\ Won(g, u)' <=> ranked /\ seats[i].pos = 1
            /\ Lost(g, u)' <=> ranked /\ seats[i].pos = n
        <5>1. \A j \in 1..n : order[j].userId = u => j = i
          BY <1>5, <4>1
        <5>2. Won(g, u)' <=> ranked /\ order[i].finishPos = 1
          BY <1>1, <1>5, <1>8, <4>1, <5>1 DEF Won, ranked
        <5>3. Lost(g, u)' <=> ranked /\ order[i].finishPos = n
          BY <1>1, <1>5, <1>8, <4>1, <5>1 DEF Lost, ranked, n
        <5>4. QED
          BY <1>6, <5>2, <5>3
      <4>5. /\ {h \in Played(u, m) : Won(h, u)}' =
                   IF ranked /\ seats[i].pos = 1 THEN won \union {g} ELSE won
            /\ {h \in Played(u, m) : Lost(h, u)}' =
                   IF ranked /\ seats[i].pos = n THEN lost \union {g} ELSE lost
        BY <3>3, <4>3, <4>4
      <4>6. /\ Cardinality(old \union {g}) = Cardinality(old) + 1
            /\ Cardinality(won \union {g}) = Cardinality(won) + 1
            /\ Cardinality(lost \union {g}) = Cardinality(lost) + 1
            /\ Cardinality(old) \in Nat /\ Cardinality(won) \in Nat /\ Cardinality(lost) \in Nat
        BY <3>1, FS_AddElement, FS_CardinalityType
      <4> HIDE DEF old, won, lost
      <4>7. /\ rating'[u][m].present = TRUE /\ rating'[u][m].played = rating[u][m].played + 1
            /\ rating'[u][m].wins = rating[u][m].wins + (IF ranked /\ seats[i].pos = 1 THEN 1 ELSE 0)
            /\ rating'[u][m].losses =
                   rating[u][m].losses + (IF ranked /\ seats[i].pos = n THEN 1 ELSE 0)
        BY <4>2 DEF Updated
      <4>8. rating'[u][m].present = (Played(u, m)' # {})
        BY <4>3, <4>7
      <4>9. rating'[u][m].played = Cardinality(Played(u, m)')
        BY <3>2, <4>3, <4>6, <4>7
      <4>10. rating'[u][m].wins = Cardinality({h \in Played(u, m) : Won(h, u)}')
        <5>1. CASE ranked /\ seats[i].pos = 1
          BY <3>2, <4>5, <4>6, <4>7, <5>1
        <5>2. CASE ~(ranked /\ seats[i].pos = 1)
          <6>1. rating'[u][m].wins = Cardinality(won)
            BY <3>2, <4>6, <4>7, <5>2
          <6>2. {h \in Played(u, m) : Won(h, u)}' = won
            BY <4>5, <5>2
          <6>3. QED
            BY <6>1, <6>2
        <5>3. QED
          BY <5>1, <5>2
      <4>11. rating'[u][m].losses = Cardinality({h \in Played(u, m) : Lost(h, u)}')
        <5>1. CASE ranked /\ seats[i].pos = n
          BY <3>2, <4>5, <4>6, <4>7, <5>1
        <5>2. CASE ~(ranked /\ seats[i].pos = n)
          <6>1. rating'[u][m].losses = Cardinality(lost)
            BY <3>2, <4>6, <4>7, <5>2
          <6>2. {h \in Played(u, m) : Lost(h, u)}' = lost
            BY <4>5, <5>2
          <6>3. QED
            BY <6>1, <6>2
        <5>3. QED
          BY <5>1, <5>2
      <4>12. QED
        BY <4>8, <4>9, <4>10, <4>11
    <3>6. QED
      BY <3>4, <3>5
  <2>2. QED
    BY <1>7, <2>1 DEF Counted
<1>15. QED
  BY <1>11, <1>12, <1>13, <1>14 DEF LedgerInv

-----------------------------------------------------------------------------
(* The deletion of an account                                              *)

Deleted(u) ==
    /\ accounts' = accounts \ {u}
    /\ rating' = [rating EXCEPT ![u] = [m \in Modes |-> NoRating]]
    /\ games' = [g \in GameIds |-> Standing(u, games[g])]
    /\ UNCHANGED persists
    /\ \A h \in GameIds : u \notin SeatsWritten(h)

\* The seats of a game change hands; all else in them stays.
LEMMA StandingKeeps ==
    ASSUME LedgerInv, NEW u \in Players, NEW g \in GameIds
    PROVE  LET seats == Standing(u, games[g])
           IN  /\ DOMAIN seats = DOMAIN games[g] /\ Len(seats) = Len(games[g])
               /\ (games[g] = <<>> => seats = <<>>)
               /\ \E T : seats \in Seq(T)
               /\ \A i \in DOMAIN games[g] :
                      /\ SeatRow(seats[i])
                      /\ seats[i].user = IF games[g][i].user = u THEN StandIn(u)
                                         ELSE games[g][i].user
                      /\ seats[i].pos = games[g][i].pos
                      /\ seats[i].delta = games[g][i].delta
<1> DEFINE old == games[g]
           Row(i) == IF old[i].user = u THEN [old[i] EXCEPT !.user = StandIn(u)] ELSE old[i]
           seats == Standing(u, old)
<1>1. Transaction(g)
  BY DEF LedgerInv
<1>2. CASE persists[g].pc # "done"
  <2>1. old = <<>>
    BY <1>1, <1>2 DEF Transaction
  <2>2. seats = [i \in {} |-> Row(i)]
    BY <2>1 DEF Standing
  <2>3. seats = <<>>
    BY <2>2
  <2> HIDE DEF seats, old
  <2>4. seats \in Seq({}) /\ DOMAIN old = {}
    BY <2>1, <2>3
  <2>5. QED
    BY <2>1, <2>3, <2>4 DEF seats, old
<1>3. CASE persists[g].pc = "done"
  <2>1. /\ Len(old) \in Nat /\ DOMAIN old = 1..Len(old)
        /\ \A i \in DOMAIN old : SeatRow(old[i])
    BY <1>1, <1>3 DEF Transaction, SeatsFor
  <2>2. seats = [i \in 1..Len(old) |-> Row(i)]
    BY <2>1 DEF Standing
  <2> HIDE DEF seats, old
  <2>3. \A i \in DOMAIN old : Row(i) = [user |-> IF old[i].user = u THEN StandIn(u) ELSE old[i].user,
                                        pos |-> old[i].pos, before |-> old[i].before,
                                        delta |-> old[i].delta]
    BY <2>1 DEF SeatRow
  <2> HIDE DEF Row
  <2>4. seats \in Seq({Row(i) : i \in 1..Len(old)})
    BY <2>1, <2>2
  <2>5. DOMAIN seats = DOMAIN old /\ Len(seats) = Len(old)
    BY <2>1, <2>2, <2>4
  <2>6. \A i \in DOMAIN old :
            seats[i] = [user |-> IF old[i].user = u THEN StandIn(u) ELSE old[i].user,
                        pos |-> old[i].pos, before |-> old[i].before, delta |-> old[i].delta]
    BY <2>1, <2>2, <2>3
  <2>7. old = <<>> => seats = <<>>
    <3>1. ASSUME old = <<>> PROVE seats = <<>>
      <4>1. DOMAIN old = {}
        BY <3>1
      <4>2. 1..Len(old) = {}
        BY <2>1, <4>1
      <4>3. QED
        BY <2>2, <4>2
    <3>2. QED
      BY <3>1
  <2>8. \A i \in DOMAIN old : /\ SeatRow(seats[i])
                              /\ seats[i].user = IF old[i].user = u THEN StandIn(u) ELSE old[i].user
                              /\ seats[i].pos = old[i].pos
                              /\ seats[i].delta = old[i].delta
    <3>1. ASSUME NEW i \in DOMAIN old
          PROVE  /\ SeatRow(seats[i])
                 /\ seats[i].user = IF old[i].user = u THEN StandIn(u) ELSE old[i].user
                 /\ seats[i].pos = old[i].pos
                 /\ seats[i].delta = old[i].delta
      <4> DEFINE w == IF old[i].user = u THEN StandIn(u) ELSE old[i].user
      <4>1. seats[i] = [user |-> w, pos |-> old[i].pos, before |-> old[i].before,
                        delta |-> old[i].delta]
        BY <2>6
      <4> HIDE DEF w
      <4>2. seats[i].user = w /\ seats[i].pos = old[i].pos /\ seats[i].delta = old[i].delta
            /\ SeatRow(seats[i])
        BY <4>1 DEF SeatRow
      <4>3. QED
        BY <4>2 DEF w
    <3>2. QED
      BY <3>1
  <2>9. QED
    BY <2>4, <2>5, <2>7, <2>8 DEF seats, old
<1>4. QED
  BY <1>2, <1>3

LEMMA DeletedKeeps ==
    ASSUME LedgerInv, NEW u \in Players, Deleted(u), DOMAIN deletions' = Players
    PROVE  /\ LedgerInv'
           /\ \A v, m : Played(v, m)' = Played(v, m)
<1>1. /\ accounts' = accounts \ {u} /\ persists' = persists
      /\ DOMAIN rating = Players /\ DOMAIN games' = GameIds
      /\ \A g \in GameIds : games'[g] = Standing(u, games[g]) /\ u \notin SeatsWritten(g)
  BY DEF Deleted, LedgerInv, TablesOK
<1>2. /\ DOMAIN rating' = Players
      /\ \A m \in Modes : rating'[u][m] = NoRating
      /\ \A v \in Players : DOMAIN rating'[v] = Modes
      /\ \A v \in Players : v # u => rating'[v] = rating[v]
  BY DEF Deleted, LedgerInv, TablesOK
<1>3. \A g : OrderOf(g)' = OrderOf(g)
  BY <1>1 DEF OrderOf
<1>4. \A v, m : Played(v, m)' = Played(v, m)
  BY <1>1, <1>3 DEF Played
<1>5. TablesOK'
  <2>1. {g \in GameIds : persists[g].pc = "done"}' = {g \in GameIds : persists[g].pc = "done"}
    BY <1>1
  <2>2. IsFiniteSet({g \in GameIds : persists[g].pc = "done"}')
    BY <2>1 DEF LedgerInv, TablesOK
  <2>3. ASSUME NEW v \in Players, NEW m \in Modes
        PROVE  /\ rating'[v][m].present \in BOOLEAN
               /\ v \notin accounts' => rating'[v][m] = NoRating
    <3>1. CASE v = u
      <4>1. rating'[v][m] = NoRating
        BY <1>2, <3>1
      <4>2. NoRating.present = FALSE
        BY DEF NoRating
      <4>3. QED
        BY <4>1, <4>2
    <3>2. CASE v # u
      BY <1>1, <1>2, <3>2 DEF LedgerInv, TablesOK
    <3>3. QED
      BY <3>1, <3>2
  <2>4. accounts' \subseteq Players /\ DOMAIN persists' = GameIds
    BY <1>1 DEF LedgerInv, TablesOK
  <2>5. QED
    BY <1>1, <1>2, <2>2, <2>3, <2>4 DEF TablesOK
<1>6. Counted'
  <2>1. ASSUME NEW v \in accounts \ {u}, NEW m \in Modes
        PROVE  /\ rating'[v][m].present = (Played(v, m)' # {})
               /\ rating'[v][m].played = Cardinality(Played(v, m)')
               /\ rating'[v][m].wins = Cardinality({g \in Played(v, m) : Won(g, v)}')
               /\ rating'[v][m].losses = Cardinality({g \in Played(v, m) : Lost(g, v)}')
    <3>1. \A g : (Won(g, v)' <=> Won(g, v)) /\ (Lost(g, v)' <=> Lost(g, v))
      BY <1>1, <1>3 DEF Won, Lost
    <3>2. /\ {g \in Played(v, m) : Won(g, v)}' = {g \in Played(v, m) : Won(g, v)}
          /\ {g \in Played(v, m) : Lost(g, v)}' = {g \in Played(v, m) : Lost(g, v)}
      BY <1>4, <3>1
    <3>3. v \in Players /\ v # u
      BY DEF LedgerInv, TablesOK
    <3>4. rating'[v] = rating[v]
      BY <1>2, <3>3
    <3>5. /\ rating[v][m].present = (Played(v, m) # {})
          /\ rating[v][m].played = Cardinality(Played(v, m))
          /\ rating[v][m].wins = Cardinality({g \in Played(v, m) : Won(g, v)})
          /\ rating[v][m].losses = Cardinality({g \in Played(v, m) : Lost(g, v)})
      BY DEF LedgerInv, Counted
    <3>6. QED
      BY <1>4, <3>2, <3>4, <3>5
  <2>2. QED
    BY <1>1, <2>1 DEF Counted
<1>7. ASSUME NEW g \in GameIds PROVE Transaction(g)'
  <2> DEFINE n == Len(OrderOf(g))
  <2>1. Transaction(g)
    BY DEF LedgerInv
  <2>2. /\ DOMAIN games'[g] = DOMAIN games[g] /\ Len(games'[g]) = Len(games[g])
        /\ (games[g] = <<>> => games'[g] = <<>>)
        /\ \E T : games'[g] \in Seq(T)
        /\ \A i \in DOMAIN games[g] :
               /\ SeatRow(games'[g][i])
               /\ games'[g][i].user = IF games[g][i].user = u THEN StandIn(u) ELSE games[g][i].user
               /\ games'[g][i].pos = games[g][i].pos
    BY <1>1, StandingKeeps
  <2>3. ASSUME persists[g].pc = "write"
        PROVE  UsersOf(OrderOf(g), persists[g].at - 1) \subseteq accounts'
    <3>1. ASSUME NEW i \in 1..(persists[g].at - 1), OrderOf(g)[i].userId = u PROVE FALSE
      <4>1. <<u, ModeOf(persists[g].score)>> \in Locked(g)
        BY <2>3, <3>1 DEF Locked, OrderOf
      <4>2. u \in SeatsWritten(g)
        BY <4>1 DEF SeatsWritten
      <4>3. QED
        BY <1>1, <4>2
    <3>2. UsersOf(OrderOf(g), persists[g].at - 1) \subseteq accounts
      BY <2>1, <2>3 DEF Transaction
    <3>3. u \notin UsersOf(OrderOf(g), persists[g].at - 1)
      BY <3>1 DEF UsersOf
    <3>4. QED
      BY <1>1, <3>2, <3>3
  <2>4. ASSUME persists[g].pc = "done" PROVE SeatsFor(games[g], OrderOf(g))'
    <3>1. SeatsFor(games[g], OrderOf(g))
      BY <2>1, <2>4 DEF Transaction
    <3>2. ASSUME NEW i \in DOMAIN games[g]
          PROVE  games'[g][i].user = Now(OrderOf(g)[i].userId)'
      <4> DEFINE v == OrderOf(g)[i].userId
      <4>1. v \in Players
        <5>1. DOMAIN games[g] = 1..n
          BY <3>1 DEF SeatsFor
        <5>2. QED
          BY <2>1, <2>4, <5>1, OrderFacts
      <4>2. games[g][i].user = Now(v)
        BY <3>1 DEF SeatsFor
      <4>3. v' = v
        BY <1>3
      <4> HIDE DEF v
      <4>4. Now(v)' = IF v \in accounts /\ v # u THEN v ELSE StandIn(v)
        BY <1>1, <4>3 DEF Now
      <4>5. games'[g][i].user = IF games[g][i].user = u THEN StandIn(u) ELSE games[g][i].user
        BY <2>2
      <4>6. StandIn(v) # u
        BY <4>1, StandInAssumption
      <4>7. games'[g][i].user = Now(v)'
        BY <4>2, <4>4, <4>5, <4>6 DEF Now
      <4>8. QED
        BY <4>7 DEF v
    <3>3. QED
      BY <1>3, <2>2, <3>1, <3>2 DEF SeatsFor
  <2>5. QED
    BY <1>1, <1>3, <2>1, <2>2, <2>3, <2>4 DEF Transaction
<1>8. QED
  BY <1>4, <1>5, <1>6, <1>7 DEF LedgerInv

LEMMA DeleteUserKeeps ==
    ASSUME LedgerInv, NEW u \in Players, DeleteUser(u)
    PROVE  /\ LedgerInv'
           /\ Deleted(u) \/ UNCHANGED <<accounts, rating, games, persists>>
           /\ UNCHANGED overlapped
<1>1. DOMAIN deletions' = Players /\ UNCHANGED <<persists, overlapped>>
  BY DEF DeleteUser, LedgerInv, TablesOK
<1>2. CASE UNCHANGED <<accounts, rating, games>>
  BY <1>1, <1>2, QuietStep DEF LedgerInv, TablesOK
<1>3. CASE ~UNCHANGED <<accounts, rating, games>>
  <2>1. Deleted(u)
    BY <1>3 DEF DeleteUser, Deleted
  <2>2. QED
    BY <1>1, <2>1, DeletedKeeps
<1>4. QED
  BY <1>1, <1>2, <1>3

-----------------------------------------------------------------------------
LEMMA LedgerStep ==
    ASSUME LedgerInv, [LedgerNext]_ledgerVars
    PROVE  LedgerInv'
<1>1. ASSUME NEW g \in GameIds, NEW s \in Outcomes, EndOfGame(g, s) PROVE LedgerInv'
  BY <1>1, EndOfGameKeeps
<1>2. ASSUME NEW g \in GameIds, ReadRating(g) PROVE LedgerInv'
  BY <1>2, ReadRatingKeeps
<1>3. ASSUME NEW g \in GameIds, WriteSeat(g) PROVE LedgerInv'
  BY <1>3, WriteSeatKeeps
<1>4. ASSUME NEW g \in GameIds, Commit(g) PROVE LedgerInv'
  BY <1>4, CommitKeeps
<1>5. ASSUME NEW g \in GameIds, DeadlockAbort(g) PROVE LedgerInv'
  BY <1>5, FailedKeeps DEF DeadlockAbort
<1>6. ASSUME NEW g \in GameIds, PersistFails(g) PROVE LedgerInv'
  BY <1>6, FailedKeeps DEF PersistFails
<1>7. ASSUME NEW u \in Leavers, DeleteMoves(u) PROVE LedgerInv'
  BY <1>7, QuietStep DEF DeleteMoves, LedgerInv, TablesOK
<1>8. ASSUME NEW u \in Leavers, DeleteUser(u) PROVE LedgerInv'
  BY <1>8, DeleteUserKeeps, LedgerAssumption
<1>9. CASE UNCHANGED ledgerVars
  BY <1>9, QuietStep DEF ledgerVars, LedgerInv, TablesOK
<1>10. QED
  BY <1>1, <1>2, <1>3, <1>4, <1>5, <1>6, <1>7, <1>8, <1>9 DEF LedgerNext

LEMMA LedgerInductive == LedgerSpec => []LedgerInv
<1>1. LedgerInv /\ [LedgerNext]_ledgerVars => LedgerInv'
  BY LedgerStep
<1>2. QED
  BY <1>1, LedgerBegins, PTL DEF LedgerSpec

-----------------------------------------------------------------------------
(* Seats and the leaderboard                                               *)

\* A recorded game keeps a seat for each of its players, whichever accounts
\* are deleted while it is being recorded or afterwards: the player's own, or
\* that of the stand-in.
THEOREM SeatsArePreserved == LedgerSpec => []SeatsAreKept
<1>1. LedgerInv => SeatsAreKept
  <2> SUFFICES ASSUME LedgerInv, NEW g \in GameIds, persists[g].pc = "done"
               PROVE  /\ Len(games[g]) = PlayerCount(persists[g].score)
                      /\ \A i \in DOMAIN games[g] :
                             LET u == FinishOrder(persists[g].score)[i].userId
                             IN  games[g][i].user = IF u \in accounts THEN u ELSE StandIn(u)
    BY DEF SeatsAreKept
  <2>1. Transaction(g)
    BY DEF LedgerInv
  <2>2. Len(OrderOf(g)) = PlayerCount(persists[g].score)
    BY <2>1, OrderFacts
  <2>3. SeatsFor(games[g], OrderOf(g))
    BY <2>1 DEF Transaction
  <2>4. QED
    BY <2>2, <2>3 DEF SeatsFor, Now, OrderOf
<1>2. QED
  BY <1>1, LedgerInductive, PTL

\* The leaderboard counts the games, wins and losses that the history shows,
\* however the transactions of several games overlap, fail or wait for a
\* deletion.
THEOREM LeaderboardIsCounted == LedgerSpec => []LeaderboardCounts
<1>1. LedgerInv => LeaderboardCounts
  <2> SUFFICES ASSUME LedgerInv, NEW m \in Modes
               PROVE  /\ Leaderboard(m) = {u \in accounts : GamesOf(u, m) # {}}
                      /\ \A u \in Leaderboard(m) :
                            /\ rating[u][m].played = Cardinality(GamesOf(u, m))
                            /\ rating[u][m].wins = Cardinality({g \in GamesOf(u, m) :
                                  SeatIn(g, u).pos = 1 /\ persists[g].score.endReason # "stalemate"})
                            /\ rating[u][m].losses = Cardinality({g \in GamesOf(u, m) :
                                  /\ SeatIn(g, u).pos = Len(games[g])
                                  /\ persists[g].score.endReason # "stalemate"})
    BY DEF LeaderboardCounts
  <2>1. TablesOK /\ (\A g \in GameIds : Transaction(g)) /\ Counted
    BY DEF LedgerInv
  <2>2. \A u \in accounts : GamesOf(u, m) = Played(u, m)
    BY <2>1, SeatOfPlayer
  <2>3. ASSUME NEW u \in Players \ accounts PROVE rating[u][m].present = FALSE
    <3>1. rating[u][m] = NoRating
      BY <2>1 DEF TablesOK
    <3>2. NoRating.present = FALSE
      BY DEF NoRating
    <3>3. QED
      BY <3>1, <3>2
  <2>4. Leaderboard(m) \subseteq accounts
    BY <2>3 DEF Leaderboard
  <2>5. \A u \in accounts : rating[u][m].present = (GamesOf(u, m) # {})
    BY <2>1, <2>2 DEF Counted
  <2>6. Leaderboard(m) = {u \in accounts : GamesOf(u, m) # {}}
    BY <2>1, <2>4, <2>5 DEF Leaderboard, TablesOK
  <2>7. ASSUME NEW u \in Leaderboard(m)
        PROVE  /\ rating[u][m].played = Cardinality(GamesOf(u, m))
               /\ rating[u][m].wins = Cardinality({g \in GamesOf(u, m) :
                     SeatIn(g, u).pos = 1 /\ persists[g].score.endReason # "stalemate"})
               /\ rating[u][m].losses = Cardinality({g \in GamesOf(u, m) :
                     /\ SeatIn(g, u).pos = Len(games[g])
                     /\ persists[g].score.endReason # "stalemate"})
    <3>1. u \in accounts
      BY <2>4
    <3>2. ASSUME NEW g \in Played(u, m)
          PROVE  /\ Won(g, u) <=> SeatIn(g, u).pos = 1 /\ persists[g].score.endReason # "stalemate"
                 /\ Lost(g, u) <=> /\ SeatIn(g, u).pos = Len(games[g])
                                   /\ persists[g].score.endReason # "stalemate"
      <4>1. g \in GameIds /\ persists[g].pc = "done" /\ Transaction(g)
        BY <2>1 DEF Played
      <4>2. PICK i \in DOMAIN OrderOf(g) : OrderOf(g)[i].userId = u
        BY DEF Played
      <4>3. \A j \in DOMAIN OrderOf(g) : OrderOf(g)[j].userId = u => j = i
        BY <4>1, <4>2, OrderFacts
      <4>4. i \in DOMAIN games[g] /\ SeatIn(g, u) = games[g][i]
        BY <2>1, <3>1, <4>2, SeatOfPlayer
      <4>5. games[g][i].pos = OrderOf(g)[i].finishPos /\ Len(games[g]) = Len(OrderOf(g))
        BY <4>1, <4>4 DEF Transaction, SeatsFor
      <4>6. QED
        BY <4>2, <4>3, <4>4, <4>5 DEF Won, Lost
    <3>3. /\ {g \in Played(u, m) : Won(g, u)} =
              {g \in GamesOf(u, m) : SeatIn(g, u).pos = 1 /\ persists[g].score.endReason # "stalemate"}
          /\ {g \in Played(u, m) : Lost(g, u)} =
              {g \in GamesOf(u, m) : /\ SeatIn(g, u).pos = Len(games[g])
                                     /\ persists[g].score.endReason # "stalemate"}
      BY <2>2, <3>1, <3>2
    <3>4. QED
      BY <2>1, <2>2, <3>1, <3>3 DEF Counted
  <2>8. QED
    BY <2>6, <2>7
<1>2. QED
  BY <1>1, LedgerInductive, PTL

-----------------------------------------------------------------------------
(* The changes of one game                                                 *)

LEMMA RoundedIs ==
    ASSUME NEW x \in Int, NEW d \in {1, 2, 3, 5}
    PROVE  /\ Rounded(x, d) \in Int
           /\ 2 * x - d <= 2 * d * Rounded(x, d) /\ 2 * d * Rounded(x, d) <= 2 * x + d
<1>1. CASE d = 1
  BY <1>1 DEF Rounded
<1>2. CASE d = 2
  BY <1>2 DEF Rounded
<1>3. CASE d = 3
  BY <1>3 DEF Rounded
<1>4. CASE d = 5
  BY <1>4 DEF Rounded
<1>5. QED
  BY <1>1, <1>2, <1>3, <1>4

LEMMA SeatsBalance ==
    ASSUME SharesAreNumbers, NEW s \in Outcomes, NEW before,
           \A i \in DOMAIN FinishOrder(s) : before[FinishOrder(s)[i].userId] \in Int
    PROVE  LET seats == Seats(s, before)
               total == Total(Deltas(seats), DOMAIN seats)
           IN  /\ \A i \in DOMAIN seats : seats[i].delta \in Int
               /\ 2 * total <= Len(seats) /\ -2 * total <= Len(seats)
<1> DEFINE order == FinishOrder(s)
           seats == Seats(s, before)
           n == Len(order)
           d == n - 1
           S == 1..n
           p == [i \in S |-> [j \in S |-> PairChange(order, before, i, j)]]
           x == [i \in S |-> Total(p[i], S \ {i})]
           r == Deltas(seats)
<1>1. /\ n \in {2, 3, 4, 6} /\ DOMAIN order = S
  BY OutcomeOrder
<1>2. /\ Len(seats) = n /\ DOMAIN seats = S
      /\ \A i \in S : seats[i].delta = IF s.endReason = "stalemate" THEN 0
                                       ELSE EloDelta(order, before, i)
  BY <1>1, SeatsRows
<1>3. n \in Nat /\ d \in {1, 2, 3, 5} /\ d = n - 1
  BY <1>1
<1>4. IsFiniteSet(S) /\ Cardinality(S) = n
  BY <1>3, FirstNaturals
<1>5. r = [i \in S |-> seats[i].delta]
  BY <1>2 DEF Deltas
<1>6. ASSUME NEW i \in S, NEW j \in S
      PROVE  /\ p[i][j] \in Int
             /\ i # j => p[i][j] = -p[j][i]
  <2>1. p[i][j] = PairChange(order, before, i, j) /\ p[j][i] = PairChange(order, before, j, i)
    OBVIOUS
  <2>2. before[order[i].userId] \in Int /\ before[order[j].userId] \in Int
    BY <1>1
  <2>3. /\ WinShare(before[order[i].userId], before[order[j].userId]) \in Int
        /\ WinShare(before[order[j].userId], before[order[i].userId]) \in Int
    BY <2>2 DEF SharesAreNumbers
  <2> HIDE DEF p, order
  <2>4. i \in Int /\ j \in Int
    BY <1>3
  <2>5. QED
    BY <2>1, <2>3, <2>4 DEF PairChange
<1> HIDE DEF p, order, seats, S, d, n
<1>7. Total(x, S) = 0
  <2>1. Total([i \in S |-> Total(p[i], S \ {i})], S) = 0
    BY <1>4, <1>6, TotalCancels
  <2>2. QED
    BY <2>1
<1>8. ASSUME NEW i \in S
      PROVE  x[i] \in Int /\ EloDelta(order, before, i) = Rounded(x[i], d)
  <2>1. x[i] = Total(p[i], S \ {i})
    OBVIOUS
  <2>2. IsFiniteSet(S \ {i})
    BY <1>4, FS_RemoveElement
  <2>3. x[i] \in Int
    BY <1>6, <2>1, <2>2, TotalInt
  <2>4. p[i] = [j \in S |-> PairChange(order, before, i, j)]
    BY DEF p
  <2>5. QED
    BY <1>1, <1>3, <2>1, <2>3, <2>4 DEF EloDelta, n
<1> HIDE DEF x
<1>9. \A i \in S : r[i] \in Int
  <2>1. ASSUME NEW i \in S PROVE r[i] \in Int
    <3>1. r[i] = seats[i].delta
      BY <1>5
    <3>2. Rounded(x[i], d) \in Int
      BY <1>3, <1>8, RoundedIs
    <3>3. QED
      BY <1>2, <1>8, <3>1, <3>2
  <2>2. QED
    BY <2>1
<1>10. Total(r, S) \in Int
  BY <1>4, <1>9, TotalInt
<1> HIDE DEF r
<1>11. CASE s.endReason = "stalemate"
  <2>1. \A i \in S : r[i] = 0
    BY <1>2, <1>5, <1>11
  <2>2. Total(r, S) = 0
    BY <1>4, <2>1, TotalZero
  <2>3. 2 * Total(r, S) <= n /\ -2 * Total(r, S) <= n
    BY <1>3, <2>2
  <2>4. QED
    BY <1>2, <1>5, <1>9, <2>3 DEF r, seats
<1>12. CASE s.endReason # "stalemate"
  <2>1. ASSUME NEW i \in S
        PROVE  /\ x[i] \in Int /\ r[i] \in Int
               /\ 2 * x[i] - d <= 2 * d * r[i] /\ 2 * d * r[i] <= 2 * x[i] + d
    <3>1. r[i] = Rounded(x[i], d)
      BY <1>2, <1>5, <1>8, <1>12
    <3>2. QED
      BY <1>3, <1>8, <3>1, RoundedIs
  <2>2. /\ 2 * Total(x, S) - d * Cardinality(S) <= 2 * d * Total(r, S)
        /\ 2 * d * Total(r, S) <= 2 * Total(x, S) + d * Cardinality(S)
    BY <1>3, <1>4, <2>1, TotalRounds
  <2>3. 0 - d * n <= 2 * d * Total(r, S) /\ 2 * d * Total(r, S) <= d * n
    BY <1>3, <1>4, <1>7, <2>2
  <2>4. 2 * Total(r, S) <= n /\ -2 * Total(r, S) <= n
    <3>1. CASE d = 1
      BY <1>3, <1>10, <2>3, <3>1
    <3>2. CASE d = 2
      BY <1>3, <1>10, <2>3, <3>2
    <3>3. CASE d = 3
      BY <1>3, <1>10, <2>3, <3>3
    <3>4. CASE d = 5
      BY <1>3, <1>10, <2>3, <3>4
    <3>5. QED
      BY <1>3, <3>1, <3>2, <3>3, <3>4
  <2>5. QED
    BY <1>2, <1>5, <1>9, <2>4 DEF r, seats
<1>13. QED
  BY <1>11, <1>12

-----------------------------------------------------------------------------
(* Ratings                                                                 *)

LEMMA RatingBegins == LedgerInit => RatingInv
<1> SUFFICES ASSUME LedgerInit PROVE RatingInv
  OBVIOUS
<1>1. \A g \in GameIds : ~Busy(g) /\ games[g] = <<>>
  BY DEF LedgerInit, NotPlayed, Persisting, Busy
<1>2. \A u, m : Played(u, m) = {}
  BY DEF LedgerInit, Played, NotPlayed, Persisting
<1>3. \A u \in Players, m \in Modes : rating[u][m].rating = 1200
  BY DEF LedgerInit, NoRating
<1>4. RatingSums
  <2>1. ASSUME NEW u \in accounts, NEW m \in Modes
        PROVE  rating[u][m].rating = 1200 + Total(Gains(u, m), Played(u, m))
    <3>1. u \in Players
      BY DEF LedgerInit
    <3>2. Total(Gains(u, m), Played(u, m)) = 0
      BY <1>2, TotalEmpty
    <3>3. QED
      BY <1>3, <3>1, <3>2
  <2>2. QED
    BY <2>1 DEF RatingSums
<1>5. ChangesBalance
  <2>1. ASSUME NEW g \in GameIds
        PROVE  /\ 2 * Total(Deltas(games[g]), DOMAIN games[g]) <= Len(games[g])
               /\ -2 * Total(Deltas(games[g]), DOMAIN games[g]) <= Len(games[g])
    <3>1. DOMAIN games[g] = {} /\ Len(games[g]) = 0
      BY <1>1
    <3>2. Total(Deltas(games[g]), DOMAIN games[g]) = 0
      BY <3>1, TotalEmpty
    <3>3. QED
      BY <3>1, <3>2
  <2>2. QED
    BY <2>1 DEF ChangesBalance
<1>6. Numbers
  <2>1. \A g \in GameIds : DOMAIN games[g] = {}
    BY <1>1
  <2>2. QED
    BY <1>1, <1>3, <2>1 DEF Numbers
<1>7. QED
  BY <1>1, <1>4, <1>5, <1>6 DEF RatingInv, Alone, Fresh

\* A rating that a transaction knows: it knew it before, or reads it now.
Known(g, u) ==
    /\ Busy(g) /\ persists'[g].score = persists[g].score
    /\ u \in DOMAIN persists[g].before /\ persists'[g].before[u] = persists[g].before[u]

Learnt(g, u) ==
    /\ u \in Players
    /\ persists'[g].before[u] = rating[u][ModeOf(persists'[g].score)].rating
    /\ \A h \in GameIds \ {g} :
           /\ persists'[h].pc \in {"read", "write"}
           /\ ModeOf(persists'[h].score) = ModeOf(persists'[g].score)
           /\ u \in DOMAIN persists'[h].before
           => u \in overlapped'

LEMMA RatingQuiet ==
    ASSUME LedgerInv, RatingInv, UNCHANGED <<accounts, rating, games>>,
           overlapped \subseteq overlapped', \A u, m : Played(u, m)' = Played(u, m),
           \A g \in GameIds : persists'[g].pc = "done" => persists'[g] = persists[g],
           \A g \in GameIds : persists'[g].pc \in {"read", "write"} =>
               \A u \in DOMAIN persists'[g].before : Known(g, u) \/ Learnt(g, u)
    PROVE  RatingInv'
<1>1. \A g \in GameIds : Busy(g)' <=> persists'[g].pc \in {"read", "write"}
  BY DEF Busy
<1>2. accounts' = accounts /\ rating' = rating /\ games' = games
  OBVIOUS
<1>3. ASSUME NEW g \in GameIds, Busy(g)', NEW u \in DOMAIN persists'[g].before
      PROVE  Known(g, u) \/ Learnt(g, u)
  BY <1>1, <1>3
<1>4. \A u \in Players, m \in Modes : rating[u][m].rating \in Int
  BY DEF RatingInv, Numbers
<1>5. \A s : ModeOf(s) \in Modes
  BY DEF ModeOf, Modes
<1>6. Numbers'
  <2>1. ASSUME NEW g \in GameIds, Busy(g)', NEW u \in DOMAIN persists'[g].before
        PROVE  persists'[g].before[u] \in Int
    <3>1. CASE Known(g, u)
      BY <3>1 DEF Known, RatingInv, Numbers
    <3>2. CASE Learnt(g, u)
      BY <1>4, <1>5, <3>2 DEF Learnt
    <3>3. QED
      BY <1>3, <2>1, <3>1, <3>2
  <2>2. \A g \in GameIds : \A i \in DOMAIN games[g] : games[g][i].delta \in Int
    BY DEF RatingInv, Numbers
  <2>3. QED
    BY <1>2, <1>4, <2>1, <2>2 DEF Numbers
<1>7. Alone'
  <2>1. ASSUME NEW g \in GameIds, NEW h \in GameIds, NEW u \in Players, g # h,
               Busy(g)', Busy(h)', ModeOf(persists'[g].score) = ModeOf(persists'[h].score),
               u \in DOMAIN persists'[g].before, u \in DOMAIN persists'[h].before
        PROVE  u \in overlapped'
    <3>1. CASE Known(g, u) /\ Known(h, u)
      BY <2>1, <3>1 DEF Known, RatingInv, Alone
    <3>2. CASE Learnt(g, u)
      BY <1>1, <2>1, <3>2 DEF Learnt
    <3>3. CASE Learnt(h, u)
      BY <1>1, <2>1, <3>3 DEF Learnt
    <3>4. QED
      BY <1>3, <2>1, <3>1, <3>2, <3>3
  <2>2. QED
    BY <2>1 DEF Alone
<1>8. Fresh'
  <2>1. ASSUME NEW g \in GameIds, Busy(g)', NEW u \in DOMAIN persists'[g].before,
               u \in accounts' \ overlapped'
        PROVE  persists'[g].before[u] = rating'[u][ModeOf(persists'[g].score)].rating
    <3>1. CASE Known(g, u)
      BY <1>2, <2>1, <3>1 DEF Known, RatingInv, Fresh
    <3>2. CASE Learnt(g, u)
      BY <1>2, <3>2 DEF Learnt
    <3>3. QED
      BY <1>3, <2>1, <3>1, <3>2
  <2>2. QED
    BY <2>1 DEF Fresh
<1>9. RatingSums'
  <2>1. ASSUME NEW u \in accounts \ overlapped', NEW m \in Modes
        PROVE  rating'[u][m].rating =
                   1200 + Total(Gains(u, m)', Played(u, m)')
    <3>1. \A g \in Played(u, m) : Gain(g, u)' = Gain(g, u)
      <4>1. ASSUME NEW g \in Played(u, m) PROVE Gain(g, u)' = Gain(g, u)
        <5>1. g \in Played(u, m)' /\ g \in GameIds
          BY DEF Played
        <5>2. persists'[g] = persists[g]
          BY <5>1 DEF Played
        <5>3. OrderOf(g)' = OrderOf(g)
          BY <5>2 DEF OrderOf
        <5>4. QED
          BY <1>2, <5>3 DEF Gain
      <4>2. QED
        BY <4>1
    <3>2. Gains(u, m)' = Gains(u, m)
      BY <3>1 DEF Gains
    <3>3. rating[u][m].rating = 1200 + Total(Gains(u, m), Played(u, m))
      BY DEF RatingInv, RatingSums
    <3>4. Played(u, m)' = Played(u, m)
      OBVIOUS
    <3>5. QED
      BY <1>2, <3>2, <3>3, <3>4
  <2>2. QED
    BY <1>2, <2>1 DEF RatingSums
<1>10. ChangesBalance'
  BY <1>2 DEF RatingInv, ChangesBalance
<1>11. QED
  BY <1>6, <1>7, <1>8, <1>9, <1>10 DEF RatingInv

LEMMA ReadRatingAddsUp ==
    ASSUME LedgerInv, RatingInv, NEW g \in GameIds, ReadRating(g)
    PROVE  RatingInv'
<1> DEFINE p == persists[g]
           u == UserAt(g)
<1>1. /\ DOMAIN persists'[g].before = DOMAIN p.before \union {u}
      /\ persists'[g].pc \in {"read", "write"} /\ persists'[g].score = p.score /\ u \in Players
      /\ \A v \in DOMAIN persists'[g].before :
             persists'[g].before[v] = IF v = u THEN rating[v][ModeOf(p.score)].rating
                                      ELSE p.before[v]
  BY ReadRatingKeeps
<1>2. /\ p.pc = "read" /\ UNCHANGED <<accounts, rating, games>>
      /\ \A h \in GameIds : h # g => persists'[h] = persists[h]
      /\ overlapped' = overlapped \union
            {v \in {u} : \E h \in GameIds \ {g} :
                /\ persists[h].pc \in {"read", "write"}
                /\ ModeOf(persists[h].score) = ModeOf(p.score)
                /\ u \in DOMAIN persists[h].before}
  <2>1. \A h \in GameIds : h # g => persists'[h] = persists[h]
    BY DEF ReadRating, LedgerInv, TablesOK
  <2>2. QED
    BY <2>1 DEF ReadRating
<1> HIDE DEF p, u
<1>3. \A v, m : Played(v, m)' = Played(v, m)
  <2>1. \A h \in GameIds : persists'[h].pc = "done" <=> persists[h].pc = "done"
    BY <1>1, <1>2 DEF p
  <2>2. \A h \in GameIds : persists'[h].score = persists[h].score
    BY <1>1, <1>2 DEF p
  <2>3. QED
    BY <2>1, <2>2 DEF Played, OrderOf
<1>4. \A h \in GameIds : persists'[h].pc = "done" => persists'[h] = persists[h]
  BY <1>1, <1>2
<1>5. ASSUME NEW h \in GameIds, persists'[h].pc \in {"read", "write"},
             NEW v \in DOMAIN persists'[h].before
      PROVE  Known(h, v) \/ Learnt(h, v)
  <2>1. CASE h # g
    BY <1>2, <1>5, <2>1 DEF Known, Busy
  <2>2. CASE h = g /\ v # u
    BY <1>1, <1>2, <1>5, <2>2 DEF Known, Busy, p
  <2>3. CASE h = g /\ v = u
    <3>1. persists'[g].before[u] = rating[u][ModeOf(persists'[g].score)].rating
      BY <1>1
    <3>2. ASSUME NEW k \in GameIds \ {g}, persists'[k].pc \in {"read", "write"},
                 ModeOf(persists'[k].score) = ModeOf(persists'[g].score),
                 u \in DOMAIN persists'[k].before
          PROVE  u \in overlapped'
      <4>1. persists'[k] = persists[k]
        BY <1>2
      <4>2. QED
        BY <1>1, <1>2, <3>2, <4>1
    <3>3. QED
      BY <1>1, <2>3, <3>1, <3>2 DEF Learnt
  <2>4. QED
    BY <2>1, <2>2, <2>3
<1>6. overlapped \subseteq overlapped'
  BY <1>2
<1>7. QED
  BY <1>2, <1>3, <1>4, <1>5, <1>6, RatingQuiet

\* A step in which no transaction reads or commits.
LEMMA OtherAddsUp ==
    ASSUME LedgerInv, RatingInv, UNCHANGED <<accounts, rating, games, overlapped>>,
           \A g \in GameIds :
               \/ persists'[g] = persists[g]
               \/ /\ persists[g].pc # "done" /\ persists'[g].pc # "done"
                  /\ persists'[g].pc \in {"read", "write"} =>
                         \/ DOMAIN persists'[g].before = {}
                         \/ /\ Busy(g) /\ persists'[g].score = persists[g].score
                            /\ persists'[g].before = persists[g].before
    PROVE  RatingInv'
<1>1. \A g \in GameIds : persists'[g].pc = "done" => persists'[g] = persists[g]
  OBVIOUS
<1>2. \A u, m : Played(u, m)' = Played(u, m)
  <2>1. \A g \in GameIds : persists'[g].pc = "done" <=> persists[g].pc = "done"
    OBVIOUS
  <2>2. QED
    BY <1>1, <2>1 DEF Played, OrderOf
<1>3. ASSUME NEW g \in GameIds, persists'[g].pc \in {"read", "write"},
             NEW u \in DOMAIN persists'[g].before
      PROVE  Known(g, u)
  BY <1>3 DEF Known, Busy
<1>4. QED
  BY <1>1, <1>2, <1>3, RatingQuiet

LEMMA CommitAddsUp ==
    ASSUME LedgerInv, RatingInv, SharesAreNumbers, NEW g \in GameIds, Commit(g)
    PROVE  RatingInv'
<1> DEFINE p == persists[g]
           order == OrderOf(g)
           seats == Seats(p.score, p.before)
           n == Len(order)
           M == ModeOf(p.score)
           ranked == p.score.endReason # "stalemate"
<1>1. /\ p.pc = "write" /\ UsersOf(order, n) \subseteq accounts
      /\ DOMAIN p.before = UsersOf(order, n)
      /\ persists'[g] = [pc |-> "done", score |-> p.score, at |-> p.at, before |-> <<>>]
      /\ games'[g] = seats
      /\ \A h \in GameIds : h # g => persists'[h] = persists[h] /\ games'[h] = games[h]
  BY CommitWrites
<1>2. ASSUME NEW i \in 1..n
      PROVE  rating'[order[i].userId][M] = Updated(rating[order[i].userId][M], seats[i], n, ranked)
  BY CommitWrites
<1>3. ASSUME NEW u \in Players, NEW m \in Modes
      PROVE  /\ ~(Seated(order, u) /\ m = M) => rating'[u][m] = rating[u][m]
             /\ g \notin Played(u, m)
             /\ Played(u, m)' = IF Seated(order, u) /\ m = M THEN Played(u, m) \union {g}
                                ELSE Played(u, m)
  BY CommitWrites, ZenonT(30)
<1>4. /\ p.score \in Outcomes
      /\ n \in {2, 3, 4, 6} /\ DOMAIN order = 1..n
      /\ \A i \in 1..n : order[i].userId \in Players
      /\ \A i, j \in 1..n : order[i].userId = order[j].userId => i = j
  <2>1. Transaction(g)
    BY DEF LedgerInv
  <2>2. p.score \in Outcomes
    BY <1>1, <2>1 DEF Transaction
  <2>3. QED
    BY <1>1, <2>1, <2>2, OrderFacts
<1>5. /\ DOMAIN seats = 1..n
      /\ \A i \in 1..n : seats[i].before = p.before[order[i].userId]
  BY <1>4, SeatsRows DEF OrderOf
<1>6. accounts' = accounts /\ overlapped' = overlapped /\ accounts \subseteq Players /\ M \in Modes
      /\ \A s : ModeOf(s) \in Modes
  BY DEF Commit, LedgerInv, TablesOK, ModeOf, Modes
<1>7. \A i \in 1..n : order[i].userId \in accounts /\ order[i].userId \in DOMAIN p.before
  BY <1>1 DEF UsersOf
<1>8. /\ \A i \in 1..n : p.before[order[i].userId] \in Int
      /\ \A u \in accounts \ overlapped : u \in DOMAIN p.before => p.before[u] = rating[u][M].rating
  BY <1>1, <1>7 DEF RatingInv, Numbers, Fresh, Busy
<1>9. /\ \A i \in 1..n : seats[i].delta \in Int
      /\ 2 * Total(Deltas(seats), DOMAIN seats) <= Len(seats)
      /\ -2 * Total(Deltas(seats), DOMAIN seats) <= Len(seats)
  <2>1. \A i \in DOMAIN FinishOrder(p.score) : p.before[FinishOrder(p.score)[i].userId] \in Int
    BY <1>4, <1>8 DEF OrderOf
  <2>2. QED
    BY <1>4, <1>5, <2>1, SeatsBalance
<1>10. \A u \in Players : Seated(order, u) <=> \E i \in 1..n : order[i].userId = u
  BY <1>4 DEF Seated
<1>11. \A h \in GameIds : /\ Busy(h)' => h # g /\ Busy(h) /\ persists'[h] = persists[h]
                          /\ OrderOf(h)' = OrderOf(h)
  BY <1>1 DEF Busy, OrderOf
<1>12. Busy(g)
  BY <1>1 DEF Busy
<1> HIDE DEF seats, order, n, M, ranked
<1>13. Numbers'
  <2>1. ASSUME NEW u \in Players, NEW m \in Modes PROVE rating'[u][m].rating \in Int
    <3>1. CASE Seated(order, u) /\ m = M
      <4>1. PICK i \in 1..n : order[i].userId = u
        BY <1>10, <3>1
      <4>2. rating'[u][m] = Updated(rating[u][m], seats[i], n, ranked)
        BY <1>2, <3>1, <4>1
      <4>3. rating'[u][m].rating = seats[i].before + seats[i].delta
        BY <4>2 DEF Updated
      <4>4. QED
        BY <1>5, <1>8, <1>9, <4>3
    <3>2. CASE ~(Seated(order, u) /\ m = M)
      BY <1>3, <3>2 DEF RatingInv, Numbers
    <3>3. QED
      BY <3>1, <3>2
  <2>2. ASSUME NEW h \in GameIds PROVE \A i \in DOMAIN games'[h] : games'[h][i].delta \in Int
    <3>1. CASE h = g
      BY <1>1, <1>5, <1>9, <3>1
    <3>2. CASE h # g
      BY <1>1, <3>2 DEF RatingInv, Numbers
    <3>3. QED
      BY <3>1, <3>2
  <2>3. ASSUME NEW h \in GameIds, Busy(h)', NEW u \in DOMAIN persists'[h].before
        PROVE  persists'[h].before[u] \in Int
    BY <1>11, <2>3 DEF RatingInv, Numbers
  <2>4. QED
    BY <2>1, <2>2, <2>3 DEF Numbers
<1>14. Alone'
  <2>1. ASSUME NEW k \in GameIds, NEW h \in GameIds, NEW u \in Players, k # h,
               Busy(k)', Busy(h)', ModeOf(persists'[k].score) = ModeOf(persists'[h].score),
               u \in DOMAIN persists'[k].before, u \in DOMAIN persists'[h].before
        PROVE  u \in overlapped'
    BY <1>6, <1>11, <2>1 DEF RatingInv, Alone
  <2>2. QED
    BY <2>1 DEF Alone
<1>15. Fresh'
  <2>1. ASSUME NEW h \in GameIds, Busy(h)', NEW u \in DOMAIN persists'[h].before,
               u \in accounts' \ overlapped'
        PROVE  persists'[h].before[u] = rating'[u][ModeOf(persists'[h].score)].rating
    <3> DEFINE m == ModeOf(persists[h].score)
    <3>1. h # g /\ Busy(h) /\ persists'[h] = persists[h]
      BY <1>11, <2>1
    <3>2. persists[h].before[u] = rating[u][m].rating
      BY <1>6, <2>1, <3>1 DEF RatingInv, Fresh
    <3>3. u \in Players /\ m \in Modes
      BY <1>6, <2>1
    <3>4. ~(Seated(order, u) /\ m = M)
      <4>1. ASSUME Seated(order, u), m = M PROVE FALSE
        <5>1. u \in DOMAIN p.before
          BY <1>7, <1>10, <3>3, <4>1
        <5>2. u \in overlapped
          BY <1>12, <2>1, <3>1, <3>3, <4>1, <5>1 DEF RatingInv, Alone, M
        <5>3. QED
          BY <1>6, <2>1, <5>2
      <4>2. QED
        BY <4>1
    <3>5. rating'[u][m] = rating[u][m]
      BY <1>3, <3>3, <3>4
    <3>6. QED
      BY <3>1, <3>2, <3>5
  <2>2. QED
    BY <2>1 DEF Fresh
<1>16. RatingSums'
  <2>1. ASSUME NEW u \in accounts \ overlapped, NEW m \in Modes
        PROVE  rating'[u][m].rating = 1200 + Total(Gains(u, m)', Played(u, m)')
    <3> DEFINE old == Played(u, m)
    <3>1. u \in Players /\ g \notin old
      BY <1>3, <1>6
    <3>2. rating[u][m].rating = 1200 + Total(Gains(u, m), old)
      BY DEF RatingInv, RatingSums
    <3>3. old \subseteq GameIds /\ IsFiniteSet(old)
      <4>1. old \subseteq {h \in GameIds : persists[h].pc = "done"}
        BY DEF Played
      <4>2. QED
        BY <4>1, FS_Subset DEF LedgerInv, TablesOK
    <3>4. ASSUME NEW h \in old PROVE Gain(h, u)' = Gain(h, u)
      <4>1. h \in GameIds /\ h # g
        BY <3>1, <3>3
      <4>2. games'[h] = games[h] /\ OrderOf(h)' = OrderOf(h)
        BY <1>1, <1>11, <4>1
      <4>3. QED
        BY <4>2 DEF Gain
    <3>5. old \subseteq Played(u, m)'
      BY <1>3, <3>1
    <3>6. \A h \in old : Gains(u, m)'[h] = Gains(u, m)[h]
      <4>1. ASSUME NEW h \in old PROVE Gains(u, m)'[h] = Gains(u, m)[h]
        <5>1. Gains(u, m)'[h] = Gain(h, u)'
          BY <3>5 DEF Gains
        <5>2. Gains(u, m)[h] = Gain(h, u)
          BY DEF Gains
        <5>3. QED
          BY <3>4, <5>1, <5>2
      <4>2. QED
        BY <4>1
    <3> HIDE DEF old
    <3>7. Total(Gains(u, m)', old) = Total(Gains(u, m), old)
      BY <3>3, <3>6, TotalAgree
    <3>8. CASE ~(Seated(order, u) /\ m = M)
      <4>1. rating'[u][m] = rating[u][m] /\ Played(u, m)' = old
        BY <1>3, <3>1, <3>8 DEF old
      <4>2. QED
        BY <3>2, <3>7, <4>1
    <3>9. CASE Seated(order, u) /\ m = M
      <4>1. PICK i \in 1..n : order[i].userId = u
        BY <1>10, <3>1, <3>9
      <4>2. rating'[u][m] = Updated(rating[u][m], seats[i], n, ranked)
        BY <1>2, <3>9, <4>1
      <4>3. rating'[u][m].rating = seats[i].before + seats[i].delta
        BY <4>2 DEF Updated
      <4>4. seats[i].before = rating[u][m].rating
        <5>1. u \in DOMAIN p.before
          BY <1>7, <4>1
        <5>2. p.before[u] = rating[u][m].rating
          BY <1>8, <3>9, <5>1
        <5>3. QED
          BY <1>5, <4>1, <5>2
      <4>5. Played(u, m)' = old \union {g}
        BY <1>3, <3>1, <3>9 DEF old
      <4>6. Gain(g, u)' = seats[i].delta
        <5>1. OrderOf(g)' = order
          BY <1>11 DEF order
        <5>2. (CHOOSE j \in DOMAIN order : order[j].userId = u) = i
          BY <1>4, <4>1
        <5>3. QED
          BY <1>1, <5>1, <5>2 DEF Gain
      <4>7. Gains(u, m)'[g] = seats[i].delta
        <5>1. g \in Played(u, m)'
          BY <4>5
        <5>2. QED
          BY <4>6, <5>1 DEF Gains
      <4>8. \A h \in Played(u, m)' : Gains(u, m)'[h] \in Int
        <5>1. ASSUME NEW h \in old PROVE Gains(u, m)'[h] \in Int
          <6>1. h \in GameIds /\ persists[h].pc = "done" /\ Transaction(h)
            BY DEF old, Played, LedgerInv
          <6>2. PICK j \in DOMAIN OrderOf(h) : OrderOf(h)[j].userId = u
            BY DEF old, Played
          <6>3. (CHOOSE k \in DOMAIN OrderOf(h) : OrderOf(h)[k].userId = u) = j
            BY <6>1, <6>2, OrderFacts
          <6>4. j \in DOMAIN games[h]
            <7>1. DOMAIN games[h] = 1..Len(games[h]) /\ Len(games[h]) = Len(OrderOf(h))
              BY <6>1 DEF Transaction, SeatsFor
            <7>2. DOMAIN OrderOf(h) = 1..Len(OrderOf(h))
              BY <6>1, OrderFacts
            <7>3. QED
              BY <6>2, <7>1, <7>2
          <6>5. Gain(h, u) \in Int
            BY <6>1, <6>3, <6>4 DEF Gain, RatingInv, Numbers
          <6>6. Gains(u, m)[h] = Gain(h, u)
            BY DEF Gains, old
          <6>7. QED
            BY <3>6, <6>5, <6>6
        <5>2. Gains(u, m)'[g] \in Int
          BY <1>9, <4>7
        <5>3. QED
          BY <4>5, <5>1, <5>2
      <4>9. Total(Gains(u, m)', old \union {g}) = seats[i].delta + Total(Gains(u, m)', old)
        <5>1. IsFiniteSet(old \union {g}) /\ g \in old \union {g} /\ (old \union {g}) \ {g} = old
          BY <3>1, <3>3, FS_AddElement DEF old
        <5>2. \A h \in old \union {g} : Gains(u, m)'[h] \in Int
          BY <4>5, <4>8
        <5>3. Total(Gains(u, m)', old \union {g}) =
                  Gains(u, m)'[g] + Total(Gains(u, m)', (old \union {g}) \ {g})
          BY <5>1, <5>2, TotalRemove
        <5>4. QED
          BY <4>7, <5>1, <5>3
      <4>10. Total(Gains(u, m)', old) \in Int /\ seats[i].delta \in Int
        BY <1>9, <3>3, <4>5, <4>8, TotalInt
      <4>11. QED
        BY <3>2, <3>7, <4>3, <4>4, <4>5, <4>9, <4>10
    <3>10. QED
      BY <3>8, <3>9
  <2>2. QED
    BY <1>6, <2>1 DEF RatingSums
<1>17. ChangesBalance'
  <2>1. ASSUME NEW h \in GameIds
        PROVE  /\ 2 * Total(Deltas(games'[h]), DOMAIN games'[h]) <= Len(games'[h])
               /\ -2 * Total(Deltas(games'[h]), DOMAIN games'[h]) <= Len(games'[h])
    <3>1. CASE h = g
      BY <1>1, <1>9, <3>1
    <3>2. CASE h # g
      BY <1>1, <3>2 DEF RatingInv, ChangesBalance
    <3>3. QED
      BY <3>1, <3>2
  <2>2. QED
    BY <2>1 DEF ChangesBalance
<1>18. QED
  BY <1>13, <1>14, <1>15, <1>16, <1>17 DEF RatingInv

LEMMA DeletedAddsUp ==
    ASSUME LedgerInv, RatingInv, NEW u \in Players, Deleted(u), DOMAIN deletions' = Players,
           UNCHANGED overlapped
    PROVE  RatingInv'
<1>1. /\ accounts' = accounts \ {u} /\ persists' = persists /\ overlapped' = overlapped
      /\ accounts \subseteq Players
      /\ \A s : ModeOf(s) \in Modes
  BY DEF Deleted, LedgerInv, TablesOK, ModeOf, Modes
<1>2. /\ \A m \in Modes : rating'[u][m].rating = 1200
      /\ \A v \in Players : v # u => rating'[v] = rating[v]
  <2>1. \A m \in Modes : rating'[u][m] = NoRating
    BY DEF Deleted, LedgerInv, TablesOK
  <2>2. NoRating.rating = 1200
    BY DEF NoRating
  <2>3. QED
    BY <2>1, <2>2 DEF Deleted, LedgerInv, TablesOK
<1>3. \A g \in GameIds : /\ DOMAIN games'[g] = DOMAIN games[g] /\ Len(games'[g]) = Len(games[g])
                         /\ \A i \in DOMAIN games[g] : games'[g][i].delta = games[g][i].delta
  BY StandingKeeps DEF Deleted
<1>4. \A v, m : Played(v, m)' = Played(v, m)
  BY DeletedKeeps
<1>5. \A g : OrderOf(g)' = OrderOf(g) /\ Busy(g)' = Busy(g)
  BY <1>1 DEF OrderOf, Busy
<1>6. Numbers'
  <2>1. ASSUME NEW v \in Players, NEW m \in Modes PROVE rating'[v][m].rating \in Int
    BY <1>2 DEF RatingInv, Numbers
  <2>2. ASSUME NEW g \in GameIds
        PROVE  /\ \A i \in DOMAIN games'[g] : games'[g][i].delta \in Int
               /\ Busy(g)' => \A v \in DOMAIN persists'[g].before : persists'[g].before[v] \in Int
    BY <1>1, <1>3, <1>5 DEF RatingInv, Numbers
  <2>3. QED
    BY <2>1, <2>2 DEF Numbers
<1>7. Alone'
  BY <1>1 DEF RatingInv, Alone, Busy
<1>8. Fresh'
  <2>1. ASSUME NEW g \in GameIds, Busy(g)', NEW v \in DOMAIN persists'[g].before,
               v \in accounts' \ overlapped'
        PROVE  persists'[g].before[v] = rating'[v][ModeOf(persists'[g].score)].rating
    <3>1. v \in Players /\ v # u /\ v \in accounts \ overlapped
      BY <1>1, <2>1
    <3>2. rating'[v] = rating[v]
      BY <1>2, <3>1
    <3>3. QED
      BY <1>1, <1>5, <2>1, <3>1, <3>2 DEF RatingInv, Fresh
  <2>2. QED
    BY <2>1 DEF Fresh
<1>9. RatingSums'
  <2>1. ASSUME NEW v \in (accounts \ {u}) \ overlapped, NEW m \in Modes
        PROVE  rating'[v][m].rating = 1200 + Total(Gains(v, m)', Played(v, m)')
    <3>1. v \in Players /\ v # u
      BY <1>1
    <3>2. rating'[v] = rating[v]
      BY <1>2, <3>1
    <3>3. rating[v][m].rating = 1200 + Total(Gains(v, m), Played(v, m))
      BY DEF RatingInv, RatingSums
    <3>4. ASSUME NEW g \in Played(v, m) PROVE Gain(g, v)' = Gain(g, v)
      <4>1. g \in GameIds /\ persists[g].pc = "done" /\ Transaction(g)
        BY DEF Played, LedgerInv
      <4>2. PICK i \in DOMAIN OrderOf(g) : OrderOf(g)[i].userId = v
        BY DEF Played
      <4>3. (CHOOSE j \in DOMAIN OrderOf(g) : OrderOf(g)[j].userId = v) = i
        BY <4>1, <4>2, OrderFacts
      <4>4. i \in DOMAIN games[g]
        <5>1. DOMAIN games[g] = 1..Len(games[g]) /\ Len(games[g]) = Len(OrderOf(g))
          BY <4>1 DEF Transaction, SeatsFor
        <5>2. DOMAIN OrderOf(g) = 1..Len(OrderOf(g))
          BY <4>1, OrderFacts
        <5>3. QED
          BY <4>2, <5>1, <5>2
      <4>5. QED
        BY <1>3, <1>5, <4>1, <4>3, <4>4 DEF Gain
    <3>5. Gains(v, m)' = Gains(v, m)
      BY <1>4, <3>4 DEF Gains
    <3>6. QED
      BY <1>4, <3>2, <3>3, <3>5
  <2>2. QED
    BY <1>1, <2>1 DEF RatingSums
<1>10. ChangesBalance'
  <2>1. ASSUME NEW g \in GameIds
        PROVE  /\ 2 * Total(Deltas(games'[g]), DOMAIN games'[g]) <= Len(games'[g])
               /\ -2 * Total(Deltas(games'[g]), DOMAIN games'[g]) <= Len(games'[g])
    <3>1. Deltas(games'[g]) = Deltas(games[g])
      BY <1>3 DEF Deltas
    <3>2. QED
      BY <1>3, <3>1 DEF RatingInv, ChangesBalance
  <2>2. QED
    BY <2>1 DEF ChangesBalance
<1>11. QED
  BY <1>6, <1>7, <1>8, <1>9, <1>10 DEF RatingInv

LEMMA RatingStep ==
    ASSUME LedgerInv, RatingInv, SharesAreNumbers, [LedgerNext]_ledgerVars
    PROVE  RatingInv'
<1>1. ASSUME NEW g \in GameIds, NEW s \in Outcomes, EndOfGame(g, s) PROVE RatingInv'
  <2>1. persists'[g] = [pc |-> "read", score |-> s, at |-> 1, before |-> <<>>]
        /\ \A h \in GameIds : h # g => persists'[h] = persists[h]
    BY <1>1 DEF EndOfGame, Persisting, LedgerInv, TablesOK
  <2>2. DOMAIN persists'[g].before = {} /\ persists'[g].pc # "done" /\ persists[g].pc # "done"
    BY <1>1, <2>1 DEF EndOfGame
  <2>3. UNCHANGED <<accounts, rating, games, overlapped>>
    BY <1>1 DEF EndOfGame
  <2>4. QED
    BY <2>1, <2>2, <2>3, OtherAddsUp
<1>2. ASSUME NEW g \in GameIds, ReadRating(g) PROVE RatingInv'
  BY <1>2, ReadRatingAddsUp
<1>3. ASSUME NEW g \in GameIds, Failed(g), persists[g].pc # "done", persists[g].pc # "none",
             UNCHANGED <<accounts, rating, games, overlapped>>
      PROVE  RatingInv'
  <2>1. persists[g] = [pc |-> persists[g].pc, score |-> persists[g].score,
                       at |-> persists[g].at, before |-> persists[g].before]
    BY DEF LedgerInv, Transaction
  <2>2. persists'[g].pc = "failed" /\ \A h \in GameIds : h # g => persists'[h] = persists[h]
    BY <1>3, <2>1 DEF Failed, LedgerInv, TablesOK
  <2>3. QED
    BY <1>3, <2>2, OtherAddsUp
<1>4. ASSUME NEW g \in GameIds, WriteSeat(g) PROVE RatingInv'
  <2>1. CASE UserAt(g) \in accounts
    <3>1. persists[g] = [pc |-> persists[g].pc, score |-> persists[g].score,
                         at |-> persists[g].at, before |-> persists[g].before]
      BY DEF LedgerInv, Transaction
    <3>2. persists' = [persists EXCEPT ![g].at = @ + 1] /\ persists[g].pc = "write"
      BY <1>4, <2>1 DEF WriteSeat
    <3>3. /\ persists'[g].pc = "write" /\ persists'[g].score = persists[g].score
          /\ persists'[g].before = persists[g].before
          /\ \A h \in GameIds : h # g => persists'[h] = persists[h]
      BY <3>1, <3>2 DEF LedgerInv, TablesOK
    <3>4. UNCHANGED <<accounts, rating, games, overlapped>>
      BY <1>4 DEF WriteSeat
    <3>5. QED
      BY <3>2, <3>3, <3>4, OtherAddsUp DEF Busy
  <2>2. CASE UserAt(g) \notin accounts
    BY <1>3, <1>4, <2>2 DEF WriteSeat
  <2>3. QED
    BY <2>1, <2>2
<1>5. ASSUME NEW g \in GameIds, Commit(g) PROVE RatingInv'
  BY <1>5, CommitAddsUp
<1>6. ASSUME NEW g \in GameIds, DeadlockAbort(g) PROVE RatingInv'
  BY <1>3, <1>6 DEF DeadlockAbort
<1>7. ASSUME NEW g \in GameIds, PersistFails(g) PROVE RatingInv'
  BY <1>3, <1>7 DEF PersistFails
<1>8. ASSUME NEW u \in Leavers, DeleteMoves(u) PROVE RatingInv'
  BY <1>8, OtherAddsUp DEF DeleteMoves
<1>9. ASSUME NEW u \in Leavers, DeleteUser(u) PROVE RatingInv'
  <2>1. u \in Players
    BY LedgerAssumption
  <2>2. CASE Deleted(u)
    <3>1. DOMAIN deletions' = Players /\ UNCHANGED overlapped
      BY <1>9 DEF DeleteUser, LedgerInv, TablesOK
    <3>2. QED
      BY <2>1, <2>2, <3>1, DeletedAddsUp
  <2>3. CASE UNCHANGED <<accounts, rating, games, persists>>
    BY <1>9, <2>1, <2>3, DeleteUserKeeps, OtherAddsUp
  <2>4. QED
    BY <1>9, <2>1, <2>2, <2>3, DeleteUserKeeps
<1>10. CASE UNCHANGED ledgerVars
  BY <1>10, OtherAddsUp DEF ledgerVars
<1>11. QED
  BY <1>1, <1>2, <1>4, <1>5, <1>6, <1>7, <1>8, <1>9, <1>10 DEF LedgerNext

LEMMA RatingInductive == SharesAreNumbers => (LedgerSpec => [](LedgerInv /\ RatingInv))
<1> SUFFICES ASSUME SharesAreNumbers PROVE LedgerSpec => [](LedgerInv /\ RatingInv)
  OBVIOUS
<1>1. LedgerInit => LedgerInv /\ RatingInv
  BY LedgerBegins, RatingBegins
<1>2. (LedgerInv /\ RatingInv) /\ [LedgerNext]_ledgerVars => (LedgerInv /\ RatingInv)'
  BY LedgerStep, RatingStep
<1>3. QED
  BY <1>1, <1>2, PTL DEF LedgerSpec

\* If the shares of a pair are numbers, then the rating of an account is 1200
\* and the changes its history shows, unless transactions that read its rating
\* have overlapped.
THEOREM RatingsAddUp == SharesAreNumbers => (LedgerSpec => []RatingAddsUp)
<1> SUFFICES ASSUME SharesAreNumbers PROVE LedgerSpec => []RatingAddsUp
  OBVIOUS
<1>1. LedgerInv /\ RatingInv => RatingAddsUp
  <2> SUFFICES ASSUME LedgerInv, RatingInv, NEW u \in accounts \ overlapped, NEW m \in Modes
               PROVE  rating[u][m].rating =
                          1200 + Total([g \in GamesOf(u, m) |-> SeatIn(g, u).delta], GamesOf(u, m))
    BY DEF RatingAddsUp
  <2>1. TablesOK /\ \A g \in GameIds : Transaction(g)
    BY DEF LedgerInv
  <2>2. GamesOf(u, m) = Played(u, m)
    BY <2>1, SeatOfPlayer
  <2>3. ASSUME NEW g \in Played(u, m) PROVE Gain(g, u) = SeatIn(g, u).delta
    <3>1. g \in GameIds /\ persists[g].pc = "done" /\ Transaction(g)
      BY <2>1 DEF Played
    <3>2. PICK i \in DOMAIN OrderOf(g) : OrderOf(g)[i].userId = u
      BY DEF Played
    <3>3. (CHOOSE j \in DOMAIN OrderOf(g) : OrderOf(g)[j].userId = u) = i
      BY <3>1, <3>2, OrderFacts
    <3>4. SeatIn(g, u) = games[g][i]
      BY <2>1, <3>2, SeatOfPlayer
    <3>5. QED
      BY <3>3, <3>4 DEF Gain
  <2>4. [g \in GamesOf(u, m) |-> SeatIn(g, u).delta] = Gains(u, m)
    BY <2>2, <2>3 DEF Gains
  <2>5. rating[u][m].rating = 1200 + Total(Gains(u, m), Played(u, m))
    BY DEF RatingInv, RatingSums
  <2>6. QED
    BY <2>2, <2>4, <2>5
<1>2. QED
  BY <1>1, RatingInductive, PTL

\* If the shares of a pair are numbers, then the changes of a recorded game
\* cancel out but for rounding, at most one half per seat, and whoever deletes
\* an account.
THEOREM ChangesCancel == SharesAreNumbers => (LedgerSpec => []ChangesBalance)
<1> SUFFICES ASSUME SharesAreNumbers PROVE LedgerSpec => []ChangesBalance
  OBVIOUS
<1>1. LedgerInv /\ RatingInv => ChangesBalance
  BY DEF RatingInv
<1>2. QED
  BY <1>1, RatingInductive, PTL

=============================================================================
