---------------------------- MODULE Match_proofs ----------------------------
(***************************************************************************)
(* Theorems about Match, for every radius, every legal number of users,    *)
(* with or without the blocking rule, and whatever paths clients send.     *)
(* The last part is about Replay, for any cap of the move log.             *)
(***************************************************************************)
EXTENDS Replay, Scoreboard_proofs

-----------------------------------------------------------------------------
(* The board *)

\* The top triangle is cut out by inequalities; rotating them gives the others.
LEMMA TriangleShapes ==
    ASSUME NEW h \in TopTriangle
    PROVE  /\ h \in Int \X Int
           /\ h[1] <= N /\ h[2] <= -N - 1 /\ h[1] + h[2] >= -N
           /\ h[1] >= 1 /\ h[2] >= -2 * N
  BY NAssumption DEF TopTriangle

\* Where rotateCells carries a cell, for each number of sixth turns.
LEMMA Rotations ==
    ASSUME NEW h \in Int \X Int
    PROVE  /\ RotateCell(h, 0) = h
           /\ RotateCell(h, 1) = <<-h[2], h[1] + h[2]>>
           /\ RotateCell(h, 2) = <<-h[1] - h[2], h[1]>>
           /\ RotateCell(h, 3) = <<-h[1], -h[2]>>
           /\ RotateCell(h, 4) = <<h[2], -h[1] - h[2]>>
           /\ RotateCell(h, 5) = <<h[1] + h[2], -h[1]>>
  BY DEF RotateCell, RotateCW

\* Which inequalities the cells of triangle k satisfy.
InTriangle(c, k) ==
    CASE k = 0 -> c[2] < -N
      [] k = 1 -> c[1] > N
      [] k = 2 -> c[1] + c[2] > N
      [] k = 3 -> c[2] > N
      [] k = 4 -> c[1] < -N
      [] k = 5 -> c[1] + c[2] < -N

\* A cell of home triangle k is on the board's bounding box and beyond the side
\* of the central hexagon that belongs to k, and to no other point.
LEMMA TriangleCells ==
    ASSUME NEW k \in Points, NEW c \in HomeTriangle(k)
    PROVE  /\ c \in (-2 * N..2 * N) \X (-2 * N..2 * N)
           /\ InTriangle(c, k)
           /\ \A j \in Points : InTriangle(c, j) => j = k
<1>1. PICK h \in TopTriangle : c = RotateCell(h, k)
  BY DEF HomeTriangle
<1>2. /\ h \in Int \X Int
      /\ h[1] <= N /\ h[2] <= -N - 1 /\ h[1] + h[2] >= -N
      /\ h[1] >= 1 /\ h[2] >= -2 * N
  BY TriangleShapes
<1>3. CASE k = 0
  <2>1. c = <<h[1], h[2]>>
    BY <1>1, <1>2, <1>3, Rotations
  <2>2. QED
    BY <2>1, <1>2, <1>3, NAssumption DEF InTriangle, Points
<1>4. CASE k = 1
  <2>1. c = <<-h[2], h[1] + h[2]>>
    BY <1>1, <1>2, <1>4, Rotations
  <2>2. QED
    BY <2>1, <1>2, <1>4, NAssumption DEF InTriangle, Points
<1>5. CASE k = 2
  <2>1. c = <<-h[1] - h[2], h[1]>>
    BY <1>1, <1>2, <1>5, Rotations
  <2>2. QED
    BY <2>1, <1>2, <1>5, NAssumption DEF InTriangle, Points
<1>6. CASE k = 3
  <2>1. c = <<-h[1], -h[2]>>
    BY <1>1, <1>2, <1>6, Rotations
  <2>2. QED
    BY <2>1, <1>2, <1>6, NAssumption DEF InTriangle, Points
<1>7. CASE k = 4
  <2>1. c = <<h[2], -h[1] - h[2]>>
    BY <1>1, <1>2, <1>7, Rotations
  <2>2. QED
    BY <2>1, <1>2, <1>7, NAssumption DEF InTriangle, Points
<1>8. CASE k = 5
  <2>1. c = <<h[1] + h[2], -h[1]>>
    BY <1>1, <1>2, <1>8, Rotations
  <2>2. QED
    BY <2>1, <1>2, <1>8, NAssumption DEF InTriangle, Points
<1>9. QED
  BY <1>3, <1>4, <1>5, <1>6, <1>7, <1>8 DEF Points

\* The home triangles of different points share no cell.
LEMMA TrianglesDisjoint ==
    ASSUME NEW i \in Points, NEW j \in Points, i # j
    PROVE  HomeTriangle(i) \intersect HomeTriangle(j) = {}
  BY TriangleCells

\* The board of every radius is finite, so that marbles can be counted.
LEMMA BoardFinite == IsFiniteSet(AllBoardCells)
<1>1. AllBoardCells \subseteq (-2 * N..2 * N) \X (-2 * N..2 * N)
  <2>1. CenterHex \subseteq (-2 * N..2 * N) \X (-2 * N..2 * N)
    BY NAssumption DEF CenterHex
  <2>2. QED
    BY <2>1, TriangleCells DEF AllBoardCells
<1>2. IsFiniteSet((-2 * N..2 * N) \X (-2 * N..2 * N))
  <2>1. IsFiniteSet(-2 * N..2 * N)
    <3>1. -2 * N \in Int /\ 2 * N \in Int
      BY NAssumption
    <3>2. QED
      BY <3>1, FS_Interval
  <2>2. QED
    BY <2>1, FS_Product
<1>3. QED
  BY <1>1, <1>2, FS_Subset

\* Turning the top triangle onto another one loses no cell: they are equally large.
LEMMA TrianglesAreEqual ==
    ASSUME NEW k \in Points
    PROVE  /\ IsFiniteSet(HomeTriangle(k))
           /\ Cardinality(HomeTriangle(k)) = Cardinality(TopTriangle)
<1> DEFINE turn == [h \in TopTriangle |-> RotateCell(h, k)]
<1>1. IsFiniteSet(TopTriangle)
  <2>1. TopTriangle = HomeTriangle(0)
    BY TriangleShapes, Rotations DEF HomeTriangle
  <2>2. TopTriangle \in SUBSET AllBoardCells
    BY <2>1 DEF AllBoardCells, Points
  <2>3. QED
    BY <2>2, BoardFinite, FS_Subset
<1>2. turn \in Surjection(TopTriangle, HomeTriangle(k))
  BY DEF Surjection, HomeTriangle
<1>3. \A g, h \in TopTriangle : RotateCell(g, k) = RotateCell(h, k) => g = h
  <2> SUFFICES ASSUME NEW g \in TopTriangle, NEW h \in TopTriangle,
                      RotateCell(g, k) = RotateCell(h, k)
               PROVE  g = h
    OBVIOUS
  <2>1. g \in Int \X Int /\ h \in Int \X Int
    BY TriangleShapes
  <2>2. g[1] = h[1] /\ g[2] = h[2]
    <3>1. CASE k = 0
      BY <2>1, <3>1, Rotations
    <3>2. CASE k = 1
      BY <2>1, <3>2, Rotations
    <3>3. CASE k = 2
      BY <2>1, <3>3, Rotations
    <3>4. CASE k = 3
      BY <2>1, <3>4, Rotations
    <3>5. CASE k = 4
      BY <2>1, <3>5, Rotations
    <3>6. CASE k = 5
      BY <2>1, <3>6, Rotations
    <3>7. QED
      BY <3>1, <3>2, <3>3, <3>4, <3>5, <3>6 DEF Points
  <2>3. QED
    BY <2>1, <2>2
<1>4. turn \in Injection(TopTriangle, HomeTriangle(k))
  BY <1>2, <1>3 DEF Surjection, Injection, IsInjective
<1>5. ExistsBijection(TopTriangle, HomeTriangle(k))
  BY <1>2, <1>4 DEF ExistsBijection, Bijection
<1>6. QED
  BY <1>1, <1>5, FS_Bijection

\* A home triangle of side N has N columns of 1, 2, ..., N cells: the ten of
\* radius 4, and one on radius 1.
LEMMA TriangleSize == 2 * Cardinality(TopTriangle) = N * (N + 1)
<1> DEFINE Upto(n) == {h \in TopTriangle : h[1] <= n}
           Column(n) == {h \in TopTriangle : h[1] = n}
           Counted(n) == IsFiniteSet(Upto(n)) /\ 2 * Cardinality(Upto(n)) = n * (n + 1)
           Bad == {n \in Nat : n <= N /\ ~ Counted(n)}
<1>1. N \in Nat
  BY NAssumption
<1>2. Counted(0)
  <2>1. Upto(0) = {}
    BY TriangleShapes
  <2>2. QED
    BY <2>1, FS_EmptySet
<1>3. ASSUME NEW n \in Nat, n < N, Counted(n)
      PROVE  Counted(n + 1)
  <2> DEFINE lo == -N - n - 1
             cell == [r \in lo..(-N - 1) |-> <<n + 1, r>>]
  <2>1. lo \in Int /\ -N - 1 \in Int /\ (-N - 1) - lo + 1 = n + 1 /\ lo <= -N - 1
    BY <1>1, <1>3
  <2>2. /\ IsFiniteSet(lo..(-N - 1))
        /\ Cardinality(lo..(-N - 1)) = n + 1
    <3> HIDE DEF lo
    <3>1. QED
      BY <2>1, FS_Interval
  <2>3. \A h \in Column(n + 1) : h = <<n + 1, h[2]>> /\ h[2] \in lo..(-N - 1)
    BY <1>1, <1>3, TriangleShapes
  <2>4. \A r \in lo..(-N - 1) : <<n + 1, r>> \in Column(n + 1)
    BY <1>1, <1>3 DEF TopTriangle
  <2>5. cell \in Bijection(lo..(-N - 1), Column(n + 1))
    <3> HIDE DEF lo, Column
    <3>1. cell \in Surjection(lo..(-N - 1), Column(n + 1))
      BY <2>3, <2>4 DEF Surjection
    <3>2. cell \in Injection(lo..(-N - 1), Column(n + 1))
      BY <3>1 DEF Surjection, Injection, IsInjective
    <3>3. QED
      BY <3>1, <3>2 DEF Bijection
  <2>6. IsFiniteSet(Column(n + 1)) /\ Cardinality(Column(n + 1)) = n + 1
    <3> HIDE DEF lo, Column, cell
    <3>1. ExistsBijection(lo..(-N - 1), Column(n + 1))
      BY <2>5 DEF ExistsBijection
    <3>2. QED
      BY <2>2, <3>1, FS_Bijection
  <2>7. Upto(n + 1) = Upto(n) \union Column(n + 1) /\ Upto(n) \intersect Column(n + 1) = {}
    BY <1>3, TriangleShapes
  <2>8. /\ IsFiniteSet(Upto(n + 1))
        /\ Cardinality(Upto(n + 1)) = Cardinality(Upto(n)) + Cardinality(Column(n + 1))
    <3> DEFINE A == Upto(n)
               B == Column(n + 1)
    <3>1. A \intersect B = {} /\ IsFiniteSet(A) /\ IsFiniteSet(B)
      BY <1>3, <2>6, <2>7
    <3> HIDE DEF A, B
    <3>2. IsFiniteSet(A \union B) /\ Cardinality(A \union B) = Cardinality(A) + Cardinality(B)
      <4>1. Cardinality(A) \in Nat /\ Cardinality(B) \in Nat
        BY <3>1, FS_CardinalityType
      <4>2. Cardinality(A \intersect B) = 0
        BY <3>1, FS_EmptySet
      <4>3. /\ IsFiniteSet(A \union B)
            /\ Cardinality(A \union B)
                 = Cardinality(A) + Cardinality(B) - Cardinality(A \intersect B)
        BY <3>1, FS_Union, Zenon
      <4>4. QED
        BY <4>1, <4>2, <4>3
    <3>3. QED
      BY <2>7, <3>2 DEF A, B
  <2>9. QED
    <3> DEFINE a == Cardinality(Upto(n))
               b == Cardinality(Upto(n + 1))
    <3>1. a \in Nat /\ b = a + (n + 1) /\ 2 * a = n * (n + 1)
      BY <1>3, <2>6, <2>8, FS_CardinalityType
    <3> HIDE DEF a, b
    <3>2. 2 * b = (n + 1) * (n + 1 + 1)
      BY <1>3, <3>1
    <3>3. QED
      BY <2>8, <3>2 DEF b
<1> HIDE DEF Counted
<1>4. Bad = {}
  <2> SUFFICES ASSUME Bad # {} PROVE FALSE
    OBVIOUS
  <2>1. PICK k \in Bad : \A j \in Bad : k <= j
    BY LeastNatural
  <2>2. k # 0 /\ k - 1 \in Nat /\ k - 1 < N /\ k - 1 \notin Bad
    BY <1>1, <1>2, <2>1
  <2>3. Counted(k - 1)
    BY <1>1, <2>1, <2>2
  <2>4. Counted(k - 1 + 1)
    BY <1>3, <2>2, <2>3
  <2>5. QED
    BY <2>1, <2>4
<1>5. Counted(N)
  BY <1>1, <1>4
<1>6. Upto(N) = TopTriangle
  BY TriangleShapes
<1>7. QED
  BY <1>5, <1>6 DEF Counted

-----------------------------------------------------------------------------
(* Hop chains *)

\* f[x] is what the loop returns that goes from x to next[x], and so on, until
\* it is in Stop: out[y] for the y it stops at.
IsLoop(f, D, Stop, next, out) ==
    /\ f = [x \in D |-> f[x]]
    /\ \A x \in D : f[x] = IF x \in Stop THEN out[x] ELSE f[next[x]]

\* Every loop has a result: the searches of the rule engine are loops.
LEMMA LoopExists ==
    ASSUME NEW D, NEW Stop, NEW next, NEW out, \A x \in D : next[x] \in D
    PROVE  \E f : IsLoop(f, D, Stop, next, out)
<1> DEFINE Onward(C) == \A z \in C \ Stop : next[z] \in C
           Ends(x) == {y \in D \intersect Stop : \A C \in SUBSET D : x \in C /\ Onward(C) => y \in C}
           f == [x \in D |-> UNION {out[y] : y \in Ends(x)}]
<1>1. ASSUME NEW x \in D \intersect Stop PROVE Ends(x) = {x}
  <2>1. {x} \in SUBSET D /\ Onward({x})
    OBVIOUS
  <2>2. \A y \in Ends(x) : y \in {x}
    BY <2>1
  <2>3. x \in Ends(x)
    OBVIOUS
  <2>4. QED
    BY <2>2, <2>3
<1>2. ASSUME NEW x \in D \ Stop PROVE Ends(x) = Ends(next[x])
  <2>1. ASSUME NEW y \in Ends(x) PROVE y \in Ends(next[x])
    <3>1. SUFFICES ASSUME NEW C \in SUBSET D, next[x] \in C, Onward(C) PROVE y \in C
      BY <2>1
    <3>2. C \union {x} \in SUBSET D /\ Onward(C \union {x})
      BY <3>1
    <3>3. y \in C \union {x}
      BY <2>1, <3>2
    <3>4. y # x
      BY <2>1
    <3>5. QED
      BY <3>3, <3>4
  <2>2. ASSUME NEW y \in Ends(next[x]) PROVE y \in Ends(x)
    OBVIOUS
  <2>3. QED
    BY <2>1, <2>2
<1>3. ASSUME NEW x \in D PROVE f[x] = IF x \in Stop THEN out[x] ELSE f[next[x]]
  <2>1. CASE x \in Stop
    <3>1. f[x] = UNION {out[y] : y \in {x}}
      BY <1>1, <2>1
    <3>2. UNION {out[y] : y \in {x}} = out[x]
      OBVIOUS
    <3>3. QED
      BY <2>1, <3>1, <3>2
  <2>2. CASE x \notin Stop
    <3>1. next[x] \in D
      OBVIOUS
    <3>2. QED
      BY <1>2, <2>2, <3>1
  <2>3. QED
    BY <2>1, <2>2
<1>4. f = [x \in D |-> f[x]]
  OBVIOUS
<1> HIDE DEF f
<1>5. QED
  BY <1>3, <1>4 DEF IsLoop

\* The chains of hops over which a marble can be carried without coming to the
\* same cell twice.
HopChains(brd) ==
    {path \in Seq(AllBoardCells) :
        /\ Len(path) >= 1
        /\ \A i \in 1..(Len(path) - 1) : path[i + 1] \in HopTargets(brd, path[1], path[i])
        /\ \A i, j \in 1..Len(path) : path[i] = path[j] => i = j}

\* The search of getValidDestinations, unfolded once.
LEMMA ClosureUnfolds ==
    ASSUME NEW brd, NEW origin \in AllBoardCells
    PROVE  \E f : /\ HopClosure(brd, origin) =
                        {c \in AllBoardCells : c \in f[{origin}] /\ brd[c] = NoMarble}
                  /\ \A S \in SUBSET AllBoardCells :
                        f[S] = IF Grown(brd, origin, S) = S THEN S
                                                            ELSE f[Grown(brd, origin, S)]
<1> DEFINE D == SUBSET AllBoardCells
           next == [S \in D |-> Grown(brd, origin, S)]
           Stop == {S \in D : next[S] = S}
           out == [S \in D |-> S]
           Computes(f) == f = [S \in D |-> LET T == Grown(brd, origin, S)
                                           IN  IF T = S THEN S ELSE f[T]]
           closure == CHOOSE f : Computes(f)
<1>1. \A S \in D : Grown(brd, origin, S) \in D
  BY DEF Grown, HopTargets
<1>2. PICK f : IsLoop(f, D, Stop, next, out)
  <2>1. \A S \in D : next[S] \in D
    BY <1>1
  <2> HIDE DEF next, Stop, out, D
  <2>2. QED
    BY <2>1, LoopExists
<1>3. Computes(f)
  <2>1. \A S \in D : f[S] = IF Grown(brd, origin, S) = S THEN S ELSE f[Grown(brd, origin, S)]
    BY <1>2 DEF IsLoop
  <2>2. f = [S \in D |-> IF Grown(brd, origin, S) = S THEN S ELSE f[Grown(brd, origin, S)]]
    BY <1>2, <2>1 DEF IsLoop
  <2>3. QED
    BY <2>2
<1>4. Computes(closure)
  BY <1>3
<1>5. HopClosure(brd, origin) = {c \in AllBoardCells : c \in closure[{origin}] /\ brd[c] = NoMarble}
  BY DEF HopClosure
<1>6. closure = [S \in D |-> IF Grown(brd, origin, S) = S THEN S ELSE closure[Grown(brd, origin, S)]]
  BY <1>4
<1> HIDE DEF closure
<1>7. \A S \in D : closure[S] = IF Grown(brd, origin, S) = S THEN S
                                                             ELSE closure[Grown(brd, origin, S)]
  BY <1>6
<1>8. QED
  BY <1>5, <1>7

\* A chain goes on to any hop target it has not been to.
LEMMA ChainExtends ==
    ASSUME NEW brd, NEW path \in HopChains(brd),
           NEW c \in HopTargets(brd, path[1], path[Len(path)]),
           \A i \in 1..Len(path) : path[i] # c
    PROVE  /\ Append(path, c) \in HopChains(brd)
           /\ Append(path, c)[1] = path[1]
           /\ Len(Append(path, c)) = Len(path) + 1
           /\ Append(path, c)[Len(path) + 1] = c
           /\ \A i \in 1..Len(path) : Append(path, c)[i] = path[i]
<1> DEFINE n == Len(path)
           longer == Append(path, c)
<1>1. path \in Seq(AllBoardCells) /\ n \in Nat /\ n >= 1 /\ c \in AllBoardCells
  BY DEF HopChains, HopTargets
<1>2. /\ longer \in Seq(AllBoardCells) /\ Len(longer) = n + 1
      /\ longer[n + 1] = c
      /\ \A i \in 1..n : longer[i] = path[i]
  BY <1>1
<1>3. path[n] = longer[n] /\ path[1] = longer[1]
  BY <1>1, <1>2
<1> HIDE DEF longer
<1>4. ASSUME NEW i \in 1..(n + 1 - 1) PROVE longer[i + 1] \in HopTargets(brd, longer[1], longer[i])
  <2>1. CASE i = n
    BY <1>2, <1>3, <2>1
  <2>2. CASE i # n
    <3>1. i \in 1..(n - 1) /\ i \in 1..n /\ i + 1 \in 1..n
      BY <1>1, <2>2
    <3>2. path[i + 1] \in HopTargets(brd, path[1], path[i])
      BY <3>1 DEF HopChains
    <3>3. QED
      BY <1>2, <1>3, <3>1, <3>2
  <2>3. QED
    BY <2>1, <2>2
<1>5. ASSUME NEW i \in 1..(n + 1), NEW j \in 1..(n + 1), longer[i] = longer[j] PROVE i = j
  <2>1. CASE i \in 1..n /\ j \in 1..n
    BY <1>2, <1>5, <2>1 DEF HopChains
  <2>2. CASE i \notin 1..n \/ j \notin 1..n
    BY <1>1, <1>2, <1>5, <2>2
  <2>3. QED
    BY <2>1, <2>2
<1>6. longer \in HopChains(brd)
  BY <1>1, <1>2, <1>4, <1>5 DEF HopChains
<1>7. QED
  BY <1>2, <1>3, <1>6 DEF longer

\* Where a chain has come after k - 1 hops, it could have ended.
LEMMA ChainPrefix ==
    ASSUME NEW brd, NEW path \in HopChains(brd), NEW k \in 1..Len(path)
    PROVE  \E start \in HopChains(brd) :
              /\ Len(start) = k /\ start[1] = path[1] /\ start[k] = path[k]
              /\ \A i \in 1..k : start[i] = path[i]
<1> DEFINE start == [i \in 1..k |-> path[i]]
<1>1. path \in Seq(AllBoardCells) /\ Len(path) \in Nat /\ k \in Nat /\ 1 <= k /\ k <= Len(path)
  BY DEF HopChains
<1>2. start \in Seq(AllBoardCells) /\ Len(start) = k /\ \A i \in 1..k : start[i] = path[i]
  BY <1>1
<1>3. start[1] = path[1] /\ start[k] = path[k]
  BY <1>1
<1> HIDE DEF start
<1>4. ASSUME NEW i \in 1..(k - 1) PROVE start[i + 1] \in HopTargets(brd, start[1], start[i])
  <2>1. i \in 1..(Len(path) - 1) /\ i \in 1..k /\ i + 1 \in 1..k
    BY <1>1
  <2>2. path[i + 1] \in HopTargets(brd, path[1], path[i])
    BY <2>1 DEF HopChains
  <2>3. QED
    BY <1>2, <1>3, <2>1, <2>2
<1>5. ASSUME NEW i \in 1..k, NEW j \in 1..k, start[i] = start[j] PROVE i = j
  <2>1. i \in 1..Len(path) /\ j \in 1..Len(path)
    BY <1>1
  <2>2. QED
    BY <1>2, <1>5, <2>1 DEF HopChains
<1>6. start \in HopChains(brd)
  BY <1>1, <1>2, <1>4, <1>5 DEF HopChains
<1>7. QED
  BY <1>2, <1>3, <1>6

\* A chain is no longer than the board has cells.
LEMMA ChainLength ==
    ASSUME NEW brd, NEW path \in HopChains(brd)
    PROVE  /\ Len(path) \in Nat /\ Len(path) >= 1
           /\ Len(path) <= Cardinality(AllBoardCells)
           /\ \A i \in 1..Len(path) : path[i] \in AllBoardCells
<1>1. Len(path) \in Nat /\ Len(path) >= 1 /\ path \in Seq(AllBoardCells)
  BY DEF HopChains
<1>2. path \in [1..Len(path) -> AllBoardCells]
  BY <1>1
<1>3. path \in Injection(1..Len(path), AllBoardCells)
  BY <1>2 DEF HopChains, Injection, IsInjective
<1>4. Cardinality(1..Len(path)) <= Cardinality(AllBoardCells)
  BY <1>3, BoardFinite, FS_Injection
<1>5. Cardinality(1..Len(path)) = Len(path)
  BY <1>1, FirstNaturals
<1>6. QED
  BY <1>1, <1>2, <1>4, <1>5

\* The chain that has not left its cell.
LEMMA StartIsChain ==
    ASSUME NEW brd, NEW origin \in AllBoardCells
    PROVE  <<origin>> \in HopChains(brd) /\ Len(<<origin>>) = 1 /\ <<origin>>[1] = origin
<1> DEFINE start == <<origin>>
<1>1. start \in Seq(AllBoardCells) /\ Len(start) = 1 /\ start[1] = origin
  OBVIOUS
<1> HIDE DEF start
<1>2. /\ Len(start) >= 1
      /\ \A i \in 1..(Len(start) - 1) : FALSE
      /\ \A i, j \in 1..Len(start) : i = j
  BY <1>1
<1>3. /\ \A i \in 1..(Len(start) - 1) :
            start[i + 1] \in HopTargets(brd, start[1], start[i])
      /\ \A i, j \in 1..Len(start) : start[i] = start[j] => i = j
  BY <1>2, Zenon
<1>4. start \in HopChains(brd)
  BY <1>1, <1>2, <1>3, Zenon DEF HopChains
<1>5. QED
  BY <1>1, <1>4 DEF start

Chained(brd, origin, c) ==
    \E path \in HopChains(brd) : path[1] = origin /\ path[Len(path)] = c

\* What can be reached can be reached without coming to a cell twice.
LEMMA ChainedTargets ==
    ASSUME NEW brd, NEW origin, NEW at, Chained(brd, origin, at),
           NEW c \in HopTargets(brd, origin, at)
    PROVE  Chained(brd, origin, c)
<1>1. PICK path \in HopChains(brd) : path[1] = origin /\ path[Len(path)] = at
  BY DEF Chained
<1>2. CASE \A i \in 1..Len(path) : path[i] # c
  <2>1. c \in HopTargets(brd, path[1], path[Len(path)])
    BY <1>1
  <2>2. Append(path, c) \in HopChains(brd) /\ Append(path, c)[1] = path[1]
        /\ Len(Append(path, c)) = Len(path) + 1 /\ Append(path, c)[Len(path) + 1] = c
    BY <1>2, <2>1, ChainExtends
  <2> DEFINE longer == Append(path, c)
  <2> HIDE DEF longer
  <2>3. longer \in HopChains(brd) /\ longer[1] = origin /\ longer[Len(longer)] = c
    BY <1>1, <2>2 DEF longer
  <2>4. QED
    BY <2>3 DEF Chained
<1>3. CASE \E i \in 1..Len(path) : path[i] = c
  BY <1>1, <1>3, ChainPrefix DEF Chained
<1>4. QED
  BY <1>2, <1>3

\* getValidDestinations reaches the empty cells to which a chain leads, and no
\* others.
LEMMA ClosureIsChained ==
    ASSUME NEW brd, NEW origin \in AllBoardCells
    PROVE  HopClosure(brd, origin) =
              {c \in AllBoardCells : brd[c] = NoMarble /\ Chained(brd, origin, c)}
<1>1. PICK f : /\ HopClosure(brd, origin) =
                     {c \in AllBoardCells : c \in f[{origin}] /\ brd[c] = NoMarble}
               /\ \A S \in SUBSET AllBoardCells :
                     f[S] = IF Grown(brd, origin, S) = S THEN S
                                                         ELSE f[Grown(brd, origin, S)]
  BY ClosureUnfolds
<1> DEFINE Linked(S) == /\ S \in SUBSET AllBoardCells /\ origin \in S
                        /\ \A c \in S : Chained(brd, origin, c)
           Done(S) == Linked(S) /\ Grown(brd, origin, S) = S
           Unseen(S) == Cardinality(AllBoardCells \ S)
           Bad == {n \in Nat : \E S : Linked(S) /\ ~Done(f[S]) /\ Unseen(S) = n}
<1>2. ASSUME NEW S, Linked(S) PROVE Linked(Grown(brd, origin, S))
  <2>1. \A c \in S : HopTargets(brd, origin, c) \in SUBSET AllBoardCells
    BY DEF HopTargets
  <2>2. ASSUME NEW c \in Grown(brd, origin, S) PROVE Chained(brd, origin, c)
    <3>1. c \in S \/ \E at \in S : c \in HopTargets(brd, origin, at)
      BY DEF Grown
    <3>2. QED
      BY <1>2, <3>1, ChainedTargets
  <2>3. Grown(brd, origin, S) \in SUBSET AllBoardCells /\ origin \in Grown(brd, origin, S)
    BY <1>2, <2>1 DEF Grown
  <2>4. QED
    BY <2>2, <2>3
<1>3. Bad = {}
  <2>1. SUFFICES ASSUME Bad # {} PROVE FALSE
    OBVIOUS
  <2>2. PICK n \in Bad : \A m \in Bad : n <= m
    <3> HIDE DEF Bad
    <3>1. Bad \in SUBSET Nat
      BY DEF Bad
    <3>2. QED
      BY <2>1, <3>1, LeastNatural
  <2>3. PICK S : Linked(S) /\ ~Done(f[S]) /\ Unseen(S) = n
    BY <2>2
  <2> DEFINE T == Grown(brd, origin, S)
  <2>4. CASE T = S
    <3>1. f[S] = S
      BY <1>1, <2>3, <2>4
    <3>2. QED
      BY <2>3, <2>4, <3>1
  <2>5. CASE T # S
    <3>1. f[S] = f[T]
      BY <1>1, <2>3, <2>5
    <3>2. Linked(T)
      BY <1>2, <2>3
    <3>3. S \subseteq T
      BY DEF Grown
    <3>4. IsFiniteSet(AllBoardCells \ S) /\ AllBoardCells \ T \subseteq AllBoardCells \ S
      BY <3>3, BoardFinite, FS_Subset
    <3>5. AllBoardCells \ T # AllBoardCells \ S
      BY <2>3, <2>5, <3>2, <3>3
    <3>6. /\ IsFiniteSet(AllBoardCells \ T) /\ Unseen(T) <= Unseen(S)
          /\ Unseen(T) # Unseen(S)
      BY <3>4, <3>5, FS_Subset
    <3>7. Unseen(T) \in Nat /\ Unseen(S) \in Nat
      BY <3>4, <3>6, FS_CardinalityType
    <3> HIDE DEF Linked, Done, Unseen, T
    <3>8. Unseen(T) \in Bad
      BY <2>3, <3>1, <3>2, <3>7
    <3> HIDE DEF Bad
    <3>9. n <= Unseen(T)
      BY <2>2, <3>8
    <3>10. QED
      BY <2>3, <3>6, <3>7, <3>9
  <2>6. QED
    BY <2>4, <2>5
<1> DEFINE R == f[{origin}]
<1>4. Done(R)
  <2>1. Chained(brd, origin, origin)
    BY StartIsChain DEF Chained
  <2>2. Linked({origin})
    BY <2>1
  <2>3. Unseen({origin}) \in Nat
    BY BoardFinite, FS_Subset, FS_CardinalityType
  <2> HIDE DEF Linked, Done, Unseen
  <2>4. QED
    BY <1>3, <2>2, <2>3
<1> HIDE DEF R
<1>5. ASSUME NEW path \in HopChains(brd), path[1] = origin PROVE path[Len(path)] \in R
  <2> DEFINE Out == {i \in Nat : i \in 1..Len(path) /\ path[i] \notin R}
  <2>1. Len(path) \in Nat /\ Len(path) >= 1
    BY ChainLength
  <2>2. Out = {}
    <3>1. SUFFICES ASSUME Out # {} PROVE FALSE
      OBVIOUS
    <3>2. PICK i \in Out : \A j \in Out : i <= j
      <4> HIDE DEF Out
      <4>1. Out \in SUBSET Nat
        BY DEF Out
      <4>2. QED
        BY <3>1, <4>1, LeastNatural
    <3>3. i # 1
      BY <1>4, <1>5, <3>2
    <3>4. i - 1 \in 1..(Len(path) - 1) /\ i - 1 \in 1..Len(path) /\ i - 1 \in Nat /\ (i - 1) + 1 = i
      BY <2>1, <3>2, <3>3
    <3>5. path[i - 1] \in R
      BY <3>2, <3>4
    <3>6. path[(i - 1) + 1] \in HopTargets(brd, path[1], path[i - 1])
      BY <3>4 DEF HopChains
    <3>7. path[i] \in HopTargets(brd, origin, path[i - 1])
      BY <1>5, <3>4, <3>6
    <3>8. path[i] \in Grown(brd, origin, R)
      BY <3>5, <3>7 DEF Grown
    <3>9. QED
      BY <1>4, <3>2, <3>8
  <2>3. QED
    BY <2>1, <2>2
<1>6. \A c \in AllBoardCells : c \in R <=> Chained(brd, origin, c)
  BY <1>4, <1>5 DEF Chained
<1>7. QED
  BY <1>1, <1>6 DEF R

\* f[paths] is what findPath returns once it has these paths to go on from.
IsSearch(f, brd, from, to) ==
    \A paths \in SUBSET Seq(AllBoardCells) :
        f[paths] = IF paths = {} \/ Arrived(paths, to) # {} THEN Arrived(paths, to)
                                                          ELSE f[Longer(brd, from, paths)]

\* The search of findPath, unfolded once.
LEMMA SearchUnfolds ==
    ASSUME NEW brd, NEW from \in AllBoardCells, NEW to, from # to,
           to \notin StepTargets(brd, from)
    PROVE  \E f : IsSearch(f, brd, from, to) /\ FindPaths(brd, from, to) = f[{<<from>>}]
<1> DEFINE D == SUBSET Seq(AllBoardCells)
           next == [paths \in D |-> Longer(brd, from, paths)]
           Stop == {paths \in D : paths = {} \/ Arrived(paths, to) # {}}
           out == [paths \in D |-> Arrived(paths, to)]
           Computes(f) ==
              f = [paths \in D |-> IF paths = {} \/ Arrived(paths, to) # {} THEN Arrived(paths, to)
                                   ELSE f[Longer(brd, from, paths)]]
           search == CHOOSE f : Computes(f)
<1>1. ASSUME NEW paths \in D PROVE Longer(brd, from, paths) \in D
  <2>1. ASSUME NEW q \in Longer(brd, from, paths) PROVE q \in Seq(AllBoardCells)
    <3>1. PICK p \in paths : \E c \in AllBoardCells : q = Append(p, c)
      BY <2>1 DEF Longer, HopTargets
    <3>2. QED
      BY <3>1
  <2>2. QED
    BY <2>1
<1>2. PICK f : IsLoop(f, D, Stop, next, out)
  <2>1. \A paths \in D : next[paths] \in D
    BY <1>1
  <2> HIDE DEF next, Stop, out, D
  <2>2. QED
    BY <2>1, LoopExists
<1>3. Computes(f)
  <2>1. \A paths \in D : f[paths] = IF paths = {} \/ Arrived(paths, to) # {} THEN Arrived(paths, to)
                                    ELSE f[Longer(brd, from, paths)]
    <3>1. TAKE paths \in D
    <3>2. f[paths] = IF paths \in Stop THEN out[paths] ELSE f[next[paths]]
      BY <1>2 DEF IsLoop
    <3>3. QED
      BY <3>2
  <2>2. f = [paths \in D |-> f[paths]]
    BY <1>2 DEF IsLoop
  <2> HIDE DEF D
  <2>3. f = [paths \in D |-> IF paths = {} \/ Arrived(paths, to) # {} THEN Arrived(paths, to)
                             ELSE f[Longer(brd, from, paths)]]
    BY <2>1, <2>2
  <2>4. QED
    BY <2>3
<1>4. Computes(search)
  BY <1>3
<1>5. FindPaths(brd, from, to) = search[{<<from>>}]
  BY DEF FindPaths
<1>6. search = [paths \in D |-> IF paths = {} \/ Arrived(paths, to) # {} THEN Arrived(paths, to)
                                ELSE search[Longer(brd, from, paths)]]
  BY <1>4
<1> HIDE DEF search, next, Stop, out, Computes
<1>7. \A paths \in D :
         search[paths] = IF paths = {} \/ Arrived(paths, to) # {} THEN Arrived(paths, to)
                         ELSE search[Longer(brd, from, paths)]
  BY <1>6
<1>8. QED
  BY <1>5, <1>7 DEF IsSearch

\* findPath's search returns exactly the shortest chains that lead to the cell.
LEMMA SearchIsShortest ==
    ASSUME NEW brd, NEW from \in AllBoardCells, NEW to, from # to,
           to \notin StepTargets(brd, from)
    PROVE  FindPaths(brd, from, to) =
              {p \in HopChains(brd) :
                  /\ p[1] = from /\ p[Len(p)] = to
                  /\ \A q \in HopChains(brd) :
                        q[1] = from /\ q[Len(q)] = to => Len(p) <= Len(q)}
<1>1. PICK f : IsSearch(f, brd, from, to) /\ FindPaths(brd, from, to) = f[{<<from>>}]
  BY SearchUnfolds
<1> DEFINE Layer(k) == {p \in HopChains(brd) : p[1] = from /\ Len(p) = k}
           Answers == {p \in HopChains(brd) : p[1] = from /\ p[Len(p)] = to}
           Shortest == {p \in Answers : \A q \in Answers : Len(p) <= Len(q)}
           NoneBefore(k) == \A q \in Answers : k <= Len(q)
           cells == Cardinality(AllBoardCells)
           Bad == {m \in Nat : \E k \in Nat \ {0} :
                      NoneBefore(k) /\ f[Layer(k)] # Shortest
                      /\ m = IF k <= cells THEN cells + 1 - k ELSE 0}
<1>0. cells \in Nat
  BY BoardFinite, FS_CardinalityType
<1>2. \A q \in HopChains(brd) : \A k \in 1..Len(q) :
         \E p \in HopChains(brd) : /\ Len(p) = k /\ p[1] = q[1] /\ p[k] = q[k]
                                   /\ \A i \in 1..k : p[i] = q[i]
  BY ChainPrefix
<1>2a. ASSUME NEW k \in Nat \ {0} PROVE Layer(k) \in SUBSET Seq(AllBoardCells)
  BY DEF HopChains
<1>3. ASSUME NEW k \in Nat \ {0} PROVE Longer(brd, from, Layer(k)) = Layer(k + 1)
  <2>1. ASSUME NEW q \in Longer(brd, from, Layer(k)) PROVE q \in Layer(k + 1)
    <3>1. PICK p \in Layer(k) : \E c \in HopTargets(brd, from, p[Len(p)]) :
                                   (\A i \in DOMAIN p : p[i] # c) /\ q = Append(p, c)
      BY <2>1 DEF Longer
    <3>2. PICK c \in HopTargets(brd, p[1], p[Len(p)]) :
             (\A i \in DOMAIN p : p[i] # c) /\ q = Append(p, c)
      BY <3>1
    <3>3. DOMAIN p = 1..Len(p)
      BY DEF HopChains
    <3>4. /\ Append(p, c) \in HopChains(brd)
          /\ Append(p, c)[1] = p[1]
          /\ Len(Append(p, c)) = Len(p) + 1
      BY <3>2, <3>3, ChainExtends
    <3>5. q \in HopChains(brd) /\ q[1] = from /\ Len(q) = k + 1
      BY <3>2, <3>4, Zenon
    <3>6. QED
      BY <3>5
  <2>2. ASSUME NEW q \in Layer(k + 1) PROVE q \in Longer(brd, from, Layer(k))
    <3>1. /\ q \in HopChains(brd) /\ Len(q) = k + 1
          /\ k \in 1..Len(q) /\ k + 1 \in 1..Len(q) /\ k \in 1..(Len(q) - 1)
      OBVIOUS
    <3>2. PICK p \in HopChains(brd) : /\ Len(p) = k /\ p[1] = q[1] /\ p[k] = q[k]
                                      /\ \A i \in 1..k : p[i] = q[i]
      BY <3>1, <1>2
    <3> DEFINE c == q[k + 1]
    <3>3. c \in HopTargets(brd, from, p[Len(p)])
      BY <3>1, <3>2 DEF HopChains
    <3>4. DOMAIN p = 1..k /\ p \in Seq(AllBoardCells) /\ q \in Seq(AllBoardCells)
      BY <3>2 DEF HopChains
    <3>5. \A i \in DOMAIN p : p[i] # c
      <4>1. TAKE i \in DOMAIN p
      <4>2. i \in 1..Len(q) /\ i # k + 1 /\ p[i] = q[i]
        BY <3>1, <3>2, <3>4
      <4>3. QED
        BY <3>1, <4>2 DEF HopChains
    <3>6. q = Append(p, c)
      BY <3>1, <3>2, <3>4
    <3> HIDE DEF c
    <3>7. p \in Layer(k)
      BY <3>2
    <3>8. QED
      BY <3>3, <3>5, <3>6, <3>7 DEF Longer
  <2> HIDE DEF Layer
  <2>3. QED
    BY <2>1, <2>2
<1>4. ASSUME NEW k \in Nat \ {0}, NoneBefore(k), Arrived(Layer(k), to) # {}
      PROVE  Arrived(Layer(k), to) = Shortest
  <2>1. \A p \in Answers : Len(p) \in Nat
    BY ChainLength
  <2>2. \A p : p \in Arrived(Layer(k), to) <=> p \in Answers /\ Len(p) = k
    BY DEF Arrived
  <2> HIDE DEF Answers, Layer
  <2>3. \A p : p \in Shortest <=> p \in Answers /\ Len(p) = k
    BY <1>4, <2>1, <2>2
  <2> HIDE DEF Shortest
  <2>4. QED
    BY <2>2, <2>3
<1>5. ASSUME NEW k \in Nat \ {0}, NoneBefore(k), Arrived(Layer(k), to) = {} PROVE NoneBefore(k + 1)
  <2>1. \A p \in Answers : Len(p) \in Nat
    BY ChainLength
  <2>2. \A p \in Answers : Len(p) # k
    BY <1>5 DEF Arrived
  <2> HIDE DEF Answers, Layer
  <2>3. QED
    BY <1>5, <2>1, <2>2
<1>6. ASSUME NEW k \in Nat \ {0}, NoneBefore(k), Layer(k) = {} PROVE Shortest = {}
  <2>1. ASSUME NEW q \in Answers PROVE FALSE
    <3>1. Len(q) \in Nat /\ k <= Len(q)
      BY <1>6, ChainLength
    <3>2. k \in 1..Len(q)
      BY <3>1
    <3>3. \E p \in HopChains(brd) : Len(p) = k /\ p[1] = q[1]
      BY <3>2, ChainPrefix
    <3>4. QED
      BY <1>6, <3>3
  <2>2. QED
    BY <2>1
<1>7. ASSUME NEW k \in Nat \ {0}, k > cells PROVE Layer(k) = {}
  BY <1>0, <1>7, ChainLength
<1>8. Bad = {}
  <2> HIDE DEF Layer, Shortest, NoneBefore, cells
  <2>1. SUFFICES ASSUME Bad # {} PROVE FALSE
    OBVIOUS
  <2>2. PICK m \in Bad : \A j \in Bad : m <= j
    <3> HIDE DEF Bad
    <3>1. Bad \in SUBSET Nat
      BY DEF Bad
    <3>2. QED
      BY <2>1, <3>1, LeastNatural
  <2>3. PICK k \in Nat \ {0} : /\ NoneBefore(k) /\ f[Layer(k)] # Shortest
                               /\ m = IF k <= cells THEN cells + 1 - k ELSE 0
    BY <2>2
  <2>4. f[Layer(k)] = IF Layer(k) = {} \/ Arrived(Layer(k), to) # {} THEN Arrived(Layer(k), to)
                      ELSE f[Layer(k + 1)]
    BY <1>1, <1>2a, <1>3 DEF IsSearch
  <2>5. CASE Layer(k) = {}
    <3>1. Arrived(Layer(k), to) = {}
      BY <2>5 DEF Arrived
    <3>2. QED
      BY <1>6, <2>3, <2>4, <2>5, <3>1
  <2>6. CASE Layer(k) # {} /\ Arrived(Layer(k), to) # {}
    BY <1>4, <2>3, <2>4, <2>6
  <2>7. CASE Layer(k) # {} /\ Arrived(Layer(k), to) = {}
    <3>1. k <= cells
      BY <1>0, <1>7, <2>7
    <3>2. NoneBefore(k + 1) /\ f[Layer(k + 1)] # Shortest
      BY <1>5, <2>3, <2>4, <2>7
    <3> DEFINE less == IF k + 1 <= cells THEN cells + 1 - (k + 1) ELSE 0
    <3>3. less \in Nat /\ less < m /\ k + 1 \in Nat \ {0}
      BY <1>0, <2>3, <3>1
    <3>4. less \in Bad
      BY <3>2, <3>3
    <3> HIDE DEF less, Bad
    <3>5. QED
      BY <2>2, <3>3, <3>4
  <2>8. QED
    BY <2>5, <2>6, <2>7
<1>9. f[Layer(1)] = Shortest
  <2>1. NoneBefore(1)
    BY ChainLength
  <2> DEFINE m == IF 1 <= cells THEN cells + 1 - 1 ELSE 0
  <2>2. m \in Nat
    BY <1>0
  <2> HIDE DEF Layer, Shortest, NoneBefore, cells
  <2>3. f[Layer(1)] # Shortest => m \in Bad
    BY <2>1, <2>2
  <2>4. QED
    BY <1>8, <2>3
<1>10. Layer(1) = {<<from>>}
  <2>1. ASSUME NEW p \in Layer(1) PROVE p = <<from>>
    BY DEF HopChains
  <2>2. <<from>> \in Layer(1)
    BY StartIsChain
  <2>3. QED
    BY <2>1, <2>2
<1>11. QED
  BY <1>1, <1>9, <1>10

-----------------------------------------------------------------------------
(* The two ways legality is computed *)

\* A path to an empty cell is accepted by validateMove if it is a single step,
\* or a chain of at least one hop.
LEMMA AllowedPaths ==
    ASSUME NEW brd, NEW path \in Seq(AllBoardCells), Len(path) >= 2,
           brd[path[1]] # NoMarble, brd[path[Len(path)]] = NoMarble
    PROVE  PathAllowed(brd, path) <=>
              \/ Len(path) = 2 /\ path[2] \in StepTargets(brd, path[1])
              \/ path \in HopChains(brd)
<1> DEFINE n == Len(path)
           from == path[1]
<1>0. n \in Nat /\ n >= 2
  OBVIOUS
<1>1. n \in Nat /\ \A i \in 1..n : path[i] \in AllBoardCells
  OBVIOUS
<1>2. DOMAIN path = 1..n
  OBVIOUS
<1>3. \A a, b : HopSegment(brd, from, a, b) /\ b # from <=> b \in HopTargets(brd, from, a)
  BY DEF HopSegment, HopTargets
<1>4. n = 2 => ((\E d \in HexDirections : path[2] = HexAdd(from, d))
                   <=> path[2] \in StepTargets(brd, from))
  BY <1>1 DEF StepTargets
<1>5. n = 2 => (HopSegment(brd, from, from, path[2]) <=> path \in HopChains(brd))
  <2>1. SUFFICES ASSUME n = 2
                 PROVE  HopSegment(brd, from, from, path[2]) <=> path \in HopChains(brd)
    OBVIOUS
  <2>2. path[2] # from /\ 1 \in 1..(n - 1) /\ path[1 + 1] = path[2]
    BY <2>1
  <2>3. \A i \in 1..(n - 1) : i = 1
    BY <2>1
  <2>4. \A i, j \in 1..n : path[i] = path[j] => i = j
    BY <2>1, <2>2
  <2>5. path \in HopChains(brd) <=> path[2] \in HopTargets(brd, from, from)
    BY <2>2, <2>3, <2>4 DEF HopChains
  <2>6. QED
    BY <1>3, <2>2, <2>5
<1>6. n > 2 => (((\A i \in 1..(n - 1) : HopSegment(brd, from, path[i], path[i + 1]))
                    /\ (\A i, j \in 1..n : path[i] = path[j] => i = j))
                   <=> path \in HopChains(brd))
  <2>1. SUFFICES ASSUME n > 2, \A i, j \in 1..n : path[i] = path[j] => i = j
                 PROVE  (\A i \in 1..(n - 1) : HopSegment(brd, from, path[i], path[i + 1]))
                           <=> path \in HopChains(brd)
    BY DEF HopChains
  <2>2. \A i \in 1..(n - 1) : path[i + 1] # from
    BY <1>1, <2>1
  <2>3. QED
    BY <1>3, <2>1, <2>2 DEF HopChains
<1>7. PathAllowed(brd, path) <=>
         \/ n = 2 /\ (\/ \E d \in HexDirections : path[2] = HexAdd(from, d)
                      \/ HopSegment(brd, from, from, path[2]))
         \/ n > 2 /\ (\A i \in 1..(n - 1) : HopSegment(brd, from, path[i], path[i + 1]))
                  /\ (\A i, j \in 1..n : path[i] = path[j] => i = j)
  BY <1>1, <1>2, Zenon DEF PathAllowed
<1> HIDE DEF n, from
<1>8. n = 2 \/ n > 2
  BY <1>0
<1>9. QED
  BY <1>4, <1>5, <1>6, <1>7, <1>8 DEF n, from

\* The paths validateMove accepts from one cell to another.
AllowedPathsBetween(brd, from, to) ==
    {path \in Seq(AllBoardCells) :
        /\ Len(path) >= 2 /\ path[1] = from /\ path[Len(path)] = to
        /\ PathAllowed(brd, path)}

\* findPath, which supplies the path of a move when the client sends none and
\* the timer's move with its own, returns exactly the shortest paths validateMove
\* accepts ("Compute one shortest path of waypoints"): none exists only if the
\* cell cannot be reached.
THEOREM PathsAreShortest ==
    ASSUME NEW brd \in Boards, NEW from \in AllBoardCells, NEW to \in AllBoardCells,
           brd[from] # NoMarble, brd[to] = NoMarble
    PROVE  FindPaths(brd, from, to) =
              {p \in AllowedPathsBetween(brd, from, to) :
                  \A q \in AllowedPathsBetween(brd, from, to) : Len(p) <= Len(q)}
<1> DEFINE Allowed == AllowedPathsBetween(brd, from, to)
           Answers == {p \in HopChains(brd) : p[1] = from /\ p[Len(p)] = to}
<1>1. from # to
  OBVIOUS
<1>2. \A p \in Allowed : Len(p) \in Nat /\ Len(p) >= 2
  BY DEF AllowedPathsBetween
<1>3. ASSUME NEW p \in Answers PROVE p \in Allowed
  <2>1. p \in Seq(AllBoardCells) /\ Len(p) \in Nat /\ Len(p) >= 1
    BY DEF HopChains
  <2>2. Len(p) # 1
    BY <1>1
  <2>3. Len(p) >= 2
    BY <2>1, <2>2
  <2>4. PathAllowed(brd, p)
    BY <2>1, <2>3, AllowedPaths
  <2>5. QED
    BY <2>1, <2>3, <2>4 DEF AllowedPathsBetween
<1>4. ASSUME NEW p \in Allowed PROVE \/ p \in Answers
                                     \/ Len(p) = 2 /\ to \in StepTargets(brd, from)
  BY AllowedPaths DEF AllowedPathsBetween
<1>5. CASE to \in StepTargets(brd, from)
  <2>1. FindPaths(brd, from, to) = {<<from, to>>}
    BY <1>1, <1>5 DEF FindPaths
  <2> DEFINE direct == <<from, to>>
  <2>2. direct \in Seq(AllBoardCells) /\ Len(direct) = 2 /\ direct[1] = from /\ direct[2] = to
    OBVIOUS
  <2> HIDE DEF direct
  <2>3. direct \in Allowed
    <3>1. /\ Len(direct) >= 2 /\ direct[Len(direct)] = to
          /\ brd[direct[1]] # NoMarble /\ brd[direct[Len(direct)]] = NoMarble
      BY <2>2
    <3>2. PathAllowed(brd, direct)
      BY <1>5, <2>2, <3>1, AllowedPaths, Zenon
    <3>3. QED
      BY <2>2, <3>1, <3>2, Zenon DEF AllowedPathsBetween
  <2>4. ASSUME NEW p \in Allowed, Len(p) = 2 PROVE p = direct
    <3>1. p \in Seq(AllBoardCells) /\ p[1] = from /\ p[2] = to
      BY <2>4 DEF AllowedPathsBetween
    <3>2. QED
      BY <2>2, <2>4, <3>1
  <2> HIDE DEF Allowed
  <2>5. {p \in Allowed : \A q \in Allowed : Len(p) <= Len(q)} = {direct}
    <3>1. \A q \in Allowed : Len(direct) <= Len(q)
      BY <1>2, <2>2
    <3>2. ASSUME NEW p \in Allowed, \A q \in Allowed : Len(p) <= Len(q) PROVE p = direct
      <4> DEFINE n == Len(p)
      <4>1. n \in Nat /\ n >= 2 /\ n <= 2
        BY <1>2, <2>2, <2>3, <3>2
      <4> HIDE DEF n
      <4>2. n = 2
        BY <4>1
      <4>3. QED
        BY <2>4, <4>2 DEF n
    <3>3. QED
      BY <2>3, <3>1, <3>2
  <2>6. QED
    BY <2>1, <2>5 DEF direct, Allowed
<1>6. CASE to \notin StepTargets(brd, from)
  <2>1. FindPaths(brd, from, to) =
           {p \in HopChains(brd) :
               /\ p[1] = from /\ p[Len(p)] = to
               /\ \A q \in HopChains(brd) :
                     q[1] = from /\ q[Len(q)] = to => Len(p) <= Len(q)}
    BY <1>1, <1>6, SearchIsShortest
  <2>2. FindPaths(brd, from, to) = {p \in Answers : \A q \in Answers : Len(p) <= Len(q)}
    BY <2>1
  <2>3. Answers = Allowed
    BY <1>3, <1>4, <1>6
  <2> HIDE DEF Answers, Allowed
  <2>4. QED
    BY <2>2, <2>3 DEF Allowed
<1>7. QED
  BY <1>5, <1>6

-----------------------------------------------------------------------------
(* Users and their zones *)

\* Seats and users correspond one to one.
LEMMA PlayersFacts ==
    /\ Len(TurnOrder) \in {2, 3, 4, 6}
    /\ Seats = 1..Len(TurnOrder)
    /\ \A i \in Seats : TurnOrder[i] \in Players
    /\ \A p \in Players : SeatOf(p) \in Seats /\ TurnOrder[SeatOf(p)] = p
  BY TurnOrderAssumption DEF Seats, Players, SeatOf

\* Different users play from, and towards, different triangles.
LEMMA HomePointsDistinct ==
    ASSUME NEW p \in Players, NEW q \in Players
    PROVE  /\ HomePoint(p) \in Points
           /\ OpposingPoint(HomePoint(p)) \in Points
           /\ OpposingPoint(HomePoint(p)) = OpposingPoint(HomePoint(q)) => p = q
<1> DEFINE n == Len(TurnOrder)
<1>0. \A i, j \in 1..n : /\ PlayerHomePoints(n)[i] \in Points
                         /\ PlayerHomePoints(n)[i] = PlayerHomePoints(n)[j] => i = j
  <2>1. CASE n = 2
    BY <2>1 DEF PlayerHomePoints, Points
  <2>2. CASE n = 3
    BY <2>2 DEF PlayerHomePoints, Points
  <2>3. CASE n = 4
    BY <2>3 DEF PlayerHomePoints, Points
  <2>4. CASE n = 6
    BY <2>4 DEF PlayerHomePoints, Points
  <2>5. QED
    BY <2>1, <2>2, <2>3, <2>4, PlayersFacts
<1>1. HomePoint(p) \in Points /\ HomePoint(q) \in Points
  BY <1>0, PlayersFacts DEF HomePoint
<1>2. HomePoint(p) = HomePoint(q) => SeatOf(p) = SeatOf(q)
  BY <1>0, PlayersFacts DEF HomePoint
<1>3. OpposingPoint(HomePoint(p)) = OpposingPoint(HomePoint(q))
         => HomePoint(p) = HomePoint(q)
  BY <1>1 DEF OpposingPoint, Points
<1>4. OpposingPoint(HomePoint(p)) \in Points
  BY <1>1 DEF OpposingPoint, Points
<1>5. QED
  BY <1>1, <1>2, <1>3, <1>4, PlayersFacts

\* Target zones are on the board, and those of different users are disjoint.
LEMMA TargetZones ==
    ASSUME NEW p \in Players, NEW q \in Players
    PROVE  /\ TargetZone[p] \subseteq AllBoardCells
           /\ p # q => TargetZone[p] \intersect TargetZone[q] = {}
<1>1. /\ TargetZone[p] = HomeTriangle(OpposingPoint(HomePoint(p)))
      /\ TargetZone[q] = HomeTriangle(OpposingPoint(HomePoint(q)))
  BY DEF TargetZone
<1>2. QED
  BY <1>1, HomePointsDistinct, TrianglesDisjoint DEF AllBoardCells

\* So are the home zones.
LEMMA HomeZones ==
    ASSUME NEW p \in Players, NEW q \in Players
    PROVE  /\ Home[p] \subseteq AllBoardCells
           /\ p # q => Home[p] \intersect Home[q] = {}
<1>1. Home[p] = HomeTriangle(HomePoint(p)) /\ Home[q] = HomeTriangle(HomePoint(q))
  BY DEF Home
<1>2. HomePoint(p) = HomePoint(q) => p = q
  BY HomePointsDistinct DEF OpposingPoint
<1>3. QED
  BY <1>1, <1>2, HomePointsDistinct, TrianglesDisjoint DEF AllBoardCells

\* A user's target has room for exactly the marbles of its home.
LEMMA ZonesAreEqual ==
    ASSUME NEW p \in Players
    PROVE  /\ IsFiniteSet(TargetZone[p])
           /\ Cardinality(TargetZone[p]) = Cardinality(Home[p])
           /\ 2 * Cardinality(Home[p]) = N * (N + 1)
<1>1. /\ TargetZone[p] = HomeTriangle(OpposingPoint(HomePoint(p)))
      /\ Home[p] = HomeTriangle(HomePoint(p))
  BY DEF TargetZone, Home
<1>2. QED
  BY <1>1, HomePointsDistinct, TrianglesAreEqual, TriangleSize

-----------------------------------------------------------------------------
(* The inductive invariant *)

\* Each user finishes at most once, whether by winning or by resigning.
FinishOnce ==
    \A i, j \in DOMAIN game.finishedPlayers :
        game.finishedPlayers[i].userId = game.finishedPlayers[j].userId => i = j

\* What the engine looks at: the length of the finish list.
CompletedWhenCounted == game.status = "completed" <=> IsOver(game, game.finishedPlayers)

EndsWhenCounted == game.endReason # "stalemate" => CompletedWhenCounted

\* Only a full log ends a game that is not decided (Replay).
StaleIsOver == game.endReason = "stalemate" => game.status = "completed"

\* WinnersStayHome alone is not inductive: that nobody lifts a winner's marble
\* needs disjoint zones, that its owner does not needs that the turn skips it.
Inv ==
    /\ TypeOK
    /\ FinishOnce
    /\ EndsWhenCounted
    /\ StaleIsOver
    /\ TurnSkipsWinners
    /\ WinnersStayHome
    /\ MarblesConserved

\* What validateMove and getAllValidMoves both make sure of before a marble
\* is lifted from `from` and put down on `to`.
Liftable(from, to) ==
    LET p == CurrentPlayer(game)
    IN  /\ from \in AllBoardCells /\ to \in AllBoardCells
        /\ board[to] = NoMarble
        /\ board[from] # NoMarble
        /\ board[from] = p \/ from \in TargetZone[p]

\* A move validateMove accepts moves a marble its user may lift to an empty cell.
LEMMA AttemptLifts ==
    ASSUME TypeOK, NEW p \in Players, HasTheMove(p),
           NEW path \in ClientPaths, MoveAllowed(board, p, path)
    PROVE  Liftable(path[1], path[Len(path)])
  BY NoMarbleAssumption DEF HasTheMove, MoveAllowed, Liftable, MayLift, Evictable

\* So does every move the turn timer may draw.
LEMMA TimeoutLifts ==
    ASSUME TypeOK, CurrentPlayer(game) \in Players,
           NEW m \in AllValidMoves(board, CurrentPlayer(game))
    PROVE  Liftable(m[1], m[2])
<1> DEFINE p == CurrentPlayer(game)
<1>1. PICK from \in AllBoardCells :
          \E to \in ValidDestinations(board, p, from) : m = <<from, to>>
  BY DEF AllValidMoves
<1> DEFINE to == m[2]
<1>2. m = <<from, to>> /\ to \in ValidDestinations(board, p, from)
  BY <1>1
<1>3. /\ MayLift(board, p, from)
      /\ to \in StepTargets(board, from) \union HopClosure(board, from)
  BY <1>2 DEF ValidDestinations
<1>4. to \in AllBoardCells /\ board[to] = NoMarble
  <2>1. CASE to \in StepTargets(board, from)
    BY <2>1 DEF StepTargets
  <2>2. CASE to \in HopClosure(board, from)
    BY <2>2 DEF HopClosure
  <2>3. QED
    BY <1>3, <2>1, <2>2
<1>5. QED
  BY <1>2, <1>3, <1>4, NoMarbleAssumption DEF Liftable, MayLift, Evictable

\* The score a running game has, in the form the lemmas on turns want it.
LEMMA RunningScore ==
    ASSUME TypeOK
    PROVE  /\ ScoreOf(game, TurnOrder)
           /\ PlayerCount(game) = Len(TurnOrder)
           /\ CurrentPlayer(game) \in Players
           /\ game.finishedPlayers \in Seq(FinishedEntries)
  BY PlayersFacts, TurnOrderAssumption
  DEF TypeOK, ScoreOf, PlayerCount, CurrentPlayer, Seats

\* Moving one marble leaves every user with as many marbles as before.
LEMMA MoveKeepsMarbles ==
    ASSUME TypeOK, MarblesConserved, NEW from, NEW to, Liftable(from, to),
           board' = MoveMarble(board, from, to)
    PROVE  MarblesConserved'
<1>1. /\ board \in Boards /\ board' \in Boards
      /\ from # to
      /\ board[from] \in Players /\ board[to] = NoMarble
      /\ \A c \in AllBoardCells :
            board'[c] = IF c = to THEN board[from]
                        ELSE IF c = from THEN NoMarble ELSE board[c]
  BY DEF TypeOK, Boards, MoveMarble, Liftable
<1>2. SUFFICES ASSUME NEW p \in Players
               PROVE  Cardinality(Marbles(p)') = Cardinality(Marbles(p))
  BY DEF MarblesConserved
<1>3. IsFiniteSet(Marbles(p))
  BY BoardFinite, FS_Subset DEF Marbles
<1>4. CASE board[from] = p
  <2>1. Marbles(p)' = (Marbles(p) \ {from}) \union {to}
    BY <1>1, <1>4, NoMarbleAssumption DEF Marbles, Liftable
  <2>2. from \in Marbles(p) /\ to \notin Marbles(p)
    BY <1>1, <1>4, NoMarbleAssumption DEF Marbles, Liftable
  <2>3. /\ IsFiniteSet(Marbles(p) \ {from})
        /\ Cardinality(Marbles(p) \ {from}) = Cardinality(Marbles(p)) - 1
    BY <1>3, <2>2, FS_RemoveElement
  <2>4. Cardinality((Marbles(p) \ {from}) \union {to})
           = Cardinality(Marbles(p) \ {from}) + 1
    BY <2>2, <2>3, FS_AddElement
  <2>5. Cardinality(Marbles(p)) \in Nat
    BY <1>3, FS_CardinalityType
  <2>6. QED
    BY <2>1, <2>3, <2>4, <2>5
<1>5. CASE board[from] # p
  <2>1. Marbles(p)' = Marbles(p)
    BY <1>1, <1>5, NoMarbleAssumption DEF Marbles, Liftable
  <2>2. QED
    BY <2>1
<1>6. QED
  BY <1>4, <1>5

\* The invariant survives a move, whoever makes it.
LEMMA MovePreserves ==
    ASSUME Inv, NEW from, NEW to, Liftable(from, to),
           game.status = "active", ApplyMove(from, to)
    PROVE  Inv'
<1> DEFINE p == CurrentPlayer(game)
           won == CheckWin(board', p)
           before == game.finishedPlayers
           after == FinishedAfter(game, won)
<1>1. /\ ScoreOf(game, TurnOrder)
      /\ PlayerCount(game) = Len(TurnOrder)
      /\ p \in Players
      /\ before \in Seq(FinishedEntries)
  BY RunningScore DEF Inv
<1>2. /\ board' = MoveMarble(board, from, to)
      /\ game' = AfterMove(game, won)
  BY DEF ApplyMove
<1>3. Len(before) < Len(TurnOrder) - 1 /\ Len(before) \in Nat
  BY <1>1, PlayersFacts DEF Inv, StaleIsOver, EndsWhenCounted, CompletedWhenCounted, IsOver
<1>4. /\ after = before \/ after = Append(before, [userId |-> p, finishPos |-> Len(before) + 1])
      /\ after # before => won /\ p \notin FinishedIds(before)
      /\ after \in Seq(FinishedEntries)
      /\ Len(after) \in Nat /\ Len(after) < Len(TurnOrder)
  <2>1. [userId |-> p, finishPos |-> Len(before) + 1] \in FinishedEntries
    BY <1>1, <1>3, PlayersFacts DEF FinishedEntries
  <2>2. QED
    BY <1>1, <1>3, <2>1, PlayersFacts DEF FinishedAfter
<1>5. /\ game'.turnOrder = TurnOrder
      /\ game'.currentTurnIndex = NextTurnIndex(game, after)
      /\ game'.finishedPlayers = after
      /\ game'.status = IF IsOver(game, after) THEN "completed" ELSE "active"
      /\ game'.endReason = game.endReason
  BY <1>2 DEF AfterMove, Inv, TypeOK
<1>6. NextTurnIndex(game, after) \in OpenSeats(game, after)
  <2> HIDE DEF after
  <2>1. QED
    BY <1>1, <1>4, NextTurnIsOpen
<1>7. TypeOK'
  <2>1. board' \in Boards
    BY <1>2 DEF Inv, TypeOK, Boards, MoveMarble, Liftable
  <2>2. game'.currentTurnIndex \in Seats
    BY <1>1, <1>5, <1>6 DEF OpenSeats, Seats
  <2> HIDE DEF after, before
  <2>3. /\ game'.finishedPlayers \in Seq(FinishedEntries)
        /\ game'.status \in {"active", "completed"}
    BY <1>4, <1>5
  <2>4. game' = [game EXCEPT !.finishedPlayers = game'.finishedPlayers,
                             !.currentTurnIndex = game'.currentTurnIndex,
                             !.status = game'.status]
    BY <1>2 DEF AfterMove, Inv, TypeOK
  <2>5. QED
    BY <2>1, <2>2, <2>3, <2>4 DEF Inv, TypeOK
<1>8. FinishOnce'
  <2>1. CASE after = before
    BY <1>5, <2>1 DEF Inv, FinishOnce
  <2>2. CASE after # before
    <3> DEFINE entry == [userId |-> p, finishPos |-> Len(before) + 1]
    <3>1. /\ after = Append(before, entry)
          /\ \A i \in DOMAIN before : before[i].userId # entry.userId
      BY <1>4, <2>2 DEF FinishedIds
    <3> HIDE DEF after, entry
    <3>2. /\ DOMAIN after = 1..(Len(before) + 1)
          /\ DOMAIN before = 1..Len(before)
          /\ after[Len(before) + 1] = entry
          /\ \A i \in DOMAIN before : after[i] = before[i]
      BY <1>1, <1>3, <3>1
    <3>3. \A i, j \in DOMAIN before : before[i].userId = before[j].userId => i = j
      BY DEF Inv, FinishOnce
    <3>4. QED
      BY <1>3, <1>5, <3>1, <3>2, <3>3 DEF FinishOnce
  <2>3. QED
    BY <2>1, <2>2
<1>9. EndsWhenCounted' /\ StaleIsOver'
  BY <1>1, <1>5 DEF Inv, StaleIsOver, EndsWhenCounted, CompletedWhenCounted, IsOver, PlayerCount
<1>10. \A w \in Winners(game)' : w \in Players /\ (w \in Winners(game) \/ (w = p /\ won))
  <2>1. TAKE w \in Winners(game')
  <2>2. PICK k \in DOMAIN after : after[k].userId = w /\ after[k].finishPos < Len(TurnOrder)
    BY <1>5, <2>1 DEF Winners, PlayerCount
  <2>3. w \in Players
    <3> HIDE DEF after
    <3>1. after[k] \in FinishedEntries
      BY <1>4, <2>2
    <3>2. QED
      BY <2>2, <3>1 DEF FinishedEntries
  <2>4. CASE k \in DOMAIN before /\ after[k] = before[k]
    BY <1>1, <2>2, <2>3, <2>4 DEF Winners
  <2>5. CASE ~(k \in DOMAIN before /\ after[k] = before[k])
    <3>1. after = Append(before, [userId |-> p, finishPos |-> Len(before) + 1])
      BY <1>4, <2>2, <2>5
    <3>2. after # before
      BY <2>2, <2>5
    <3>3. k = Len(before) + 1
      BY <1>1, <1>3, <2>2, <2>5, <3>1
    <3>4. after[k].userId = p
      BY <1>1, <3>1, <3>3
    <3>5. QED
      BY <1>4, <2>2, <2>3, <3>2, <3>4
  <2>6. QED
    BY <2>4, <2>5
<1>11. TurnSkipsWinners'
  <2>1. CurrentPlayer(game') \notin FinishedIds(after)
    BY <1>1, <1>5, <1>6 DEF CurrentPlayer, OpenSeats, ScoreOf
  <2>2. Winners(game') \subseteq FinishedIds(after)
    BY <1>5 DEF Winners, FinishedIds
  <2>3. QED
    BY <2>1, <2>2 DEF TurnSkipsWinners
<1>12. WinnersStayHome'
  <2>1. SUFFICES ASSUME NEW w \in Winners(game)'
                 PROVE  CheckWin(board', w)
    BY DEF WinnersStayHome
  <2>2. CASE w = p /\ won
    BY <2>2
  <2>3. CASE w \in Winners(game)
    <3>1. w # p /\ w \in Players /\ CheckWin(board, w)
      BY <1>10, <2>3 DEF Inv, TurnSkipsWinners, WinnersStayHome
    <3>2. SUFFICES ASSUME NEW c \in TargetZone[w]
                   PROVE  board'[c] = w
      BY DEF CheckWin
    <3>3. c \in AllBoardCells /\ board[c] = w /\ c \notin TargetZone[p]
      BY <1>1, <3>1, TargetZones DEF CheckWin
    <3>4. c # from /\ c # to
      BY <3>1, <3>3, NoMarbleAssumption DEF Liftable
    <3>5. QED
      BY <1>2, <3>3, <3>4 DEF MoveMarble, Inv, TypeOK, Boards
  <2>4. QED
    BY <1>10, <2>2, <2>3
<1>13. MarblesConserved'
  BY <1>2, MoveKeepsMarbles DEF Inv
<1>14. QED
  BY <1>7, <1>8, <1>9, <1>11, <1>12, <1>13 DEF Inv

\* The invariant survives a resignation: it makes no winner.
LEMMA ResignPreserves ==
    ASSUME Inv, NEW p \in Players, Resign(p)
    PROVE  Inv'
<1> DEFINE before == game.finishedPlayers
           entry == [userId |-> p, finishPos |-> Len(TurnOrder)]
           after == Append(before, entry)
<1>1. /\ PlayerCount(game) = Len(TurnOrder)
      /\ before \in Seq(FinishedEntries)
      /\ Len(before) \in Nat /\ Len(TurnOrder) \in Nat \ {0}
  BY RunningScore, PlayersFacts DEF Inv
<1>2. /\ board' = board
      /\ game' = AfterResign(game, p)
      /\ p \notin FinishedIds(before)
  BY DEF Resign
<1>3. /\ game'.turnOrder = TurnOrder
      /\ game'.currentTurnIndex = game.currentTurnIndex
      /\ game'.finishedPlayers = after
      /\ game'.status = IF IsOver(game, after) THEN "completed" ELSE game.status
      /\ game'.endReason = IF IsOver(game, after) THEN "resign" ELSE game.endReason
  BY <1>1, <1>2 DEF AfterResign, Inv, TypeOK
<1>4. entry \in FinishedEntries
  BY <1>1 DEF FinishedEntries
<1>5. TypeOK'
  <2>1. after \in Seq(FinishedEntries)
    BY <1>1, <1>4
  <2> HIDE DEF after
  <2>2. game' = [game EXCEPT !.finishedPlayers = after, !.status = game'.status,
                             !.endReason = game'.endReason]
    BY <1>1, <1>2 DEF AfterResign, after, Inv, TypeOK
  <2>3. /\ game'.status \in {"active", "completed"}
        /\ game'.endReason \in {"none", "resign", "stalemate"}
    BY <1>2 DEF AfterResign, Inv, TypeOK
  <2>4. QED
    BY <1>2, <2>1, <2>2, <2>3 DEF Inv, TypeOK
<1>6. FinishOnce'
  BY <1>1, <1>2, <1>3 DEF Inv, FinishOnce, FinishedIds
<1>7. EndsWhenCounted' /\ StaleIsOver'
  BY <1>1, <1>3 DEF Inv, StaleIsOver, EndsWhenCounted, CompletedWhenCounted, IsOver, PlayerCount
<1>8. Winners(game)' \subseteq Winners(game)
  BY <1>1, <1>3 DEF Winners, PlayerCount
<1>9. TurnSkipsWinners'
  <2>1. game'.status = "active" => game.status = "active"
    BY <1>3
  <2>2. CurrentPlayer(game)' = CurrentPlayer(game)
    BY <1>3 DEF CurrentPlayer, Inv, TypeOK
  <2>3. QED
    BY <1>8, <2>1, <2>2 DEF Inv, TurnSkipsWinners
<1>10. WinnersStayHome'
  BY <1>2, <1>8 DEF Inv, WinnersStayHome, CheckWin
<1>11. MarblesConserved'
  BY <1>2 DEF Inv, MarblesConserved, Marbles
<1>12. QED
  BY <1>5, <1>6, <1>7, <1>9, <1>10, <1>11 DEF Inv

\* The invariant holds of the state startGame builds.
LEMMA InitInv == Init => Inv
<1> SUFFICES ASSUME Init PROVE Inv
  OBVIOUS
<1>1. /\ game = [turnOrder |-> TurnOrder, currentTurnIndex |-> 1,
                 finishedPlayers |-> <<>>, status |-> "active", endReason |-> "none"]
      /\ board = InitialBoard
  BY DEF Init, NewGame
<1>2. \A p \in Players : Marbles(p) = Home[p]
  <2>1. TAKE p \in Players
  <2>2. ASSUME NEW c \in AllBoardCells
        PROVE  board[c] = p <=> c \in Home[p]
    BY <1>1, HomeZones, NoMarbleAssumption DEF InitialBoard
  <2>3. QED
    BY <2>2, HomeZones DEF Marbles
<1>3. TypeOK
  <2>1. board \in Boards
    BY <1>1 DEF InitialBoard, Boards
  <2>2. QED
    <3>1. 1 \in Seats /\ <<>> \in Seq(FinishedEntries)
      BY PlayersFacts
    <3>2. QED
      BY <1>1, <2>1, <3>1 DEF TypeOK
<1>4. Winners(game) = {}
  BY <1>1 DEF Winners
<1>5. CompletedWhenCounted
  <2>1. /\ game.status = "active"
        /\ Len(game.finishedPlayers) = 0
        /\ Len(game.turnOrder) \in {2, 3, 4, 6}
    BY <1>1, PlayersFacts
  <2>2. \A n \in {2, 3, 4, 6} : ~(0 >= n - 1)
    OBVIOUS
  <2>3. ~(Len(game.finishedPlayers) >= Len(game.turnOrder) - 1)
    BY <2>1, <2>2, Zenon
  <2>4. ~IsOver(game, game.finishedPlayers)
    BY <2>3, Zenon DEF IsOver, PlayerCount
  <2>5. QED
    BY <2>1, <2>4 DEF CompletedWhenCounted
<1>6. FinishOnce
  BY <1>1 DEF FinishOnce
<1>7. game.endReason = "none"
  BY <1>1
<1>8. QED
  BY <1>2, <1>3, <1>4, <1>5, <1>6, <1>7
  DEF Inv, StaleIsOver, EndsWhenCounted, TurnSkipsWinners, WinnersStayHome, MarblesConserved

\* Every move attempt, timer move and resignation preserves the invariant.
LEMMA NextInv == Inv /\ [Next]_vars => Inv'
<1> SUFFICES ASSUME Inv, [Next]_vars PROVE Inv'
  OBVIOUS
<1>1. ASSUME NEW p \in Players, MoveAttempt(p)
      PROVE  Inv'
  <2>1. PICK path \in ClientPaths : /\ MoveAllowed(board, p, path)
                                    /\ ApplyMove(path[1], path[Len(path)])
    BY <1>1 DEF MoveAttempt
  <2>2. Liftable(path[1], path[Len(path)]) /\ game.status = "active"
    BY <1>1, <2>1, AttemptLifts DEF MoveAttempt, HasTheMove, Inv
  <2>3. QED
    BY <2>1, <2>2, MovePreserves
<1>2. ASSUME Timeout
      PROVE  Inv'
  <2>1. PICK m \in AllValidMoves(board, CurrentPlayer(game)) : ApplyMove(m[1], m[2])
    BY <1>2 DEF Timeout
  <2>2. Liftable(m[1], m[2]) /\ game.status = "active"
    BY <1>2, RunningScore, TimeoutLifts DEF Timeout, Inv
  <2>3. QED
    BY <2>1, <2>2, MovePreserves
<1>3. ASSUME NEW p \in Players, Resign(p)
      PROVE  Inv'
  BY <1>3, ResignPreserves
<1>4. CASE UNCHANGED vars
  <2>1. board' = board /\ game' = game
    BY <1>4 DEF vars
  <2>2. /\ TypeOK' /\ FinishOnce' /\ EndsWhenCounted' /\ StaleIsOver'
        /\ TurnSkipsWinners' /\ WinnersStayHome'
    BY <2>1 DEF Inv, TypeOK, FinishOnce, EndsWhenCounted, StaleIsOver, CompletedWhenCounted,
                TurnSkipsWinners, WinnersStayHome
  <2>3. MarblesConserved'
    BY <2>1 DEF Inv, MarblesConserved, Marbles
  <2>4. QED
    BY <2>2, <2>3 DEF Inv
<1>5. QED
  BY <1>1, <1>2, <1>3, <1>4 DEF Next

\* The invariant holds in every reachable state of every game.
THEOREM Invariance == Spec => []Inv
<1>1. Init => Inv
  BY InitInv
<1>2. Inv /\ [Next]_vars => Inv'
  BY NextInv
<1>3. QED
  BY <1>1, <1>2, PTL DEF Spec

\* The state of a match always has its type: the turn index is a seat, the
\* board maps cells to users, positions lie between 1 and the player count.
THEOREM TypeCorrect == Spec => []TypeOK
<1>1. Inv => TypeOK
  BY DEF Inv
<1>2. QED
  BY <1>1, Invariance, PTL

\* Moves, hop chains and evictions neither create nor lose a marble.
THEOREM MarblesAreConserved == Spec => []MarblesConserved
<1>1. Inv => MarblesConserved
  BY DEF Inv
<1>2. QED
  BY <1>1, Invariance, PTL

\* The program plays with ten marbles each, as many as a triangle of side 4 has
\* cells (createInitialBoard), and at no point of a game with more or fewer.
THEOREM MarblesAreCounted ==
    Spec => [](\A p \in Players : 2 * Cardinality(Marbles(p)) = N * (N + 1))
<1>1. Inv => \A p \in Players : 2 * Cardinality(Marbles(p)) = N * (N + 1)
  BY ZonesAreEqual DEF Inv, MarblesConserved
<1>2. QED
  BY <1>1, Invariance, PTL

\* checkWin looks at cells, not at marbles: a target is filled by its user exactly
\* when all of that user's marbles are in it, because it is as large as the home
\* they come from and none of them is ever lost or added.
THEOREM WinsAreAllHome ==
    Spec => [](\A p \in Players : CheckWin(board, p) <=> Marbles(p) \subseteq TargetZone[p])
<1>1. Inv => \A p \in Players : CheckWin(board, p) <=> Marbles(p) \subseteq TargetZone[p]
  <2> SUFFICES ASSUME Inv, NEW p \in Players
               PROVE  CheckWin(board, p) <=> Marbles(p) \subseteq TargetZone[p]
    OBVIOUS
  <2> DEFINE M == Marbles(p)
             T == TargetZone[p]
  <2>1. /\ IsFiniteSet(M) /\ IsFiniteSet(T)
        /\ Cardinality(M) = Cardinality(T)
    BY BoardFinite, FS_Subset, ZonesAreEqual DEF Inv, MarblesConserved, Marbles
  <2>2. CheckWin(board, p) <=> T \subseteq M
    BY TargetZones DEF CheckWin, Marbles
  <2> HIDE DEF M, T
  <2>3. T \subseteq M <=> M \subseteq T
    BY <2>1, FS_Subset
  <2>4. QED
    BY <2>2, <2>3 DEF M, T
<1>2. QED
  BY <1>1, Invariance, PTL

\* A user who has won keeps its target filled to the end of the game, with
\* evictions and timer moves included.
THEOREM WinnersAreSafe == Spec => []WinnersStayHome
<1>1. Inv => WinnersStayHome
  BY DEF Inv
<1>2. QED
  BY <1>1, Invariance, PTL

\* The turn of a running game never comes to a user who has won.
THEOREM TurnsSkipWinners == Spec => []TurnSkipsWinners
<1>1. Inv => TurnSkipsWinners
  BY DEF Inv
<1>2. QED
  BY <1>1, Invariance, PTL

\* A list that names nobody twice is one short of the seats, or as long, exactly
\* when at most one user is not on it.
LEMMA DecidedIsCounted ==
    ASSUME Inv
    PROVE  IsOver(game, game.finishedPlayers)
              <=> Cardinality(Players \ FinishedIds(game.finishedPlayers)) <= 1
<1> DEFINE n == Len(TurnOrder)
           f == game.finishedPlayers
           open == OpenSeats(game, f)
           left == Players \ FinishedIds(f)
           user == [i \in open |-> TurnOrder[i]]
<1>1. game.turnOrder = TurnOrder /\ f \in Seq(FinishedEntries)
  BY DEF Inv, TypeOK
<1>2. /\ n \in Nat /\ DOMAIN TurnOrder = 1..n /\ Seats = 1..n
      /\ \A i, j \in 1..n : TurnOrder[i] = TurnOrder[j] => i = j
  BY TurnOrderAssumption, PlayersFacts
<1>3. Players = {TurnOrder[i] : i \in 1..n}
  BY <1>2 DEF Players
<1>4. FinishedIds(f) \subseteq Players
  <2>1. \A i \in DOMAIN f : f[i] \in FinishedEntries
    BY <1>1
  <2> HIDE DEF f
  <2>2. \A i \in DOMAIN f : f[i].userId \in Players
    BY <2>1 DEF FinishedEntries
  <2>3. QED
    BY <2>2 DEF FinishedIds
<1>5. Rankable(game)
  BY <1>1, <1>2, <1>3, <1>4 DEF Rankable, Inv, FinishOnce
<1>6. open \in SUBSET (1..n) /\ Cardinality(open) = n - Len(f)
  BY <1>1, <1>5, OpenSeatCount
<1>7. open = {i \in 1..n : TurnOrder[i] \notin FinishedIds(f)}
  BY <1>1 DEF OpenSeats, PlayerCount
<1>8. user \in Surjection(open, left)
  BY <1>3, <1>7 DEF Surjection
<1>9. user \in Injection(open, left)
  BY <1>2, <1>7, <1>8 DEF Surjection, Injection, IsInjective
<1> HIDE DEF user, open, left
<1>10. ExistsBijection(open, left)
  BY <1>8, <1>9 DEF ExistsBijection, Bijection
<1>11. IsFiniteSet(open)
  BY <1>2, <1>6, FirstNaturals, FS_Subset
<1>12. Cardinality(left) = n - Len(f)
  BY <1>6, <1>10, <1>11, FS_Bijection
<1>13. IsOver(game, f) <=> Len(f) >= n - 1
  BY <1>1 DEF IsOver, PlayerCount
<1>14. Len(f) \in Nat
  BY <1>1
<1> HIDE DEF n, f
<1>15. QED
  BY <1>2, <1>12, <1>13, <1>14 DEF left, f, n

\* Nobody finishes twice, and the game is completed exactly when all but one
\* have finished.
THEOREM FinishOrderSound == Spec => [](FinishOnce /\ CompletedWhenDecided)
<1> DEFINE NotStale == game.endReason # "stalemate"
<1>1. Init => NotStale
  BY DEF Init, NewGame
<1>2. Inv /\ NotStale /\ [Next]_vars => NotStale'
  <2> SUFFICES ASSUME Inv, NotStale, [Next]_vars PROVE NotStale'
    OBVIOUS
  <2>1. game' = game \/ (\E won : game' = AfterMove(game, won)) \/ (\E p : game' = AfterResign(game, p))
    BY DEF Next, MoveAttempt, Timeout, ApplyMove, Resign, vars
  <2>2. game'.endReason \in {game.endReason, "resign"}
    BY <2>1 DEF AfterMove, AfterResign, Inv, TypeOK
  <2>3. QED
    BY <2>2
<1>3. Inv /\ NotStale => FinishOnce /\ CompletedWhenDecided
  BY DecidedIsCounted DEF Inv, EndsWhenCounted, CompletedWhenCounted, CompletedWhenDecided
<1>4. QED
  BY <1>1, <1>2, <1>3, Invariance, PTL DEF Spec

\* To every destination the client is shown there is a path.
LEMMA ShownIsPlayable ==
    ASSUME NEW brd \in Boards, NEW p \in Players, NEW from \in AllBoardCells,
           NEW to \in ValidDestinations(brd, p, from)
    PROVE  /\ MayLift(brd, p, from) /\ to \notin Excluded(brd, p, from)
           /\ to \in AllBoardCells /\ brd[from] # NoMarble /\ brd[to] = NoMarble
           /\ FindPaths(brd, from, to) # {}
<1>1. /\ MayLift(brd, p, from) /\ to \notin Excluded(brd, p, from)
      /\ to \in StepTargets(brd, from) \/ to \in HopClosure(brd, from)
  BY DEF ValidDestinations
<1>2. brd[from] # NoMarble
  BY <1>1, NoMarbleAssumption DEF MayLift, Evictable
<1>3. to \in AllBoardCells /\ brd[to] = NoMarble
  BY <1>1 DEF StepTargets, HopClosure
<1> DEFINE Allowed == AllowedPathsBetween(brd, from, to)
           Lengths == {Len(q) : q \in Allowed}
<1>4. Allowed # {}
  <2>1. CASE to \in StepTargets(brd, from)
    <3> DEFINE direct == <<from, to>>
    <3>1. /\ direct \in Seq(AllBoardCells) /\ Len(direct) = 2
          /\ direct[1] = from /\ direct[2] = to
      BY <1>3
    <3> HIDE DEF direct
    <3>2. /\ Len(direct) >= 2 /\ direct[Len(direct)] = to
          /\ brd[direct[1]] # NoMarble /\ brd[direct[Len(direct)]] = NoMarble
      BY <1>2, <1>3, <3>1
    <3>3. PathAllowed(brd, direct)
      BY <2>1, <3>1, <3>2, AllowedPaths, Zenon
    <3>4. direct \in Allowed
      BY <3>1, <3>2, <3>3, Zenon DEF AllowedPathsBetween
    <3>5. QED
      BY <3>4
  <2>2. CASE to \in HopClosure(brd, from)
    <3>1. Chained(brd, from, to)
      BY <2>2, ClosureIsChained
    <3>2. PICK path \in HopChains(brd) : path[1] = from /\ path[Len(path)] = to
      BY <3>1 DEF Chained
    <3>3. path \in Seq(AllBoardCells) /\ Len(path) \in Nat /\ Len(path) >= 1
      BY DEF HopChains
    <3> DEFINE n == Len(path)
    <3>4. n \in Nat /\ n >= 1 /\ n # 1
      BY <1>2, <1>3, <3>2, <3>3
    <3> HIDE DEF n
    <3>5. n >= 2
      BY <3>4
    <3>6. PathAllowed(brd, path)
      BY <1>2, <1>3, <3>2, <3>3, <3>5, AllowedPaths DEF n
    <3>7. QED
      BY <3>2, <3>3, <3>5, <3>6 DEF n, AllowedPathsBetween
  <2>3. QED
    BY <1>1, <2>1, <2>2
<1>5. Lengths \in SUBSET Nat /\ Lengths # {}
  BY <1>4 DEF AllowedPathsBetween
<1>6. PICK q \in Allowed : \A r \in Allowed : Len(q) <= Len(r)
  <2>1. PICK m \in Lengths : \A k \in Lengths : m <= k
    <3> HIDE DEF Lengths
    <3>1. QED
      BY <1>5, LeastNatural
  <2>2. QED
    BY <2>1
<1>7. q \in FindPaths(brd, from, to)
  BY <1>2, <1>3, <1>6, PathsAreShortest
<1>8. QED
  BY <1>1, <1>2, <1>3, <1>7

\* What the timer may play and what the client is shown, validateMove accepts, and
\* what it accepts from a client is shown and may be played: on every board.
LEMMA LegalityAgrees == TypeOK => MovesAgree
<1> SUFFICES ASSUME TypeOK, game.status = "active" PROVE MovesAgree
  BY DEF MovesAgree
<1> DEFINE p == CurrentPlayer(game)
           listed == AllValidMoves(board, p)
<1>1. board \in Boards /\ p \in Players
  BY RunningScore DEF TypeOK
<1> HIDE DEF p
<1>2. ASSUME NEW m \in listed, NEW path \in FindPaths(board, m[1], m[2])
      PROVE  MoveAllowed(board, p, path)
  <2>1. PICK from \in AllBoardCells :
           \E to \in ValidDestinations(board, p, from) : m = <<from, to>>
    BY DEF AllValidMoves
  <2>2. PICK to \in ValidDestinations(board, p, from) : m = <<from, to>>
    BY <2>1
  <2>3. /\ MayLift(board, p, from) /\ to \notin Excluded(board, p, from)
        /\ to \in AllBoardCells /\ board[from] # NoMarble /\ board[to] = NoMarble
    BY <1>1, ShownIsPlayable
  <2>4. path \in FindPaths(board, from, to)
    BY <2>2
  <2>5. path \in AllowedPathsBetween(board, from, to)
    BY <1>1, <2>3, <2>4, PathsAreShortest
  <2>6. /\ Len(path) >= 2 /\ path[1] = from /\ path[Len(path)] = to
        /\ PathAllowed(board, path)
    BY <2>5 DEF AllowedPathsBetween
  <2>7. QED
    BY <2>3, <2>6 DEF MoveAllowed
<1>3. ASSUME NEW from \in AllBoardCells, NEW to \in ValidDestinations(board, p, from)
      PROVE  <<from, to>> \in listed
  <2>1. to \in AllBoardCells /\ FindPaths(board, from, to) # {}
    BY <1>1, ShownIsPlayable
  <2>2. QED
    BY <2>1 DEF AllValidMoves
<1>4. ASSUME NEW path \in ClientPaths, MoveAllowed(board, p, path)
      PROVE  <<path[1], path[Len(path)]>> \in listed
  <2> DEFINE from == path[1]
             to == path[Len(path)]
  <2>1. path \in Seq(Int \X Int) /\ Len(path) >= 2
    BY ClientPathsAssumption
  <2>2. /\ from \in AllBoardCells /\ to \in AllBoardCells
        /\ MayLift(board, p, from) /\ to \notin Excluded(board, p, from)
        /\ board[to] = NoMarble /\ PathAllowed(board, path)
    BY <1>4 DEF MoveAllowed
  <2>3. board[from] # NoMarble
    BY <1>1, <2>2, NoMarbleAssumption DEF MayLift, Evictable
  <2>4. path \in Seq(AllBoardCells)
    <3>1. \A i \in DOMAIN path : path[i] \in AllBoardCells
      BY <2>2 DEF PathAllowed
    <3>2. QED
      BY <2>1, <3>1
  <2>5. \/ Len(path) = 2 /\ path[2] \in StepTargets(board, from)
        \/ path \in HopChains(board)
    BY <2>1, <2>2, <2>3, <2>4, AllowedPaths
  <2>6. to \in StepTargets(board, from) \/ to \in HopClosure(board, from)
    <3>1. CASE path \in HopChains(board)
      <4>1. Chained(board, from, to)
        BY <3>1 DEF Chained
      <4> HIDE DEF from, to
      <4>2. QED
        BY <2>2, <4>1, ClosureIsChained
    <3>2. QED
      BY <2>5, <3>1
  <2> HIDE DEF from, to
  <2>7. to \in ValidDestinations(board, p, from)
    BY <2>2, <2>6 DEF ValidDestinations
  <2>8. <<from, to>> \in listed
    BY <1>3, <2>2, <2>7
  <2>9. QED
    BY <2>8 DEF from, to
<1>5. QED
  BY <1>2, <1>3, <1>4 DEF MovesAgree, p

\* In every reachable position the timer, the client and validateMove agree.
THEOREM LegalityAgreed == Spec => []MovesAgree
  BY TypeCorrect, LegalityAgrees, PTL

-----------------------------------------------------------------------------
(* The game recorded (Replay) *)

\* A full log ends the game, undecided.
LEMMA LogIsFullPreserves ==
    ASSUME Inv, LogIsFull
    PROVE  Inv'
<1>1. board' = board /\ game' = Stalemated(game)
  BY DEF LogIsFull
<1>2. /\ game'.turnOrder = game.turnOrder /\ game'.finishedPlayers = game.finishedPlayers
      /\ game'.status = "completed" /\ game'.endReason = "stalemate"
  BY <1>1 DEF Stalemated, Inv, TypeOK
<1>3. TypeOK'
  BY <1>1 DEF Stalemated, Inv, TypeOK
<1>4. FinishOnce' /\ EndsWhenCounted' /\ StaleIsOver' /\ TurnSkipsWinners'
  BY <1>2 DEF Inv, FinishOnce, EndsWhenCounted, StaleIsOver, TurnSkipsWinners
<1>5. WinnersStayHome'
  BY <1>1, <1>2 DEF Inv, WinnersStayHome, Winners, PlayerCount, CheckWin
<1>6. MarblesConserved'
  BY <1>1 DEF Inv, MarblesConserved, Marbles
<1>7. QED
  BY <1>3, <1>4, <1>5, <1>6 DEF Inv

\* What a step of the recording is to the game and to the log.
LEMMA RecordingStep ==
    ASSUME Inv, [ReplayNext]_replayVars
    PROVE  /\ Inv'
           /\ Plays => [Next]_vars /\ \E from, to : ApplyMove(from, to)
<1>1. CASE Plays
  <2>1. Next
    BY <1>1 DEF Plays, Next
  <2>2. \E from, to : ApplyMove(from, to)
    BY <1>1 DEF Plays, Timeout, MoveAttempt
  <2>3. QED
    BY <2>1, <2>2, NextInv
<1>2. CASE LogIsFull
  BY <1>2, LogIsFullPreserves, <1>1
<1>3. ASSUME NEW p \in Players, Resigns(p), ~Plays PROVE Inv'
  BY <1>3, ResignPreserves DEF Resigns
<1>4. CASE UNCHANGED vars /\ ~Plays
  BY <1>4, NextInv
<1>5. QED
  BY <1>1, <1>2, <1>3, <1>4
     DEF ReplayNext, Load, Backward, Forward, Scrub, PlayOrPause, Tick, replayVars, vars

\* Every completed game was decided, or its log was full.
THEOREM GamesEndWhenDecided == ReplaySpec => []EndsWhenDecided
<1>1. ReplayInit => Inv
  BY InitInv DEF ReplayInit
<1>2. Inv /\ [ReplayNext]_replayVars => Inv'
  BY RecordingStep
<1>3. Inv => EndsWhenDecided
  BY DecidedIsCounted
  DEF Inv, EndsWhenCounted, CompletedWhenCounted, EndsWhenDecided, CompletedWhenDecided
<1>4. QED
  BY <1>1, <1>2, <1>3, PTL DEF ReplaySpec

\* A move in the log leads from one recorded position to the next; so does the
\* game's own score, as long as nobody has resigned.
Leads(i) ==
    LET before == positions[i]
        after  == positions[i + 1]
    IN  /\ after.board = MoveMarble(before.board, log[i][1], log[i][2])
        /\ NobodyResigned =>
              after.game = AfterMove(before.game, CheckWin(after.board, CurrentPlayer(before.game)))

Position == [board : Boards,
             game : [turnOrder : {TurnOrder}, currentTurnIndex : Seats,
                     finishedPlayers : Seq(FinishedEntries),
                     status : {"active", "completed"},
                     endReason : {"none", "resign", "stalemate"}]]

LogTyped ==
    /\ log \in Seq(AllBoardCells \X AllBoardCells)
    /\ positions \in Seq(Position)
    /\ Len(positions) = Len(log) + 1

LogLeads ==
    /\ positions[1] = [board |-> InitialBoard, game |-> NewGame(TurnOrder)]
    /\ \A i \in 1..Len(log) : Leads(i)

\* The game is where the log ends.
LogIsCurrent ==
    LET last == positions[Len(log) + 1]
    IN  /\ board = last.board
        /\ NobodyResigned /\ game.status = "active" => game = last.game

PageInv == step \in 0..Len(log) /\ (loaded => game.status = "completed")

ReplayInv == Inv /\ LogTyped /\ LogLeads /\ LogIsCurrent /\ PageInv

LEMMA InitReplay == ReplayInit => ReplayInv
<1> SUFFICES ASSUME ReplayInit PROVE ReplayInv
  OBVIOUS
<1>1. Inv /\ board = InitialBoard /\ game = NewGame(TurnOrder)
  BY InitInv DEF ReplayInit, Init
<1>2. [board |-> board, game |-> game] \in Position
  BY <1>1 DEF Inv, TypeOK, Position
<1>3. log = <<>> /\ positions = <<[board |-> board, game |-> game]>> /\ step = 0 /\ ~loaded
  BY DEF ReplayInit
<1>4. LogTyped
  BY <1>2, <1>3 DEF LogTyped
<1>5. LogLeads /\ LogIsCurrent /\ PageInv
  BY <1>1, <1>3 DEF LogLeads, LogIsCurrent, PageInv
<1>6. QED
  BY <1>1, <1>4, <1>5 DEF ReplayInv

\* If nobody has resigned after a move, nobody had before it.
LEMMA MoveResignsNobody ==
    ASSUME Inv, game.status = "active", NEW won, game' = AfterMove(game, won), NobodyResigned'
    PROVE  NobodyResigned
<1> DEFINE before == game.finishedPlayers
           after == FinishedAfter(game, won)
           p == CurrentPlayer(game)
<1>1. /\ PlayerCount(game) = Len(TurnOrder) /\ before \in Seq(FinishedEntries)
      /\ Len(before) \in Nat
  BY RunningScore DEF Inv
<1>2. game'.finishedPlayers = after /\ game'.turnOrder = TurnOrder /\ game.turnOrder = TurnOrder
  BY DEF AfterMove, Inv, TypeOK
<1>3. CASE after = before
  <2>1. NobodyResigned' = NobodyResigned
    BY <1>2, <1>3 DEF NobodyResigned, FinishedIds, Winners, PlayerCount
  <2>2. QED
    BY <2>1
<1>4. CASE after # before
  <2> DEFINE entry == [userId |-> p, finishPos |-> Len(before) + 1]
  <2>1. after = Append(before, entry) /\ p \notin FinishedIds(before)
    BY <1>4 DEF FinishedAfter
  <2>2. /\ DOMAIN after = 1..(Len(before) + 1) /\ DOMAIN before = 1..Len(before)
        /\ after[Len(before) + 1] = entry
        /\ \A i \in DOMAIN before : after[i] = before[i]
    BY <1>1, <2>1
  <2> HIDE DEF after
  <2>3. ASSUME NEW u \in FinishedIds(before) PROVE u \in Winners(game)
    <3>1. u # p
      BY <2>1, <2>3
    <3>2. u \in FinishedIds(after)
      BY <1>1, <2>2, <2>3 DEF FinishedIds
    <3>3. u \in Winners(game')
      BY <1>2, <3>2 DEF NobodyResigned
    <3>4. PICK k \in DOMAIN after : after[k].userId = u /\ after[k].finishPos < Len(TurnOrder)
      BY <1>2, <3>3 DEF Winners, PlayerCount
    <3>5. k \in DOMAIN before /\ before[k] = after[k]
      BY <1>1, <2>2, <3>1, <3>4
    <3>6. QED
      BY <1>1, <3>4, <3>5 DEF Winners
  <2>4. Winners(game) \subseteq FinishedIds(before)
    BY DEF Winners, FinishedIds
  <2>5. QED
    BY <2>3, <2>4 DEF NobodyResigned
<1>5. QED
  BY <1>3, <1>4

LEMMA ResigningShows ==
    ASSUME Inv, NEW p, Resign(p)
    PROVE  ~NobodyResigned'
<1> DEFINE before == game.finishedPlayers
           entry == [userId |-> p, finishPos |-> Len(TurnOrder)]
           after == Append(before, entry)
<1>1. /\ PlayerCount(game) = Len(TurnOrder) /\ before \in Seq(FinishedEntries)
      /\ Len(before) \in Nat /\ Len(TurnOrder) \in Nat
  BY RunningScore, PlayersFacts DEF Inv
<1>2. game'.finishedPlayers = after /\ game'.turnOrder = TurnOrder /\ p \notin FinishedIds(before)
  BY <1>1 DEF Resign, AfterResign, Inv, TypeOK
<1>3. /\ DOMAIN after = 1..(Len(before) + 1) /\ DOMAIN before = 1..Len(before)
      /\ after[Len(before) + 1] = entry
      /\ \A i \in DOMAIN before : after[i] = before[i]
  BY <1>1
<1> HIDE DEF after
<1>4. p \in FinishedIds(after)
  BY <1>1, <1>3 DEF FinishedIds
<1>5. p \notin Winners(game')
  <2> SUFFICES ASSUME NEW k \in DOMAIN after, after[k].userId = p, after[k].finishPos < Len(TurnOrder)
               PROVE  FALSE
    BY <1>2 DEF Winners, PlayerCount
  <2>1. k # Len(before) + 1
    BY <1>1, <1>3
  <2>2. k \in DOMAIN before /\ before[k].userId = p
    BY <1>1, <1>3, <2>1
  <2>3. QED
    BY <1>2, <2>2 DEF FinishedIds
<1>6. QED
  BY <1>2, <1>4, <1>5 DEF NobodyResigned

LEMMA PlaysPreserves ==
    ASSUME ReplayInv, Plays
    PROVE  ReplayInv'
<1> DEFINE next == [board |-> board', game |-> game']
           won == CheckWin(board', CurrentPlayer(game))
<1>0. PICK n \in Nat : n = Len(log)
  BY DEF ReplayInv, LogTyped
<1>1. Inv' /\ \E from, to : ApplyMove(from, to)
  BY RecordingStep DEF ReplayInv, ReplayNext
<1>2. game' = AfterMove(game, won)
  BY <1>1 DEF ApplyMove
<1>3. PICK from \in AllBoardCells, to \in AllBoardCells :
         board' = MoveMarble(board, from, to) /\ log' = Append(log, <<from, to>>)
  BY DEF Plays, MovesMarble
<1>4. positions' = Append(positions, next) /\ UNCHANGED <<loaded, step>>
  BY DEF Plays, pageVars
<1>5. game.status = "active"
  BY DEF Plays, Timeout, MoveAttempt, HasTheMove
<1>6. next \in Position
  BY <1>1 DEF Inv, TypeOK, Position
<1> HIDE DEF next
<1>7. /\ log \in Seq(AllBoardCells \X AllBoardCells) /\ positions \in Seq(Position)
      /\ Len(positions) = n + 1
  BY <1>0 DEF ReplayInv, LogTyped
<1>8. LogTyped'
  BY <1>0, <1>3, <1>4, <1>6, <1>7 DEF LogTyped
<1>9. /\ Len(log') = n + 1 /\ log'[n + 1] = <<from, to>> /\ positions'[n + 2] = next
      /\ \A i \in 1..n : log'[i] = log[i]
      /\ \A i \in 1..(n + 1) : positions'[i] = positions[i]
  BY <1>0, <1>3, <1>4, <1>6, <1>7
<1>10. NobodyResigned' => NobodyResigned
  BY <1>2, <1>5, MoveResignsNobody DEF ReplayInv
<1>11. board = positions[n + 1].board /\ (NobodyResigned => game = positions[n + 1].game)
  BY <1>0, <1>5 DEF ReplayInv, LogIsCurrent
<1>12. next.board = board' /\ next.game = game'
  BY DEF next
<1>13. LogLeads'
  <2>1. Leads(n + 1)'
    <3>1. /\ positions'[n + 1] = positions[n + 1] /\ positions'[n + 1 + 1] = next
          /\ log'[n + 1] = <<from, to>>
      BY <1>7, <1>9
    <3>2. board' = MoveMarble(positions[n + 1].board, from, to)
      BY <1>3, <1>11
    <3>3. NobodyResigned' => game' = AfterMove(positions[n + 1].game,
                                CheckWin(board', CurrentPlayer(positions[n + 1].game)))
      BY <1>2, <1>10, <1>11
    <3>4. QED
      <4>1. /\ log'[n + 1][1] = from /\ log'[n + 1][2] = to
            /\ positions'[n + 1 + 1].board = board' /\ positions'[n + 1 + 1].game = game'
        BY <1>12, <3>1
      <4>2. QED
        BY <3>1, <3>2, <3>3, <4>1 DEF Leads
  <2>2. ASSUME NEW i \in 1..n PROVE Leads(i)'
    <3>1. /\ positions'[i] = positions[i] /\ positions'[i + 1] = positions[i + 1]
          /\ log'[i] = log[i]
      BY <1>7, <1>9
    <3>2. Leads(i)
      BY <1>0 DEF ReplayInv, LogLeads
    <3>3. QED
      BY <1>10, <3>1, <3>2 DEF Leads
  <2>3. positions'[1] = positions[1]
    BY <1>7, <1>9
  <2>4. \A i \in 1..(n + 1) : i = n + 1 \/ i \in 1..n
    BY <1>7
  <2>5. ASSUME NEW i \in 1..Len(log') PROVE Leads(i)'
    <3>1. i = n + 1 \/ i \in 1..n
      BY <1>9, <2>4
    <3>2. QED
      BY <2>1, <2>2, <3>1
  <2>6. positions'[1] = [board |-> InitialBoard, game |-> NewGame(TurnOrder)]
    BY <2>3 DEF ReplayInv, LogLeads
  <2>7. QED
    BY <2>5, <2>6 DEF LogLeads
<1>14. LogIsCurrent'
  <2>1. positions'[Len(log') + 1] = next
    BY <1>7, <1>9
  <2>2. QED
    BY <1>12, <2>1 DEF LogIsCurrent
<1>15. PageInv'
  BY <1>0, <1>4, <1>5, <1>7, <1>9 DEF ReplayInv, PageInv
<1>16. QED
  BY <1>1, <1>8, <1>13, <1>14, <1>15 DEF ReplayInv

\* The log stays, and nobody may be said not to have resigned who was not before.
LEMMA LogStays ==
    ASSUME ReplayInv, Inv', UNCHANGED <<log, positions, board>>, NobodyResigned' => NobodyResigned,
           NobodyResigned' /\ game'.status = "active" => game' = game, PageInv'
    PROVE  ReplayInv'
<1>1. LogTyped'
  BY DEF ReplayInv, LogTyped
<1>2. LogLeads'
  BY DEF ReplayInv, LogLeads, Leads
<1>3. LogIsCurrent'
  BY DEF ReplayInv, LogIsCurrent
<1>4. QED
  BY <1>1, <1>2, <1>3 DEF ReplayInv

LEMMA NextReplay == ReplayInv /\ [ReplayNext]_replayVars => ReplayInv'
<1> SUFFICES ASSUME ReplayInv, [ReplayNext]_replayVars PROVE ReplayInv'
  OBVIOUS
<1>1. Inv'
  BY RecordingStep DEF ReplayInv
<1>2. Len(log) \in Nat /\ step \in 0..Len(log) /\ (loaded => game.status = "completed")
  BY DEF ReplayInv, LogTyped, PageInv
<1>3. CASE LogIsFull
  <2>1. /\ game'.finishedPlayers = game.finishedPlayers /\ game'.turnOrder = game.turnOrder
        /\ game'.status = "completed"
    BY <1>3 DEF LogIsFull, Stalemated, ReplayInv, Inv, TypeOK
  <2>2. NobodyResigned' => NobodyResigned
    BY <2>1 DEF NobodyResigned, Winners, PlayerCount
  <2>3. QED
    BY <1>1, <1>2, <1>3, <2>1, <2>2, LogStays DEF LogIsFull, PageInv, pageVars
<1>4. ASSUME NEW p \in Players, Resigns(p) PROVE ReplayInv'
  <2>1. ~NobodyResigned'
    BY <1>4, ResigningShows DEF Resigns, ReplayInv
  <2>2. QED
    BY <1>1, <1>2, <1>4, <2>1, LogStays DEF Resigns, Resign, PageInv, pageVars
<1>5. ASSUME UNCHANGED <<vars, log, positions>>, PageInv' PROVE ReplayInv'
  <2>1. NobodyResigned' => NobodyResigned
    BY <1>5 DEF vars, NobodyResigned
  <2>2. QED
    BY <1>1, <1>5, <2>1, LogStays DEF vars
<1>6. CASE Load \/ Backward \/ Forward \/ Scrub \/ PlayOrPause \/ Tick \/ UNCHANGED replayVars
  <2>1. UNCHANGED <<vars, log, positions>>
    BY <1>6 DEF Load, Backward, Forward, Scrub, PlayOrPause, Tick, replayVars
  <2>2. step' \in 0..Len(log) /\ (loaded' => game.status = "completed")
    BY <1>2, <1>6 DEF Load, Backward, Forward, Scrub, PlayOrPause, Tick, replayVars, pageVars
  <2>3. QED
    BY <1>5, <2>1, <2>2 DEF PageInv, vars
<1>7. QED
  BY <1>3, <1>4, <1>6, PlaysPreserves DEF ReplayNext

-----------------------------------------------------------------------------
(* What the page shows *)

\* The page's states from the start up to the n-th, as Shown defines them.
Traces(f, n) ==
    f = [m \in 0..n |-> IF m = 0 THEN Start ELSE Applied(f[m - 1], log[m])]

\* However long the log, the page's loop has a result.
LEMMA TraceExists ==
    ASSUME NEW n \in Nat
    PROVE  \E f : Traces(f, n)
<1> DEFINE Without == {m \in Nat : ~\E f : Traces(f, m)}
<1> SUFFICES ASSUME Without # {} PROVE FALSE
  OBVIOUS
<1>1. PICK m \in Without : \A k \in Without : m <= k
  <2> HIDE DEF Without
  <2>1. Without \in SUBSET Nat
    BY DEF Without
  <2>2. QED
    BY <2>1, LeastNatural
<1>2. CASE m = 0
  <2>1. Traces([k \in 0..0 |-> Start], 0)
    BY DEF Traces
  <2>2. QED
    BY <1>2, <2>1
<1>3. CASE m # 0
  <2>1. PICK f : Traces(f, m - 1)
    BY <1>1, <1>3
  <2> DEFINE g == [k \in 0..m |-> IF k = m THEN Applied(f[m - 1], log[m]) ELSE f[k]]
  <2>2. ASSUME NEW k \in 0..m
        PROVE  g[k] = IF k = 0 THEN Start ELSE Applied(g[k - 1], log[k])
    BY <1>3, <2>1 DEF Traces
  <2>3. Traces(g, m)
    <3>1. g = [k \in 0..m |-> g[k]]
      OBVIOUS
    <3> HIDE DEF g
    <3>2. QED
      BY <2>2, <3>1 DEF Traces
  <2>4. QED
    BY <2>3
<1>4. QED
  BY <1>2, <1>3

\* The page builds the board the game started from.
LEMMA StartIsFirst == Start = [board |-> InitialBoard, game |-> NewGame(TurnOrder)]
<1>1. \A p \in Players : Home[p] = HomeTriangle(HomePoint(p))
  BY DEF Home
<1>2. QED
  BY <1>1 DEF Start, InitialBoard, AllBoardCells

\* Each state of the page has the board of that position and, if nobody has
\* resigned, its turn and finishers.
LEMMA TraceMatches ==
    ASSUME ReplayInv, NEW f, Traces(f, Len(log)), NEW n \in 0..Len(log)
    PROVE  /\ f[n].board = positions[n + 1].board
           /\ NobodyResigned => f[n].game = positions[n + 1].game
<1> DEFINE Good(k) == /\ f[k].board = positions[k + 1].board
                      /\ NobodyResigned => f[k].game = positions[k + 1].game
           Bad == {k \in 0..Len(log) : ~Good(k)}
<1> SUFFICES ASSUME Bad # {} PROVE FALSE
  OBVIOUS
<1>1. Len(log) \in Nat
  BY DEF ReplayInv, LogTyped
<1>2. PICK k \in Bad : \A m \in Bad : k <= m
  <2> HIDE DEF Bad
  <2>1. Bad \in SUBSET Nat
    BY <1>1 DEF Bad
  <2>2. QED
    BY <2>1, LeastNatural
<1>3. CASE k = 0
  <2>1. f[0] = Start
    BY <1>1 DEF Traces
  <2>2. positions[0 + 1] = Start
    BY StartIsFirst DEF ReplayInv, LogLeads
  <2>3. QED
    BY <1>2, <1>3, <2>1, <2>2
<1>4. CASE k # 0
  <2>1. k \in 1..Len(log) /\ k - 1 \in 0..Len(log) /\ k - 1 + 1 = k
    BY <1>1, <1>2, <1>4
  <2>2. Good(k - 1)
    BY <1>1, <1>2, <2>1
  <2>3. f[k] = Applied(f[k - 1], log[k])
    BY <1>1, <1>4, <2>1 DEF Traces
  <2>4. Leads(k)
    BY <2>1 DEF ReplayInv, LogLeads
  <2> DEFINE s == f[k - 1]
             after == MoveMarble(s.board, log[k][1], log[k][2])
  <2>5. f[k].board = after /\ f[k].game = AfterMove(s.game, CheckWin(after, CurrentPlayer(s.game)))
    BY <2>3 DEF Applied
  <2>6. s.board = positions[k].board /\ (NobodyResigned => s.game = positions[k].game)
    BY <2>1, <2>2
  <2> HIDE DEF s
  <2>7. Good(k)
    BY <2>4, <2>5, <2>6 DEF Leads
  <2>8. QED
    BY <1>2, <2>7
<1>5. QED
  BY <1>3, <1>4

LEMMA ShownIsPosition ==
    ASSUME ReplayInv
    PROVE  /\ step \in 0..Len(log)
           /\ Shown.board = positions[step + 1].board
           /\ NobodyResigned => Shown.game = positions[step + 1].game
<1>1. Len(log) \in Nat /\ step \in 0..Len(log)
  BY DEF ReplayInv, LogTyped, PageInv
<1> DEFINE f == CHOOSE g : Traces(g, Len(log))
<1>2. Traces(f, Len(log))
  BY <1>1, TraceExists
<1>3. Shown = f[step]
  BY DEF Shown, Traces
<1> HIDE DEF f
<1>4. QED
  BY <1>1, <1>2, <1>3, TraceMatches

\* However the game went and however the page is stepped, the page shows the
\* position the game had after that many moves.
THEOREM ReplayIsFaithful == ReplaySpec => []ReplayShowsTheGame
<1>1. ReplayInv => ReplayShowsTheGame
  BY ShownIsPosition DEF ReplayShowsTheGame
<1>2. QED
  BY <1>1, InitReplay, NextReplay, PTL DEF ReplaySpec

=============================================================================
