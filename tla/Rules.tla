------------------------------- MODULE Rules -------------------------------
(***************************************************************************)
(* The rule engine of packages/game-engine: initial position, win check,   *)
(* move validation, the reachable destinations and paths, and the list of  *)
(* legal moves the turn timer draws from.  A board maps every cell to the  *)
(* user owning the marble on it, or NoMarble; the marble's colour is a     *)
(* function of its owner and is left out.                                  *)
(***************************************************************************)
EXTENDS HexBoard, Sequences, FiniteSets

CONSTANTS
    TurnOrder,      \* the users of this game, in seat order
    BlockingRule,   \* GameState.blockingRule
    NoMarble        \* an empty cell

Seats == 1..Len(TurnOrder)
Players == {TurnOrder[i] : i \in Seats}

ASSUME TurnOrderAssumption ==
    /\ TurnOrder \in Seq(Players)
    /\ Len(TurnOrder) \in {2, 3, 4, 6}
    /\ \A i, j \in Seats : TurnOrder[i] = TurnOrder[j] => i = j
ASSUME BlockingRuleAssumption == BlockingRule \in BOOLEAN
ASSUME NoMarbleAssumption == NoMarble \notin Players

Boards == [AllBoardCells -> Players \union {NoMarble}]

SeatOf(p) == CHOOSE i \in Seats : TurnOrder[i] = p
HomePoint(p) == PlayerHomePoints(Len(TurnOrder))[SeatOf(p)]
Home == [p \in Players |-> HomeTriangle(HomePoint(p))]
TargetZone == [p \in Players |-> HomeTriangle(OpposingPoint(HomePoint(p)))]

InitialBoard ==
    [c \in AllBoardCells |->
        IF \E p \in Players : c \in Home[p]
        THEN CHOOSE p \in Players : c \in Home[p]
        ELSE NoMarble]

CheckWin(board, p) == \A c \in TargetZone[p] : board[c] = p

\* Mutant: the marble is not lifted.
MoveMarble_Copies(board, from, to) == [board EXCEPT ![to] = board[from]]

\* The board half of applyMove: lift the marble, then put it down.
MoveMarble(board, from, to) ==
    [board EXCEPT ![from] = NoMarble, ![to] = board[from]]

(***************************************************************************)
(* Hops.  `origin` is where the moving marble started: it counts as empty. *)
(***************************************************************************)
HopTargets(board, origin, at) ==
    {far \in AllBoardCells :
        /\ far # origin
        /\ board[far] = NoMarble
        /\ \E d \in HexDirections :
              LET mid == HexAdd(at, d)
              IN  /\ far = HexAdd(mid, d)
                  /\ mid \in AllBoardCells \ {origin}
                  /\ board[mid] # NoMarble}

\* The cells reached, and those one hop further.
Grown(board, origin, reached) ==
    reached \union UNION {HopTargets(board, origin, c) : c \in reached}

\* The breadth-first search: the empty cells in the closure of {origin}
\* under HopTargets.
HopClosure(board, origin) ==
    LET closure[S \in SUBSET AllBoardCells] ==
            LET T == Grown(board, origin, S)
            IN  IF T = S THEN S ELSE closure[T]
        reached == closure[{origin}]
    IN  {c \in AllBoardCells : c \in reached /\ board[c] = NoMarble}

\* Mutant: occupied neighbours are offered.
StepTargets_Occupied(board, from) ==
    {HexAdd(from, d) : d \in HexDirections} \intersect AllBoardCells

StepTargets(board, from) ==
    {to \in {HexAdd(from, d) : d \in HexDirections} \intersect AllBoardCells :
        board[to] = NoMarble}

\* Mutant: enemy marbles may be lifted anywhere.
Evictable_Anywhere(board, p, from) == BlockingRule /\ board[from] \notin {p, NoMarble}

\* A marble p may lift: its own, or one to be evicted from its target zone.
Evictable(board, p, from) ==
    BlockingRule /\ board[from] \notin {p, NoMarble} /\ from \in TargetZone[p]

MayLift(board, p, from) == board[from] = p \/ Evictable(board, p, from)

\* Cells the marble at `from` may not be put down on.
Excluded(board, p, from) == IF board[from] = p THEN {} ELSE TargetZone[p]

ValidDestinations(board, p, from) ==
    IF MayLift(board, p, from)
    THEN (StepTargets(board, from) \union HopClosure(board, from))
            \ Excluded(board, p, from)
    ELSE {}

\* Of the paths found so far, those that have arrived; and all of them, one hop
\* to a new cell longer.
Arrived(paths, to) == {p \in paths : p[Len(p)] = to}

Longer(board, from, paths) ==
    UNION {{Append(p, c) : c \in {x \in HopTargets(board, from, p[Len(p)]) :
                                    \A i \in DOMAIN p : p[i] # x}} : p \in paths}

\* The paths findPath may return: the single step, else a shortest hop chain
\* (the order in which directions are tried picks one of them).
FindPaths(board, from, to) ==
    LET search[paths \in SUBSET Seq(AllBoardCells)] ==
            IF paths = {} \/ Arrived(paths, to) # {} THEN Arrived(paths, to)
            ELSE search[Longer(board, from, paths)]
    IN  IF from = to THEN {}
        ELSE IF to \in StepTargets(board, from) THEN {<<from, to>>}
        ELSE search[{<<from>>}]

AllValidMoves(board, p) ==
    UNION {{<<from, to>> : to \in {c \in ValidDestinations(board, p, from) :
                                      FindPaths(board, from, c) # {}}} :
           from \in AllBoardCells}

(***************************************************************************)
(* validateMove, split into its board part and, in Match, its turn part.   *)
(***************************************************************************)
\* Mutant: nothing need stand between.
HopSegment_OverNothing(board, origin, a, b) ==
    /\ \E d \in HexDirections : b = HexAdd(HexAdd(a, d), d)
    /\ b \in AllBoardCells
    /\ board[b] = NoMarble \/ b = origin

HopSegment(board, origin, a, b) ==
    \E d \in HexDirections :
        LET mid == HexAdd(a, d)
        IN  /\ b = HexAdd(mid, d)
            /\ {mid, b} \subseteq AllBoardCells
            /\ mid # origin
            /\ board[mid] # NoMarble
            /\ board[b] = NoMarble \/ b = origin

PathAllowed(board, path) ==
    LET from == path[1]
        last == Len(path)
    IN  /\ \A i \in DOMAIN path : path[i] \in AllBoardCells
        /\ \/ /\ last = 2
              /\ \/ \E d \in HexDirections : path[2] = HexAdd(from, d)
                 \/ HopSegment(board, from, from, path[2])
           \/ /\ last > 2
              /\ \A i \in 1..(last - 1) : HopSegment(board, from, path[i], path[i + 1])
              /\ \A i, j \in 1..last : path[i] = path[j] => i = j

MoveAllowed(board, p, path) ==
    LET from == path[1]
        to   == path[Len(path)]
    IN  /\ Len(path) >= 2
        /\ from \in AllBoardCells
        /\ to \in AllBoardCells
        /\ MayLift(board, p, from)
        /\ to \notin Excluded(board, p, from)
        /\ board[to] = NoMarble
        /\ PathAllowed(board, path)

=============================================================================
