------------------------------ MODULE HexBoard ------------------------------
(***************************************************************************)
(* The Sternhalma board of packages/game-engine/src/board.ts, in axial     *)
(* coordinates <<q, r>>.  The program plays on radius 4 (121 cells); the   *)
(* radius is a parameter here so that TLC can also exhaust the games of    *)
(* the radius-1 star, where each home triangle is one cell.                *)
(***************************************************************************)
EXTENDS Integers

CONSTANT N      \* radius of the central hexagon and side of a home triangle

ASSUME NAssumption == N \in Nat \ {0}

HexDirections ==
    {<<1, 0>>, <<-1, 0>>, <<0, 1>>, <<0, -1>>, <<1, -1>>, <<-1, 1>>}

HexAdd(a, b) == <<a[1] + b[1], a[2] + b[2]>>

\* 60 degrees clockwise about the origin.
RotateCW(h) == <<-h[2], h[1] + h[2]>>

\* The top triangle, apex <<N, -2N>>.
TopTriangle ==
    {h \in (1..N) \X ((-2 * N)..(-N - 1)) : h[1] + h[2] >= -N}

\* RotateCW applied k times, 0 <= k <= 5 (the loop of rotateCells, unrolled).
RotateCell(h, k) ==
    LET once(x)  == RotateCW(x)
        twice(x) == once(once(x))
    IN  CASE k = 0 -> h
          [] k = 1 -> once(h)
          [] k = 2 -> twice(h)
          [] k = 3 -> once(twice(h))
          [] k = 4 -> twice(twice(h))
          [] k = 5 -> once(twice(twice(h)))

Points == 0..5

HomeTriangle(k) == {RotateCell(h, k) : h \in TopTriangle}

CenterHex ==
    {h \in (-N..N) \X (-N..N) : h[1] + h[2] \in -N..N}

AllBoardCells == CenterHex \union UNION {HomeTriangle(k) : k \in Points}

\* Player count -> the home points used, in turn order.
PlayerHomePoints(count) ==
    CASE count = 2 -> <<0, 3>>
      [] count = 3 -> <<0, 2, 4>>
      [] count = 4 -> <<0, 1, 3, 4>>
      [] count = 6 -> <<0, 1, 2, 3, 4, 5>>

OpposingPoint(point) == (point + 3) % 6

=============================================================================
