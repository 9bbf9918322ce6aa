------------------------------ MODULE MCMatch ------------------------------
(***************************************************************************)
(* Match on the radius-1 star: 13 cells, one marble per user, so that TLC  *)
(* reaches every position of the game.                                     *)
(***************************************************************************)
EXTENDS Match

CONSTANTS p1, p2, p3, p4,
          MaxHops       \* the longest hop chain a client sends

ThreePlayers == <<p1, p2, p3>>
FourPlayers  == <<p1, p2, p3, p4>>
TwoPlayers   == <<p1, p2>>

\* Chains of exactly k jumps of two cells in a line, whatever lies between.
JumpChains[k \in 0..MaxHops] ==
    IF k = 0 THEN {<<c>> : c \in AllBoardCells}
    ELSE UNION {{Append(path, to) :
                    to \in {HexAdd(HexAdd(path[k], d), d) : d \in HexDirections}
                             \intersect AllBoardCells} : path \in JumpChains[k - 1]}

\* Every adjacent step and every chain of at most MaxHops jumps.
Steps == {<<a, b>> \in AllBoardCells \X AllBoardCells :
              \E d \in HexDirections : b = HexAdd(a, d)}

Chains ==
    {path \in Steps \union UNION {JumpChains[k] : k \in 1..MaxHops} :
        path[1] # path[Len(path)]}

\* The value of ClientPaths (a name of its own, so that TLC evaluates Chains once).
SentPaths == Chains

=============================================================================
