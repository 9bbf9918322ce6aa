----------------------------- MODULE MCAccounts -----------------------------
(***************************************************************************)
(* The accounts, in one run: their sessions, the games recorded for them,  *)
(* and the limiters.  The three share nothing here, so a behaviour is      *)
(* about one of them and the others stand still.                           *)
(***************************************************************************)
EXTENDS Sessions, Ledger, Limits, TLC

CONSTANTS a1, t1, t2, s1, s2, p1, p2, p3, b1

VARIABLE focus

OneBrowser == [t \in {t1, t2} |-> b1]

\* A piecewise linear stand-in for 32 * (1 - 1 / (1 + 10^((rb - ra) / 400))).
Share(ra, rb) ==
    LET x == 16 - ((ra - rb) \div 12)
    IN  IF x < 0 THEN 0 ELSE IF x > 32 THEN 32 ELSE x

\* A win and a resignation for two, a draw, and a game for three.
MCOutcomes ==
    LET first  == NewGame(<<p1, p2>>)
        second == NewGame(<<p2, p1>>)
        three  == NewGame(<<p3, p1, p2>>)
    IN  {AfterMove(first, TRUE), AfterResign(second, p2), Stalemated(first),
         AfterMove(AfterMove(three, TRUE), TRUE)}

MCInit ==
    /\ SessionsInit /\ LedgerInit /\ LimitsInit
    /\ focus \in {"sessions", "ledger", "limits"}
    /\ focus # "sessions" => NewAccount

MCNext ==
    \/ focus = "sessions" /\ SessionsNext /\ UNCHANGED <<ledgerVars, limitsVars, focus>>
    \/ focus = "ledger" /\ LedgerNext /\ UNCHANGED <<sessionsVars, limitsVars, focus>>
    \/ focus = "limits" /\ LimitsNext /\ UNCHANGED <<sessionsVars, ledgerVars, focus>>

MCSpec == MCInit /\ [][MCNext]_<<sessionsVars, ledgerVars, limitsVars, focus>>

MCSymmetry == Permutations({t1, t2}) \union Permutations({s1, s2})

=============================================================================
