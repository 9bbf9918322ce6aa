------------------------------- MODULE MCWeb -------------------------------
(***************************************************************************)
(* What the web client shows of the server, in one run: a game that is     *)
(* played (WebGame) or the list of rooms (Lobby).  The two share nothing,  *)
(* so a behaviour is about one of them and the other stands still.         *)
(***************************************************************************)
EXTENDS WebGame, Lobby, TLC

CONSTANTS gA, gB

VARIABLE focus

mcVars == <<webVars, lobbyVars, focus>>

\* Of game B, which runs when the client comes, only the start is looked at.
MCMaxPlayed == gA :> 2 @@ gB :> 0

MCInit == WebInit /\ LobbyInit /\ focus \in {"game", "lobby"}

InGame(A) == focus = "game" /\ A /\ UNCHANGED <<lobbyVars, focus>>
AtLobby(A) == focus = "lobby" /\ A /\ UNCHANGED <<webVars, focus>>

MCNext == InGame(WebNext) \/ AtLobby(LobbyNext)

\* Node runs what is ready, the browser polls as its interval says, and time
\* passes; users, losses and failures owe nothing.
MCFairness ==
    /\ WF_mcVars(InGame(WebProgress))
    /\ \A p \in Polls : WF_mcVars(AtLobby(Poll(p))) /\ WF_mcVars(AtLobby(ServePoll(p)))
    /\ WF_mcVars(AtLobby(Ages))

MCSpec == MCInit /\ [][MCNext]_mcVars /\ MCFairness

=============================================================================
