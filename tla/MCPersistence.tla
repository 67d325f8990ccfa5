---------------------------- MODULE MCPersistence ----------------------------
(***************************************************************************)
(* Instances of Persistence for TLC.                                       *)
(***************************************************************************)
EXTENDS Persistence

MCTwoMinutes == {[initial |-> 2, increment |-> 0]}
MCUntimed == {[initial |-> None, increment |-> 0]}

\* Draws are offered before the first move, and answered only by agreeing.
MCOffersAreAccepted ==
    \A g \in OpenGames :
        LET game == rooms[g].game
        IN  /\ game.draw_offer # None => game.revision = 2 /\ game.moves = <<>>
            /\ game.revision = 3 /\ game.moves = <<>> => game.agreed_draw

\* No property of these runs reads what a step delivers.
MCView == <<rooms, invites, memberships, identities, finished_games,
            next_connection_id, dirty, sockets, issued, now, storeVars>>
==============================================================================
