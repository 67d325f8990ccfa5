-------------------------------- MODULE MCHub --------------------------------
EXTENDS Hub

MCBlitz == {[initial |-> 1, increment |-> 1]}

MCView == <<rooms, invites, memberships, identities, finished_games,
            next_connection_id, dirty, sockets, issued, now>>
==============================================================================
