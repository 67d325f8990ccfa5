------------------------------ MODULE HubViews ------------------------------
(***************************************************************************)
(* What the players of a game have been told.  told and hushed are history *)
(* variables.  told is, for each member of a game, the last snapshot the   *)
(* hub sent it: the client shows that snapshot and nothing else            *)
(* (src/app/online.rs, apply_online_snapshot), here under in-order         *)
(* delivery.  hushed is, for each game, the side whose rejected move found *)
(* a fallen flag before the ticker did: play_move remembers what the clock *)
(* shows and answers that side alone, so no later tick sees a change.      *)
(***************************************************************************)
EXTENDS Hub

VARIABLES told, hushed

viewVars == <<vars, told, hushed>>

NewsFor(c, batch) == {d \in batch : d.target = c /\ d.event \in NewsEvents}

\* A rejected move read the clock, saw a flag down and left the ticker nothing to
\* find.
HushedBy(g, batch) ==
    {memberships[d.target].side :
        d \in {x \in batch : /\ x.event = "MoveRejected" /\ x.game_id = g
                            /\ Tick(rooms[g].game.clock, now).flagged # None
                            /\ TickChanged(rooms[g].game.clock, now)}}

ViewInit ==
    /\ Init
    /\ told = [c \in Connections |-> None]
    /\ hushed = [g \in GameIds |-> {}]

Listen ==
    /\ told' = [c \in Connections |->
                  IF memberships'[c] = None THEN None
                  ELSE IF NewsFor(c, deliveries') = {} THEN told[c]
                  ELSE (CHOOSE d \in NewsFor(c, deliveries') : TRUE).snapshot]
    /\ hushed' = [g \in GameIds |-> hushed[g] \cup HushedBy(g, deliveries')]

ViewNext == Next /\ Listen

ViewSpec == ViewInit /\ [][ViewNext]_viewVars

Players(g) == {side \in Sides : rooms[g] # None /\ IsConnected(rooms[g].seats[side])}
View(g, side) == told[rooms[g].seats[side].connection]

\* Every connected player has been told the game as it is: its revision, moves
\* and draw offer, and how it ended.  Two players alone may have missed a loss on
\* time: one whom the next tick tells, and the opponent of one whose rejected
\* move found the flag first (hub.rs, play_move), whom nobody tells any more.
PlayersSeeTheGame ==
    \A g \in GameIds : \A side \in Players(g) :
        LET actual == Snapshot(rooms[g])
            seen   == View(g, side)
        IN  /\ seen.revision = actual.revision
            /\ seen.moves = actual.moves
            /\ seen.draw_offer = actual.draw_offer
            /\ seen.status # actual.status
               => /\ actual.status.kind = "timeout"
                  /\ \/ TickChanged(rooms[g].game.clock, now)
                     \/ hushed[g] = {Flip(side)}
==============================================================================
