------------------------------ MODULE MCOnline ------------------------------
(***************************************************************************)
(* Instances of Online for TLC.  The view leaves out deliveries (the       *)
(* output of a step, kept in outgoing) and dirty, which no step of Online  *)
(* reads.  Game ids and codes are interchangeable and, as no room is       *)
(* discarded here, never used again: they are taken in order.              *)
(***************************************************************************)
EXTENDS Online

MCUntimed == {[initial |-> None, increment |-> 0]}

MCView == <<rooms, invites, memberships, finished_games, next_connection_id,
            sockets, issued, clientVars, serverVars, historyVars>>

MCInOrder ==
    LET used == {k \in Codes : invites'[k] # None}
    IN  issued' = 1..Cardinality(issued') /\ used = 1..Cardinality(used)
=============================================================================
