----------------------------- MODULE MCHubViews -----------------------------
(***************************************************************************)
(* Instances of HubViews for TLC.  The view leaves out deliveries, the     *)
(* output of a step, and finished_games, which nothing here depends on.    *)
(***************************************************************************)
EXTENDS HubViews, TLC

MCTwoMinutesOrTooLong == {[initial |-> 2, increment |-> 0],
                          [initial |-> 9, increment |-> 0]}

MCView == <<rooms, invites, memberships, identities,
            next_connection_id, dirty, sockets, issued, now, told, hushed>>

MCSymmetry == Permutations(GameIds) \cup Permutations(Codes)
==============================================================================
