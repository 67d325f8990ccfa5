---------------------------- MODULE MCLocalGame ----------------------------
(***************************************************************************)
(* Games from a position with Black to move, against the engine and        *)
(* between two players.  One file is enough for a load to bring another    *)
(* game: a new game leaves the autosave alone until it changes.            *)
(***************************************************************************)
EXTENDS LocalGame

MCModes == {"white", "two"}
MCStarts == {"black"}
MCPaths == {"session"}

\* What the clock last showed decides only when it is drawn again.
MCView == <<app, mode, [desk EXCEPT !.game.clock.shown = 0], focused, saved_revision,
            files, now>>
============================================================================
