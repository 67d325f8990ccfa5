-------------------------------- MODULE Game --------------------------------
(***************************************************************************)
(* The state of one chess game, of crates/chess-core/src/game.rs, and the  *)
(* rule that decides when it is over.                                      *)
(*                                                                         *)
(* Of the board only what the game layer reads is kept: whose move it is   *)
(* and whether the position reached is decided.  A move is therefore one   *)
(* of three kinds: "quiet" leaves the game open, "mate" mates the          *)
(* opponent, "dead" reaches a drawn position (stalemate, fifty moves,      *)
(* threefold repetition or insufficient material).                         *)
(***************************************************************************)
EXTENDS GameClock, Sequences

MoveKinds == {"quiet", "mate", "dead"}

GameState == [start      : Sides,
              moves      : Seq(MoveKinds),
              resigned   : Sides \cup {None},
              draw_offer : Sides \cup {None},
              agreed_draw: BOOLEAN,
              abandoned  : Sides \cup {None},
              revision   : Nat,
              clock      : Clock]

NewGame(start, initial, increment, t) ==
    [start |-> start, moves |-> <<>>, resigned |-> None, draw_offer |-> None,
     agreed_draw |-> FALSE, abandoned |-> None, revision |-> 0,
     clock |-> NewClock(initial, increment, start, t)]

\* pos.side
SideToMove(game) ==
    IF Len(game.moves) % 2 = 0 THEN game.start ELSE Flip(game.start)

LastMove(game) == game.moves[Len(game.moves)]

Outcomes == [kind : {"resignation", "timeout", "abandonment", "checkmate",
                     "agreement", "drawn"},
             side : Sides \cup {None}]

ASSUME OutcomeAssumption == None \notin Outcomes

Result(kind, side) == [kind |-> kind, side |-> side]

\* What the position alone decides.  A checkmate carries the winner, every
\* other result that has a side carries the loser.
BoardOutcome(game) ==
    IF game.moves = <<>> \/ LastMove(game) = "quiet" THEN None
    ELSE IF LastMove(game) = "mate" THEN Result("checkmate", Flip(SideToMove(game)))
    ELSE Result("drawn", None)

\* outcome(game): the first reason that applies, in the order of the code.
Outcome(game) ==
    IF game.resigned # None           THEN Result("resignation", game.resigned)
    ELSE IF game.agreed_draw          THEN Result("agreement", None)
    ELSE IF game.clock.flagged # None THEN Result("timeout", game.clock.flagged)
    ELSE IF game.abandoned # None     THEN Result("abandonment", game.abandoned)
    ELSE BoardOutcome(game)

IsOver(game) == Outcome(game) # None

Changed(game) == [game EXCEPT !.revision = @ + 1]

\* play: the mover's reply also declines the opponent's standing draw offer.
Play(game, move, t) ==
    LET mover == SideToMove(game)
    IN  Changed([game EXCEPT
            !.draw_offer = IF @ = Flip(mover) THEN None ELSE @,
            !.moves = Append(@, move),
            !.clock = CompleteMove(@, mover, Flip(mover), t)])
==============================================================================
