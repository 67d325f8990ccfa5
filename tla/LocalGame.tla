------------------------------ MODULE LocalGame ------------------------------
(***************************************************************************)
(* A game on one terminal: the loop of src/app/local.rs, the controls and  *)
(* the board of src/app/actions.rs, the marks of src/app/screen.rs and the *)
(* saved games of src/app/saves.rs.                                        *)
(*                                                                         *)
(* The desk is what one player sees: the game, whether it is paused, what  *)
(* is marked on the board and whether a page of text covers it.  Squares   *)
(* and pieces are left out; a mark is the position it was made for, so a   *)
(* mark that outlives its position shows.  Every operator on a desk is one *)
(* function of the code.                                                   *)
(*                                                                         *)
(* The loop runs from "top" (autosave, clock, engine or prompt) to         *)
(* "prompt" (one input is handled), with "thinking" while the engine       *)
(* searches.  Preferences, sounds and wording are left out.                *)
(***************************************************************************)
EXTENDS Game, FiniteSets

CONSTANTS
    Modes,        \* modes a game is started in
    Starts,       \* sides to move in the positions games start from
    Initial,      \* time on a new game's clocks, or None
    Increment,    \* time a move adds
    Paths,        \* files games are saved in, "session" for the autosave
    DiskMayFail,  \* whether a save can fail
    MaxPly,       \* bound: moves of a game
    MaxRevision,  \* bound: changes of one game
    MaxTime       \* bound: the monotonic clock

ASSUME LocalAssumption ==
    /\ Modes \subseteq {"white", "black", "two"}
    /\ Starts \subseteq Sides
    /\ Initial \in (Nat \ {0}) \cup {None}
    /\ Increment \in Nat
    /\ "session" \in Paths
    /\ DiskMayFail \in BOOLEAN
    /\ MaxPly \in Nat /\ MaxRevision \in Nat /\ MaxTime \in Nat

VARIABLES
    app,             \* where the loop is, "closed" when the program is not running
    mode,            \* who plays which side
    desk,            \* the game and the screen
    focused,         \* the control that Return activates
    saved_revision,  \* revision of the game when it was last saved
    files,           \* saved games on disk
    now              \* the monotonic clock

localVars == <<app, mode, desk, focused, saved_revision, files, now>>

----------------------------------------------------------------------------
(* The desk.                                                               *)

Position(game) == <<game.start, game.moves>>

NoMarks == [selected |-> None, targets |-> None, promotions |-> None,
            confirming |-> None]

Positions == Sides \X Seq(MoveKinds)
Confirmations == [control : {"Resign", "Restart"}, at : Positions]
Marks == [selected   : Positions \cup {None},
          targets    : Positions \cup {None},
          promotions : Positions \cup {None},
          confirming : Confirmations \cup {None}]

Desks == [game : GameState, paused : BOOLEAN, marks : Marks, page : BOOLEAN]

Desk(game, paused) == [game |-> game, paused |-> paused, marks |-> NoMarks, page |-> FALSE]

\* clear_marks
Cleared(d) == [d EXCEPT !.marks = NoMarks]

\* note and show: a message on the board puts an open page away.
Noted(d) == [d EXCEPT !.page = FALSE]

Unconfirmed(d) == [d EXCEPT !.marks.confirming = None]

\* Mutant: the change is not counted.
ChangingUncounted(d, game) == [d EXCEPT !.game = game]

Changing(d, game) == [d EXCEPT !.game = Changed(game)]

\* game.changed() and game.clock.pause() after a game was ended by agreement.
Ended(d, game) == Changing(d, [game EXCEPT !.clock = Pause(@, now)])

\* The reading of the clock that ends the game when a flag has fallen.
Fell(d) == d.game.clock.flagged = None /\ Tick(d.game.clock, now).flagged # None
Ticked(d) ==
    LET game == [d.game EXCEPT !.clock = Tick(@, now)]
    IN  IF Fell(d) THEN Noted(Cleared(Changing(d, game)))
        ELSE [d EXCEPT !.game = game]

\* What a legal move may lead to; the last move of a bounded game ends it.
Kinds(d) ==
    IF Len(d.game.moves) < MaxPly - 1 THEN MoveKinds
    ELSE IF Len(d.game.moves) < MaxPly THEN {"mate", "dead"} ELSE {}

EngineToMove(who, game) ==
    \/ who = "white" /\ SideToMove(game) = "black"
    \/ who = "black" /\ SideToMove(game) = "white"

\* play_move
PlayMove(d, kind) ==
    LET game == Play(d.game, kind, now)
    IN  Cleared([d EXCEPT !.game =
            IF IsOver(game) THEN [game EXCEPT !.clock = Pause(@, now)] ELSE game])

\* undo: one move, or the engine's reply as well.
TakenBack(who, game) ==
    LET plies == IF who = "two" \/ Len(game.moves) = 1 THEN 1 ELSE 2
    IN  SubSeq(game.moves, 1, Len(game.moves) - plies)

\* Mutant: undo leaves the marks of the position it takes back.
UndoKeepingMarks(who, d) ==
    LET game == [d.game EXCEPT !.moves = TakenBack(who, d.game), !.resigned = None,
                               !.draw_offer = None, !.agreed_draw = FALSE,
                               !.revision = @ + Len(d.game.moves) - Len(TakenBack(who, d.game))]
    IN  IF d.game.moves = <<>> THEN Noted(d)
        ELSE Noted([d EXCEPT !.game = [game EXCEPT !.clock =
                IF d.paused THEN @ ELSE Resume(@, SideToMove(game), now)]])

Undo(who, d) ==
    LET game == [d.game EXCEPT
                    !.moves = TakenBack(who, d.game), !.resigned = None, !.draw_offer = None,
                    !.agreed_draw = FALSE, !.abandoned = None,
                    !.revision = @ + Len(d.game.moves) - Len(TakenBack(who, d.game))]
    IN  IF d.game.moves = <<>> THEN Noted(d)
        ELSE Noted(Cleared([d EXCEPT !.game = [game EXCEPT !.clock =
                IF d.paused THEN @ ELSE Resume(@, SideToMove(game), now)]]))

\* Mutant: a new game stays paused.
RestartPaused(d) ==
    LET game == NewGame(d.game.start, d.game.clock.initial, d.game.clock.increment, now)
    IN  Noted(Cleared([d EXCEPT !.game = [game EXCEPT !.revision = d.game.revision + 1]]))

Restart(d) ==
    LET game == NewGame(d.game.start, d.game.clock.initial, d.game.clock.increment, now)
    IN  Noted(Cleared([d EXCEPT !.paused = FALSE,
                                !.game = [game EXCEPT !.revision = d.game.revision + 1]]))

TogglePause(d) ==
    LET side == SideToMove(d.game)
    IN  [Changing(d, [d.game EXCEPT !.clock =
            IF d.paused THEN Resume(@, side, now) ELSE Pause(@, now)])
         EXCEPT !.paused = ~@]

----------------------------------------------------------------------------
(* The controls.                                                           *)

\* game_buttons and game_over_buttons, without those that only change the view.
Controls(who, d) ==
    IF IsOver(d.game) THEN {"MoveInput", "Rematch", "Quit"}
    ELSE {"MoveInput", "Pause", "Resign", "Restart"}
         \cup (IF d.game.moves = <<>> THEN {} ELSE {"Undo"})
         \cup (IF who = "two" /\ d.game.draw_offer # SideToMove(d.game) THEN {"Draw"} ELSE {})

PauseControl(d) == IF IsOver(d.game) THEN d ELSE Noted(Cleared(TogglePause(d)))

DrawControl(who, d) ==
    LET game == d.game
        side == SideToMove(game)
        plain == Unconfirmed(d)
    IN  IF who # "two" \/ game.draw_offer = side THEN Noted(plain)
        ELSE IF game.draw_offer = None
        THEN Noted(Changing(plain, [game EXCEPT !.draw_offer = side]))
        ELSE Cleared(Ended(d, [game EXCEPT !.agreed_draw = TRUE, !.draw_offer = None]))

\* A confirmation remembers the position it was asked in.
Asked(d, control) == [control |-> control, at |-> Position(d.game)]
IsConfirming(d, control) ==
    d.marks.confirming # None /\ d.marks.confirming.control = control
Ask(d, control) == Noted([d EXCEPT !.marks.confirming = Asked(d, control)])

ResignControl(d) ==
    IF IsConfirming(d, "Resign")
    THEN Cleared(Ended(d, [d.game EXCEPT !.resigned = SideToMove(d.game)]))
    ELSE Ask(d, "Resign")

RestartControl(d) == IF IsConfirming(d, "Restart") THEN Restart(d) ELSE Ask(d, "Restart")

\* handle_ui_action, for every control that leaves the program running.
Activate(control, who, d) ==
    CASE control = "Pause"   -> PauseControl(d)
      [] control = "Undo"    -> Undo(who, Unconfirmed(d))
      [] control = "Draw"    -> DrawControl(who, d)
      [] control = "Resign"  -> ResignControl(d)
      [] control = "Restart" -> RestartControl(d)
      [] control = "Rematch" -> Restart(d)
      [] OTHER               -> d

----------------------------------------------------------------------------
(* The board.                                                              *)

Unselected(d) == [d EXCEPT !.marks.selected = None, !.marks.targets = None]
WithoutMenu(d) == [d EXCEPT !.marks.promotions = None]
Chosen(d) == [d EXCEPT !.marks.selected = Position(d.game),
                       !.marks.targets = Position(d.game)]
Menu(d) == [d EXCEPT !.marks.promotions = Position(d.game)]

\* handle_board_click: what a click may do, depending on where it lands.
Clicked(d) ==
    LET outside == IF d.marks.selected = None THEN d ELSE WithoutMenu(Unselected(d))
        square == WithoutMenu(d)
    IN  {outside} \cup
        IF IsOver(d.game) \/ d.paused THEN {Noted(d)}
        ELSE {square, Chosen(square)}
             \cup {PlayMove(d, kind) : kind \in IF d.marks.promotions # None
                                                   \/ d.marks.selected # None
                                                THEN Kinds(d) ELSE {}}
             \cup IF d.marks.selected = None THEN {}
                  ELSE {Unselected(square), Menu(square)}

----------------------------------------------------------------------------
(* Typed commands.                                                         *)

\* A letter typed while the promotion menu is open plays the promotion.
Promoted(d) ==
    IF d.marks.promotions = None THEN {} ELSE {PlayMove(d, kind) : kind \in Kinds(d)}

\* make_move, behind the checks at the end of the loop.
Moved(d) ==
    {Noted(d)} \cup IF IsOver(d.game) \/ d.paused THEN {}
                    ELSE {PlayMove(d, kind) : kind \in Kinds(d)}

\* resign
Resigned(d) ==
    IF IsOver(d.game) THEN Noted(d)
    ELSE Ended(d, [d.game EXCEPT !.resigned = SideToMove(d.game)])

\* pause and resume
Paused(d, wanted) == IF d.paused = wanted THEN Noted(d) ELSE PauseControl(d)

\* hint: the engine's move is pointed at on the board.
Hint(d) == IF IsOver(d.game) THEN Noted(d)
           ELSE [d EXCEPT !.marks.targets = Position(d.game)]

\* new and restart, which ask first when a move would be lost.
Renewed(d) == {d, Restart(d)}

\* import: the main line of a PGN file, replayed on the clock of this game.
Plies(start, side, n) == IF side = start THEN (n + 1) \div 2 ELSE n \div 2
Imported(d, start, moves) ==
    LET clock == NewClock(d.game.clock.initial, d.game.clock.increment, start, now)
        next == IF Len(moves) % 2 = 0 THEN start ELSE Flip(start)
        replayed == RememberShown([clock EXCEPT
            !.remaining = [s \in Sides |-> @[s] + clock.increment * Plies(start, s, Len(moves))],
            !.running = [side |-> next, since |-> now]])
        game == NewGame(start, clock.initial, clock.increment, now)
    IN  Noted(Cleared([d EXCEPT !.paused = FALSE, !.game = [game EXCEPT
            !.moves = moves, !.revision = d.game.revision + 1,
            !.clock = IF clock.initial = None THEN clock ELSE replayed]]))

\* Main lines of a PGN file: no move follows a mate.
Lines == {moves \in UNION {[1..n -> MoveKinds] : n \in 0..MaxPly - 1} :
              \A i \in DOMAIN moves : moves[i] = "mate" => i = Len(moves)}

\* moves with a square marks what a piece can do, also in a game that is over.
HasMoves(d) == d.game.moves = <<>> \/ LastMove(d.game) # "mate"

\* Everything a typed line may make of the desk, but for saving and loading.
Typed(who, d) ==
    {d, Noted(d), [d EXCEPT !.page = TRUE], Undo(who, d), Resigned(d),
     Paused(d, TRUE), Paused(d, FALSE), DrawControl(who, d), Hint(d)}
    \cup (IF HasMoves(d) THEN {Noted(Chosen(d))} ELSE {})
    \cup Renewed(d) \cup Promoted(d) \cup Moved(d)
    \cup {Imported(d, file[1], file[2]) : file \in Starts \X Lines}

----------------------------------------------------------------------------
(* Saved games.                                                            *)

SavedGames == [start       : Sides,
               moves       : Seq(MoveKinds),
               mode        : {"white", "black", "two"},
               initial     : Nat \cup {None},
               increment   : Nat,
               remaining   : [Sides -> Nat],
               paused      : BOOLEAN,
               resigned    : Sides \cup {None},
               draw_offer  : Sides \cup {None},
               agreed_draw : BOOLEAN]

ASSUME SavedGamesAssumption == None \notin SavedGames

\* saved_game: reading the clock charges the side to move.
Snapshot(game) == [game EXCEPT !.clock = Sync(@, now)]
Saved(who, game, paused) ==
    [start |-> game.start, moves |-> game.moves, mode |-> who,
     initial |-> game.clock.initial, increment |-> game.clock.increment,
     remaining |-> Sync(game.clock, now).remaining, paused |-> paused,
     resigned |-> game.resigned, draw_offer |-> game.draw_offer,
     agreed_draw |-> game.agreed_draw]

\* restore_game: the moves are replayed and the results put back; a flag that
\* had fallen is not part of a saved game.
Restored(saved) ==
    LET game == [NewGame(saved.start, saved.initial, saved.increment, now) EXCEPT
                     !.moves = saved.moves, !.resigned = saved.resigned,
                     !.draw_offer = saved.draw_offer, !.agreed_draw = saved.agreed_draw]
        running == ~saved.paused /\ ~IsOver(game)
    IN  Desk([game EXCEPT !.clock = Restore(@, saved.remaining, SideToMove(game), running, now)],
             saved.paused)

\* save_current_game, which may fail.
Save(path, d) ==
    \/ files' = [files EXCEPT ![path] = Saved(mode, d.game, d.paused)]
    \/ DiskMayFail /\ UNCHANGED files

----------------------------------------------------------------------------
(* The loop.                                                               *)

\* Nothing of the program's memory outlives it.
Nothing == Desk(NewGame("white", None, 0, 0), FALSE)

LocalInit ==
    /\ app = "closed"
    /\ mode = "two"
    /\ desk = Nothing
    /\ focused = "MoveInput"
    /\ saved_revision = 0
    /\ files = [path \in Paths |-> None]
    /\ now = 0

Pass == now < MaxTime /\ now' = now + 1
        /\ UNCHANGED <<app, mode, desk, focused, saved_revision, files>>

\* play: a new game, or one read from disk.
Launched == app' = "top" /\ focused' = "MoveInput" /\ saved_revision' = 0 /\ UNCHANGED <<files, now>>
StartGame ==
    /\ app = "closed"
    /\ mode' \in Modes
    /\ \E start \in Starts : desk' = Desk(NewGame(start, Initial, Increment, now), FALSE)
    /\ Launched
ResumeGame ==
    /\ app = "closed"
    /\ \E path \in Paths :
           /\ files[path] # None
           /\ mode' = files[path].mode
           /\ desk' = Restored(files[path])
    /\ Launched

\* Mutant: a game that has not changed is taken to wait for the player.
ProceedWhenChanged(d) ==
    /\ desk' = Ticked(d)
    /\ app' = IF /\ ~IsOver(desk'.game) /\ ~d.paused /\ EngineToMove(mode, d.game)
                 /\ d.game.revision # saved_revision
              THEN "thinking" ELSE "prompt"

\* The top of the loop: autosave what changed, read the clock, and let the
\* engine or the player move.
Proceed(d) ==
    /\ desk' = Ticked(d)
    /\ app' = IF ~IsOver(desk'.game) /\ ~d.paused /\ EngineToMove(mode, d.game)
              THEN "thinking" ELSE "prompt"

Autosaved(d) == [d EXCEPT !.game = Snapshot(@)]
Top ==
    /\ app = "top"
    /\ IF desk.game.revision = saved_revision
       THEN Proceed(desk) /\ UNCHANGED files
       ELSE Proceed(Autosaved(desk)) /\ Save("session", desk)
    /\ saved_revision' = desk.game.revision
    /\ UNCHANGED <<mode, focused, now>>

\* engine_move: the search used the engine's time.
EngineMove ==
    /\ app = "thinking"
    /\ app' = "top"
    /\ \/ Fell(desk) /\ desk' = Ticked(desk)
       \/ ~Fell(desk) /\ \E kind \in Kinds(desk) : desk' = PlayMove(Ticked(desk), kind)
    /\ UNCHANGED <<mode, focused, saved_revision, files, now>>

\* One input, handled at the prompt.
Prompted ==
    /\ app = "prompt" /\ app' = "top"
    /\ desk.game.revision < MaxRevision
    /\ UNCHANGED <<saved_revision, now>>
Silent == UNCHANGED <<mode, files>>

\* No input for 200 ms.
Idle == Prompted /\ Silent /\ UNCHANGED <<desk, focused>>

\* Tab moves the focus, or the open page.
Focus ==
    /\ Prompted /\ Silent
    /\ focused' \in IF desk.page THEN {focused} ELSE Controls(mode, desk)
    /\ UNCHANGED desk

\* Escape
Cancel ==
    /\ Prompted /\ Silent
    /\ focused' = "MoveInput"
    /\ desk' = IF desk.page THEN Noted(desk) ELSE Unconfirmed(WithoutMenu(Unselected(desk)))

\* Typing puts the focus back on the move box.
Type == Prompted /\ Silent /\ focused' = "MoveInput" /\ UNCHANGED desk

\* Return on a focused control, which does not read the clock.
Return ==
    /\ Prompted /\ Silent
    /\ focused \notin {"MoveInput", "Quit"}
    /\ desk' = Activate(focused, mode, desk)
    /\ UNCHANGED focused

Click ==
    /\ Prompted /\ Silent
    /\ LET d == Ticked(desk)
       IN  \/ (Fell(desk) \/ d.page) /\ desk' = Noted(d) /\ UNCHANGED focused
           \/ /\ ~Fell(desk) /\ ~d.page
              /\ \E control \in Controls(mode, desk) \ {"Quit"} :
                     focused' = control /\ desk' = Activate(control, mode, d)
           \/ /\ ~Fell(desk) /\ ~d.page
              /\ desk' \in Clicked(Unconfirmed(d))
              /\ UNCHANGED focused

\* A typed line reads the clock and puts an open page away.
Line == Noted(Ticked(desk))

Command == Prompted /\ Silent /\ desk' \in Typed(mode, Line) /\ UNCHANGED focused

SaveCommand ==
    /\ Prompted
    /\ \E path \in Paths : Save(path, Line)
    /\ desk' = Autosaved(Line)
    /\ UNCHANGED <<mode, focused>>

LoadCommand ==
    /\ Prompted
    /\ \E path \in Paths :
           /\ files[path] # None
           /\ mode' = files[path].mode
           /\ desk' = Restored(files[path])
    /\ UNCHANGED <<files, focused>>

Ends == app' = "closed" /\ mode' = "two" /\ desk' = Nothing /\ focused' = "MoveInput"
        /\ saved_revision' = 0 /\ UNCHANGED now

\* quit, the Quit control and the end of input save before the program ends.
Quit ==
    /\ app = "prompt"
    /\ \E d \in {desk, Ticked(desk), Line} : Save("session", d)
    /\ Ends

\* The terminal is closed under the program.
Kill == app # "closed" /\ UNCHANGED files /\ Ends

Loop == Top \/ EngineMove
Inputs == Idle \/ Focus \/ Cancel \/ Type \/ Return \/ Click \/ Command
          \/ SaveCommand \/ LoadCommand \/ Quit
LocalNext == Pass \/ StartGame \/ ResumeGame \/ Loop \/ Inputs \/ Kill

LocalSpec == LocalInit /\ [][LocalNext]_localVars

\* The loop keeps turning unless it waits for input.
FairLocalSpec == LocalSpec /\ WF_localVars(Loop)

----------------------------------------------------------------------------
(* Properties.                                                             *)

\* What is marked on the board, the promotion menu and a control that waits
\* for its confirmation belong to the position on the board: no later click
\* plays a move of an earlier position or confirms what another player was
\* asked (clear_marks in src/app/screen.rs).
MarksFitThePosition ==
    LET at == Position(desk.game)
        marks == desk.marks
    IN  /\ {marks.selected, marks.targets, marks.promotions} \subseteq {None, at}
        /\ marks.confirming # None => marks.confirming.at = at

\* The clock of a game that is open and not paused runs for the side to move,
\* and it runs for nobody else, whatever was undone, paused, restored or
\* imported before (GameClock and the handlers of src/app/actions.rs).  Whatever
\* ends a game but its board stops the clock.  A game that the board ended may
\* have a running one: the end of an imported game does not stop it
\* (import_pgn, src/app/pages.rs).
ClockFollowsTheGame ==
    LET running == desk.game.clock.running
    IN  /\ running # None => /\ running.side = SideToMove(desk.game) /\ ~desk.paused
                             /\ Outcome(desk.game) = BoardOutcome(desk.game)
        /\ desk.game.clock.initial # None /\ ~IsOver(desk.game) /\ ~desk.paused
               => running # None

\* Every change of a game is in the autosave before the next input is read or
\* the engine starts to think, so that closing the terminal loses none (the
\* top of the loop in src/app/local.rs).  A flag that has just fallen is saved
\* at the next turn of the loop, and a game that was only loaded from another
\* file has not changed.
OnDisk(saved) ==
    /\ saved # None
    /\ saved.start = desk.game.start /\ saved.moves = desk.game.moves
    /\ saved.mode = mode /\ saved.paused = desk.paused
    /\ saved.resigned = desk.game.resigned /\ saved.agreed_draw = desk.game.agreed_draw
    /\ saved.draw_offer = desk.game.draw_offer
ChangesAreOnDisk ==
    app \in {"prompt", "thinking"} /\ desk.game.revision # 0
        => \/ OnDisk(files["session"])
           \/ desk.game.clock.flagged # None /\ desk.game.revision # saved_revision

\* The engine answers: a game that is open, not paused and the engine's to
\* move gets its move, is ended by its clock, or the program ends.
EngineOwesAMove ==
    /\ app # "closed" /\ EngineToMove(mode, desk.game)
    /\ ~IsOver(desk.game) /\ ~desk.paused
TheEngineAnswers == EngineOwesAMove ~> ~EngineOwesAMove
==============================================================================
