--------------------------- MODULE LocalGameProofs ---------------------------
(***************************************************************************)
(* Proofs about module LocalGame, for every time control, every set of     *)
(* modes and files and games of any length: marks never outlive their      *)
(* position, the clock runs for whom it should, and with a disk that does  *)
(* not fail no change is lost when the terminal is closed.                 *)
(***************************************************************************)
EXTENDS LocalGame, GameProofs

ControlNames == {"MoveInput", "Pause", "Undo", "Draw", "Resign", "Restart", "Rematch", "Quit"}

TypeOK ==
    /\ app \in {"closed", "top", "prompt", "thinking"}
    /\ mode \in {"white", "black", "two"}
    /\ desk \in Desks
    /\ focused \in ControlNames
    /\ saved_revision \in Nat
    /\ files \in [Paths -> SavedGames \cup {None}]
    /\ now \in Nat

\* The marks of a desk are those of its position, and a paused game has no
\* promotion menu: a letter would play a move of it.
GoodMarks(d) ==
    /\ {d.marks.selected, d.marks.targets, d.marks.promotions} \subseteq {None, Position(d.game)}
    /\ d.marks.confirming # None => d.marks.confirming.at = Position(d.game)
    /\ d.marks.promotions # None => ~d.paused

\* Nothing but the board can have ended the game.
Undecided(game) ==
    /\ game.resigned = None /\ ~game.agreed_draw
    /\ game.clock.flagged = None /\ game.abandoned = None

\* An untimed clock never runs, which Pause and Resume rely on.
GoodClock(game, paused) ==
    /\ game.clock.running # None => /\ game.clock.running.side = SideToMove(game) /\ ~paused
                                    /\ Undecided(game)
    /\ game.clock.initial # None /\ ~IsOver(game) /\ ~paused => game.clock.running # None
    /\ game.clock.initial = None => game.clock.running = None

Good(d) == d \in Desks /\ GoodMarks(d) /\ GoodClock(d.game, d.paused)

\* What a saved game keeps of a desk.
SameGame(e, d) ==
    /\ e.paused = d.paused
    /\ e.game.start = d.game.start /\ e.game.moves = d.game.moves
    /\ e.game.resigned = d.game.resigned /\ e.game.draw_offer = d.game.draw_offer
    /\ e.game.agreed_draw = d.game.agreed_draw

\* e is what an operation made of d: whatever a saved game keeps changes with
\* the revision, which never falls.
Became(e, d) ==
    /\ Good(e)
    /\ \/ e.game.revision > d.game.revision
       \/ e.game.revision = d.game.revision /\ SameGame(e, d)

\* Where the loop is tells how old the autosave may be.  The revision is 0 for
\* a game that was only started or loaded.
Counted ==
    /\ app \in {"prompt", "thinking"} => desk.game.revision >= saved_revision
    /\ app = "top" => desk.game.revision >= saved_revision \/ desk.game.revision = 0
    /\ app = "thinking" => ~desk.paused

\* A game that has not changed since it was saved is the one on disk, and one
\* that has changed at the prompt was ended by its clock.
Kept ==
    /\ app # "closed" /\ desk.game.revision # 0 /\ desk.game.revision = saved_revision
           => OnDisk(files["session"])
    /\ app \in {"prompt", "thinking"} /\ desk.game.revision # saved_revision
           => desk.game.clock.flagged # None

IInv == TypeOK /\ Good(desk) /\ Counted

-----------------------------------------------------------------------------
(* The clock of a game                                                     *)

\* new is what reading the clock old made of it: it may have run out.
Read(new, old) ==
    /\ new \in Clock
    /\ new.initial = old.initial /\ new.increment = old.increment
    /\ new.running # None => /\ old.running # None /\ new.running.side = old.running.side
                             /\ new.flagged = old.flagged
    /\ old.running # None /\ new.running = None => new.flagged # None
    /\ old.flagged # None => new.flagged # None

LEMMA SyncReads ==
    ASSUME NEW c \in Clock, NEW t \in Nat
    PROVE  Read(Sync(c, t), c)
<1>1. Sync(c, t) \in Clock
  BY SyncType
<1>2. CASE c.running = None
  BY <1>1, <1>2 DEF Sync, Read
<1>3. CASE c.running # None
  <2> DEFINE side == c.running.side
             left == SaturatingSub(c.remaining[side], t - c.running.since)
             charged == [c EXCEPT !.remaining[side] = left,
                                  !.flagged = IF left = 0 THEN side ELSE @,
                                  !.running = IF left = 0 THEN None
                                              ELSE [side |-> side, since |-> t]]
  <2>1. side \in Sides
    BY <1>3 DEF Clock, Running
  <2>2. Sync(c, t) = charged
    BY <1>3, Zenon DEF Sync
  <2>3. side # None
    BY <2>1, NoneAssumption
  <2>4. [side |-> side, since |-> t] \in Running
    BY <2>1 DEF Running
  <2> HIDE DEF left, side
  <2>5. /\ charged.initial = c.initial /\ charged.increment = c.increment
        /\ charged.flagged = (IF left = 0 THEN side ELSE c.flagged)
        /\ charged.running = (IF left = 0 THEN None ELSE [side |-> side, since |-> t])
    BY DEF Clock
  <2>6. [side |-> side, since |-> t].side = side
    OBVIOUS
  <2> HIDE DEF charged
  <2>7. Sync(c, t).running # None => /\ Sync(c, t).running.side = c.running.side
                                     /\ Sync(c, t).flagged = c.flagged
    BY <2>2, <2>5, <2>6 DEF side
  <2>8. /\ Sync(c, t).running = None => Sync(c, t).flagged # None
        /\ c.flagged # None => Sync(c, t).flagged # None
    BY <2>2, <2>3, <2>4, <2>5, RunningAssumption
  <2> QED
    BY <1>1, <1>3, <2>2, <2>5, <2>7, <2>8 DEF Read
<1> QED
  BY <1>2, <1>3

LEMMA TickReads ==
    ASSUME NEW c \in Clock, NEW t \in Nat
    PROVE  Read(Tick(c, t), c)
<1>1. Read(Sync(c, t), c) /\ Sync(c, t) \in Clock
  BY SyncReads DEF Read
<1>2. SameTime(Tick(c, t), Sync(c, t)) /\ Tick(c, t) \in Clock
  BY <1>1, RememberShownSameTime, TickType DEF Tick
<1> QED
  BY <1>1, <1>2 DEF Read, SameTime

\* Reading the clock ends a game at most, and leaves the clock running for
\* whom it ran.
LEMMA ReadKeepsGood ==
    ASSUME NEW game \in GameState, NEW paused \in BOOLEAN, GoodClock(game, paused),
           NEW clock, Read(clock, game.clock)
    PROVE  LET read == [game EXCEPT !.clock = clock]
           IN  /\ read \in GameState /\ GoodClock(read, paused)
               /\ IsOver(game) => IsOver(read)
<1> DEFINE read == [game EXCEPT !.clock = clock]
<1>1. clock \in Clock
  BY DEF Read
<1>2. read \in GameState
  BY <1>1, WithClockType
<1>3. /\ read.clock = clock /\ read.start = game.start /\ read.moves = game.moves
      /\ read.resigned = game.resigned /\ read.agreed_draw = game.agreed_draw
      /\ read.abandoned = game.abandoned
  BY DEF GameState
<1> HIDE DEF read
<1>4. SideToMove(read) = SideToMove(game)
  BY <1>3 DEF SideToMove
<1>5. clock.flagged # None => IsOver(read)
  BY <1>2, <1>3, DecidedIsOver
<1>6. clock.flagged = None => SameVerdict(read, game)
  BY <1>3 DEF SameVerdict, Read
<1>7. clock.flagged = None => (IsOver(read) <=> IsOver(game))
  BY <1>6, SameVerdictSameOutcome
<1>8. GoodClock(read, paused)
  BY <1>3, <1>4, <1>5, <1>7 DEF GoodClock, Read, Undecided
<1> QED
  BY <1>2, <1>5, <1>7, <1>8 DEF read

LEMMA PauseStops ==
    ASSUME NEW c \in Clock, NEW t \in Nat
    PROVE  /\ Pause(c, t) \in Clock
           /\ Pause(c, t).running = None /\ Pause(c, t).initial = c.initial
           /\ Pause(c, t).increment = c.increment
           /\ c.flagged # None => Pause(c, t).flagged # None
<1> DEFINE stopped == [Sync(c, t) EXCEPT !.running = None]
<1>1. Read(Sync(c, t), c) /\ Sync(c, t) \in Clock
  BY SyncReads DEF Read
<1>2. stopped \in Clock /\ stopped.running = None /\ stopped.initial = Sync(c, t).initial
      /\ stopped.flagged = Sync(c, t).flagged /\ stopped.increment = Sync(c, t).increment
  BY <1>1 DEF Clock
<1>3. SameTime(Pause(c, t), stopped) /\ Pause(c, t) \in Clock
  BY <1>2, RememberShownSameTime, PauseType DEF Pause
<1> QED
  BY <1>1, <1>2, <1>3 DEF SameTime, Read

LEMMA ResumeRuns ==
    ASSUME NEW c \in Clock, NEW side \in Sides, NEW t \in Nat,
           c.initial = None => c.running = None
    PROVE  LET resumed == Resume(c, side, t)
           IN  /\ resumed \in Clock
               /\ resumed.initial = c.initial /\ resumed.increment = c.increment
               /\ c.initial = None => resumed.running = None
               /\ c.initial # None => /\ resumed.running # None /\ resumed.running.side = side
                                      /\ resumed.flagged = None
<1>1. CASE c.initial = None
  BY <1>1 DEF Resume
<1>2. CASE c.initial # None
  <2> DEFINE started == [c EXCEPT !.flagged = None, !.running = [side |-> side, since |-> t]]
  <2>1. [side |-> side, since |-> t] \in Running
    BY DEF Running
  <2>2. /\ started \in Clock /\ started.running = [side |-> side, since |-> t]
        /\ started.initial = c.initial /\ started.increment = c.increment
        /\ started.flagged = None
    BY <2>1 DEF Clock
  <2>3. started.running # None /\ started.running.side = side
    BY <2>1, <2>2, RunningAssumption
  <2>4. Resume(c, side, t) = RememberShown(started)
    BY <1>2, Zenon DEF Resume
  <2> HIDE DEF started
  <2>5. SameTime(Resume(c, side, t), started) /\ Resume(c, side, t) \in Clock
    BY <2>2, <2>4, RememberShownSameTime, RememberShownType
  <2> QED
    BY <1>2, <2>2, <2>3, <2>5 DEF SameTime
<1> QED
  BY <1>1, <1>2

LEMMA NewClockRuns ==
    ASSUME NEW initial \in Nat \cup {None}, NEW increment \in Nat, NEW side \in Sides, NEW t \in Nat
    PROVE  LET clock == NewClock(initial, increment, side, t)
           IN  /\ clock \in Clock
               /\ clock.initial = initial /\ clock.increment = increment
               /\ initial = None => clock.running = None
               /\ initial # None => clock.running # None /\ clock.running.side = side
               /\ clock.flagged = None
<1>1. [side |-> side, since |-> t] \in Running
  BY DEF Running
<1>2. [side |-> side, since |-> t] # None
  BY <1>1, RunningAssumption
<1> QED
  BY <1>2, NewClockType DEF NewClock

\* What nothing else has ended the board decides.
LEMMA UndecidedByOthers ==
    ASSUME NEW game, Undecided(game)
    PROVE  Outcome(game) = BoardOutcome(game)
BY DEF Undecided, Outcome

-----------------------------------------------------------------------------
(* Marks on a desk                                                         *)

LEMMA BecameTransitive ==
    ASSUME NEW d \in Desks, NEW m, NEW e, Became(m, d), Became(e, m)
    PROVE  Became(e, d)
<1>1. /\ d.game.revision \in Nat /\ m.game.revision \in Nat /\ e.game.revision \in Nat
  BY DEF Became, Good, Desks, GameState
<1> QED
  BY <1>1 DEF Became, SameGame

LEMMA PositionType ==
    ASSUME NEW d \in Desks
    PROVE  Position(d.game) \in Positions
BY DEF Desks, GameState, Position, Positions

\* Only the marks or the page of d changed.
LEMMA MarkedBecame ==
    ASSUME NEW d, Good(d), NEW e \in Desks, GoodMarks(e), e.game = d.game, e.paused = d.paused
    PROVE  Became(e, d)
BY DEF Became, Good, GoodClock, SameGame

LEMMA ClearedType ==
    ASSUME NEW d \in Desks
    PROVE  /\ Cleared(d) \in Desks /\ Cleared(d).game = d.game /\ Cleared(d).paused = d.paused
           /\ GoodMarks(Cleared(d))
BY DEF Cleared, Desks, Marks, NoMarks, GoodMarks

LEMMA ClearedBecame ==
    ASSUME NEW d, Good(d)
    PROVE  Became(Cleared(d), d)
BY ClearedType, MarkedBecame DEF Good

LEMMA NotedType ==
    ASSUME NEW d \in Desks
    PROVE  /\ Noted(d) \in Desks /\ Noted(d).game = d.game /\ Noted(d).paused = d.paused
           /\ Noted(d).marks = d.marks
BY DEF Noted, Desks

LEMMA NotedBecame ==
    ASSUME NEW d, Good(d)
    PROVE  Became(Noted(d), d) /\ Noted(d).paused = d.paused /\ Noted(d).game = d.game
BY NotedType, MarkedBecame DEF Good, GoodMarks

LEMMA PageBecame ==
    ASSUME NEW d, Good(d)
    PROVE  Became([d EXCEPT !.page = TRUE], d)
<1>1. /\ [d EXCEPT !.page = TRUE] \in Desks /\ [d EXCEPT !.page = TRUE].game = d.game
      /\ [d EXCEPT !.page = TRUE].paused = d.paused /\ [d EXCEPT !.page = TRUE].marks = d.marks
  BY DEF Good, Desks
<1> QED
  BY <1>1, MarkedBecame DEF Good, GoodMarks

\* What changes one mark: the others stay those of the position.
LEMMA UnconfirmedBecame ==
    ASSUME NEW d, Good(d)
    PROVE  /\ Became(Unconfirmed(d), d)
           /\ Unconfirmed(d).game = d.game /\ Unconfirmed(d).paused = d.paused
<1> DEFINE e == Unconfirmed(d)
<1>1. /\ e \in Desks /\ e.game = d.game /\ e.paused = d.paused
      /\ e.marks.selected = d.marks.selected /\ e.marks.targets = d.marks.targets
      /\ e.marks.promotions = d.marks.promotions /\ e.marks.confirming = None
  BY DEF Unconfirmed, Good, Desks, Marks
<1> HIDE DEF e
<1>2. GoodMarks(e)
  BY <1>1 DEF Good, GoodMarks
<1> QED
  BY <1>1, <1>2, MarkedBecame DEF e

LEMMA UnselectedBecame ==
    ASSUME NEW d, Good(d)
    PROVE  /\ Became(Unselected(d), d)
           /\ Unselected(d).game = d.game /\ Unselected(d).paused = d.paused
<1> DEFINE e == Unselected(d)
<1>1. /\ e \in Desks /\ e.game = d.game /\ e.paused = d.paused
      /\ e.marks.selected = None /\ e.marks.targets = None
      /\ e.marks.promotions = d.marks.promotions /\ e.marks.confirming = d.marks.confirming
  BY DEF Unselected, Good, Desks, Marks
<1> HIDE DEF e
<1>2. GoodMarks(e)
  BY <1>1 DEF Good, GoodMarks
<1> QED
  BY <1>1, <1>2, MarkedBecame DEF e

LEMMA WithoutMenuBecame ==
    ASSUME NEW d, Good(d)
    PROVE  /\ Became(WithoutMenu(d), d)
           /\ WithoutMenu(d).game = d.game /\ WithoutMenu(d).paused = d.paused
<1> DEFINE e == WithoutMenu(d)
<1>1. /\ e \in Desks /\ e.game = d.game /\ e.paused = d.paused
      /\ e.marks.selected = d.marks.selected /\ e.marks.targets = d.marks.targets
      /\ e.marks.promotions = None /\ e.marks.confirming = d.marks.confirming
  BY DEF WithoutMenu, Good, Desks, Marks
<1> HIDE DEF e
<1>2. GoodMarks(e)
  BY <1>1 DEF Good, GoodMarks
<1> QED
  BY <1>1, <1>2, MarkedBecame DEF e

LEMMA ChosenBecame ==
    ASSUME NEW d, Good(d)
    PROVE  Became(Chosen(d), d)
<1> DEFINE e == Chosen(d)
<1>1. Position(d.game) \in Positions
  BY PositionType DEF Good
<1>2. /\ e \in Desks /\ e.game = d.game /\ e.paused = d.paused
      /\ e.marks.selected = Position(d.game) /\ e.marks.targets = Position(d.game)
      /\ e.marks.promotions = d.marks.promotions /\ e.marks.confirming = d.marks.confirming
  BY <1>1 DEF Chosen, Good, Desks, Marks
<1> HIDE DEF e
<1>3. GoodMarks(e)
  BY <1>2 DEF Good, GoodMarks
<1> QED
  BY <1>2, <1>3, MarkedBecame DEF e

LEMMA MenuBecame ==
    ASSUME NEW d, Good(d), ~d.paused
    PROVE  Became(Menu(d), d)
<1> DEFINE e == Menu(d)
<1>1. Position(d.game) \in Positions
  BY PositionType DEF Good
<1>2. /\ e \in Desks /\ e.game = d.game /\ e.paused = d.paused
      /\ e.marks.selected = d.marks.selected /\ e.marks.targets = d.marks.targets
      /\ e.marks.promotions = Position(d.game) /\ e.marks.confirming = d.marks.confirming
  BY <1>1 DEF Menu, Good, Desks, Marks
<1> HIDE DEF e
<1>3. GoodMarks(e)
  BY <1>2 DEF Good, GoodMarks
<1> QED
  BY <1>2, <1>3, MarkedBecame DEF e

LEMMA HintBecame ==
    ASSUME NEW d, Good(d)
    PROVE  Became(Hint(d), d)
<1> DEFINE e == [d EXCEPT !.marks.targets = Position(d.game)]
<1>1. Position(d.game) \in Positions
  BY PositionType DEF Good
<1>2. /\ e \in Desks /\ e.game = d.game /\ e.paused = d.paused
      /\ e.marks.selected = d.marks.selected /\ e.marks.targets = Position(d.game)
      /\ e.marks.promotions = d.marks.promotions /\ e.marks.confirming = d.marks.confirming
  BY <1>1 DEF Good, Desks, Marks
<1> HIDE DEF e
<1>3. GoodMarks(e)
  BY <1>2 DEF Good, GoodMarks
<1>4. Became(e, d)
  BY <1>2, <1>3, MarkedBecame
<1> QED
  BY <1>4, NotedBecame DEF Hint, e

LEMMA AskBecame ==
    ASSUME NEW d, Good(d), NEW control \in {"Resign", "Restart"}
    PROVE  Became(Ask(d, control), d)
<1> DEFINE e == [d EXCEPT !.marks.confirming = Asked(d, control)]
<1>1. Asked(d, control) \in Confirmations /\ Asked(d, control).at = Position(d.game)
  BY PositionType DEF Good, Asked, Confirmations
<1>2. /\ e \in Desks /\ e.game = d.game /\ e.paused = d.paused
      /\ e.marks.selected = d.marks.selected /\ e.marks.targets = d.marks.targets
      /\ e.marks.promotions = d.marks.promotions /\ e.marks.confirming = Asked(d, control)
  BY <1>1 DEF Good, Desks, Marks
<1> HIDE DEF e
<1>3. GoodMarks(e)
  BY <1>1, <1>2 DEF Good, GoodMarks
<1>4. Became(e, d) /\ Became(Noted(e), e)
  BY <1>2, <1>3, MarkedBecame, NotedBecame DEF Became
<1> QED
  BY <1>4, BecameTransitive DEF Ask, e, Good

-----------------------------------------------------------------------------
(* Changes of the game                                                     *)

LEMMA WithGameDesk ==
    ASSUME NEW d \in Desks, NEW game \in GameState, NEW paused \in BOOLEAN
    PROVE  LET e == [d EXCEPT !.paused = paused, !.game = game]
           IN  e \in Desks /\ e.game = game /\ e.paused = paused /\ e.marks = d.marks
BY DEF Desks

LEMMA WithGameOnly ==
    ASSUME NEW d \in Desks, NEW game \in GameState
    PROVE  /\ [d EXCEPT !.game = game] \in Desks
           /\ [d EXCEPT !.game = game].game = game /\ [d EXCEPT !.game = game].paused = d.paused
           /\ [d EXCEPT !.game = game].marks = d.marks
BY DEF Desks

\* A change of the position has to clear the marks.
LEMMA ClearedChange ==
    ASSUME NEW d, Good(d), NEW e \in Desks, GoodClock(e.game, e.paused),
           e.game.revision > d.game.revision
    PROVE  Became(Cleared(e), d)
<1>1. /\ Cleared(e) \in Desks /\ Cleared(e).game = e.game /\ Cleared(e).paused = e.paused
      /\ GoodMarks(Cleared(e))
  BY ClearedType
<1> QED
  BY <1>1 DEF Became, Good

\* One that leaves the position alone need not.
LEMMA SamePositionChange ==
    ASSUME NEW d, Good(d), NEW e \in Desks, GoodClock(e.game, e.paused),
           e.marks = d.marks, e.paused = d.paused, Position(e.game) = Position(d.game),
           \/ e.game.revision > d.game.revision
           \/ e.game.revision = d.game.revision /\ SameGame(e, d)
    PROVE  Became(e, d)
BY DEF Became, Good, GoodMarks

\* The clock was read, and what it shows may be counted as a change.
LEMMA ReadBecame ==
    ASSUME NEW d, Good(d), NEW clock, Read(clock, d.game.clock)
    PROVE  LET read == [d.game EXCEPT !.clock = clock]
           IN  /\ Became([d EXCEPT !.game = read], d)
               /\ Became(Cleared(Changing(d, read)), d)
<1> DEFINE read == [d.game EXCEPT !.clock = clock]
<1>1. d \in Desks /\ d.game \in GameState /\ d.paused \in BOOLEAN /\ GoodClock(d.game, d.paused)
  BY DEF Good, Desks
<1>2. read \in GameState /\ GoodClock(read, d.paused)
  BY <1>1, ReadKeepsGood
<1>3. /\ read.start = d.game.start /\ read.moves = d.game.moves
      /\ read.resigned = d.game.resigned /\ read.draw_offer = d.game.draw_offer
      /\ read.agreed_draw = d.game.agreed_draw /\ read.revision = d.game.revision
  BY <1>1 DEF GameState
<1> HIDE DEF read
<1>4. Became([d EXCEPT !.game = read], d)
  <2>1. Position(read) = Position(d.game)
    BY <1>3 DEF Position
  <2> QED
    BY <1>1, <1>2, <1>3, <2>1, WithGameOnly, SamePositionChange DEF SameGame
<1>5. Became(Cleared(Changing(d, read)), d)
  <2>1. /\ Changed(read) \in GameState /\ Changed(read).clock = read.clock
        /\ Changed(read).revision = read.revision + 1 /\ read.revision \in Nat
        /\ SameVerdict(Changed(read), read)
    BY <1>2 DEF Changed, GameState, SameVerdict
  <2>2. GoodClock(Changed(read), d.paused)
    BY <1>2, <2>1, SameVerdictSameOutcome DEF GoodClock, Undecided, SameVerdict
  <2>3. Changed(read).revision > d.game.revision
    BY <1>3, <2>1
  <2> QED
    BY <1>1, <2>1, <2>2, <2>3, WithGameOnly, ClearedChange DEF Changing
<1> QED
  BY <1>4, <1>5 DEF read

\* A flag that has just fallen is a change, and the only one that reading the
\* clock makes.
LEMMA TickedBecame ==
    ASSUME NEW d, Good(d), now \in Nat
    PROVE  /\ Became(Ticked(d), d)
           /\ Ticked(d).paused = d.paused /\ SameGame(Ticked(d), d)
           /\ Ticked(d).game.revision # d.game.revision => Ticked(d).game.clock.flagged # None
           /\ IsOver(d.game) => IsOver(Ticked(d).game)
           /\ ~Fell(d) => Position(Ticked(d).game) = Position(d.game)
<1> DEFINE game == [d.game EXCEPT !.clock = Tick(@, now)]
           clock == Tick(d.game.clock, now)
<1>1. d \in Desks /\ d.game \in GameState /\ d.paused \in BOOLEAN /\ GoodClock(d.game, d.paused)
  BY DEF Good, Desks
<1>2. Read(clock, d.game.clock)
  BY <1>1, TickReads DEF GameState
<1>3. /\ game \in GameState /\ game.clock = clock
      /\ game.start = d.game.start /\ game.moves = d.game.moves
      /\ game.resigned = d.game.resigned /\ game.draw_offer = d.game.draw_offer
      /\ game.agreed_draw = d.game.agreed_draw /\ game.revision = d.game.revision
      /\ IsOver(d.game) => IsOver(game)
  <2>1. game \in GameState /\ (IsOver(d.game) => IsOver(game))
    BY <1>1, <1>2, ReadKeepsGood
  <2> QED
    BY <1>1, <2>1 DEF GameState
<1>4. Became([d EXCEPT !.game = game], d) /\ Became(Cleared(Changing(d, game)), d)
  BY <1>2, ReadBecame
<1>5. Position(game) = Position(d.game)
  BY <1>3 DEF Position
<1> HIDE DEF game, clock
<1>6. CASE Fell(d)
  <2> DEFINE changed == Changing(d, game)
             cleared == Cleared(changed)
  <2>1. Ticked(d) = Noted(cleared)
    BY <1>6 DEF Ticked, game
  <2>2. /\ Changed(game) \in GameState /\ Changed(game).clock = game.clock
        /\ Changed(game).draw_offer = game.draw_offer /\ SameVerdict(Changed(game), game)
    BY <1>3 DEF Changed, GameState, SameVerdict
  <2>3. changed \in Desks /\ changed.game = Changed(game) /\ changed.paused = d.paused
    BY <1>1, <2>2, WithGameOnly DEF Changing
  <2> HIDE DEF changed
  <2>4. cleared \in Desks /\ cleared.game = Changed(game) /\ cleared.paused = d.paused
    BY <2>3, ClearedType
  <2>5. Became(cleared, d)
    BY <1>4 DEF changed
  <2> HIDE DEF cleared
  <2>6. /\ Became(Noted(cleared), cleared) /\ Noted(cleared).game = Changed(game)
        /\ Noted(cleared).paused = d.paused
    BY <2>4, <2>5, NotedBecame DEF Became
  <2>7. clock.flagged # None
    BY <1>6 DEF Fell, clock
  <2>8. IsOver(d.game) => IsOver(Changed(game))
    BY <1>3, <2>2, SameVerdictSameOutcome
  <2>9. Became(Ticked(d), d)
    BY <1>1, <2>1, <2>5, <2>6, BecameTransitive
  <2> QED
    BY <1>3, <1>6, <2>1, <2>2, <2>6, <2>7, <2>8, <2>9 DEF SameGame, SameVerdict
<1>7. CASE ~Fell(d)
  <2>1. Ticked(d) = [d EXCEPT !.game = game]
    BY <1>7 DEF Ticked, game
  <2>2. Ticked(d).game = game /\ Ticked(d).paused = d.paused
    BY <1>1, <1>3, <2>1, WithGameOnly
  <2> QED
    BY <1>3, <1>4, <1>5, <2>1, <2>2 DEF SameGame
<1> QED
  BY <1>6, <1>7

\* Saving reads the clock as well, and counts no change.
LEMMA AutosavedBecame ==
    ASSUME NEW d, Good(d), now \in Nat
    PROVE  /\ Became(Autosaved(d), d) /\ SameGame(Autosaved(d), d)
           /\ Autosaved(d).game.revision = d.game.revision
           /\ d.game.clock.flagged # None => Autosaved(d).game.clock.flagged # None
<1> DEFINE game == [d.game EXCEPT !.clock = Sync(@, now)]
<1>1. d \in Desks /\ d.game \in GameState /\ d.paused \in BOOLEAN /\ GoodClock(d.game, d.paused)
  BY DEF Good, Desks
<1>2. Read(Sync(d.game.clock, now), d.game.clock)
  BY <1>1, SyncReads DEF GameState
<1>3. /\ game \in GameState /\ game.clock = Sync(d.game.clock, now)
      /\ game.start = d.game.start /\ game.moves = d.game.moves
      /\ game.resigned = d.game.resigned /\ game.draw_offer = d.game.draw_offer
      /\ game.agreed_draw = d.game.agreed_draw /\ game.revision = d.game.revision
  <2>1. game \in GameState
    BY <1>1, <1>2, ReadKeepsGood
  <2> QED
    BY <1>1, <2>1 DEF GameState
<1>4. Became([d EXCEPT !.game = game], d)
  BY <1>2, ReadBecame
<1> HIDE DEF game
<1>5. Autosaved(d) = [d EXCEPT !.game = game]
  BY DEF Autosaved, Snapshot, game
<1>6. Autosaved(d).game = game /\ Autosaved(d).paused = d.paused
  BY <1>1, <1>3, <1>5, WithGameOnly
<1> QED
  BY <1>2, <1>3, <1>4, <1>5, <1>6 DEF SameGame, Read

\* A game ended by agreement or by a resignation stops its clock.
LEMMA EndedBecame ==
    ASSUME NEW d, Good(d), now \in Nat, NEW game \in GameState,
           Position(game) = Position(d.game), game.clock = d.game.clock,
           game.revision = d.game.revision, game.resigned # None \/ game.agreed_draw
    PROVE  Became(Ended(d, game), d) /\ Became(Cleared(Ended(d, game)), d)
<1> DEFINE stopped == [game EXCEPT !.clock = Pause(@, now)]
<1>1. /\ stopped \in GameState /\ stopped.clock = Pause(game.clock, now)
      /\ stopped.start = game.start /\ stopped.moves = game.moves
      /\ stopped.resigned = game.resigned /\ stopped.agreed_draw = game.agreed_draw
      /\ stopped.revision = game.revision /\ game.clock \in Clock
  BY PauseType DEF GameState
<1> HIDE DEF stopped
<1>2. /\ Changed(stopped) \in GameState /\ Changed(stopped).clock = stopped.clock
      /\ Changed(stopped).resigned = game.resigned /\ Changed(stopped).agreed_draw = game.agreed_draw
      /\ Changed(stopped).revision = game.revision + 1 /\ game.revision \in Nat
      /\ Position(Changed(stopped)) = Position(game)
  BY <1>1 DEF Changed, GameState, Position
<1>3. IsOver(Changed(stopped))
  BY <1>2, DecidedIsOver
<1>4. GoodClock(Changed(stopped), d.paused)
  <2>1. game.clock \in Clock
    BY <1>1
  <2>2. Pause(game.clock, now).running = None
    BY <2>1, PauseStops
  <2>3. Changed(stopped).clock = Pause(game.clock, now)
    BY <1>1, <1>2
  <2>4. Changed(stopped).clock.running = None
    BY <2>2, <2>3
  <2> QED
    BY <1>3, <2>4 DEF GoodClock
<1>5. /\ Ended(d, game) \in Desks /\ Ended(d, game).game = Changed(stopped)
      /\ Ended(d, game).paused = d.paused /\ Ended(d, game).marks = d.marks
  BY <1>2, WithGameOnly DEF Good, Ended, Changing, stopped
<1>6. Changed(stopped).revision > d.game.revision
  BY <1>2
<1> QED
  BY <1>2, <1>4, <1>5, <1>6, SamePositionChange, ClearedChange

LEMMA PausedStaysOver ==
    ASSUME NEW game \in GameState, NEW t \in Nat, NEW paused, IsOver(game)
    PROVE  LET stopped == [game EXCEPT !.clock = Pause(@, t)]
           IN  /\ stopped \in GameState /\ stopped.revision = game.revision
               /\ IsOver(stopped) /\ GoodClock(stopped, paused)
<1> DEFINE stopped == [game EXCEPT !.clock = Pause(@, t)]
<1>1. game.clock \in Clock
  BY DEF GameState
<1>2. /\ stopped \in GameState /\ stopped.clock = Pause(game.clock, t)
      /\ stopped.start = game.start /\ stopped.moves = game.moves
      /\ stopped.resigned = game.resigned /\ stopped.agreed_draw = game.agreed_draw
      /\ stopped.abandoned = game.abandoned /\ stopped.revision = game.revision
  BY <1>1, PauseType DEF GameState
<1> HIDE DEF stopped
<1>3. IsOver(stopped)
  <2>1. CASE stopped.clock.flagged # None
    BY <1>2, <2>1, DecidedIsOver
  <2>2. CASE stopped.clock.flagged = None
    <3>1. SameVerdict(stopped, game)
      BY <1>1, <1>2, <2>2, PauseStops DEF SameVerdict
    <3> QED
      BY <3>1, SameVerdictSameOutcome
  <2> QED
    BY <2>1, <2>2
<1>4. GoodClock(stopped, paused)
  BY <1>1, <1>2, <1>3, PauseStops DEF GoodClock
<1> QED
  BY <1>2, <1>3, <1>4 DEF stopped

\* After a move that no flag fell on, the clock runs for the other side.
LEMMA CompleteMoveRuns ==
    ASSUME NEW c \in Clock, NEW mover \in Sides, NEW next \in Sides, NEW t \in Nat,
           c.initial = None => c.running = None
    PROVE  LET moved == CompleteMove(c, mover, next, t)
           IN  /\ moved \in Clock /\ moved.initial = c.initial
               /\ c.initial = None => moved.running = None
               /\ c.initial # None /\ moved.flagged = None
                      => moved.running # None /\ moved.running.side = next
<1> DEFINE synced == Sync(c, t)
           started == [side |-> next, since |-> t]
           charged == [synced EXCEPT !.remaining[mover] = @ + synced.increment,
                                     !.running = started]
<1>1. synced \in Clock /\ Read(synced, c)
  BY SyncReads DEF Read
<1>2. started \in Running /\ started # None /\ started.side = next
  BY RunningAssumption DEF Running
<1>3. CompleteMove(c, mover, next, t) \in Clock
  BY CompleteMoveType
<1>4. CASE synced.flagged # None \/ synced.initial = None
  <2>1. CompleteMove(c, mover, next, t) = synced
    BY <1>4 DEF CompleteMove
  <2> QED
    BY <1>1, <1>3, <1>4, <2>1 DEF Read
<1>5. CASE ~(synced.flagged # None \/ synced.initial = None)
  <2>1. CompleteMove(c, mover, next, t) = RememberShown(charged)
    BY <1>5 DEF CompleteMove
  <2>2. synced.remaining[mover] + synced.increment \in Nat
    BY <1>1 DEF Clock
  <2> HIDE DEF synced, started
  <2>3. charged \in Clock /\ charged.running = started /\ charged.initial = synced.initial
    BY <1>1, <1>2, <2>2 DEF Clock
  <2> HIDE DEF charged
  <2>4. SameTime(RememberShown(charged), charged)
    BY <2>3, RememberShownSameTime
  <2> QED
    BY <1>1, <1>2, <1>3, <1>5, <2>1, <2>3, <2>4 DEF Read, SameTime
<1> QED
  BY <1>4, <1>5

LEMMA PlayMoveBecame ==
    ASSUME NEW d, Good(d), now \in Nat, NEW kind \in MoveKinds, ~d.paused
    PROVE  Became(PlayMove(d, kind), d)
<1> DEFINE mover == SideToMove(d.game)
           game == Play(d.game, kind, now)
           stopped == [game EXCEPT !.clock = Pause(@, now)]
           next == IF IsOver(game) THEN stopped ELSE game
           e == [d EXCEPT !.game = next]
<1>1. d \in Desks /\ d.game \in GameState /\ d.game.clock \in Clock /\ d.paused = FALSE
  BY DEF Good, Desks, GameState
<1>2. mover \in Sides /\ Flip(mover) \in Sides
  BY <1>1, SideToMoveType, FlipIsOther
<1>3. game \in GameState
  BY <1>1, PlayType
<1>4. /\ game.start = d.game.start /\ game.moves = Append(d.game.moves, kind)
      /\ game.clock = CompleteMove(d.game.clock, mover, Flip(mover), now)
      /\ game.revision = d.game.revision + 1
  BY <1>1 DEF Play, Changed, GameState
<1>5. SideToMove(game) = Flip(mover)
  BY <1>1, <1>4, MoverFlips
<1>6. d.game.clock.initial = None => d.game.clock.running = None
  BY DEF Good, GoodClock
<1>7. d.game.revision \in Nat
  BY <1>1 DEF GameState
<1>8. CompleteMove(d.game.clock, mover, Flip(mover), now).flagged # None => IsOver(game)
  BY <1>3, <1>4, DecidedIsOver
<1> HIDE DEF game, mover
<1>9. next \in GameState /\ next.revision > d.game.revision /\ GoodClock(next, FALSE)
  <2>1. CASE IsOver(game)
    <3>1. /\ stopped \in GameState /\ stopped.revision = game.revision
          /\ GoodClock(stopped, FALSE)
      BY <1>3, <2>1, PausedStaysOver
    <3> HIDE DEF stopped
    <3>2. next = stopped
      BY <2>1
    <3>3. game.revision > d.game.revision
      BY <1>4, <1>7
    <3> HIDE DEF next
    <3> QED
      BY <3>1, <3>2, <3>3
  <2>2. CASE ~IsOver(game)
    <3>1. game.clock.flagged = None
      BY <1>4, <1>8, <2>2
    <3>2. /\ game.clock.initial = None => game.clock.running = None
          /\ game.clock.initial # None => game.clock.running # None
                                          /\ game.clock.running.side = Flip(mover)
      BY <1>1, <1>2, <1>4, <1>6, <3>1, CompleteMoveRuns
    <3>3. Undecided(game)
      BY <1>3, <2>2, DecidedIsOver DEF Undecided, GameState
    <3>4. GoodClock(game, FALSE)
      BY <1>5, <2>2, <3>2, <3>3 DEF GoodClock
    <3>5. next = game
      BY <2>2
    <3>6. game.revision > d.game.revision
      BY <1>4, <1>7
    <3> HIDE DEF next
    <3> QED
      BY <1>3, <3>4, <3>5, <3>6
  <2> QED
    BY <2>1, <2>2
<1> HIDE DEF next
<1>10. e \in Desks /\ e.game = next /\ e.paused = FALSE
  BY <1>1, <1>9, WithGameOnly
<1>11. Became(Cleared(e), d)
  BY <1>9, <1>10, ClearedChange
<1>12. PlayMove(d, kind) = Cleared(e)
  BY DEF PlayMove, next, stopped, game
<1> QED
  BY <1>11, <1>12

\* What is left of a game after undo is a game, and shorter.
LEMMA TakenBackShortens ==
    ASSUME NEW game \in GameState, NEW who, game.moves # <<>>
    PROVE  /\ TakenBack(who, game) \in Seq(MoveKinds)
           /\ Len(TakenBack(who, game)) \in Nat /\ Len(game.moves) \in Nat
           /\ Len(TakenBack(who, game)) < Len(game.moves)
<1> DEFINE plies == IF who = "two" \/ Len(game.moves) = 1 THEN 1 ELSE 2
           n == Len(game.moves)
<1>1. game.moves \in Seq(MoveKinds) /\ n \in Nat /\ n > 0
  BY DEF GameState
<1>2. plies \in {1, 2} /\ (n = 1 => plies = 1)
  OBVIOUS
<1>3. TakenBack(who, game) = SubSeq(game.moves, 1, n - plies)
  BY DEF TakenBack
<1> HIDE DEF plies
<1>4. n - plies \in Nat /\ n - plies < n
  <2> HIDE DEF n
  <2>1. plies = 1 \/ (plies = 2 /\ n # 1)
    BY <1>2
  <2> QED
    BY <1>1, <2>1
<1> DEFINE m == n - plies
<1>5. m \in Nat /\ m < n /\ TakenBack(who, game) = SubSeq(game.moves, 1, m)
  BY <1>3, <1>4
<1> HIDE DEF m
<1>6. SubSeq(game.moves, 1, m) \in Seq(MoveKinds) /\ Len(SubSeq(game.moves, 1, m)) = m
  BY <1>1, <1>5
<1> QED
  BY <1>1, <1>5, <1>6

LEMMA UndoBecame ==
    ASSUME NEW d, Good(d), now \in Nat, NEW who
    PROVE  Became(Undo(who, d), d)
<1> DEFINE left == TakenBack(who, d.game)
           game == [d.game EXCEPT
                       !.moves = left, !.resigned = None, !.draw_offer = None,
                       !.agreed_draw = FALSE, !.abandoned = None,
                       !.revision = @ + Len(d.game.moves) - Len(left)]
           next == [game EXCEPT !.clock =
                       IF d.paused THEN @ ELSE Resume(@, SideToMove(game), now)]
           e == [d EXCEPT !.game = next]
<1>1. d \in Desks /\ d.game \in GameState /\ d.paused \in BOOLEAN
  BY DEF Good, Desks
<1>2. CASE d.game.moves = <<>>
  <2>1. Undo(who, d) = Noted(d)
    BY <1>2 DEF Undo
  <2> QED
    BY <2>1, NotedBecame
<1>3. CASE d.game.moves # <<>>
  <2>1. /\ left \in Seq(MoveKinds) /\ Len(left) \in Nat /\ Len(d.game.moves) \in Nat
        /\ Len(left) < Len(d.game.moves)
    BY <1>1, <1>3, TakenBackShortens
  <2>2. Undo(who, d) = Noted(Cleared(e))
    BY <1>3 DEF Undo
  <2> DEFINE count == d.game.revision + Len(d.game.moves) - Len(left)
  <2>3. d.game.revision \in Nat
    BY <1>1 DEF GameState
  <2>4. count \in Nat /\ count > d.game.revision
    <3> HIDE DEF left
    <3> QED
      BY <2>1, <2>3
  <2>5. /\ game \in GameState /\ game.clock = d.game.clock /\ game.clock \in Clock
        /\ game.revision = count
    <3> HIDE DEF left, count
    <3>1. game = [d.game EXCEPT !.moves = left, !.resigned = None, !.draw_offer = None,
                                !.agreed_draw = FALSE, !.abandoned = None, !.revision = count]
      BY DEF count
    <3> QED
      BY <1>1, <2>1, <2>4, <3>1 DEF GameState
  <2>51. game.resigned = None /\ ~game.agreed_draw /\ game.abandoned = None
    BY <1>1 DEF GameState
  <2> HIDE DEF game, count
  <2>6. /\ game.clock.initial = None => game.clock.running = None
        /\ d.paused => game.clock.running = None
    BY <2>5 DEF Good, GoodClock
  <2>7. SideToMove(game) \in Sides
    BY <2>5, SideToMoveType
  <2> DEFINE clock == IF d.paused THEN game.clock ELSE Resume(game.clock, SideToMove(game), now)
  <2>8. /\ clock \in Clock
        /\ clock.initial = None => clock.running = None
        /\ d.paused => clock.running = None
        /\ ~d.paused /\ clock.initial # None
               => /\ clock.running # None /\ clock.running.side = SideToMove(game)
                  /\ clock.flagged = None
    BY <2>5, <2>6, <2>7, ResumeRuns
  <2>9. next = [game EXCEPT !.clock = clock]
    BY <2>5 DEF GameState
  <2> HIDE DEF clock
  <2>10. /\ next \in GameState /\ next.clock = clock /\ next.revision = count
         /\ SideToMove(next) = SideToMove(game)
         /\ next.resigned = None /\ ~next.agreed_draw /\ next.abandoned = None
    BY <2>5, <2>51, <2>8, <2>9 DEF GameState, SideToMove
  <2> HIDE DEF next
  <2>11. GoodClock(next, d.paused)
    BY <1>1, <2>8, <2>10 DEF GoodClock, Undecided
  <2>12. e \in Desks /\ e.game = next /\ e.paused = d.paused
    BY <1>1, <2>10, WithGameOnly
  <2>13. Became(Cleared(e), d)
    BY <2>4, <2>10, <2>11, <2>12, ClearedChange
  <2>14. Became(Noted(Cleared(e)), Cleared(e))
    BY <2>13, NotedBecame DEF Became
  <2> QED
    BY <1>1, <2>2, <2>13, <2>14, BecameTransitive
<1> QED
  BY <1>2, <1>3

LEMMA NotedAfter ==
    ASSUME NEW d \in Desks, NEW e, Became(e, d)
    PROVE  Became(Noted(e), d)
<1>1. Good(e)
  BY DEF Became
<1>2. Became(Noted(e), e)
  BY <1>1, NotedBecame
<1> QED
  BY <1>2, BecameTransitive

FreshGame(start, initial, increment, revision, t) ==
    [NewGame(start, initial, increment, t) EXCEPT !.revision = revision]

\* The clock of a new game runs for the side to move, if it is timed.
LEMMA NewGameGood ==
    ASSUME NEW start \in Sides, NEW initial \in Nat \cup {None}, NEW increment \in Nat,
           NEW t \in Nat, NEW revision \in Nat
    PROVE  LET game == FreshGame(start, initial, increment, revision, t)
           IN  game \in GameState /\ GoodClock(game, FALSE) /\ game.revision = revision
<1> DEFINE fresh == NewGame(start, initial, increment, t)
           game == [fresh EXCEPT !.revision = revision]
<1>1. /\ fresh \in GameState /\ fresh.clock = NewClock(initial, increment, start, t)
      /\ fresh.moves = <<>> /\ fresh.start = start
      /\ fresh.resigned = None /\ ~fresh.agreed_draw /\ fresh.abandoned = None
  BY NewGameType DEF NewGame
<1> HIDE DEF fresh
<1>2. /\ game \in GameState /\ game.clock = fresh.clock /\ game.moves = <<>>
      /\ game.start = start /\ game.revision = revision
      /\ game.resigned = None /\ ~game.agreed_draw /\ game.abandoned = None
  BY <1>1 DEF GameState
<1> HIDE DEF game
<1>3. SideToMove(game) = start
  BY <1>2 DEF SideToMove
<1>4. GoodClock(game, FALSE)
  <2> DEFINE clock == NewClock(initial, increment, start, t)
  <2>1. /\ clock.initial = initial
        /\ initial = None => clock.running = None
        /\ initial # None => clock.running # None /\ clock.running.side = start
        /\ clock.flagged = None
    BY NewClockRuns
  <2>2. game.clock = clock
    BY <1>1, <1>2
  <2> HIDE DEF clock
  <2> QED
    BY <1>2, <1>3, <2>1, <2>2 DEF GoodClock, Undecided
<1> QED
  BY <1>2, <1>4 DEF game, fresh, FreshGame

LEMMA RestartBecame ==
    ASSUME NEW d, Good(d), now \in Nat
    PROVE  Became(Restart(d), d)
<1> DEFINE count == d.game.revision + 1
           game == [NewGame(d.game.start, d.game.clock.initial, d.game.clock.increment, now)
                        EXCEPT !.revision = count]
           e == [d EXCEPT !.paused = FALSE, !.game = game]
<1>1. /\ d \in Desks /\ d.game.start \in Sides /\ d.game.revision \in Nat
      /\ d.game.clock.initial \in Nat \cup {None} /\ d.game.clock.increment \in Nat
  BY DEF Good, Desks, GameState, Clock
<1>2. count \in Nat /\ count > d.game.revision
  BY <1>1
<1>3. game \in GameState /\ GoodClock(game, FALSE) /\ game.revision = count
  <2> DEFINE start == d.game.start
             initial == d.game.clock.initial
             increment == d.game.clock.increment
  <2>1. game = FreshGame(start, initial, increment, count, now)
    BY DEF FreshGame
  <2>2. start \in Sides /\ initial \in Nat \cup {None} /\ increment \in Nat
    BY <1>1
  <2> HIDE DEF game, count, start, initial, increment
  <2> QED
    BY <1>2, <2>1, <2>2, NewGameGood
<1>4. Restart(d) = Noted(Cleared(e))
  BY DEF Restart
<1> HIDE DEF game, count
<1>5. e \in Desks /\ e.game = game /\ e.paused = FALSE
  BY <1>1, <1>3, WithGameDesk
<1> HIDE DEF e
<1>6. Became(Cleared(e), d)
  BY <1>2, <1>3, <1>5, ClearedChange
<1> QED
  BY <1>1, <1>4, <1>6, NotedAfter

LEMMA TogglePauseBecame ==
    ASSUME NEW d, Good(d), now \in Nat, ~IsOver(d.game)
    PROVE  Became(Cleared(TogglePause(d)), d)
<1> DEFINE side == SideToMove(d.game)
           clock == IF d.paused THEN Resume(d.game.clock, side, now)
                                ELSE Pause(d.game.clock, now)
           game == [d.game EXCEPT !.clock = clock]
           e == TogglePause(d)
<1>1. /\ d \in Desks /\ d.game \in GameState /\ d.game.clock \in Clock /\ d.paused \in BOOLEAN
      /\ side \in Sides /\ (d.game.clock.initial = None => d.game.clock.running = None)
  BY SideToMoveType DEF Good, GoodClock, Desks, GameState
<1>2. /\ clock \in Clock
      /\ clock.initial = None => clock.running = None
      /\ ~d.paused => clock.running = None
      /\ d.paused /\ clock.initial # None => /\ clock.running # None /\ clock.running.side = side
                                             /\ clock.flagged = None
  BY <1>1, PauseStops, ResumeRuns
<1>3. game = [d.game EXCEPT !.clock =
                 IF d.paused THEN Resume(@, side, now) ELSE Pause(@, now)]
  BY <1>1 DEF GameState
<1> HIDE DEF clock
<1>4. /\ game \in GameState /\ game.clock = clock /\ game.revision = d.game.revision
      /\ game.start = d.game.start /\ game.moves = d.game.moves
      /\ game.resigned = None /\ ~game.agreed_draw /\ game.abandoned = None
  BY <1>1, <1>2, DecidedIsOver DEF GameState
<1> HIDE DEF game
<1>5. /\ Changed(game) \in GameState /\ Changed(game).clock = clock
      /\ Changed(game).revision = game.revision + 1 /\ game.revision \in Nat
      /\ Changed(game).start = d.game.start /\ Changed(game).moves = d.game.moves
      /\ Changed(game).resigned = None /\ ~Changed(game).agreed_draw
      /\ Changed(game).abandoned = None
  BY <1>4 DEF Changed, GameState
<1>6. SideToMove(Changed(game)) = side
  BY <1>5 DEF SideToMove
<1>7. GoodClock(Changed(game), ~d.paused)
  BY <1>1, <1>2, <1>5, <1>6 DEF GoodClock, Undecided
<1>8. e \in Desks /\ e.game = Changed(game) /\ e.paused = ~d.paused
  <2>1. e = [Changing(d, game) EXCEPT !.paused = ~@]
    BY <1>3 DEF TogglePause
  <2>2. /\ Changing(d, game) \in Desks /\ Changing(d, game).game = Changed(game)
        /\ Changing(d, game).paused = d.paused
    BY <1>1, <1>5, WithGameOnly DEF Changing
  <2> HIDE DEF e
  <2> QED
    BY <1>1, <2>1, <2>2 DEF Desks
<1>9. Changed(game).revision > d.game.revision
  BY <1>4, <1>5
<1> HIDE DEF e
<1>10. Became(Cleared(e), d)
  BY <1>7, <1>8, <1>9, ClearedChange
<1> QED
  BY <1>10 DEF e

-----------------------------------------------------------------------------
(* The controls                                                            *)

LEMMA SelfBecame ==
    ASSUME NEW d, Good(d)
    PROVE  Became(d, d)
BY DEF Became, SameGame

LEMMA PauseControlBecame ==
    ASSUME NEW d, Good(d), now \in Nat
    PROVE  Became(PauseControl(d), d)
<1>1. d \in Desks
  BY DEF Good
<1>2. /\ Became(d, d)
      /\ ~IsOver(d.game) => Became(Cleared(TogglePause(d)), d)
  BY SelfBecame, TogglePauseBecame
<1>3. ~IsOver(d.game) => Became(Noted(Cleared(TogglePause(d))), d)
  BY <1>1, <1>2, NotedAfter
<1> QED
  BY <1>2, <1>3 DEF PauseControl

LEMMA ResignationBecame ==
    ASSUME NEW d, Good(d), now \in Nat
    PROVE  LET resigned == Ended(d, [d.game EXCEPT !.resigned = SideToMove(d.game)])
           IN  Became(resigned, d) /\ Became(Cleared(resigned), d)
<1> DEFINE side == SideToMove(d.game)
           game == [d.game EXCEPT !.resigned = side]
<1>1. d.game \in GameState /\ side \in Sides /\ side # None
  BY SideToMoveType, NoneAssumption DEF Good, Desks
<1> HIDE DEF side
<1>2. /\ game \in GameState /\ game.resigned = side /\ game.clock = d.game.clock
      /\ game.revision = d.game.revision /\ Position(game) = Position(d.game)
  BY <1>1 DEF GameState, Position
<1> HIDE DEF game
<1>3. Became(Ended(d, game), d) /\ Became(Cleared(Ended(d, game)), d)
  BY <1>1, <1>2, EndedBecame
<1> QED
  BY <1>3 DEF game, side

LEMMA ResignControlBecame ==
    ASSUME NEW d, Good(d), now \in Nat
    PROVE  Became(ResignControl(d), d)
BY ResignationBecame, AskBecame DEF ResignControl

LEMMA RestartControlBecame ==
    ASSUME NEW d, Good(d), now \in Nat
    PROVE  Became(RestartControl(d), d)
BY RestartBecame, AskBecame DEF RestartControl

\* The first offer is recorded, the answer to it ends the game.
LEMMA DrawControlBecame ==
    ASSUME NEW d, Good(d), now \in Nat, NEW who
    PROVE  Became(DrawControl(who, d), d)
<1> DEFINE side == SideToMove(d.game)
           plain == Unconfirmed(d)
           offered == [d.game EXCEPT !.draw_offer = side]
           agreed == [d.game EXCEPT !.agreed_draw = TRUE, !.draw_offer = None]
<1>1. /\ d \in Desks /\ d.game \in GameState /\ d.paused \in BOOLEAN
      /\ side \in Sides /\ GoodClock(d.game, d.paused)
  BY SideToMoveType DEF Good, Desks
<1>2. Became(plain, d) /\ Good(plain) /\ plain.game = d.game /\ plain.paused = d.paused
  BY UnconfirmedBecame DEF Became
<1> HIDE DEF side, plain
<1>3. Became(Noted(plain), d)
  BY <1>1, <1>2, NotedAfter
<1>4. Became(Noted(Changing(plain, offered)), d)
  <2>1. /\ offered \in GameState /\ offered.clock = d.game.clock
        /\ offered.revision = d.game.revision /\ SameVerdict(offered, d.game)
    BY <1>1 DEF GameState, SameVerdict
  <2> HIDE DEF offered
  <2>2. /\ Changed(offered) \in GameState /\ Changed(offered).clock = d.game.clock
        /\ Changed(offered).revision = d.game.revision + 1 /\ d.game.revision \in Nat
        /\ SameVerdict(Changed(offered), d.game)
    BY <2>1 DEF Changed, GameState, SameVerdict
  <2>3. /\ GoodClock(Changed(offered), d.paused)
        /\ Position(Changed(offered)) = Position(d.game)
    BY <1>1, <2>2, SameVerdictSameOutcome DEF GoodClock, Position, SameVerdict, Undecided
  <2>4. /\ Changing(plain, offered) \in Desks /\ Changing(plain, offered).game = Changed(offered)
        /\ Changing(plain, offered).paused = d.paused
        /\ Changing(plain, offered).marks = plain.marks
    BY <1>2, <2>2, WithGameOnly DEF Changing, Good
  <2>5. Changed(offered).revision > plain.game.revision
    BY <1>2, <2>2
  <2>6. Became(Changing(plain, offered), plain)
    BY <1>2, <2>3, <2>4, <2>5, SamePositionChange
  <2>7. Became(Changing(plain, offered), d)
    BY <1>1, <1>2, <2>6, BecameTransitive
  <2> QED
    BY <1>1, <2>7, NotedAfter
<1>5. Became(Cleared(Ended(d, agreed)), d)
  <2>1. /\ agreed \in GameState /\ agreed.agreed_draw /\ agreed.clock = d.game.clock
        /\ agreed.revision = d.game.revision /\ Position(agreed) = Position(d.game)
    BY <1>1 DEF GameState, Position
  <2> HIDE DEF agreed
  <2> QED
    BY <2>1, EndedBecame
<1> QED
  BY <1>3, <1>4, <1>5 DEF DrawControl, side, plain

LEMMA ActivateBecame ==
    ASSUME NEW d, Good(d), now \in Nat, NEW who, NEW control
    PROVE  Became(Activate(control, who, d), d)
<1>1. d \in Desks /\ Became(Unconfirmed(d), d) /\ Good(Unconfirmed(d))
  BY UnconfirmedBecame DEF Became, Good
<1>2. Became(Undo(who, Unconfirmed(d)), Unconfirmed(d))
  BY <1>1, UndoBecame
<1>3. Became(Undo(who, Unconfirmed(d)), d)
  BY <1>1, <1>2, BecameTransitive
<1> QED
  BY <1>3, SelfBecame, PauseControlBecame, DrawControlBecame, ResignControlBecame,
     RestartControlBecame, RestartBecame
     DEF Activate

-----------------------------------------------------------------------------
(* The board and the typed commands                                        *)

LEMMA KindsAreMoves ==
    ASSUME NEW d
    PROVE  Kinds(d) \subseteq MoveKinds
BY DEF Kinds, MoveKinds

LEMMA ClickedBecame ==
    ASSUME NEW d, Good(d), now \in Nat, NEW e \in Clicked(d)
    PROVE  Became(e, d)
<1> DEFINE outside == IF d.marks.selected = None THEN d ELSE WithoutMenu(Unselected(d))
           square == WithoutMenu(d)
<1>1. d \in Desks
  BY DEF Good
<1>2. Became(square, d) /\ Good(square) /\ square.paused = d.paused
  BY WithoutMenuBecame DEF Became
<1>3. Became(outside, d)
  <2>1. Became(Unselected(d), d) /\ Good(Unselected(d))
    BY UnselectedBecame DEF Became
  <2>2. Became(WithoutMenu(Unselected(d)), Unselected(d))
    BY <2>1, WithoutMenuBecame
  <2>3. Became(WithoutMenu(Unselected(d)), d)
    BY <1>1, <2>1, <2>2, BecameTransitive
  <2> QED
    BY <2>3, SelfBecame
<1> HIDE DEF outside, square
<1>4. Became(Noted(d), d)
  BY NotedBecame
<1>5. ASSUME ~d.paused
      PROVE  /\ Became(Chosen(square), d) /\ Became(Unselected(square), d)
             /\ Became(Menu(square), d)
  <2>1. /\ Became(Chosen(square), square) /\ Became(Unselected(square), square)
        /\ Became(Menu(square), square)
    BY <1>2, <1>5, ChosenBecame, UnselectedBecame, MenuBecame
  <2> QED
    BY <1>1, <1>2, <2>1, BecameTransitive
<1>6. ASSUME ~d.paused
      PROVE  \A kind \in Kinds(d) : Became(PlayMove(d, kind), d)
  BY <1>6, PlayMoveBecame, KindsAreMoves
<1>7. \/ e \in {outside, Noted(d)}
      \/ ~d.paused /\ e \in {square, Chosen(square), Unselected(square), Menu(square)}
      \/ ~d.paused /\ \E kind \in Kinds(d) : e = PlayMove(d, kind)
  <2> DEFINE plays == {PlayMove(d, kind) : kind \in Kinds(d)}
             some == {PlayMove(d, kind) : kind \in IF d.marks.promotions # None
                                                      \/ d.marks.selected # None
                                                   THEN Kinds(d) ELSE {}}
             marked == {square, Chosen(square), Unselected(square), Menu(square)}
  <2>1. some \subseteq plays
    OBVIOUS
  <2>2. e \in {outside} \cup
                  IF IsOver(d.game) \/ d.paused THEN {Noted(d)}
                  ELSE {square, Chosen(square)} \cup some
                       \cup IF d.marks.selected = None THEN {}
                            ELSE {Unselected(square), Menu(square)}
    BY Zenon DEF Clicked, outside, square
  <2> HIDE DEF some
  <2>3. e \in {outside, Noted(d)} \/ (~d.paused /\ (e \in marked \/ e \in some))
    BY <2>2
  <2> QED
    BY <2>1, <2>3
<1> QED
  BY <1>2, <1>3, <1>4, <1>5, <1>6, <1>7

LEMMA PromotedBecame ==
    ASSUME NEW d, Good(d), now \in Nat, NEW e \in Promoted(d)
    PROVE  Became(e, d)
<1>1. d.marks.promotions # None
  BY DEF Promoted
<1>2. ~d.paused
  BY <1>1 DEF Good, GoodMarks
<1>3. PICK kind \in Kinds(d) : e = PlayMove(d, kind)
  BY <1>1 DEF Promoted
<1> QED
  BY <1>2, <1>3, PlayMoveBecame, KindsAreMoves

LEMMA MovedBecame ==
    ASSUME NEW d, Good(d), now \in Nat, NEW e \in Moved(d)
    PROVE  Became(e, d)
<1>1. CASE e = Noted(d)
  BY <1>1, NotedBecame
<1>2. CASE e # Noted(d)
  <2>1. ~d.paused /\ e \in {PlayMove(d, kind) : kind \in Kinds(d)}
    BY <1>2 DEF Moved
  <2>2. PICK kind \in Kinds(d) : e = PlayMove(d, kind)
    BY <2>1
  <2> QED
    BY <2>1, <2>2, PlayMoveBecame, KindsAreMoves
<1> QED
  BY <1>1, <1>2

LEMMA ResignedBecame ==
    ASSUME NEW d, Good(d), now \in Nat
    PROVE  Became(Resigned(d), d)
BY NotedBecame, ResignationBecame DEF Resigned

LEMMA PausedBecame ==
    ASSUME NEW d, Good(d), now \in Nat, NEW wanted
    PROVE  Became(Paused(d, wanted), d)
BY NotedBecame, PauseControlBecame DEF Paused

LEMMA PliesType ==
    ASSUME NEW start, NEW side, NEW n \in Nat
    PROVE  Plies(start, side, n) \in Nat
BY DEF Plies

\* The clock of an imported game starts anew, whatever became of the old one.
LEMMA ImportedBecame ==
    ASSUME NEW d, Good(d), now \in Nat, NEW start \in Sides, NEW moves \in Seq(MoveKinds)
    PROVE  Became(Imported(d, start, moves), d)
<1> DEFINE initial == d.game.clock.initial
           increment == d.game.clock.increment
           count == d.game.revision + 1
           clock == NewClock(initial, increment, start, now)
           next == IF Len(moves) % 2 = 0 THEN start ELSE Flip(start)
           remaining == [s \in Sides |->
                            clock.remaining[s] + clock.increment * Plies(start, s, Len(moves))]
           started == [side |-> next, since |-> now]
           running == [clock EXCEPT !.remaining = remaining, !.running = started]
           replayed == RememberShown(running)
           game == [NewGame(start, clock.initial, clock.increment, now) EXCEPT
                       !.moves = moves, !.revision = count,
                       !.clock = IF clock.initial = None THEN clock ELSE replayed]
           e == [d EXCEPT !.paused = FALSE, !.game = game]
<1>1. /\ d \in Desks /\ d.game.revision \in Nat
      /\ initial \in Nat \cup {None} /\ increment \in Nat
  BY DEF Good, Desks, GameState, Clock
<1>2. count \in Nat /\ count > d.game.revision
  BY <1>1
<1>3. Imported(d, start, moves) = Noted(Cleared(e))
  BY DEF Imported
<1> HIDE DEF count, initial, increment
<1>4. /\ clock \in Clock /\ clock.initial = initial /\ clock.increment = increment
      /\ initial = None => clock.running = None
      /\ clock.flagged = None
  BY <1>1, NewClockType DEF NewClock
<1> DEFINE fresh == NewGame(start, clock.initial, clock.increment, now)
<1>5. /\ fresh \in GameState /\ fresh.start = start
      /\ fresh.resigned = None /\ ~fresh.agreed_draw /\ fresh.abandoned = None
  BY <1>1, <1>4, NewGameType DEF NewGame
<1> HIDE DEF clock
<1>6. Len(moves) \in Nat /\ next \in Sides
  BY FlipIsOther
<1>7. started \in Running /\ started # None /\ started.side = next
  BY <1>6, RunningAssumption DEF Running
<1> HIDE DEF next, started
<1>8. remaining \in [Sides -> Nat]
  <2>1. ASSUME NEW s \in Sides
        PROVE  clock.remaining[s] + clock.increment * Plies(start, s, Len(moves)) \in Nat
    <3>1. clock.remaining[s] \in Nat /\ clock.increment \in Nat
      BY <1>4 DEF Clock
    <3>2. Plies(start, s, Len(moves)) \in Nat
      BY <1>6, PliesType
    <3>3. \A a, b, c \in Nat : a + b * c \in Nat
      OBVIOUS
    <3> QED
      BY <3>1, <3>2, <3>3
  <2> QED
    BY <2>1
<1> HIDE DEF remaining
<1>9. /\ running \in Clock /\ running.running = started
      /\ running.initial = clock.initial /\ running.flagged = None
  BY <1>4, <1>7, <1>8 DEF Clock
<1> HIDE DEF running
<1>10. /\ replayed \in Clock /\ replayed.running = started
       /\ replayed.initial = clock.initial /\ replayed.flagged = None
  BY <1>9, RememberShownType, RememberShownSameTime DEF SameTime
<1> HIDE DEF replayed
<1> DEFINE chosen == IF clock.initial = None THEN clock ELSE replayed
<1>11. /\ chosen \in Clock /\ chosen.initial = initial /\ chosen.flagged = None
       /\ chosen.running = IF initial = None THEN None ELSE started
  BY <1>4, <1>10
<1> HIDE DEF chosen
<1>12. /\ game \in GameState /\ game.start = start /\ game.moves = moves
       /\ game.revision = count /\ game.clock = chosen
       /\ game.resigned = None /\ ~game.agreed_draw /\ game.abandoned = None
  <2>1. game = [fresh EXCEPT !.moves = moves, !.revision = count, !.clock = chosen]
    BY DEF chosen, fresh
  <2> HIDE DEF fresh, game
  <2> QED
    BY <1>2, <1>5, <1>11, <2>1 DEF GameState
<1> HIDE DEF game
<1>13. SideToMove(game) = next
  BY <1>12 DEF SideToMove, next
<1>14. GoodClock(game, FALSE)
  BY <1>7, <1>11, <1>12, <1>13 DEF GoodClock, Undecided
<1>15. e \in Desks /\ e.game = game /\ e.paused = FALSE
  BY <1>1, <1>12, WithGameDesk
<1> HIDE DEF e
<1>16. Became(Cleared(e), d)
  BY <1>2, <1>12, <1>14, <1>15, ClearedChange
<1> QED
  BY <1>1, <1>3, <1>16, NotedAfter

LEMMA TypedBecame ==
    ASSUME NEW d, Good(d), now \in Nat, NEW who, NEW e \in Typed(who, d)
    PROVE  Became(e, d)
<1>1. d \in Desks /\ Became(d, d)
  BY SelfBecame DEF Good
<1>2. Became(Noted(Chosen(d)), d)
  BY <1>1, ChosenBecame, NotedAfter
<1>3. ASSUME NEW start \in Starts, NEW moves \in Lines
      PROVE  Became(Imported(d, start, moves), d)
  <2>1. start \in Sides
    BY LocalAssumption
  <2>2. moves \in Seq(MoveKinds)
    <3>1. PICK n \in 0..MaxPly - 1 : moves \in [1..n -> MoveKinds]
      BY DEF Lines
    <3>2. n \in Nat
      BY LocalAssumption
    <3> QED
      BY <3>1, <3>2
  <2> QED
    BY <2>1, <2>2, ImportedBecame
<1>4. \/ e \in {d, Noted(d), [d EXCEPT !.page = TRUE], Undo(who, d), Resigned(d),
                Paused(d, TRUE), Paused(d, FALSE), DrawControl(who, d), Hint(d),
                Noted(Chosen(d)), Restart(d)}
      \/ e \in Promoted(d) \/ e \in Moved(d)
      \/ \E start \in Starts, moves \in Lines : e = Imported(d, start, moves)
  <2> DEFINE plain == {d, Noted(d), [d EXCEPT !.page = TRUE], Undo(who, d), Resigned(d),
                       Paused(d, TRUE), Paused(d, FALSE), DrawControl(who, d), Hint(d)}
             imported == {Imported(d, file[1], file[2]) : file \in Starts \X Lines}
             hinted == IF HasMoves(d) THEN {Noted(Chosen(d))} ELSE {}
  <2>1. Typed(who, d) = plain \cup hinted \cup Renewed(d) \cup Promoted(d) \cup Moved(d)
                            \cup imported
    BY Zenon DEF Typed
  <2>2. e \in hinted => e = Noted(Chosen(d))
    OBVIOUS
  <2>3. e \in imported => \E start \in Starts, moves \in Lines : e = Imported(d, start, moves)
    OBVIOUS
  <2> HIDE DEF plain, hinted, imported
  <2> QED
    <3>1. e \in plain \/ e \in hinted \/ e \in Renewed(d) \/ e \in Promoted(d) \/ e \in Moved(d)
              \/ e \in imported
      BY <2>1
    <3> QED
      BY <2>2, <2>3, <3>1 DEF Renewed, plain
<1> QED
  BY <1>1, <1>2, <1>3, <1>4, NotedBecame, PageBecame, UndoBecame, ResignedBecame, PausedBecame,
     DrawControlBecame, HintBecame, RestartBecame, PromotedBecame, MovedBecame

-----------------------------------------------------------------------------
(* Saved games                                                             *)

LEMMA SavedType ==
    ASSUME NEW d \in Desks, now \in Nat, NEW who \in {"white", "black", "two"}
    PROVE  Saved(who, d.game, d.paused) \in SavedGames
<1>1. /\ d.game \in GameState /\ d.paused \in BOOLEAN /\ d.game.clock \in Clock
  BY DEF Desks, GameState
<1>2. Sync(d.game.clock, now).remaining \in [Sides -> Nat]
  BY <1>1, SyncType DEF Clock
<1>3. d.game.clock.initial \in Nat \cup {None} /\ d.game.clock.increment \in Nat
  BY <1>1 DEF Clock
<1> QED
  BY <1>1, <1>2, <1>3 DEF Saved, SavedGames, GameState

\* A save leaves saved games in the files, and with a disk that does not fail
\* the file holds the game.
LEMMA SaveKeeps ==
    ASSUME TypeOK, NEW d \in Desks, NEW path \in Paths, Save(path, d)
    PROVE  /\ files' \in [Paths -> SavedGames \cup {None}]
           /\ ~DiskMayFail => files' = [files EXCEPT ![path] = Saved(mode, d.game, d.paused)]
<1>1. Saved(mode, d.game, d.paused) \in SavedGames
  BY SavedType DEF TypeOK
<1> QED
  BY <1>1 DEF Save, TypeOK

\* A game is taken up with the clock running for the side to move, unless it
\* was paused or is over.
LEMMA RestoredGood ==
    ASSUME NEW saved \in SavedGames, now \in Nat
    PROVE  Good(Restored(saved)) /\ Restored(saved).game.revision = 0
<1> DEFINE fresh == NewGame(saved.start, saved.initial, saved.increment, now)
           game == [fresh EXCEPT !.moves = saved.moves, !.resigned = saved.resigned,
                                 !.draw_offer = saved.draw_offer,
                                 !.agreed_draw = saved.agreed_draw]
           side == SideToMove(game)
           running == ~saved.paused /\ ~IsOver(game)
           started == [side |-> side, since |-> now]
           clock == Restore(game.clock, saved.remaining, side, running, now)
           next == [game EXCEPT !.clock = Restore(@, saved.remaining, side, running, now)]
<1>1. /\ saved.start \in Sides /\ saved.initial \in Nat \cup {None} /\ saved.increment \in Nat
      /\ saved.moves \in Seq(MoveKinds) /\ saved.resigned \in Sides \cup {None}
      /\ saved.draw_offer \in Sides \cup {None} /\ saved.agreed_draw \in BOOLEAN
      /\ saved.remaining \in [Sides -> Nat] /\ saved.paused \in BOOLEAN
  BY DEF SavedGames
<1>2. /\ fresh \in GameState /\ fresh.revision = 0
      /\ fresh.clock = NewClock(saved.initial, saved.increment, saved.start, now)
  BY <1>1, NewGameType DEF NewGame
<1>3. fresh.clock.flagged = None
  BY <1>2 DEF NewClock
<1>4. Restored(saved) = Desk(next, saved.paused)
  BY DEF Restored
<1> HIDE DEF fresh
<1>5. game \in GameState /\ game.revision = 0 /\ game.clock = fresh.clock /\ game.clock \in Clock
  BY <1>1, <1>2 DEF GameState
<1> HIDE DEF game
<1>6. side \in Sides
  BY <1>5, SideToMoveType
<1> HIDE DEF side
<1>7. started \in Running /\ started # None /\ started.side = side
  BY <1>6, RunningAssumption DEF Running
<1> DEFINE put == [game.clock EXCEPT
                      !.remaining = saved.remaining, !.flagged = None,
                      !.running = IF game.clock.initial # None /\ running THEN started ELSE None]
<1>8. clock = RememberShown(put)
  BY DEF Restore
<1> HIDE DEF started, running
<1>9. /\ put \in Clock /\ put.initial = game.clock.initial /\ put.flagged = None
      /\ put.running = IF game.clock.initial # None /\ running THEN started ELSE None
  BY <1>1, <1>5, <1>7 DEF Clock
<1> HIDE DEF put, clock
<1>10. /\ clock \in Clock /\ clock.initial = game.clock.initial /\ clock.flagged = None
       /\ clock.running = IF game.clock.initial # None /\ running THEN started ELSE None
  BY <1>8, <1>9, RememberShownType, RememberShownSameTime DEF SameTime
<1>11. next = [game EXCEPT !.clock = clock]
  BY <1>5 DEF GameState, clock
<1>12. /\ next \in GameState /\ next.clock = clock /\ next.revision = 0
       /\ SameVerdict(next, game)
  BY <1>3, <1>5, <1>10, <1>11 DEF GameState, SameVerdict
<1> HIDE DEF next
<1>13. (IsOver(next) <=> IsOver(game)) /\ SideToMove(next) = side
  BY <1>12, SameVerdictSameOutcome DEF side
<1>131. ~IsOver(next) => Undecided(next)
  BY <1>12, DecidedIsOver DEF Undecided, GameState
<1>14. GoodClock(next, saved.paused)
  BY <1>7, <1>10, <1>12, <1>13, <1>131 DEF GoodClock, running
<1>15. /\ Desk(next, saved.paused) \in Desks /\ GoodMarks(Desk(next, saved.paused))
       /\ Desk(next, saved.paused).game = next /\ Desk(next, saved.paused).paused = saved.paused
  BY <1>1, <1>12 DEF Desk, Desks, NoMarks, Marks, GoodMarks
<1> QED
  BY <1>4, <1>12, <1>14, <1>15 DEF Good

LEMMA NewDeskGood ==
    ASSUME NEW start \in Sides, NEW initial \in Nat \cup {None}, NEW increment \in Nat,
           NEW t \in Nat
    PROVE  LET d == Desk(NewGame(start, initial, increment, t), FALSE)
           IN  Good(d) /\ d.game.revision = 0 /\ ~d.paused
<1> DEFINE game == NewGame(start, initial, increment, t)
           d == Desk(game, FALSE)
<1>1. /\ game \in GameState /\ game.revision = 0 /\ game.start = start /\ game.moves = <<>>
      /\ game.clock = NewClock(initial, increment, start, t)
      /\ game.resigned = None /\ ~game.agreed_draw /\ game.abandoned = None
  BY NewGameType DEF NewGame
<1> HIDE DEF game
<1>2. SideToMove(game) = start
  BY <1>1 DEF SideToMove
<1>3. /\ game.clock.initial = initial
      /\ initial = None => game.clock.running = None
      /\ initial # None => game.clock.running # None /\ game.clock.running.side = start
      /\ game.clock.flagged = None
  <2> DEFINE clock == NewClock(initial, increment, start, t)
  <2>1. /\ clock.initial = initial
        /\ initial = None => clock.running = None
        /\ initial # None => clock.running # None /\ clock.running.side = start
        /\ clock.flagged = None
    BY NewClockRuns
  <2> HIDE DEF clock
  <2>2. game.clock = clock
    BY <1>1 DEF clock
  <2> QED
    BY <2>1, <2>2
<1>4. GoodClock(game, FALSE)
  BY <1>1, <1>2, <1>3 DEF GoodClock, Undecided
<1>5. d \in Desks /\ GoodMarks(d) /\ d.game = game /\ d.paused = FALSE
  BY <1>1 DEF Desk, Desks, NoMarks, Marks, GoodMarks
<1> HIDE DEF d
<1>6. Good(d) /\ d.game.revision = 0 /\ ~d.paused
  BY <1>1, <1>4, <1>5 DEF Good
<1> QED
  BY <1>6 DEF d, game

-----------------------------------------------------------------------------
(* The loop                                                                *)

LEMMA ControlsType ==
    ASSUME NEW who, NEW d
    PROVE  Controls(who, d) \subseteq ControlNames
BY DEF Controls, ControlNames

\* An operation on the desk while the loop waits for input.
LEMMA InputKeeps ==
    ASSUME IInv, Prompted, Silent, focused' \in ControlNames, Became(desk', desk)
    PROVE  IInv' /\ (Kept => Kept')
<1>1. /\ app' = "top" /\ saved_revision' = saved_revision /\ now' = now
      /\ mode' = mode /\ files' = files
  BY DEF Prompted, Silent
<1>2. TypeOK'
  BY <1>1 DEF IInv, TypeOK, Became, Good
<1>3. /\ desk.game.revision \in Nat /\ desk'.game.revision \in Nat /\ saved_revision \in Nat
      /\ desk.game.revision >= saved_revision /\ app # "closed"
  BY <1>2 DEF IInv, TypeOK, Counted, Prompted, Desks, GameState
<1>4. desk'.game.revision >= desk.game.revision
  BY <1>3 DEF Became
<1>5. Counted'
  BY <1>1, <1>3, <1>4 DEF Counted
<1>6. ASSUME Kept, desk'.game.revision # 0, desk'.game.revision = saved_revision
      PROVE  OnDisk(files["session"])'
  <2>1. desk.game.revision = saved_revision /\ SameGame(desk', desk)
    BY <1>3, <1>4, <1>6 DEF Became
  <2>2. OnDisk(files["session"])
    BY <1>3, <1>6, <2>1 DEF Kept
  <2> QED
    BY <1>1, <2>1, <2>2 DEF OnDisk, SameGame
<1> QED
  BY <1>1, <1>2, <1>5, <1>6 DEF IInv, Kept, Became

LEMMA IdleKeeps ==
    ASSUME IInv, Idle \/ Focus \/ Cancel \/ Type
    PROVE  IInv' /\ (Kept => Kept')
<1>1. Good(desk) /\ focused \in ControlNames /\ "MoveInput" \in ControlNames
  BY DEF IInv, TypeOK, ControlNames
<1>2. Prompted /\ Silent /\ focused' \in ControlNames
  BY <1>1, ControlsType DEF Idle, Focus, Cancel, Type
<1>3. Became(desk', desk)
  <2>1. CASE desk' = desk
    BY <1>1, <2>1, SelfBecame
  <2>2. CASE desk' = Noted(desk)
    BY <1>1, <2>2, NotedBecame
  <2>3. CASE desk' = Unconfirmed(WithoutMenu(Unselected(desk)))
    <3> DEFINE d == Unselected(desk)
               e == WithoutMenu(d)
    <3>1. Became(d, desk)
      BY <1>1, UnselectedBecame
    <3>2. Became(e, d)
      BY <3>1, WithoutMenuBecame DEF Became
    <3>3. Became(Unconfirmed(e), e)
      BY <3>2, UnconfirmedBecame DEF Became
    <3>4. Became(e, desk)
      BY <1>1, <3>1, <3>2, BecameTransitive DEF Good
    <3>5. Became(Unconfirmed(e), desk)
      BY <1>1, <3>3, <3>4, BecameTransitive DEF Good
    <3> QED
      BY <2>3, <3>5
  <2> QED
    BY <2>1, <2>2, <2>3 DEF Idle, Focus, Cancel, Type
<1> QED
  BY <1>2, <1>3, InputKeeps

LEMMA ReturnKeeps ==
    ASSUME IInv, Return
    PROVE  IInv' /\ (Kept => Kept')
<1>1. Good(desk) /\ focused \in ControlNames /\ now \in Nat
  BY DEF IInv, TypeOK
<1>2. Became(desk', desk)
  BY <1>1, ActivateBecame DEF Return
<1> QED
  BY <1>1, <1>2, InputKeeps DEF Return

LEMMA ClickKeeps ==
    ASSUME IInv, Click
    PROVE  IInv' /\ (Kept => Kept')
<1> DEFINE d == Ticked(desk)
<1>1. Good(desk) /\ desk \in Desks /\ focused \in ControlNames /\ now \in Nat
  BY DEF IInv, TypeOK
<1>2. Became(d, desk) /\ Good(d)
  BY <1>1, TickedBecame DEF Became
<1>3. /\ Prompted /\ Silent
      /\ \/ desk' = Noted(d) /\ UNCHANGED focused
         \/ \E control \in Controls(mode, desk) :
                focused' = control /\ desk' = Activate(control, mode, d)
         \/ desk' \in Clicked(Unconfirmed(d)) /\ UNCHANGED focused
  BY DEF Click
<1> HIDE DEF d
<1>4. focused' \in ControlNames
  BY <1>1, <1>3, ControlsType
<1>5. Became(Unconfirmed(d), d) /\ Good(Unconfirmed(d))
  BY <1>2, UnconfirmedBecame DEF Became
<1>6. Became(desk', d)
  <2>1. CASE desk' = Noted(d)
    BY <1>2, <2>1, NotedBecame
  <2>2. CASE \E control \in Controls(mode, desk) : desk' = Activate(control, mode, d)
    BY <1>1, <1>2, <2>2, ActivateBecame
  <2>3. CASE desk' \in Clicked(Unconfirmed(d))
    <3>1. Became(desk', Unconfirmed(d))
      BY <1>1, <1>5, <2>3, ClickedBecame
    <3> QED
      BY <1>2, <1>5, <3>1, BecameTransitive DEF Good
  <2> QED
    BY <1>3, <2>1, <2>2, <2>3
<1>7. Became(desk', desk)
  BY <1>1, <1>2, <1>6, BecameTransitive
<1> QED
  BY <1>3, <1>4, <1>7, InputKeeps

LEMMA LineBecame ==
    ASSUME IInv
    PROVE  Became(Line, desk) /\ Good(Line) /\ Line \in Desks
<1>1. Good(desk) /\ desk \in Desks /\ now \in Nat
  BY DEF IInv, TypeOK
<1>2. Became(Ticked(desk), desk)
  BY <1>1, TickedBecame
<1> QED
  BY <1>1, <1>2, NotedAfter DEF Line, Became, Good

LEMMA CommandKeeps ==
    ASSUME IInv, Command
    PROVE  IInv' /\ (Kept => Kept')
<1>1. /\ Good(desk) /\ desk \in Desks /\ focused' \in ControlNames /\ now \in Nat
      /\ Prompted /\ Silent /\ desk' \in Typed(mode, Line)
  BY DEF IInv, TypeOK, Command
<1>2. Became(Line, desk) /\ Good(Line)
  BY LineBecame
<1>3. Became(desk', Line)
  BY <1>1, <1>2, TypedBecame
<1>4. Became(desk', desk)
  BY <1>1, <1>2, <1>3, BecameTransitive
<1> QED
  BY <1>1, <1>4, InputKeeps

\* Saving in another file leaves the autosave as it was.
LEMMA SaveCommandKeeps ==
    ASSUME IInv, SaveCommand
    PROVE  IInv' /\ (~DiskMayFail /\ Kept => Kept')
<1>1. /\ app = "prompt" /\ app' = "top" /\ saved_revision' = saved_revision /\ now' = now
      /\ mode' = mode /\ focused' = focused /\ desk' = Autosaved(Line) /\ TypeOK
      /\ now \in Nat /\ desk \in Desks
  BY DEF SaveCommand, Prompted, IInv, TypeOK
<1>2. PICK path \in Paths : Save(path, Line)
  BY DEF SaveCommand
<1>3. Became(Line, desk) /\ Good(Line) /\ Line \in Desks
  BY LineBecame
<1>4. Became(desk', Line) /\ SameGame(desk', Line)
  BY <1>1, <1>3, AutosavedBecame
<1>5. Became(desk', desk)
  BY <1>1, <1>3, <1>4, BecameTransitive
<1>6. /\ files' \in [Paths -> SavedGames \cup {None}]
      /\ ~DiskMayFail => files' = [files EXCEPT ![path] = Saved(mode, Line.game, Line.paused)]
  BY <1>1, <1>2, <1>3, SaveKeeps
<1>7. TypeOK'
  BY <1>1, <1>5, <1>6 DEF TypeOK, Became, Good
<1>8. /\ desk.game.revision \in Nat /\ desk'.game.revision \in Nat /\ saved_revision \in Nat
      /\ desk.game.revision >= saved_revision
  BY <1>1, <1>7 DEF IInv, TypeOK, Counted, Desks, GameState
<1>9. desk'.game.revision >= desk.game.revision
  BY <1>5, <1>8 DEF Became
<1>10. Counted'
  BY <1>1, <1>8, <1>9 DEF Counted
<1>11. ASSUME ~DiskMayFail, Kept, desk'.game.revision # 0, desk'.game.revision = saved_revision
       PROVE  OnDisk(files["session"])'
  <2>1. /\ files' = [files EXCEPT ![path] = Saved(mode, Line.game, Line.paused)]
        /\ files \in [Paths -> SavedGames \cup {None}] /\ "session" \in Paths
    BY <1>1, <1>6, <1>11, LocalAssumption DEF TypeOK
  <2>2. CASE path = "session"
    <3>1. files'["session"] = Saved(mode, Line.game, Line.paused)
      BY <2>1, <2>2
    <3>2. Saved(mode, Line.game, Line.paused) # None
      BY <1>1, <1>3, SavedType, SavedGamesAssumption DEF TypeOK
    <3> QED
      BY <1>1, <1>4, <3>1, <3>2 DEF OnDisk, SameGame, Saved
  <2>3. CASE path # "session"
    <3>1. desk.game.revision = saved_revision /\ SameGame(desk', desk)
      BY <1>5, <1>8, <1>9, <1>11 DEF Became
    <3>2. OnDisk(files["session"]) /\ files'["session"] = files["session"]
      BY <1>1, <1>11, <2>1, <2>3, <3>1 DEF Kept
    <3> QED
      BY <1>1, <3>1, <3>2 DEF OnDisk, SameGame
  <2> QED
    BY <2>2, <2>3
<1> QED
  BY <1>1, <1>5, <1>7, <1>10, <1>11 DEF IInv, Kept, Became

\* A game that was started or loaded has changed nothing yet.
LEMMA FreshKeeps ==
    ASSUME IInv, app' = "top", focused' \in ControlNames, UNCHANGED <<files, now>>,
           saved_revision' \in Nat, mode' \in {"white", "black", "two"},
           Good(desk'), desk'.game.revision = 0
    PROVE  IInv' /\ Kept'
BY DEF IInv, TypeOK, Counted, Kept, Good

LEMMA StartKeeps ==
    ASSUME IInv, StartGame \/ ResumeGame \/ LoadCommand
    PROVE  IInv' /\ Kept'
<1>1. /\ "MoveInput" \in ControlNames /\ focused \in ControlNames /\ saved_revision \in Nat
      /\ now \in Nat /\ files \in [Paths -> SavedGames \cup {None}]
  BY DEF IInv, TypeOK, ControlNames
<1>2. /\ app' = "top" /\ focused' \in ControlNames /\ saved_revision' \in Nat
      /\ UNCHANGED <<files, now>>
  <2>1. CASE StartGame \/ ResumeGame
    <3>1. Launched
      BY <2>1 DEF StartGame, ResumeGame
    <3> QED
      BY <1>1, <3>1 DEF Launched
  <2>2. CASE LoadCommand
    BY <1>1, <2>2 DEF LoadCommand, Prompted
  <2> QED
    BY <2>1, <2>2
<1>3. /\ mode' \in {"white", "black", "two"}
      /\ Good(desk') /\ desk'.game.revision = 0
  <2>1. CASE StartGame
    <3>1. PICK start \in Starts : desk' = Desk(NewGame(start, Initial, Increment, now), FALSE)
      BY <2>1 DEF StartGame
    <3>2. start \in Sides /\ Initial \in Nat \cup {None} /\ Increment \in Nat
      BY LocalAssumption
    <3>3. mode' \in {"white", "black", "two"}
      BY <2>1, LocalAssumption DEF StartGame
    <3> QED
      BY <1>1, <3>1, <3>2, <3>3, NewDeskGood
  <2>2. CASE ResumeGame \/ LoadCommand
    <3>1. PICK path \in Paths : /\ files[path] # None
                                /\ mode' = files[path].mode
                                /\ desk' = Restored(files[path])
      BY <2>2 DEF ResumeGame, LoadCommand
    <3>2. files[path] \in SavedGames
      BY <1>1, <3>1
    <3>3. files[path].mode \in {"white", "black", "two"}
      BY <3>2 DEF SavedGames
    <3> QED
      BY <1>1, <3>1, <3>2, <3>3, RestoredGood
  <2> QED
    BY <2>1, <2>2
<1> QED
  BY <1>2, <1>3, FreshKeeps

LEMMA EndKeeps ==
    ASSUME IInv, Quit \/ Kill
    PROVE  IInv' /\ Kept'
<1>1. TypeOK /\ Good(desk) /\ desk \in Desks /\ now \in Nat /\ "session" \in Paths
  BY LocalAssumption DEF IInv, TypeOK
<1>2. Ends
  BY DEF Quit, Kill
<1>3. Good(Nothing)
  BY NewDeskGood DEF Nothing, Sides
<1>4. files' \in [Paths -> SavedGames \cup {None}]
  <2>1. CASE Quit
    <3>1. Ticked(desk) \in Desks /\ Line \in Desks
      BY <1>1, TickedBecame, LineBecame DEF Became, Good
    <3>2. PICK d \in {desk, Ticked(desk), Line} : Save("session", d)
      BY <2>1 DEF Quit
    <3> QED
      BY <1>1, <3>1, <3>2, SaveKeeps
  <2>2. CASE Kill
    BY <1>1, <2>2 DEF Kill, TypeOK
  <2> QED
    BY <2>1, <2>2
<1> QED
  BY <1>1, <1>2, <1>3, <1>4 DEF Ends, IInv, TypeOK, ControlNames, Counted, Kept, Good

\* The top of the loop: what changed is saved, then the clock is read.
LEMMA TopKeeps ==
    ASSUME IInv, Top
    PROVE  IInv' /\ (~DiskMayFail /\ Kept => Kept')
<1> DEFINE d == IF desk.game.revision = saved_revision THEN desk ELSE Autosaved(desk)
<1>1. /\ Good(desk) /\ desk \in Desks /\ TypeOK /\ now \in Nat /\ "session" \in Paths
      /\ desk.game.revision \in Nat /\ saved_revision \in Nat /\ app = "top"
  BY LocalAssumption DEF IInv, TypeOK, Desks, GameState, Top
<1>2. Became(d, desk) /\ SameGame(d, desk) /\ d.game.revision = desk.game.revision
  BY <1>1, AutosavedBecame, SelfBecame DEF SameGame
<1>3. /\ Proceed(d) /\ saved_revision' = desk.game.revision
      /\ mode' = mode /\ focused' = focused /\ now' = now
      /\ IF desk.game.revision = saved_revision THEN files' = files ELSE Save("session", desk)
  BY DEF Top
<1> HIDE DEF d
<1>4. /\ Became(desk', d) /\ SameGame(desk', d) /\ desk'.paused = d.paused
      /\ desk'.game.revision # d.game.revision => desk'.game.clock.flagged # None
  BY <1>1, <1>2, <1>3, TickedBecame DEF Proceed, Became
<1>5. Became(desk', desk) /\ SameGame(desk', desk)
  BY <1>1, <1>2, <1>4, BecameTransitive DEF SameGame
<1>6. /\ files' \in [Paths -> SavedGames \cup {None}]
      /\ ~DiskMayFail /\ desk.game.revision # saved_revision
             => files' = [files EXCEPT !["session"] = Saved(mode, desk.game, desk.paused)]
  BY <1>1, <1>3, SaveKeeps DEF TypeOK
<1>7. app' \in {"prompt", "thinking"} /\ (app' = "thinking" => ~d.paused)
  BY <1>3 DEF Proceed
<1>8. TypeOK'
  BY <1>1, <1>3, <1>5, <1>6, <1>7 DEF TypeOK, Became, Good
<1>9. desk'.game.revision \in Nat /\ desk'.game.revision >= desk.game.revision
  BY <1>1, <1>5, <1>8 DEF Became, TypeOK, Desks, GameState
<1>10. Counted'
  BY <1>3, <1>4, <1>7, <1>9 DEF Counted
<1>11. ASSUME ~DiskMayFail, Kept, desk'.game.revision # 0,
              desk'.game.revision = saved_revision'
       PROVE  OnDisk(files["session"])'
  <2>1. CASE desk.game.revision = saved_revision
    <3>1. OnDisk(files["session"]) /\ files' = files
      BY <1>1, <1>3, <1>11, <2>1 DEF Kept
    <3> QED
      BY <1>3, <1>5, <3>1 DEF OnDisk, SameGame
  <2>2. CASE desk.game.revision # saved_revision
    <3>1. files'["session"] = Saved(mode, desk.game, desk.paused)
      BY <1>1, <1>6, <1>11, <2>2 DEF TypeOK
    <3>2. Saved(mode, desk.game, desk.paused) # None
      BY <1>1, SavedType, SavedGamesAssumption DEF TypeOK
    <3> QED
      BY <1>3, <1>5, <3>1, <3>2 DEF OnDisk, SameGame, Saved
  <2> QED
    BY <2>1, <2>2
<1>12. desk'.game.revision # saved_revision' => desk'.game.clock.flagged # None
  BY <1>2, <1>3, <1>4
<1> QED
  BY <1>5, <1>8, <1>10, <1>11, <1>12 DEF IInv, Kept, Became

LEMMA EngineMoveKeeps ==
    ASSUME IInv, EngineMove
    PROVE  IInv' /\ (Kept => Kept')
<1> DEFINE d == Ticked(desk)
<1>1. /\ Good(desk) /\ desk \in Desks /\ TypeOK /\ now \in Nat
      /\ app = "thinking" /\ ~desk.paused
  BY DEF IInv, TypeOK, EngineMove, Counted
<1>2. Became(d, desk) /\ Good(d) /\ d.paused = desk.paused
  BY <1>1, TickedBecame DEF Became
<1>3. /\ app' = "top" /\ saved_revision' = saved_revision /\ mode' = mode
      /\ focused' = focused /\ files' = files /\ now' = now
      /\ desk' = d \/ \E kind \in Kinds(desk) : desk' = PlayMove(d, kind)
  BY DEF EngineMove
<1> HIDE DEF d
<1>4. Became(desk', d)
  BY <1>1, <1>2, <1>3, SelfBecame, PlayMoveBecame, KindsAreMoves
<1>5. Became(desk', desk)
  BY <1>1, <1>2, <1>4, BecameTransitive
<1>6. TypeOK'
  BY <1>1, <1>3, <1>5 DEF TypeOK, Became, Good
<1>7. /\ desk.game.revision \in Nat /\ desk'.game.revision \in Nat /\ saved_revision \in Nat
      /\ desk.game.revision >= saved_revision
  BY <1>1, <1>6 DEF IInv, TypeOK, Counted, Desks, GameState
<1>8. desk'.game.revision >= desk.game.revision
  BY <1>5, <1>7 DEF Became
<1>9. Counted'
  BY <1>3, <1>7, <1>8 DEF Counted
<1>10. ASSUME Kept, desk'.game.revision # 0, desk'.game.revision = saved_revision
       PROVE  OnDisk(files["session"])'
  <2>1. desk.game.revision = saved_revision /\ SameGame(desk', desk)
    BY <1>5, <1>7, <1>8, <1>10 DEF Became
  <2>2. OnDisk(files["session"])
    BY <1>1, <1>10, <2>1 DEF Kept
  <2> QED
    BY <1>3, <2>1, <2>2 DEF OnDisk, SameGame
<1> QED
  BY <1>3, <1>5, <1>6, <1>9, <1>10 DEF IInv, Kept, Became

-----------------------------------------------------------------------------
(* The theorems                                                            *)

LEMMA InitHolds ==
    ASSUME LocalInit
    PROVE  IInv /\ Kept
<1>1. Good(Nothing) /\ Nothing.game.revision = 0
  BY NewDeskGood DEF Nothing, Sides
<1> QED
  BY <1>1 DEF LocalInit, IInv, TypeOK, ControlNames, Counted, Kept, Good

LEMMA NextKeeps ==
    ASSUME IInv, [LocalNext]_localVars
    PROVE  IInv' /\ (~DiskMayFail /\ Kept => Kept')
<1>1. CASE UNCHANGED localVars
  BY <1>1 DEF localVars, IInv, TypeOK, Good, GoodMarks, GoodClock, Counted, Kept, OnDisk
<1>2. CASE Pass
  BY <1>2 DEF Pass, IInv, TypeOK, Good, GoodMarks, GoodClock, Counted, Kept, OnDisk
<1>3. CASE StartGame \/ ResumeGame \/ LoadCommand
  BY <1>3, StartKeeps
<1>4. CASE Top
  BY <1>4, TopKeeps
<1>5. CASE EngineMove
  BY <1>5, EngineMoveKeeps
<1>6. CASE Idle \/ Focus \/ Cancel \/ Type
  BY <1>6, IdleKeeps
<1>7. CASE Return
  BY <1>7, ReturnKeeps
<1>8. CASE Click
  BY <1>8, ClickKeeps
<1>9. CASE Command
  BY <1>9, CommandKeeps
<1>10. CASE SaveCommand
  BY <1>10, SaveCommandKeeps
<1>11. CASE Quit \/ Kill
  BY <1>11, EndKeeps
<1> QED
  BY <1>1, <1>2, <1>3, <1>4, <1>5, <1>6, <1>7, <1>8, <1>9, <1>10, <1>11
     DEF LocalNext, Loop, Inputs

\* The desk, the autosave's revision and the files keep their types, marks are
\* those of the position, and the clock runs for the side to move.
THEOREM LocalTypeCorrect == LocalSpec => []IInv
<1>1. LocalInit => IInv
  BY InitHolds
<1>2. IInv /\ [LocalNext]_localVars => IInv'
  BY NextKeeps
<1> QED
  BY <1>1, <1>2, PTL DEF LocalSpec

\* No mark, promotion menu or confirmation outlives its position, whatever is
\* undone, restarted, imported or loaded.
THEOREM LocalMarksFit == LocalSpec => []MarksFitThePosition
<1>1. IInv => MarksFitThePosition
  BY DEF IInv, Good, GoodMarks, MarksFitThePosition
<1> QED
  BY <1>1, LocalTypeCorrect, PTL

\* The clock of a timed game that is open and not paused runs, for the side to move,
\* and no clock runs in a game that is paused, resigned, drawn by agreement or lost on
\* time.  That of a game which its board ended may: the end of an imported one leaves
\* it running.
THEOREM LocalClockFollows == LocalSpec => []ClockFollowsTheGame
<1>1. IInv => ClockFollowsTheGame
  BY UndecidedByOthers DEF IInv, Good, GoodClock, ClockFollowsTheGame
<1> QED
  BY <1>1, LocalTypeCorrect, PTL

\* With a disk that does not fail every change is in the autosave before the
\* next input is read, so that closing the terminal loses none.
THEOREM LocalChangesOnDisk ==
    ASSUME ~DiskMayFail
    PROVE  LocalSpec => []ChangesAreOnDisk
<1> DEFINE Inv == IInv /\ Kept
<1>1. LocalInit => Inv
  BY InitHolds
<1>2. Inv /\ [LocalNext]_localVars => Inv'
  BY NextKeeps
<1>3. Inv => ChangesAreOnDisk
  <2> SUFFICES ASSUME Inv, app \in {"prompt", "thinking"}, desk.game.revision # 0
               PROVE  \/ OnDisk(files["session"])
                      \/ desk.game.clock.flagged # None /\ desk.game.revision # saved_revision
    BY DEF ChangesAreOnDisk
  <2> QED
    BY DEF Kept
<1> HIDE DEF Inv
<1> QED
  BY <1>1, <1>2, <1>3, PTL DEF LocalSpec
==============================================================================
