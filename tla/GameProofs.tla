----------------------------- MODULE GameProofs -----------------------------
(***************************************************************************)
(* What the operators of the clock and of the game return, for every       *)
(* instant and every time control: the lemmas the proofs about the hub and *)
(* about local games rest on.                                              *)
(***************************************************************************)
EXTENDS Game, TLAPS

-----------------------------------------------------------------------------
(* The clock *)

LEMMA FlipIsOther ==
    ASSUME NEW side \in Sides
    PROVE  Flip(side) \in Sides /\ Flip(side) # side
BY DEF Flip, Sides

LEMMA SubtractionSaturates ==
    ASSUME NEW a \in Nat, NEW b \in Int
    PROVE  SaturatingSub(a, b) \in Nat
BY DEF SaturatingSub

LEMMA ShownSecondsType ==
    ASSUME NEW time \in Nat
    PROVE  ShownSeconds(time) \in Nat
<1>1. time + Second - 1 \in Nat /\ Second \in Nat /\ Second > 0
  BY SecondAssumption
<1> QED
  BY <1>1 DEF ShownSeconds

LEMMA RememberShownType ==
    ASSUME NEW c \in Clock
    PROVE  RememberShown(c) \in Clock
BY ShownSecondsType DEF RememberShown, Clock

LEMMA NewClockType ==
    ASSUME NEW initial \in Nat \cup {None}, NEW increment \in Nat,
           NEW side \in Sides, NEW t \in Nat
    PROVE  NewClock(initial, increment, side, t) \in Clock
<1>1. InitialTime(initial) \in Nat
  BY DEF InitialTime
<1>2. ShownSeconds(InitialTime(initial)) \in Nat
  BY <1>1, ShownSecondsType
<1> QED
  BY <1>1, <1>2 DEF NewClock, Clock, Running

LEMMA SyncType ==
    ASSUME NEW c \in Clock, NEW t \in Nat
    PROVE  Sync(c, t) \in Clock
<1>1. CASE c.running = None
  BY <1>1 DEF Sync
<1>2. CASE c.running # None
  <2> DEFINE side == c.running.side
             left == SaturatingSub(c.remaining[side], t - c.running.since)
  <2>1. side \in Sides /\ c.running.since \in Nat
    BY <1>2 DEF Clock, Running
  <2>2. c.remaining[side] \in Nat /\ t - c.running.since \in Int
    BY <2>1 DEF Clock
  <2>3. left \in Nat
    BY <2>2, SubtractionSaturates
  <2>4. [c EXCEPT !.remaining[side] = left,
                  !.flagged = IF left = 0 THEN side ELSE @,
                  !.running = IF left = 0 THEN None
                              ELSE [side |-> side, since |-> t]] \in Clock
    <3> HIDE DEF side, left
    <3> QED
      BY <2>1, <2>3 DEF Clock, Running
  <2> QED
    BY <1>2, <2>4, Zenon DEF Sync
<1> QED
  BY <1>1, <1>2

LEMMA TickType ==
    ASSUME NEW c \in Clock, NEW t \in Nat
    PROVE  Tick(c, t) \in Clock
BY SyncType, RememberShownType DEF Tick

LEMMA CompleteMoveType ==
    ASSUME NEW c \in Clock, NEW mover \in Sides, NEW next \in Sides, NEW t \in Nat
    PROVE  CompleteMove(c, mover, next, t) \in Clock
<1> DEFINE synced == Sync(c, t)
           charged == [synced EXCEPT !.remaining[mover] = @ + synced.increment,
                                     !.running = [side |-> next, since |-> t]]
<1>1. synced \in Clock
  BY SyncType
<1>2. synced.remaining[mover] + synced.increment \in Nat
  BY <1>1 DEF Clock
<1>3. charged \in Clock
  <2> HIDE DEF synced
  <2> QED
    BY <1>1, <1>2 DEF Clock, Running
<1>4. CompleteMove(c, mover, next, t) \in {synced, RememberShown(charged)}
  BY DEF CompleteMove
<1> QED
  BY <1>1, <1>3, <1>4, RememberShownType

LEMMA PauseType ==
    ASSUME NEW c \in Clock, NEW t \in Nat
    PROVE  Pause(c, t) \in Clock
<1>1. [Sync(c, t) EXCEPT !.running = None] \in Clock
  BY SyncType DEF Clock
<1> QED
  BY <1>1, RememberShownType DEF Pause

LEMMA ResumeType ==
    ASSUME NEW c \in Clock, NEW side \in Sides, NEW t \in Nat
    PROVE  Resume(c, side, t) \in Clock
<1>1. [c EXCEPT !.flagged = None, !.running = [side |-> side, since |-> t]] \in Clock
  BY DEF Clock, Running
<1> QED
  BY <1>1, RememberShownType DEF Resume

\* Clocks that differ in what was last shown only.
SameTime(clock, old) ==
    /\ clock.initial = old.initial /\ clock.increment = old.increment
    /\ clock.remaining = old.remaining /\ clock.running = old.running
    /\ clock.flagged = old.flagged

LEMMA RememberShownSameTime ==
    ASSUME NEW clock \in Clock
    PROVE  SameTime(RememberShown(clock), clock)
BY DEF SameTime, RememberShown, Clock

-----------------------------------------------------------------------------
(* The game *)

LEMMA NewGameType ==
    ASSUME NEW start \in Sides, NEW initial \in Nat \cup {None},
           NEW increment \in Nat, NEW t \in Nat
    PROVE  NewGame(start, initial, increment, t) \in GameState
BY NewClockType DEF NewGame, GameState

LEMMA ChangedType ==
    ASSUME NEW game \in GameState
    PROVE  Changed(game) \in GameState
BY DEF Changed, GameState

LEMMA WithClockType ==
    ASSUME NEW game \in GameState, NEW clock \in Clock
    PROVE  [game EXCEPT !.clock = clock] \in GameState
BY DEF GameState

LEMMA SideToMoveType ==
    ASSUME NEW game \in GameState
    PROVE  SideToMove(game) \in Sides
BY FlipIsOther DEF SideToMove, GameState

LEMMA PlayType ==
    ASSUME NEW game \in GameState, NEW move \in MoveKinds, NEW t \in Nat
    PROVE  Play(game, move, t) \in GameState
<1> DEFINE mover == SideToMove(game)
<1>1. mover \in Sides /\ Flip(mover) \in Sides
  BY SideToMoveType, FlipIsOther
<1>2. CompleteMove(game.clock, mover, Flip(mover), t) \in Clock
  BY <1>1, CompleteMoveType DEF GameState
<1>3. Append(game.moves, move) \in Seq(MoveKinds)
  BY DEF GameState
<1> HIDE DEF mover
<1>4. [game EXCEPT !.draw_offer = IF @ = Flip(mover) THEN None ELSE @,
                   !.moves = Append(@, move),
                   !.clock = CompleteMove(@, mover, Flip(mover), t)] \in GameState
  BY <1>2, <1>3 DEF GameState
<1> QED
  BY <1>4, ChangedType DEF Play, mover

\* Whoever a result names is a side, and what ends a game is one of the outcomes
\* the protocol has a word for.
LEMMA OutcomeType ==
    ASSUME NEW game \in GameState
    PROVE  Outcome(game) \in Outcomes \cup {None}
<1>1. Flip(SideToMove(game)) \in Sides
  BY SideToMoveType, FlipIsOther
<1>2. game.clock.flagged \in Sides \cup {None}
  BY DEF GameState, Clock
<1> QED
  BY <1>1, <1>2 DEF Outcome, BoardOutcome, Result, Outcomes, GameState

LEMMA MoverFlips ==
    ASSUME NEW old \in GameState, NEW game, NEW move,
           game.start = old.start, game.moves = Append(old.moves, move)
    PROVE  /\ SideToMove(game) = Flip(SideToMove(old))
           /\ Len(game.moves) = Len(old.moves) + 1
<1>1. Len(game.moves) = Len(old.moves) + 1 /\ Len(old.moves) \in Nat
  BY DEF GameState
<1>2. Len(game.moves) % 2 = 0 <=> Len(old.moves) % 2 # 0
  <2> DEFINE n == Len(old.moves)
  <2>1. n \in Nat
    BY <1>1
  <2> HIDE DEF n
  <2>2. (n + 1) % 2 = 0 <=> n % 2 # 0
    BY <2>1
  <2> QED
    BY <1>1, <2>2 DEF n
<1>3. old.start \in Sides
  BY DEF GameState
<1> QED
  BY <1>1, <1>2, <1>3 DEF SideToMove, Flip, Sides

\* game and old agree on everything a result is read from.
SameVerdict(game, old) ==
    /\ game.resigned = old.resigned /\ game.agreed_draw = old.agreed_draw
    /\ game.abandoned = old.abandoned /\ game.clock.flagged = old.clock.flagged
    /\ game.moves = old.moves /\ game.start = old.start

LEMMA SameVerdictSameOutcome ==
    ASSUME NEW game, NEW old, SameVerdict(game, old)
    PROVE  /\ Outcome(game) = Outcome(old)
           /\ IsOver(game) <=> IsOver(old)
           /\ SideToMove(game) = SideToMove(old)
BY DEF SameVerdict, Outcome, BoardOutcome, IsOver, LastMove, SideToMove

\* A resignation, an agreement, a flag or an absence decides a game, whatever
\* else does.
LEMMA DecidedIsOver ==
    ASSUME NEW game \in GameState,
           \/ game.resigned # None \/ game.agreed_draw
           \/ game.clock.flagged # None \/ game.abandoned # None
    PROVE  IsOver(game)
<1>1. \A kind \in {"resignation", "timeout", "abandonment", "agreement"},
         side \in Sides \cup {None} : Result(kind, side) # None
  BY OutcomeAssumption DEF Result, Outcomes
<1>2. /\ game.resigned \in Sides \cup {None} /\ game.abandoned \in Sides \cup {None}
      /\ game.clock.flagged \in Sides \cup {None}
  BY DEF GameState, Clock
<1> QED
  BY <1>1, <1>2 DEF Outcome, IsOver
==============================================================================
