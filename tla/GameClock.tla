------------------------------ MODULE GameClock ------------------------------
(***************************************************************************)
(* The chess clock of crates/chess-core/src/game.rs.                       *)
(*                                                                         *)
(* A clock is a record.  The code reads the monotonic clock inside each    *)
(* method; here every operator takes that reading as its last argument t.  *)
(* Durations and instants are naturals in a unit of which Second make up   *)
(* one displayed second.  Subtraction saturates at zero as in the code.    *)
(***************************************************************************)
EXTENDS Integers

CONSTANTS
    None,           \* the None of every Option in the code
    Second          \* time units per displayed second

Sides == {"white", "black"}

ASSUME SecondAssumption == Second \in Nat \ {0}
ASSUME NoneAssumption == None \notin Nat \cup Sides

Flip(side) == IF side = "white" THEN "black" ELSE "white"

Running == [side : Sides, since : Nat]

ASSUME RunningAssumption == None \notin Running

\* initial is None for an untimed game; shown is what the players last saw.
Clock == [initial   : Nat \cup {None},
          increment : Nat,
          remaining : [Sides -> Nat],
          running   : Running \cup {None},
          flagged   : Sides \cup {None},
          shown     : [Sides -> Nat]]

SaturatingSub(a, b) == IF b < a THEN a - b ELSE 0

\* Duration::as_millis().div_ceil(1000)
ShownSeconds(time) == (time + Second - 1) \div Second

InitialTime(initial) == IF initial = None THEN 0 ELSE initial

NewClock(initial, increment, side, t) ==
    [initial   |-> initial,
     increment |-> increment,
     remaining |-> [s \in Sides |-> InitialTime(initial)],
     running   |-> IF initial = None THEN None ELSE [side |-> side, since |-> t],
     flagged   |-> None,
     shown     |-> [s \in Sides |-> ShownSeconds(InitialTime(initial))]]

\* sync: charge the running side for the time since it was last charged.
Sync(c, t) ==
    IF c.running = None THEN c
    ELSE LET side == c.running.side
             left == SaturatingSub(c.remaining[side], t - c.running.since)
         IN  [c EXCEPT !.remaining[side] = left,
                       !.flagged = IF left = 0 THEN side ELSE @,
                       !.running = IF left = 0 THEN None
                                   ELSE [side |-> side, since |-> t]]

RememberShown(c) ==
    [c EXCEPT !.shown = [s \in Sides |-> ShownSeconds(c.remaining[s])]]

\* tick: the synchronised clock, and whether the players would see a change.
Tick(c, t) == RememberShown(Sync(c, t))
TickChanged(c, t) == Tick(c, t).shown # c.shown \/ Tick(c, t).flagged # c.flagged

\* Mutant: the mover is not charged for the time up to the move.
CompleteMoveUncharged(c, mover, next, t) ==
    IF c.flagged # None \/ c.initial = None THEN c
    ELSE RememberShown([c EXCEPT !.remaining[mover] = @ + c.increment,
                                 !.running = [side |-> next, since |-> t]])

CompleteMove(c, mover, next, t) ==
    LET synced == Sync(c, t)
    IN  IF synced.flagged # None \/ synced.initial = None THEN synced
        ELSE RememberShown([synced EXCEPT
                 !.remaining[mover] = @ + synced.increment,
                 !.running = [side |-> next, since |-> t]])

Pause(c, t) == RememberShown([Sync(c, t) EXCEPT !.running = None])

Resume(c, side, t) ==
    IF c.initial = None THEN c
    ELSE RememberShown([c EXCEPT !.flagged = None,
                                 !.running = [side |-> side, since |-> t]])

\* restore: the clock of a game read back from disk.
Restore(c, remaining, side, running, t) ==
    RememberShown([c EXCEPT
        !.remaining = remaining,
        !.flagged = None,
        !.running = IF c.initial # None /\ running
                    THEN [side |-> side, since |-> t] ELSE None])
==============================================================================
