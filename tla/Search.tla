-------------------------------- MODULE Search --------------------------------
(***************************************************************************)
(* The engine's search, crates/chess-core/src/search.rs: iterative         *)
(* deepening under a deadline, alpha-beta with null windows, mate-distance *)
(* pruning, null move and late-move reductions, quiescence, and a          *)
(* transposition table that outlives the search that filled it.            *)
(*                                                                         *)
(* The game of chess is a CONSTANT here: a Game is a graph of positions,   *)
(* with the moves of each in the order the move ordering settles on        *)
(* (killers and history only change that order), the positions in check,   *)
(* the moves that capture, the static evaluation, what passing leads to    *)
(* and the positions with too little material.  A position is its hash.    *)
(*                                                                         *)
(* negamax and quiesce are operators that hand on what they change of the  *)
(* Search structure, [table, nodes, stopped]; a step of the machine is one *)
(* iteration of `think`, which the deadline may cut short at any node, or  *)
(* the moves played between two searches.                                  *)
(***************************************************************************)
EXTENDS Integers, Sequences, FiniteSets, SequencesExt

CONSTANTS
    Games,        \* the games searched
    Slots,        \* TT_SIZE: the table holds one entry for each hash modulo it
    MaxDepth,     \* limits.depth
    MaxNodes,     \* bound: a deadline falls within so many nodes of an iteration
    MaxThinks     \* bound: searches in one game

VARIABLES
    game,       \* the game searched
    root,       \* the position about to be searched or being searched
    played,     \* path, as set_history seeds it: the positions before it
    table,      \* the transposition table
    age,        \* how many searches there were
    thinking,   \* between two iterations of `think`
    result      \* SearchResult

searchVars == <<game, root, played, table, age, thinking, result>>

----------------------------------------------------------------------------

MATE == 30000

MAX_PLY == 64

MATE_THRESHOLD == MATE - MAX_PLY

INFINITY == 31000

DELTA_MARGIN == 200

Larger(a, b) == IF a > b THEN a ELSE b

Smaller(a, b) == IF a < b THEN a ELSE b

NoMove == 0

\* Stands for the answer of a search that was not made yet.
Due == -1

\* Moves of a node searched in full before reductions start.
LATE_MOVE == 4

\* A mate score is kept relative to its node, and told relative to the root.
ToTtScore(score, ply) ==
    IF score >= MATE_THRESHOLD THEN score + ply
    ELSE IF score <= -MATE_THRESHOLD THEN score - ply
    ELSE score

FromTtScore(score, ply) ==
    IF score >= MATE_THRESHOLD THEN score - ply
    ELSE IF score <= -MATE_THRESHOLD THEN score + ply
    ELSE score

\* depth < 0 marks a slot that was never written.
EmptySlot == [key |-> NoMove, mv |-> NoMove, score |-> 0, depth |-> -1, bound |-> "Exact", age |-> 0]

Probe(tt, key) ==
    LET entry == tt[key % Slots]
    IN  IF entry.depth >= 0 /\ entry.key = key THEN entry ELSE EmptySlot

\* Mutant: an entry answers for a deeper search too.
UsableAtAnyDepth(entry, depth, ply, alpha, beta) ==
    LET score == FromTtScore(entry.score, ply)
    IN  \/ entry.bound = "Exact" /\ entry.depth >= 0
        \/ entry.bound = "Lower" /\ score >= beta
        \/ entry.bound = "Upper" /\ score <= alpha

\* An entry answers for a search no deeper than its own, when its bound decides.
Usable(entry, depth, ply, alpha, beta) ==
    LET score == FromTtScore(entry.score, ply)
    IN  /\ entry.depth >= depth
        /\ \/ entry.bound = "Exact"
           \/ entry.bound = "Lower" /\ score >= beta
           \/ entry.bound = "Upper" /\ score <= alpha

Replaces(slot, key, depth, now) ==
    slot.depth < 0 \/ slot.key # key \/ slot.age # now \/ depth >= slot.depth

Store(tt, entry) ==
    IF Replaces(tt[entry.key % Slots], entry.key, entry.depth, entry.age)
    THEN [tt EXCEPT ![entry.key % Slots] = entry] ELSE tt

----------------------------------------------------------------------------
(* The game.                                                               *)

Captures(g, p, mv) == <<p.node, mv>> \in g.captures

\* make_move; a move that does not capture is one more towards the halfmove clock.
After(g, p, mv) ==
    [node |-> mv, halfmove |-> IF Captures(g, p, mv) THEN 0 ELSE p.halfmove + 1]

IsRepetition(p, path) ==
    \E i \in (Len(path) - Smaller(p.halfmove, Len(path)) + 1)..Len(path) : path[i] = p.node

IsDrawn(g, p, path) == p.halfmove >= 100 \/ IsRepetition(p, path) \/ p.node \in g.dead

\* The move of the table first, then the captures, then the others.
Ordered(g, p, moves, first) ==
    SelectSeq(moves, LAMBDA mv : mv = first)
        \o SelectSeq(moves, LAMBDA mv : mv # first /\ Captures(g, p, mv))
        \o SelectSeq(moves, LAMBDA mv : mv # first /\ ~Captures(g, p, mv))

----------------------------------------------------------------------------
(* The recursion.  `ctx` is what it only reads: the positions on the way   *)
(* here, whether the clock may cut it short and the node at which it does, *)
(* the age of the search and the move the table suggests for this node.    *)

\* One more node; past the deadline everything returns at once.
Counted(ctx, st) ==
    [st EXCEPT !.nodes = @ + 1, !.stopped = ctx.canStop /\ st.nodes + 1 = ctx.stopAt]

Answer(score, mv, st) == [score |-> score, mv |-> mv, st |-> st]

\* What stopping returns is thrown away by every caller.
Stopped(st) == Answer(0, NoMove, st)

\* How far a late quiet move is searched short.
Reduction(depth, quiet, checked, searched) ==
    IF depth >= 3 /\ quiet /\ ~checked /\ searched >= LATE_MOVE
    THEN 1 + Smaller(searched \div 8, 2) ELSE 0

\* A capture was tried and answered.
WithCapture(tried, beta, reply) ==
    [best  |-> Larger(tried.best, -reply.score),
     alpha |-> Larger(tried.alpha, -reply.score),
     cut   |-> Larger(tried.alpha, -reply.score) >= beta /\ -reply.score > tried.best,
     st    |-> reply.st]

Best(tried, mv) == IF tried.st.stopped THEN Stopped(tried.st) ELSE Answer(tried.best, mv, tried.st)

RECURSIVE Quiesce(_, _, _, _, _, _, _)

\* The captures of a quiet position, or every move of a position in check, from the
\* static evaluation on.  A capture that cannot come close to alpha is left out.
TryCaptures(g, p, ply, alpha, beta, moves, stand, ctx, st) ==
    LET Hopeless(mv, low) == p.node \notin g.checked /\ stand + g.gain[mv] + DELTA_MARGIN < low
        Try(tried, mv) ==
            IF tried.cut \/ tried.st.stopped \/ Hopeless(mv, tried.alpha) THEN tried
            ELSE WithCapture(tried, beta,
                     Quiesce(g, After(g, p, mv), ply + 1, -beta, -tried.alpha, ctx, tried.st))
    IN  FoldLeft(Try, [best |-> stand, alpha |-> Larger(alpha, stand), cut |-> FALSE, st |-> st],
                 Ordered(g, p, moves, NoMove))

Quiesce(g, p, ply, alpha, beta, ctx, before) ==
    LET st      == Counted(ctx, before)
        checked == p.node \in g.checked
        stand   == IF checked THEN -INFINITY ELSE g.value[p.node]
        moves   == IF checked THEN g.moves[p.node]
                   ELSE SelectSeq(g.moves[p.node], LAMBDA mv : Captures(g, p, mv))
    IN  IF before.stopped THEN Stopped(before)
        ELSE IF st.stopped THEN Stopped(st)
        ELSE IF ply >= MAX_PLY - 1 THEN Answer(g.value[p.node], NoMove, st)
        ELSE IF ~checked /\ stand >= beta THEN Answer(stand, NoMove, st)
        ELSE IF moves = <<>> THEN Answer(IF checked THEN ply - MATE ELSE stand, NoMove, st)
        ELSE Best(TryCaptures(g, p, ply, alpha, beta, moves, stand, ctx, st), NoMove)

RECURSIVE Negamax(_, _, _, _, _, _, _, _)

\* A move was searched and answered.
WithReply(tried, mv, reply) ==
    IF reply.st.stopped THEN [tried EXCEPT !.st = reply.st]
    ELSE [best     |-> Larger(tried.best, -reply.score),
          mv       |-> IF -reply.score > tried.best THEN mv ELSE tried.mv,
          line     |-> IF -reply.score > tried.alpha THEN mv ELSE tried.line,
          alpha    |-> Larger(tried.alpha, -reply.score),
          searched |-> tried.searched + 1,
          st       |-> reply.st]

\* The searches of one move, one after the other: each unless what the one before showed
\* settles the move.  The first move gets the full window.  The others a null window,
\* searched short when they come late, then in full depth, then with the full window
\* when they turn out better than that.
Windows(depth, alpha, beta, reduction, searched) ==
    IF searched = 0 THEN <<[depth |-> depth - 1, high |-> beta, below |-> beta]>>
    ELSE (IF reduction = 0 THEN <<>>
          ELSE <<[depth |-> depth - 1 - reduction, high |-> alpha + 1, below |-> INFINITY]>>)
         \o <<[depth |-> depth - 1, high |-> alpha + 1, below |-> INFINITY],
              [depth |-> depth - 1, high |-> beta, below |-> beta]>>

\* A search in the next window is due: none was made yet, or it was above alpha and
\* short of what the next window may still improve.
IsDue(window, alpha, reply) ==
    reply.mv = Due \/ (-reply.score > alpha /\ -reply.score < window.below)

TryMoves(g, p, depth, ply, alpha, beta, first, ctx, st) ==
    LET below == [ctx EXCEPT !.path = Append(@, p.node)]
        Searched(tried, mv) ==
            LET In(reply, window) ==
                    IF ~IsDue(window, tried.alpha, reply) THEN reply
                    ELSE Negamax(g, After(g, p, mv), window.depth, ply + 1,
                                 -window.high, -tried.alpha, below, reply.st)
            IN  FoldLeft(In, Answer(0, Due, tried.st),
                    Windows(depth, tried.alpha, beta,
                            Reduction(depth, ~Captures(g, p, mv), p.node \in g.checked, tried.searched),
                            tried.searched))
        Try(tried, mv) ==
            IF tried.alpha >= beta \/ tried.st.stopped THEN tried
            ELSE WithReply(tried, mv, Searched(tried, mv))
    IN  FoldLeft(Try, [best |-> -INFINITY, mv |-> NoMove, line |-> NoMove, alpha |-> alpha,
                       searched |-> 0, st |-> st],
                 Ordered(g, p, g.moves[p.node], first))

\* What the moves of a node showed is stored, as a bound when it lies outside the window.
Noted(tried, key, depth, ply, alpha, beta, now) ==
    [tried EXCEPT !.st.table =
        Store(@, [key   |-> key, mv |-> tried.mv, score |-> ToTtScore(tried.best, ply),
                  depth |-> depth,
                  bound |-> IF tried.best >= beta THEN "Lower"
                            ELSE IF tried.best > alpha THEN "Exact" ELSE "Upper",
                  age   |-> now])]

\* Mutant: a search that was stopped stores what it had found until then.
ConcludedUnfinished(tried, key, depth, ply, alpha, beta, now) ==
    Best(Noted(tried, key, depth, ply, alpha, beta, now), tried.line)

\* A search that was stopped stores nothing.
Concluded(tried, key, depth, ply, alpha, beta, now) ==
    IF tried.st.stopped THEN Stopped(tried.st)
    ELSE Best(Noted(tried, key, depth, ply, alpha, beta, now), tried.line)

SearchMoves(g, p, depth, ply, alpha, beta, ctx, st) ==
    IF g.moves[p.node] = <<>>
    THEN Answer(IF p.node \in g.checked THEN ply - MATE ELSE 0, NoMove, st)
    ELSE Concluded(TryMoves(g, p, depth, ply, alpha, beta, ctx.first, ctx, st),
                   p.node, depth, ply, alpha, beta, ctx.age)

\* The opponent gets a free move; a mate found that way is not believed.
AfterPass(beta, reply) ==
    IF reply.st.stopped THEN Stopped(reply.st)
    ELSE Answer(IF -reply.score >= beta /\ -reply.score >= MATE_THRESHOLD
                THEN beta ELSE -reply.score, NoMove, reply.st)

\* The moves are searched unless passing was enough.
UnlessPassed(g, p, depth, ply, alpha, beta, ctx, passed) ==
    IF passed.st.stopped \/ passed.score >= beta THEN passed
    ELSE SearchMoves(g, p, depth, ply, alpha, beta, ctx, passed.st)

Negamax(g, p, depthLeft, ply, low, high, ctx, before) ==
    LET st      == Counted(ctx, before)
        inner   == ply # 0
        checked == p.node \in g.checked
        \* Nothing below is a quicker mate than the one next to this node.
        alpha   == IF inner THEN Larger(low, ply - MATE) ELSE low
        beta    == IF inner THEN Smaller(high, MATE - ply - 1) ELSE high
        depth   == IF checked THEN depthLeft + 1 ELSE depthLeft
        nullWindow == inner /\ beta - alpha <= 1
        entry   == Probe(st.table, p.node)
        mayPass == nullWindow /\ ~checked /\ depth >= 3 /\ g.pass[p.node] # NoMove
    IN  IF before.stopped THEN Stopped(before)
        ELSE IF st.stopped THEN Stopped(st)
        ELSE IF inner /\ IsDrawn(g, p, ctx.path) THEN Answer(0, NoMove, st)
        ELSE IF inner /\ alpha >= beta THEN Answer(alpha, NoMove, st)
        ELSE IF ply >= MAX_PLY - 1 THEN Answer(g.value[p.node], NoMove, st)
        ELSE IF depth <= 0 THEN Quiesce(g, p, ply, alpha, beta, ctx, st)
        ELSE IF nullWindow /\ Usable(entry, depth, ply, alpha, beta)
             THEN Answer(FromTtScore(entry.score, ply), NoMove, st)
        ELSE UnlessPassed(g, p, depth, ply, alpha, beta, [ctx EXCEPT !.first = entry.mv],
                 IF mayPass
                 THEN AfterPass(beta,
                          Negamax(g, [node |-> g.pass[p.node], halfmove |-> p.halfmove + 1],
                                  depth - 1 - (2 + depth \div 6), ply + 1, -beta, 1 - beta, ctx, st))
                 ELSE Answer(-INFINITY, NoMove, st))

----------------------------------------------------------------------------
(* think.                                                                  *)

Unsearched == [best |-> NoMove, score |-> 0, depth |-> 0]

SearchInit ==
    /\ game \in Games
    /\ root = [node |-> game.root, halfmove |-> 0]
    /\ played = <<>>
    /\ table = [slot \in 0..(Slots - 1) |-> EmptySlot]
    /\ age = 0
    /\ thinking = FALSE
    /\ result = Unsearched

\* Whatever the clock does, a position that has moves gets one of them.
Think ==
    /\ ~thinking /\ result = Unsearched
    /\ game.moves[root.node] # <<>>
    /\ age' = age + 1
    /\ result' = [Unsearched EXCEPT !.best = game.moves[root.node][1]]
    /\ thinking' = TRUE
    /\ UNCHANGED <<game, root, played, table>>

\* An iteration from the root, cut short at node stopAt unless it is the first.
Iteration(stopAt) ==
    Negamax(game, root, result.depth + 1, 0, -INFINITY, INFINITY,
            [path |-> played, first |-> NoMove, canStop |-> result.depth > 0, stopAt |-> stopAt, age |-> age],
            [table |-> table, nodes |-> 0, stopped |-> FALSE])

\* The next depth.  An iteration that was cut short counts for nothing; after a whole
\* one the search ends at the limit, at a forced mate, or for want of time.
Deepen(stopAt) ==
    LET searched == Iteration(stopAt)
    IN  /\ thinking
        /\ table' = searched.st.table
        /\ \/ /\ searched.st.stopped
              /\ thinking' = FALSE
              /\ UNCHANGED result
           \/ /\ ~searched.st.stopped
              /\ result' = [best |-> searched.mv, score |-> searched.score,
                            depth |-> result.depth + 1]
              /\ thinking' \in
                    (IF \/ result'.depth = MaxDepth
                        \/ searched.score >= MATE_THRESHOLD
                        \/ searched.score <= -MATE_THRESHOLD
                     THEN {FALSE} ELSE BOOLEAN)
        /\ UNCHANGED <<game, root, played, age>>

\* The move found is played and answered; set_history hands over the positions since.
Play ==
    /\ ~thinking /\ result # Unsearched /\ age < MaxThinks
    /\ LET reached == After(game, root, result.best)
       IN  \E i \in DOMAIN game.moves[reached.node] :
               /\ root' = After(game, reached, game.moves[reached.node][i])
               /\ played' = played \o <<root.node, reached.node>>
    /\ result' = Unsearched
    /\ UNCHANGED <<game, table, age, thinking>>

\* No node has the number 0: the deadline does not fall in that iteration.
SearchNext == Think \/ (\E stopAt \in 0..MaxNodes : Deepen(stopAt)) \/ Play

SearchSpec == SearchInit /\ [][SearchNext]_searchVars

----------------------------------------------------------------------------
(* What is true of a game, whatever searches it.                           *)

Nodes(g) == DOMAIN g.moves

Next(g, n) == {g.moves[n][i] : i \in DOMAIN g.moves[n]}

Mated(g) == {x \in Nodes(g) \ g.dead : g.moves[x] = <<>> /\ x \in g.checked}

\* The positions whose side to move is mated within n moves of either side.
MatedWithin(g, n) ==
    LET Before(mated, i) ==
            mated \cup {x \in Nodes(g) \ g.dead :
                           /\ g.moves[x] # <<>>
                           /\ \A y \in Next(g, x) : y \notin g.dead /\ Next(g, y) \cap mated # {}}
    IN  FoldLeft(Before, Mated(g), [i \in 1..(n \div 2) |-> i])

\* The side to move can force mate within n moves of either side.
MatesWithin(g, n) == {x \in Nodes(g) : n > 0 /\ Next(g, x) \cap MatedWithin(g, n - 1) # {}}

\* A score that announces a mate announces one that is there, in that many moves.
ClaimHolds(g, n, score, isLower, isUpper) ==
    /\ (isLower /\ score >= MATE_THRESHOLD) => n \in MatesWithin(g, MATE - score)
    /\ (isUpper /\ score <= -MATE_THRESHOLD) => n \in MatedWithin(g, MATE + score)

\* Nothing cuts corners in a game without passes whose positions have few moves.
IsPlain(g) == \A n \in Nodes(g) : Len(g.moves[n]) <= LATE_MOVE /\ g.pass[n] = NoMove

\* The positions from which the game can go on for n moves.
LastsFor(g, n) ==
    FoldLeft(LAMBDA S, i : {x \in Nodes(g) : Next(g, x) \cap S # {}}, Nodes(g), [i \in 1..n |-> i])

\* The score of perfect play: a mate as soon or as late as it can be had, or a draw.
BestScore(g, n, most) ==
    LET mates == {i \in 1..most : n \in MatesWithin(g, i)}
        mated == {i \in 0..most : n \in MatedWithin(g, i)}
    IN  IF mates # {} THEN MATE - (CHOOSE i \in mates : \A j \in mates : i <= j)
        ELSE IF mated # {} THEN (CHOOSE i \in mated : \A j \in mated : i <= j) - MATE
        ELSE 0

----------------------------------------------------------------------------
(* Properties.                                                             *)

\* Every mate the engine announces, or keeps in its table for later, is forced and as
\* near as it says, however the same position is reached at another distance, and
\* whatever iteration was cut short before.
MatesAreForced ==
    /\ ClaimHolds(game, root.node, result.score, TRUE, TRUE)
    /\ \A slot \in DOMAIN table :
           LET entry == table[slot]
           IN  entry.depth >= 0 =>
                   ClaimHolds(game, entry.key, entry.score,
                              entry.bound # "Upper", entry.bound # "Lower")

\* An iteration deeper than the game is long has seen all of it: null windows, bounds
\* taken from the table, what earlier searches and searches that were stopped left
\* there included, its score is that of perfect play and its move keeps that score.
DeepSearchesAreExact ==
    LET most == Cardinality(Nodes(game))
    IN  (IsPlain(game) /\ root.node \notin LastsFor(game, result.depth)) =>
            /\ result.score = BestScore(game, root.node, most)
            /\ LET after == -BestScore(game, result.best, most)
               IN  result.score = IF result.best \in game.dead THEN 0
                                  ELSE IF after > 0 THEN after - 1
                                  ELSE IF after < 0 THEN after + 1 ELSE 0
=============================================================================
