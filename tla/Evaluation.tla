------------------------------ MODULE Evaluation ------------------------------
(***************************************************************************)
(* evaluate of crates/chess-core/src/eval.rs: material and piece-square    *)
(* tables, pawn structure, rooks on files, the king's shield, blended      *)
(* between middle game and endgame, from the mover's point of view.        *)
(*                                                                         *)
(* The piece-square tables are data: Table gives every square of a table a *)
(* bonus of its own, so that reading a table at the wrong square shows.    *)
(* The constants of the terms are the source's.                            *)
(***************************************************************************)
EXTENDS Board, Functions

MgValue == [kind \in Kinds |->
    CASE kind = "Pawn" -> 100 [] kind = "Knight" -> 320 [] kind = "Bishop" -> 330
      [] kind = "Rook" -> 500 [] kind = "Queen" -> 900 [] kind = "King" -> 0]

EgValue == [kind \in Kinds |->
    CASE kind = "Pawn" -> 120 [] kind = "Rook" -> 530 [] kind = "Queen" -> 950
      [] OTHER -> MgValue[kind]]

\* Tables are written from White's side: Black's ranks are mirrored (table_index).
TableRank(s, color) == IF color = "White" THEN 7 - RankOf(s) ELSE RankOf(s)

\* A table entry; only pawns and kings have a table of their own for the endgame.
Table(kind, endgame, s, color) ==
    LET index == TableRank(s, color) * 8 + FileOf(s)
    IN  IF endgame /\ kind \in {"Pawn", "King"} THEN 63 - 2 * index ELSE index

PassedPawn == <<0, 8, 14, 26, 45, 75, 120, 0>>

Smaller(a, b) == IF a < b THEN a ELSE b

\* i32 division rounds towards zero.
Quotient(n, d) == IF n >= 0 THEN n \div d ELSE -((-n) \div d)

----------------------------------------------------------------------------

Of(p, color, kind) == {s \in Squares : p.squares[s] = Piece(color, kind)}

PawnsOnFile(p, color, file) == {s \in Of(p, color, "Pawn") : FileOf(s) = file}

\* 24 in the opening, 0 with only kings and pawns left.
PhaseOf(p) ==
    LET Weight(kind) == CASE kind \in {"Knight", "Bishop"} -> 1 [] kind = "Rook" -> 2
                          [] kind = "Queen" -> 4 [] OTHER -> 0
    IN  Smaller(24, FoldFunctionOnSet(+, 0, [s \in Squares |-> Weight(p.squares[s].kind)], Squares))

\* Sum of a function's values over a set, each a pair <<middle game, endgame>>.
Sum(f, S) ==
    FoldFunctionOnSet(LAMBDA x, y : <<x[1] + y[1], x[2] + y[2]>>, <<0, 0>>, f, S)

Material(p, color) ==
    LET mine == {s \in Squares : p.squares[s].color = color}
    IN  Sum([s \in mine |->
                LET kind == p.squares[s].kind
                IN  <<MgValue[kind] + Table(kind, FALSE, s, color),
                      EgValue[kind] + Table(kind, TRUE, s, color)>>], mine)

BishopPair(p, color) ==
    IF Cardinality(Of(p, color, "Bishop")) >= 2 THEN <<30, 40>> ELSE <<0, 0>>

\* Doubled and isolated pawns, file by file.
PawnFiles(p, color) ==
    LET On(file) == Cardinality(PawnsOnFile(p, color, file))
        Doubled(file) == IF On(file) > 1 THEN -12 * (On(file) - 1) ELSE 0
        Isolated(file) ==
            IF On(file) > 0 /\ \A next \in {file - 1, file + 1} : On(next) = 0 THEN -15 ELSE 0
    IN  Sum([file \in 0..7 |-> <<Doubled(file) + Isolated(file), Doubled(file) + Isolated(file)>>],
            0..7)

\* No enemy pawn ahead of it on its own or an adjacent file.
IsPassed(p, color, s) ==
    \A e \in Of(p, Flip(color), "Pawn") :
        \/ FileOf(e) - FileOf(s) \notin -1..1
        \/ IF color = "White" THEN RankOf(e) <= RankOf(s) ELSE RankOf(e) >= RankOf(s)

PassedPawns(p, color) ==
    LET passed == {s \in Of(p, color, "Pawn") : IsPassed(p, color, s)}
        Advance(s) == IF color = "White" THEN RankOf(s) ELSE 7 - RankOf(s)
    IN  Sum([s \in passed |-> <<PassedPawn[Advance(s) + 1] \div 2, PassedPawn[Advance(s) + 1]>>],
            passed)

\* Open and half-open files, and the seventh rank.
Rooks(p, color) ==
    LET rooks == Of(p, color, "Rook")
        OnFile(s) ==
            IF PawnsOnFile(p, color, FileOf(s)) # {} THEN <<0, 0>>
            ELSE IF PawnsOnFile(p, Flip(color), FileOf(s)) = {} THEN <<18, 9>> ELSE <<9, 0>>
        Seventh == IF color = "White" THEN 6 ELSE 1
        OnRank(s) == IF RankOf(s) = Seventh THEN <<22, 11>> ELSE <<0, 0>>
    IN  Sum([s \in rooks |-> <<OnFile(s)[1] + OnRank(s)[1], OnFile(s)[2] + OnRank(s)[2]>>], rooks)

KingShield(p, color) ==
    LET front == {p.king[color] + Forward(color) + step : step \in {-1, 0, 1}}
    IN  <<9 * Cardinality(front \cap Of(p, color, "Pawn")), 0>>

Terms(p, color) ==
    LET terms == <<Material(p, color), BishopPair(p, color), PawnFiles(p, color),
                   PassedPawns(p, color), Rooks(p, color), KingShield(p, color)>>
    IN  Sum(terms, DOMAIN terms)

Tempo == 8

Evaluate(p) ==
    LET white   == Terms(p, "White")
        black   == Terms(p, "Black")
        phase   == PhaseOf(p)
        blended == Quotient((white[1] - black[1]) * phase + (white[2] - black[2]) * (24 - phase), 24)
    IN  (IF p.side = "White" THEN blended ELSE -blended) + Tempo

\* Mutant: two minor pieces of any kind are too little.
IsInsufficientWithTwoMinors(p) ==
    LET minors == {s \in Squares : p.squares[s].kind \in {"Knight", "Bishop"}}
    IN  /\ \A s \in Squares : p.squares[s].kind \notin {"Pawn", "Rook", "Queen"}
        /\ Cardinality(minors) <= 2

\* Neither side can mate, whatever the other does (is_insufficient_material): at
\* most one minor piece, or two bishops on squares of one colour.
IsInsufficientMaterial(p) ==
    LET Standing(kind) == {s \in Squares : p.squares[s].kind = kind}
        minors == Standing("Knight") \cup Standing("Bishop")
        dark   == {s \in Standing("Bishop") : (FileOf(s) + RankOf(s)) % 2 = 1}
    IN  /\ \A s \in Squares : p.squares[s].kind \notin {"Pawn", "Rook", "Queen"}
        /\ \/ Cardinality(minors) <= 1
           \/ /\ Cardinality(minors) = 2
              /\ Cardinality(dark) = 2 \/ Cardinality(Standing("Bishop") \ dark) = 2

----------------------------------------------------------------------------
(* Properties.                                                             *)

\* The search negates scores from ply to ply, so an evaluation that favoured a
\* colour would mislead it: every table, term and rounding treats the mirrored
\* position like the position.  And a game that is_insufficient_material ends drawn
\* could not have been won: no such position is mate, or has a move that mates.
VerdictsAreFair ==
    LET IsMate(p) == InCheck(p, p.side) /\ LegalMoves(p) = {}
    IN  /\ Evaluate(Mirror(pos)) = Evaluate(pos)
        /\ IsInsufficientMaterial(pos) =>
               ~IsMate(pos) /\ \A mv \in LegalMoves(pos) : ~IsMate(MakeMove(pos, mv))
=============================================================================
