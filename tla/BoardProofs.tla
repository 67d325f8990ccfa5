----------------------------- MODULE BoardProofs -----------------------------
(***************************************************************************)
(* What is proved of the board, for lines of any length from any starts.   *)
(***************************************************************************)
EXTENDS Board, TLAPS

----------------------------------------------------------------------------
(* What the generator promises of a move.                                  *)

FitsEnPassant(p, mv) ==
    mv.kind = "EnPassant" =>
        /\ p.squares[mv.from] = Piece(p.side, "Pawn")
        /\ mv.promo = "none"
        /\ mv.to = p.ep
        /\ p.squares[mv.to] = Empty

FitsDoublePush(p, mv) ==
    mv.kind = "DoublePush" =>
        /\ p.squares[mv.from] = Piece(p.side, "Pawn")
        /\ mv.promo = "none"
        /\ mv.from + Forward(p.side) \in Squares
        /\ mv.to = mv.from + 2 * Forward(p.side)
        /\ p.squares[mv.to] = Empty

FitsPromotion(p, mv) ==
    mv.promo # "none" =>
        /\ p.squares[mv.from] = Piece(p.side, "Pawn")
        /\ mv.promo \in {"Queen", "Rook", "Bishop", "Knight"}

FitsCastle(p, mv) ==
    IsCastle(mv) =>
        /\ mv.from = Sq(4, HomeRank(p.side))
        /\ mv.to = Sq(IF mv.kind = "CastleKing" THEN 6 ELSE 2, HomeRank(p.side))
        /\ mv.promo = "none"
        /\ p.squares[mv.from] = Piece(p.side, "King")
        /\ p.squares[mv.to] = Empty
        /\ p.squares[RookFrom(mv)] = Piece(p.side, "Rook")
        /\ p.squares[RookTo(mv)] = Empty

Fits(p, mv) ==
    /\ mv.from \in Squares /\ mv.to \in Squares /\ mv.from # mv.to
    /\ mv.kind \in MoveKinds
    /\ p.squares[mv.from].color = p.side
    /\ p.squares[mv.to].color # p.side
    /\ FitsEnPassant(p, mv)
    /\ FitsDoublePush(p, mv)
    /\ FitsPromotion(p, mv)
    /\ FitsCastle(p, mv)

----------------------------------------------------------------------------
(* The fields of a position.                                               *)

LEMMA PositionFields ==
    ASSUME NEW p, IsPosition(p)
    PROVE  /\ p.squares \in [Squares -> Pieces \cup {Empty}]
           /\ p.side \in Colors
           /\ p.castling \subseteq Rights
           /\ p.ep \in Squares \cup {NoSquare}
           /\ p.halfmove \in Nat /\ p.fullmove \in Nat
           /\ p.king \in [Colors -> Squares]
           /\ p.hash \subseteq Features
           /\ p = PositionOf(p.squares, p.side, p.castling, p.ep, p.halfmove, p.fullmove, p.king,
                             p.hash)
BY DEF IsPosition, Positions, PositionOf

LEMMA PositionBuilt ==
    ASSUME NEW p, NEW q, p = PositionOf(q.squares, q.side, q.castling, q.ep, q.halfmove,
                                        q.fullmove, q.king, q.hash),
           q.squares \in [Squares -> Pieces \cup {Empty}], q.side \in Colors,
           q.castling \subseteq Rights, q.ep \in Squares \cup {NoSquare},
           q.halfmove \in Nat, q.fullmove \in Nat, q.king \in [Colors -> Squares],
           q.hash \subseteq Features
    PROVE  p \in Positions
BY DEF Positions, PositionOf

----------------------------------------------------------------------------
(* Taking back.                                                            *)

\* The pawn taken en passant is the opponent's and neither where the move starts
\* nor where it ends.
LEMMA CapturedSquareFits ==
    ASSUME NEW p, IsPosition(p), NEW mv, Fits(p, mv)
    PROVE  /\ CapturedSquare(p, mv) \in Squares
           /\ CapturedSquare(p, mv) # mv.from
           /\ p.squares[CapturedSquare(p, mv)].color # p.side
           /\ mv.kind # "EnPassant" => CapturedSquare(p, mv) = mv.to
           /\ mv.kind = "EnPassant" =>
                  /\ CapturedSquare(p, mv) # mv.to
                  /\ p.squares[CapturedSquare(p, mv)] = Piece(Flip(p.side), "Pawn")
                  /\ p.squares[mv.to] = Empty
<1>1. CASE mv.kind # "EnPassant"
  BY <1>1 DEF CapturedSquare, Fits
<1>2. CASE mv.kind = "EnPassant"
  <2>1. mv.to = p.ep /\ p.squares[mv.to] = Empty
    BY <1>2 DEF Fits, FitsEnPassant
  <2>2. p.ep # NoSquare
    BY <2>1 DEF Fits, Squares, NoSquare
  <2>3. CapturedSquare(p, mv) = p.ep - Forward(p.side)
    BY <1>2, <2>1 DEF CapturedSquare
  <2>4. /\ CapturedSquare(p, mv) \in Squares
        /\ p.squares[CapturedSquare(p, mv)] = Piece(Flip(p.side), "Pawn")
    BY <2>2, <2>3, PositionFields DEF IsPosition
  <2>5. p.side \in Colors
    BY PositionFields DEF IsPosition
  <2>6. Piece(Flip(p.side), "Pawn").color # p.side /\ Piece(Flip(p.side), "Pawn") # Empty
    BY <2>5 DEF Piece, Flip, Empty, Colors
  <2> QED
    BY <1>2, <2>1, <2>4, <2>6 DEF Fits
<1> QED
  BY <1>1, <1>2

LEMMA UnmovedRestores ==
    ASSUME NEW p, IsPosition(p), NEW mv, Fits(p, mv)
    PROVE  Unmoved(MakeMove(p, mv), UndoOf(p, mv)) = p.squares
<1> DEFINE q    == MakeMove(p, mv)
           undo == UndoOf(p, mv)
           c    == CapturedSquare(p, mv)
<1>1. /\ q.squares = Moved(p, mv) /\ q.side = Flip(p.side)
      /\ undo.mv = mv /\ undo.captured_sq = c /\ undo.captured = p.squares[c]
  BY DEF MakeMove, UndoOf
<1>2. p.squares \in [Squares -> Pieces \cup {Empty}] /\ p.side \in Colors
  BY PositionFields DEF IsPosition
<1>3. Flip(Flip(p.side)) = p.side
  BY <1>2 DEF Flip, Colors
<1>4. mv.from \in Squares /\ mv.to \in Squares /\ mv.from # mv.to
  BY DEF Fits
<1>5. CASE IsCastle(mv)
  <2>1. /\ p.squares[mv.to] = Empty
        /\ p.squares[RookTo(mv)] = Empty
        /\ mv.promo = "none"
    BY <1>5 DEF Fits, FitsCastle
  <2>2. /\ RookFrom(mv) \in Squares /\ RookTo(mv) \in Squares
        /\ RookFrom(mv) \notin {mv.from, mv.to} /\ RookTo(mv) \notin {mv.from, mv.to}
        /\ RookFrom(mv) # RookTo(mv)
    BY <1>5 DEF Fits, FitsCastle, IsCastle, RookFrom, RookTo, Sq, RankOf, HomeRank, Squares
  <2>3. c = mv.to
    BY <1>5, CapturedSquareFits DEF IsCastle
  <2> HIDE DEF c
  <2>4. DEFINE sq == p.squares
  <2>5. Moved(p, mv) =
          [[[[[sq EXCEPT ![mv.to] = Empty] EXCEPT ![mv.from] = Empty]
              EXCEPT ![mv.to] = sq[mv.from]]
              EXCEPT ![RookFrom(mv)] = Empty] EXCEPT ![RookTo(mv)] = sq[RookFrom(mv)]]
    BY <1>2, <1>4, <1>5, <2>1, <2>2, <2>3 DEF Moved, Landing, c
  <2> QED
    BY <1>1, <1>2, <1>4, <1>5, <2>1, <2>2, <2>3, <2>5 DEF Unmoved, Original
<1>6. CASE ~IsCastle(mv)
  <2>1. mv.promo # "none" => p.squares[mv.from] = Piece(p.side, "Pawn")
    BY DEF Fits, FitsPromotion
  <2>2. /\ c \in Squares /\ c # mv.from
        /\ c # mv.to => p.squares[mv.to] = Empty
    BY CapturedSquareFits
  <2> HIDE DEF c
  <2>3. Moved(p, mv) =
          [[[p.squares EXCEPT ![c] = Empty] EXCEPT ![mv.from] = Empty]
              EXCEPT ![mv.to] = Landing(p, mv)]
    BY <1>6 DEF Moved, c
  <2>4. Moved(p, mv)[mv.to] = Landing(p, mv)
    BY <1>2, <1>4, <2>3
  <2>5. Original(q, mv) = p.squares[mv.from]
    BY <1>1, <1>3, <2>1, <2>4 DEF Original, Landing
  <2> HIDE DEF q
  <2>6. Unmoved(q, undo) =
          LET back == [[q.squares EXCEPT ![mv.to] = Empty] EXCEPT ![mv.from] = p.squares[mv.from]]
          IN  IF p.squares[c] = Empty THEN back ELSE [back EXCEPT ![c] = p.squares[c]]
    BY <1>1, <1>6, <2>5 DEF Unmoved
  <2>7. ASSUME NEW s \in Squares
        PROVE  Unmoved(q, undo)[s] = p.squares[s]
    BY <1>1, <1>2, <1>4, <2>2, <2>3, <2>6
  <2>8. Unmoved(q, undo) \in [Squares -> Pieces \cup {Empty}]
    BY <1>1, <1>2, <1>4, <2>2, <2>3, <2>6
  <2> QED
    BY <1>2, <2>7, <2>8 DEF q
<1> QED
  BY <1>5, <1>6

\* unmake_move gives back the whole position, what it computes back included.
LEMMA UnmakeRestores ==
    ASSUME NEW p, IsPosition(p), NEW mv, Fits(p, mv)
    PROVE  UnmakeMove(MakeMove(p, mv), UndoOf(p, mv)) = p
<1> DEFINE q    == MakeMove(p, mv)
           undo == UndoOf(p, mv)
<1>1. /\ p.side \in Colors /\ p.fullmove \in Nat /\ p.king \in [Colors -> Squares]
      /\ p.squares \in [Squares -> Pieces \cup {Empty}]
      /\ \A color \in Colors, s \in Squares :
             p.squares[s] = Piece(color, "King") => p.king[color] = s
  BY PositionFields DEF IsPosition
<1>2. /\ q.side = Flip(p.side) /\ Flip(Flip(p.side)) = p.side
      /\ q.squares = Moved(p, mv)
      /\ q.fullmove = IF p.side = "Black" THEN p.fullmove + 1 ELSE p.fullmove
      /\ q.king = IF p.squares[mv.from].kind = "King"
                  THEN [p.king EXCEPT ![p.side] = mv.to] ELSE p.king
  BY <1>1 DEF MakeMove, Flip, Colors
<1>3. /\ undo.mv = mv /\ undo.castling = p.castling /\ undo.ep = p.ep
      /\ undo.halfmove = p.halfmove /\ undo.hash = p.hash
  BY DEF UndoOf
<1>4. Unmoved(q, undo) = p.squares
  BY UnmovedRestores
<1>5. Original(q, mv).kind = "King" <=> p.squares[mv.from].kind = "King"
  <2>1. CASE mv.promo # "none"
    BY <2>1 DEF Original, Fits, FitsPromotion, Piece
  <2>2. CASE mv.promo = "none"
    <3>1. Moved(p, mv)[mv.to] = p.squares[mv.from]
      <4>1. CASE IsCastle(mv)
        <5>1. RookFrom(mv) # mv.to /\ RookTo(mv) # mv.to
          BY <4>1 DEF Fits, FitsCastle, IsCastle, RookFrom, RookTo, Sq, RankOf, HomeRank, Squares
        <5> QED
          BY <1>1, <2>2, <4>1, <5>1 DEF Fits, Moved, Landing
      <4>2. CASE ~IsCastle(mv)
        BY <1>1, <2>2, <4>2 DEF Fits, Moved, Landing
      <4> QED
        BY <4>1, <4>2
    <3> QED
      BY <1>2, <2>2, <3>1 DEF Original
  <2> QED
    BY <2>1, <2>2
<1>6. (IF Original(q, mv).kind = "King" THEN [q.king EXCEPT ![p.side] = mv.from] ELSE q.king)
         = p.king
  <2>1. CASE p.squares[mv.from].kind = "King"
    <3>1. p.king[p.side] = mv.from
      <4>1. p.squares[mv.from] \in Pieces \cup {Empty} /\ p.squares[mv.from].color = p.side
        BY <1>1 DEF Fits
      <4>2. p.squares[mv.from] = Piece(p.side, "King")
        BY <2>1, <4>1 DEF Pieces, Piece, Empty
      <4> QED
        BY <1>1, <4>2 DEF Fits
    <3> QED
      BY <1>1, <1>2, <1>5, <2>1, <3>1
  <2>2. CASE p.squares[mv.from].kind # "King"
    BY <1>2, <1>5, <2>2
  <2> QED
    BY <2>1, <2>2
<1>7. (IF p.side = "Black" THEN q.fullmove - 1 ELSE q.fullmove) = p.fullmove
  BY <1>1, <1>2
<1> HIDE DEF q, undo
<1>8. UnmakeMove(q, undo) =
        PositionOf(p.squares, p.side, p.castling, p.ep, p.halfmove, p.fullmove, p.king, p.hash)
  BY <1>2, <1>3, <1>4, <1>6, <1>7 DEF UnmakeMove, PositionOf
<1> QED
  BY <1>8, PositionFields DEF IsPosition, q, undo

LEMMA UnmakeNullRestores ==
    ASSUME NEW p, IsPosition(p)
    PROVE  UnmakeNull(MakeNull(p), NullUndoOf(p)) = p
<1>1. Flip(Flip(p.side)) = p.side
  BY PositionFields DEF IsPosition, Flip, Colors
<1>2. UnmakeNull(MakeNull(p), NullUndoOf(p)) =
        PositionOf(p.squares, p.side, p.castling, p.ep, p.halfmove, p.fullmove, p.king, p.hash)
  BY <1>1 DEF MakeNull, UnmakeNull, NullUndoOf, PositionOf
<1> QED
  BY <1>2, PositionFields DEF IsPosition

----------------------------------------------------------------------------
(* What a move leaves.                                                     *)

\* The squares of a castle are four, on the home rank of its side.
LEMMA CastleSquares ==
    ASSUME NEW p, IsPosition(p), NEW mv, Fits(p, mv), IsCastle(mv)
    PROVE  /\ RookFrom(mv) \in Squares /\ RookTo(mv) \in Squares
           /\ RookFrom(mv) \notin {mv.from, mv.to} /\ RookTo(mv) \notin {mv.from, mv.to}
           /\ RookFrom(mv) # RookTo(mv)
           /\ \A s \in {mv.from, mv.to, RookFrom(mv), RookTo(mv)} : RankOf(s) = HomeRank(p.side)
BY PositionFields
   DEF IsPosition, Fits, FitsCastle, IsCastle, RookFrom, RookTo, Sq, RankOf, HomeRank, Squares,
       Colors

\* The board after a move: what landed, the rook of a castle, and for the rest what
\* was there before or nothing.
LEMMA MovedBoard ==
    ASSUME NEW p, IsPosition(p), NEW mv, Fits(p, mv)
    PROVE  /\ Moved(p, mv) \in [Squares -> Pieces \cup {Empty}]
           /\ Moved(p, mv)[mv.to] = Landing(p, mv)
           /\ Moved(p, mv)[mv.from] = Empty
           /\ IsCastle(mv) => Moved(p, mv)[RookTo(mv)] = Piece(p.side, "Rook")
           /\ \A s \in Squares \ {mv.from, mv.to} :
                  IF IsCastle(mv)
                  THEN s \notin {RookFrom(mv), RookTo(mv)} => Moved(p, mv)[s] = p.squares[s]
                  ELSE s # CapturedSquare(p, mv) => Moved(p, mv)[s] = p.squares[s]
           /\ IsCastle(mv) => Moved(p, mv)[RookFrom(mv)] = Empty
           /\ mv.kind = "EnPassant" => Moved(p, mv)[CapturedSquare(p, mv)] = Empty
<1> DEFINE c  == CapturedSquare(p, mv)
           sq == p.squares
<1>1. sq \in [Squares -> Pieces \cup {Empty}] /\ p.side \in Colors
  BY PositionFields DEF IsPosition
<1>2. mv.from \in Squares /\ mv.to \in Squares /\ mv.from # mv.to
  BY DEF Fits
<1>3. /\ c \in Squares /\ c # mv.from
      /\ mv.kind = "EnPassant" => c # mv.to
      /\ mv.kind # "EnPassant" => c = mv.to
  BY CapturedSquareFits
<1>4. Landing(p, mv) \in Pieces
  <2>1. CASE mv.promo # "none"
    BY <1>1, <2>1 DEF Fits, FitsPromotion, Landing, Pieces, Piece, Kinds
  <2>2. CASE mv.promo = "none"
    <3>1. sq[mv.from] \in Pieces \cup {Empty} /\ sq[mv.from].color \in Colors
      BY <1>1, <1>2 DEF Fits
    <3>2. sq[mv.from] # Empty
      BY <3>1 DEF Empty, Piece, Colors
    <3> QED
      BY <2>2, <3>1, <3>2 DEF Landing
  <2> QED
    BY <2>1, <2>2
<1> HIDE DEF c
<1> DEFINE landed == [[[sq EXCEPT ![c] = Empty] EXCEPT ![mv.from] = Empty]
                         EXCEPT ![mv.to] = Landing(p, mv)]
<1>5. /\ landed \in [Squares -> Pieces \cup {Empty}]
      /\ landed[mv.to] = Landing(p, mv)
      /\ landed[mv.from] = Empty
      /\ \A s \in Squares \ {mv.from, mv.to} : s # c => landed[s] = sq[s]
      /\ c # mv.to => landed[c] = Empty
  BY <1>1, <1>2, <1>3, <1>4
<1>6. Moved(p, mv) =
        IF IsCastle(mv)
        THEN [[landed EXCEPT ![RookFrom(mv)] = Empty] EXCEPT ![RookTo(mv)] = landed[RookFrom(mv)]]
        ELSE landed
  BY DEF Moved, c
<1> HIDE DEF landed
<1>7. CASE IsCastle(mv)
  <2>1. /\ RookFrom(mv) \in Squares /\ RookTo(mv) \in Squares
        /\ RookFrom(mv) \notin {mv.from, mv.to} /\ RookTo(mv) \notin {mv.from, mv.to}
        /\ RookFrom(mv) # RookTo(mv)
    BY <1>7, CastleSquares
  <2>2. mv.kind # "EnPassant"
    BY <1>7 DEF IsCastle
  <2>3. sq[RookFrom(mv)] = Piece(p.side, "Rook")
    BY <1>7 DEF Fits, FitsCastle
  <2>4. landed[RookFrom(mv)] = Piece(p.side, "Rook")
    BY <1>3, <1>5, <2>1, <2>2, <2>3
  <2> QED
    BY <1>1, <1>2, <1>3, <1>5, <1>6, <1>7, <2>1, <2>2, <2>4
<1>8. CASE ~IsCastle(mv)
  BY <1>2, <1>3, <1>5, <1>6, <1>8 DEF c
<1> QED
  BY <1>7, <1>8

\* A square the move does not touch keeps its piece, wherever a king stands after the
\* move it is the one that moved or one that stood there before.
LEMMA MovedKings ==
    ASSUME NEW p, IsPosition(p), NEW mv, Fits(p, mv),
           NEW color \in Colors, NEW s \in Squares,
           Moved(p, mv)[s] = Piece(color, "King")
    PROVE  IF s = mv.to THEN p.squares[mv.from] = Piece(color, "King") /\ color = p.side
           ELSE s # mv.from /\ p.squares[s] = Piece(color, "King")
<1>1. Piece(color, "King") # Empty /\ \A side : Piece(color, "King") # Piece(side, "Rook")
  BY DEF Piece, Empty
<1>2. CASE s = mv.to
  <2>1. Landing(p, mv) = Piece(color, "King")
    BY <1>2, MovedBoard
  <2>2. mv.promo = "none"
    BY <2>1 DEF Landing, Fits, FitsPromotion, Piece
  <2>3. p.squares[mv.from] = Piece(color, "King")
    BY <2>1, <2>2 DEF Landing
  <2> QED
    BY <1>2, <2>3 DEF Fits, Piece
<1>3. CASE s # mv.to
  <2>1. s # mv.from
    BY <1>1, MovedBoard
  <2>2. mv.kind # "EnPassant" => CapturedSquare(p, mv) = mv.to
    BY CapturedSquareFits
  <2> QED
    BY <1>1, <1>3, <2>1, <2>2, MovedBoard
<1> QED
  BY <1>2, <1>3

\* The keys that go into a hash.
LEMMA Keys ==
    /\ \A a, b \in SUBSET Features : Xor(a, b) \in SUBSET Features
    /\ \A s \in Squares, piece \in Pieces \cup {Empty} : PieceKey(s, piece) \in SUBSET Features
    /\ SideKey \in SUBSET Features
    /\ \A rights \in SUBSET Rights : CastlingKey(rights) \in SUBSET Features
    /\ \A squares, side : \A ep \in Squares \cup {NoSquare} :
           EpKey(squares, side, ep) \in SUBSET Features
<1>1. \A a, b \in SUBSET Features : Xor(a, b) \in SUBSET Features
  BY DEF Xor
<1>2. \A s \in Squares, piece \in Pieces \cup {Empty} : PieceKey(s, piece) \in SUBSET Features
  BY DEF PieceKey, Features
<1>3. SideKey \in SUBSET Features
  BY DEF Features
<1>4. \A rights \in SUBSET Rights : CastlingKey(rights) \in SUBSET Features
  BY DEF CastlingKey, Features
<1>5. ASSUME NEW squares, NEW side, NEW ep \in Squares \cup {NoSquare}
      PROVE  EpKey(squares, side, ep) \in SUBSET Features
  <2>1. ep # NoSquare => FileOf(ep) \in 0..7
    BY DEF FileOf, Squares
  <2> QED
    BY <2>1 DEF EpKey, Features
<1> QED
  BY <1>1, <1>2, <1>3, <1>4, <1>5

LEMMA MadeHash ==
    ASSUME NEW p, IsPosition(p), NEW mv, Fits(p, mv)
    PROVE  MakeMove(p, mv).hash \in SUBSET Features
<1> DEFINE ep == IF mv.kind = "DoublePush" THEN mv.from + Forward(p.side) ELSE NoSquare
<1>1. /\ p.squares \in [Squares -> Pieces \cup {Empty}] /\ p.hash \in SUBSET Features
      /\ p.castling \in SUBSET Rights /\ p.ep \in Squares \cup {NoSquare}
  BY PositionFields
<1>2. CapturedSquare(p, mv) \in Squares /\ mv.from \in Squares /\ mv.to \in Squares
  BY CapturedSquareFits DEF Fits
<1>3. ep \in Squares \cup {NoSquare}
  BY DEF Fits, FitsDoublePush
<1>4. Landing(p, mv) \in Pieces \cup {Empty}
  BY <1>2, MovedBoard
<1>5. SurvivingRights(p, mv) \in SUBSET Rights
  BY <1>1 DEF SurvivingRights
<1> HIDE DEF ep
<1>6. StateKeys(p, mv, Moved(p, mv), SurvivingRights(p, mv), ep) \in SUBSET Features
  BY <1>1, <1>3, <1>5, Keys DEF StateKeys
<1>7. PieceKeys(p, mv) \in SUBSET Features
  <2>1. /\ PieceKey(CapturedSquare(p, mv), p.squares[CapturedSquare(p, mv)]) \in SUBSET Features
        /\ PieceKey(mv.from, p.squares[mv.from]) \in SUBSET Features
        /\ PieceKey(mv.to, Landing(p, mv)) \in SUBSET Features
    BY <1>1, <1>2, <1>4, Keys
  <2>2. IsCastle(mv) =>
            /\ PieceKey(RookFrom(mv), p.squares[RookFrom(mv)]) \in SUBSET Features
            /\ PieceKey(RookTo(mv), p.squares[RookFrom(mv)]) \in SUBSET Features
    BY <1>1, CastleSquares, Keys
  <2> QED
    BY <2>1, <2>2, Keys DEF PieceKeys
<1>8. MakeMove(p, mv).hash =
        Xor(p.hash, Xor(PieceKeys(p, mv),
                        StateKeys(p, mv, Moved(p, mv), SurvivingRights(p, mv), ep)))
  BY DEF MakeMove, ep
<1> QED
  BY <1>1, <1>6, <1>7, <1>8, Keys

\* make_move keeps the parts of a position together.
LEMMA MadeIsPosition ==
    ASSUME NEW p, IsPosition(p), NEW mv, Fits(p, mv)
    PROVE  IsPosition(MakeMove(p, mv))
<1> DEFINE q == MakeMove(p, mv)
<1>1. /\ p.side \in Colors /\ p.castling \subseteq Rights
      /\ p.halfmove \in Nat /\ p.fullmove \in Nat /\ p.king \in [Colors -> Squares]
      /\ \A color \in Colors, s \in Squares :
             p.squares[s] = Piece(color, "King") => p.king[color] = s
  BY PositionFields DEF IsPosition
<1>2. q = PositionOf(q.squares, q.side, q.castling, q.ep, q.halfmove, q.fullmove, q.king, q.hash)
  BY DEF MakeMove, PositionOf
<1>3. /\ q.squares = Moved(p, mv)
      /\ q.side = Flip(p.side)
      /\ q.castling = SurvivingRights(p, mv)
      /\ q.ep = IF mv.kind = "DoublePush" THEN mv.from + Forward(p.side) ELSE NoSquare
      /\ q.halfmove = 0 \/ q.halfmove = p.halfmove + 1
      /\ q.fullmove = p.fullmove \/ q.fullmove = p.fullmove + 1
      /\ q.king = IF p.squares[mv.from].kind = "King"
                  THEN [p.king EXCEPT ![p.side] = mv.to] ELSE p.king
  BY DEF MakeMove
<1> HIDE DEF q
<1>4. q.squares \in [Squares -> Pieces \cup {Empty}]
  BY <1>3, MovedBoard
<1>5. q.side \in Colors /\ q.castling \subseteq Rights
  BY <1>1, <1>3 DEF Flip, Colors, SurvivingRights
<1>6. q.ep \in Squares \cup {NoSquare}
  BY <1>3 DEF Fits, FitsDoublePush
<1>7. q.halfmove \in Nat /\ q.fullmove \in Nat
  BY <1>1, <1>3
<1>8. q.king \in [Colors -> Squares]
  BY <1>1, <1>3 DEF Fits
<1>9. ASSUME NEW color \in Colors, NEW s \in Squares, q.squares[s] = Piece(color, "King")
      PROVE  q.king[color] = s
  <2>1. IF s = mv.to THEN p.squares[mv.from] = Piece(color, "King") /\ color = p.side
        ELSE s # mv.from /\ p.squares[s] = Piece(color, "King")
    BY <1>3, <1>9, MovedKings
  <2>2. CASE s = mv.to
    BY <1>1, <1>3, <2>1, <2>2 DEF Piece
  <2>3. CASE s # mv.to
    <3>1. p.king[color] = s /\ s # mv.from
      BY <1>1, <2>1, <2>3
    <3>2. p.squares[mv.from].kind = "King" => color # p.side
      <4>1. p.squares[mv.from] \in Pieces \cup {Empty} /\ p.squares[mv.from].color = p.side
        BY PositionFields DEF IsPosition, Fits
      <4>2. p.squares[mv.from].kind = "King" => p.squares[mv.from] = Piece(p.side, "King")
        BY <4>1 DEF Pieces, Piece, Empty
      <4>3. mv.from \in Squares
        BY DEF Fits
      <4> QED
        BY <1>1, <3>1, <4>2, <4>3
    <3> QED
      BY <1>1, <1>3, <3>1, <3>2
  <2> QED
    BY <2>2, <2>3
<1>10. ASSUME q.ep # NoSquare
       PROVE  /\ q.ep - Forward(q.side) \in Squares
              /\ q.squares[q.ep - Forward(q.side)] = Piece(Flip(q.side), "Pawn")
  <2>1. mv.kind = "DoublePush" /\ q.ep = mv.from + Forward(p.side)
    BY <1>3, <1>10
  <2>2. /\ mv.to = mv.from + 2 * Forward(p.side) /\ mv.from \in Squares /\ mv.to \in Squares
        /\ p.squares[mv.from] = Piece(p.side, "Pawn") /\ mv.promo = "none"
    BY <2>1 DEF Fits, FitsDoublePush
  <2>3. q.ep - Forward(q.side) = mv.to
    BY <1>1, <1>3, <2>1, <2>2 DEF Forward, Flip, Colors, Squares
  <2>4. Moved(p, mv)[mv.to] = Piece(p.side, "Pawn")
    BY <2>2, MovedBoard DEF Landing
  <2>5. Flip(q.side) = p.side
    BY <1>1, <1>3 DEF Flip, Colors
  <2> QED
    BY <1>3, <2>2, <2>3, <2>4, <2>5
<1>11. q.hash \subseteq Features
  BY MadeHash DEF q
<1>12. q \in Positions
  BY <1>2, <1>4, <1>5, <1>6, <1>7, <1>8, <1>11, PositionBuilt
<1> QED
  BY <1>9, <1>10, <1>12 DEF IsPosition, q

LEMMA NullIsPosition ==
    ASSUME NEW p, IsPosition(p)
    PROVE  IsPosition(MakeNull(p))
<1> DEFINE q == MakeNull(p)
<1>1. q = PositionOf(q.squares, q.side, q.castling, q.ep, q.halfmove, q.fullmove, q.king, q.hash)
  BY DEF MakeNull, PositionOf
<1>2. /\ q.squares = p.squares /\ q.side = Flip(p.side) /\ q.castling = p.castling
      /\ q.ep = NoSquare /\ q.halfmove = p.halfmove + 1 /\ q.fullmove = p.fullmove
      /\ q.king = p.king
  BY DEF MakeNull, PositionOf
<1>3. q.side \in Colors
  BY <1>2, PositionFields DEF Flip, Colors
<1>4. q.hash \subseteq Features
  <2>1. q.hash = Xor(p.hash, Xor(EpKey(p.squares, p.side, p.ep), SideKey))
    BY DEF MakeNull, PositionOf
  <2>2. p.hash \in SUBSET Features /\ p.ep \in Squares \cup {NoSquare}
    BY PositionFields
  <2> QED
    BY <2>1, <2>2, Keys
<1> HIDE DEF q
<1>5. q \in Positions
  BY <1>1, <1>2, <1>3, <1>4, PositionFields, PositionBuilt DEF NoSquare
<1> QED
  BY <1>2, <1>5 DEF IsPosition, q

----------------------------------------------------------------------------
(* What the generator makes fits.                                          *)

LEMMA CastlesFit ==
    ASSUME NEW p, IsPosition(p), NEW mv \in Castles(p)
    PROVE  Fits(p, mv)
<1> DEFINE home == HomeRank(p.side)
<1>1. p.side \in Colors /\ p.squares \in [Squares -> Pieces \cup {Empty}]
  BY PositionFields DEF IsPosition
<1>2. /\ p.squares[Sq(4, home)] = Piece(p.side, "King")
      /\ \/ /\ mv = Move(Sq(4, home), Sq(6, home), "none", "CastleKing")
            /\ p.squares[Sq(7, home)] = Piece(p.side, "Rook")
            /\ p.squares[Sq(5, home)] = Empty /\ p.squares[Sq(6, home)] = Empty
         \/ /\ mv = Move(Sq(4, home), Sq(2, home), "none", "CastleQueen")
            /\ p.squares[Sq(0, home)] = Piece(p.side, "Rook")
            /\ p.squares[Sq(3, home)] = Empty /\ p.squares[Sq(2, home)] = Empty
  BY DEF Castles, CanCastle, HomeRank
<1>3. \A file \in 0..7 : Sq(file, home) \in Squares /\ RankOf(Sq(file, home)) = home
  BY DEF Sq, Squares, RankOf, HomeRank
<1>4. Empty.color # p.side /\ Piece(p.side, "King").color = p.side
  BY <1>1 DEF Empty, Piece, Colors
<1> HIDE DEF home
<1>5. /\ mv.from \in Squares /\ mv.to \in Squares /\ mv.promo = "none"
      /\ mv.from = Sq(4, home) /\ RankOf(mv.from) = home
      /\ mv.kind \in {"CastleKing", "CastleQueen"}
      /\ mv.to = Sq(IF mv.kind = "CastleKing" THEN 6 ELSE 2, home)
  BY <1>2, <1>3 DEF Move
<1>6. mv.from # mv.to
  BY <1>5, <1>3 DEF Sq, home, HomeRank
<1>7. FitsCastle(p, mv)
  BY <1>2, <1>5 DEF Move, FitsCastle, RookFrom, RookTo, home
<1>8. p.squares[mv.to].color # p.side /\ p.squares[mv.from].color = p.side
  BY <1>2, <1>4, <1>5 DEF Move
<1> QED
  BY <1>5, <1>6, <1>7, <1>8 DEF Fits, MoveKinds, FitsEnPassant, FitsDoublePush, FitsPromotion

\* Moves of one pawn or piece that start on `from`.
LEMMA PawnPushesFit ==
    ASSUME NEW p, IsPosition(p), NEW from \in Squares, p.squares[from] = Piece(p.side, "Pawn"),
           NEW mv \in PawnPushes(p, from)
    PROVE  Fits(p, mv)
<1> DEFINE one == from + Forward(p.side)
           two == from + 2 * Forward(p.side)
<1>1. p.side \in Colors
  BY PositionFields DEF IsPosition
<1>2. one \in Squares /\ p.squares[one] = Empty
  BY DEF PawnPushes
<1>3. Empty.color # p.side /\ Piece(p.side, "Pawn").color = p.side
  BY <1>1 DEF Empty, Piece, Colors
<1>4. one # from /\ two # from
  BY <1>1 DEF Forward, Colors, Squares
<1>5. CASE mv \in PawnMoves(from, one, "Normal")
  <2>1. /\ mv.from = from /\ mv.to = one /\ mv.kind = "Normal"
        /\ mv.promo \in {"Queen", "Rook", "Bishop", "Knight", "none"}
    BY <1>5 DEF PawnMoves, Move
  <2> QED
    BY <1>2, <1>3, <1>4, <2>1 DEF Fits, MoveKinds, FitsEnPassant, FitsDoublePush, FitsPromotion,
                                  FitsCastle, IsCastle
<1>6. CASE /\ mv = Move(from, two, "none", "DoublePush")
           /\ two \in Squares /\ p.squares[two] = Empty
  <2>1. /\ mv.from = from /\ mv.to = two /\ mv.kind = "DoublePush" /\ mv.promo = "none"
    BY <1>6 DEF Move
  <2> QED
    BY <1>2, <1>3, <1>4, <1>6, <2>1 DEF Fits, MoveKinds, FitsEnPassant, FitsDoublePush,
                                        FitsPromotion, FitsCastle, IsCastle
<1> QED
  BY <1>2, <1>5, <1>6 DEF PawnPushes

LEMMA PawnCapturesFit ==
    ASSUME NEW p, IsPosition(p), NEW from \in Squares, p.squares[from] = Piece(p.side, "Pawn"),
           NEW mv \in PawnCaptures(p, from)
    PROVE  Fits(p, mv)
<1>1. p.side \in Colors
  BY PositionFields DEF IsPosition
<1>2. /\ mv.from = from /\ mv.to \in Squares
      /\ \E step \in {-1, 1} : mv.to = from + Forward(p.side) + step
      /\ \/ /\ mv.kind = "Normal" /\ p.squares[mv.to].color = Flip(p.side)
            /\ mv.promo \in {"Queen", "Rook", "Bishop", "Knight", "none"}
         \/ /\ mv.kind = "EnPassant" /\ p.squares[mv.to] = Empty
            /\ mv.promo = "none" /\ mv.to = p.ep
  BY DEF PawnCaptures, PawnMoves, Move
<1>3. mv.from # mv.to
  BY <1>1, <1>2 DEF Forward, Colors, Squares
<1>4. /\ Empty.color # p.side /\ Piece(p.side, "Pawn").color = p.side
      /\ Flip(p.side) # p.side
  BY <1>1 DEF Empty, Piece, Colors, Flip
<1> QED
  BY <1>2, <1>3, <1>4 DEF Fits, MoveKinds, FitsEnPassant, FitsDoublePush, FitsPromotion,
                          FitsCastle, IsCastle

LEMMA PieceMovesFit ==
    ASSUME NEW p, IsPosition(p), NEW from \in Squares, p.squares[from].color = p.side,
           NEW to \in PieceTargets(p, from)
    PROVE  Fits(p, Move(from, to, "none", "Normal"))
<1>1. to \in Squares /\ p.squares[to].color # p.side
  BY DEF PieceTargets
<1> QED
  BY <1>1 DEF Fits, Move, MoveKinds, FitsEnPassant, FitsDoublePush, FitsPromotion,
              FitsCastle, IsCastle

LEMMA PseudoLegalFits ==
    ASSUME NEW p, IsPosition(p), NEW mv \in PseudoLegal(p)
    PROVE  Fits(p, mv)
<1>1. CASE mv \in Castles(p)
  BY <1>1, CastlesFit
<1>2. ASSUME NEW from \in Squares, p.squares[from].color = p.side, p.squares[from].kind = "Pawn",
             mv \in PawnPushes(p, from) \cup PawnCaptures(p, from)
      PROVE  Fits(p, mv)
  <2>1. p.squares[from] = Piece(p.side, "Pawn")
    BY <1>2, PositionFields DEF IsPosition, Pieces, Piece, Empty
  <2> QED
    BY <1>2, <2>1, PawnPushesFit, PawnCapturesFit
<1>3. ASSUME NEW from \in Squares, p.squares[from].color = p.side,
             NEW to \in PieceTargets(p, from), mv = Move(from, to, "none", "Normal")
      PROVE  Fits(p, mv)
  BY <1>3, PieceMovesFit
<1> QED
  BY <1>1, <1>2, <1>3 DEF PseudoLegal

----------------------------------------------------------------------------
(* Sight along a ray.                                                      *)

\* A ray leaves the board within eight steps.
LEMMA RaysEnd ==
    ASSUME NEW s \in Squares, NEW step \in KingSteps
    PROVE  s + 8 * step \notin Squares
BY DEF KingSteps, BishopSteps, RookSteps, Squares

\* A ray that comes back to the board has not left it.
LEMMA RaysAreStraight ==
    ASSUME NEW s \in Squares, NEW step \in KingSteps, NEW n \in 0..7, NEW m \in 0..n,
           s + n * step \in Squares
    PROVE  s + m * step \in Squares
<1>1. CASE step = 16
  BY <1>1 DEF Squares
<1>2. CASE step = -16
  BY <1>2 DEF Squares
<1>3. CASE step = 1
  BY <1>3 DEF Squares
<1>4. CASE step = -1
  BY <1>4 DEF Squares
<1>5. CASE step = 17
  BY <1>5 DEF Squares
<1>6. CASE step = -17
  BY <1>6 DEF Squares
<1>7. CASE step = 15
  BY <1>7 DEF Squares
<1>8. CASE step = -15
  BY <1>8 DEF Squares
<1> QED
  BY <1>1, <1>2, <1>3, <1>4, <1>5, <1>6, <1>7, <1>8 DEF KingSteps, BishopSteps, RookSteps

LEMMA ReachEnds ==
    ASSUME NEW s \in Squares, NEW step \in KingSteps
    PROVE  /\ Reach[s][step] \in 0..7
           /\ s + Reach[s][step] * step \in Squares
           /\ s + (Reach[s][step] + 1) * step \notin Squares
<1> DEFINE On(n) == s + n * step \in Squares
<1>1. step \in Int /\ s \in Int
  BY DEF KingSteps, BishopSteps, RookSteps, Squares
<1>2. On(0) /\ ~On(8)
  BY <1>1, RaysEnd
<1>3. \E n \in 0..7 : On(n) /\ ~On(n + 1)
  <2> SUFFICES ASSUME \A n \in 0..7 : On(n) => On(n + 1)
               PROVE  FALSE
    OBVIOUS
  <2> HIDE DEF On
  <2>1. On(1)
    BY <1>2
  <2>2. On(2)
    BY <2>1
  <2>3. On(3)
    BY <2>2
  <2>4. On(4)
    BY <2>3
  <2>5. On(5)
    BY <2>4
  <2>6. On(6)
    BY <2>5
  <2>7. On(7)
    BY <2>6
  <2>8. On(8)
    BY <2>7
  <2> QED
    BY <1>2, <2>8
<1>4. Reach[s][step] = CHOOSE n \in 0..7 : On(n) /\ ~On(n + 1)
  BY DEF Reach
<1> HIDE DEF On
<1>5. Reach[s][step] \in 0..7 /\ On(Reach[s][step]) /\ ~On(Reach[s][step] + 1)
  BY <1>3, <1>4
<1> QED
  BY <1>5 DEF On

\* A square of a ray is as far as its other end sees.
LEMMA ReachCovers ==
    ASSUME NEW s \in Squares, NEW step \in KingSteps, NEW n \in 0..7, s + n * step \in Squares
    PROVE  n <= Reach[s][step]
<1>1. Reach[s][step] \in 0..7 /\ s + (Reach[s][step] + 1) * step \notin Squares
  BY ReachEnds
<1> SUFFICES ASSUME n > Reach[s][step]
             PROVE  FALSE
  BY <1>1
<1>2. Reach[s][step] + 1 \in 0..n
  BY <1>1
<1> QED
  BY <1>1, <1>2, RaysAreStraight

\* Sight is mutual: who sees a square along a ray is seen from it along the ray back.
LEMMA SightIsMutual ==
    ASSUME NEW squares, NEW s \in Squares, NEW step \in KingSteps, NEW t \in Seen(squares, s, step)
    PROVE  t \in Int /\ (t \in Squares => s \in Seen(squares, t, -step))
<1>1. Reach[s][step] \in 0..7
  BY ReachEnds
<1>2. PICK n \in 1..Reach[s][step] :
        /\ t = s + n * step
        /\ \A k \in 1..(n - 1) : squares[s + k * step] = Empty
  BY DEF Seen
<1>3. step \in Int /\ s \in Int /\ n \in 1..7 /\ -step \in KingSteps
  BY <1>1, <1>2 DEF KingSteps, BishopSteps, RookSteps, Squares
<1>4. t \in Int
  BY <1>2, <1>3
<1>5. s = t + n * (-step)
  BY <1>2, <1>3
<1>6. ASSUME NEW k \in 1..(n - 1)
      PROVE  squares[t + k * (-step)] = Empty
  <2>1. n - k \in 1..(n - 1)
    BY <1>3
  <2>2. t + k * (-step) = s + (n - k) * step
    BY <1>2, <1>3
  <2> QED
    BY <1>2, <2>1, <2>2
<1>7. ASSUME t \in Squares
      PROVE  s \in Seen(squares, t, -step)
  <2>1. n \in 1..Reach[t][-step]
    BY <1>3, <1>5, <1>7, ReachCovers, ReachEnds
  <2> QED
    BY <1>5, <1>6, <2>1 DEF Seen
<1> QED
  BY <1>4, <1>7

\* A move onto a piece of the other side is what is_attacked looks for from its square.
LEMMA PawnCaptureAttacks ==
    ASSUME NEW p, IsPosition(p), NEW from \in Squares, p.squares[from] = Piece(p.side, "Pawn"),
           NEW mv \in PawnCaptures(p, from)
    PROVE  IsAttacked(p.squares, mv.to, p.side)
<1>1. p.side \in Colors
  BY PositionFields DEF IsPosition
<1>2. PICK step \in {-1, 1} : mv.to = from + Forward(p.side) + step
  BY DEF PawnCaptures, PawnMoves, Move
<1>3. from = mv.to - Forward(p.side) + (-step) /\ -step \in {-1, 1}
  BY <1>1, <1>2 DEF Forward, Colors, Squares
<1> QED
  BY <1>3 DEF IsAttacked

LEMMA PieceCaptureAttacks ==
    ASSUME NEW p, IsPosition(p), NEW from \in Squares, p.squares[from].color = p.side,
           p.squares[from].kind # "Pawn", NEW to \in PieceTargets(p, from)
    PROVE  IsAttacked(p.squares, to, p.side)
<1> DEFINE kind == p.squares[from].kind
<1>1. p.side \in Colors
  BY PositionFields DEF IsPosition
<1>2. kind \in Kinds /\ p.squares[from] = Piece(p.side, kind)
  BY <1>1, PositionFields DEF IsPosition, Pieces, Piece, Empty, Colors
<1>3. to \in Squares
  BY DEF PieceTargets
<1> HIDE DEF kind
<1>4. CASE \E step \in JumpingSteps(kind) : to = from + step
  <2>1. PICK step \in JumpingSteps(kind) : to = from + step
    BY <1>4
  <2>2. kind \in {"Knight", "King"}
    BY <2>1, <1>2 DEF JumpingSteps
  <2>3. -step \in JumpingSteps(kind) /\ step \in Int
    BY <2>1, <2>2 DEF JumpingSteps, KnightSteps, KingSteps, BishopSteps, RookSteps
  <2>4. from = to + (-step)
    BY <2>1, <2>3 DEF Squares
  <2> QED
    BY <1>2, <2>2, <2>3, <2>4 DEF IsAttacked
<1>5. CASE \E step \in SlidingSteps(kind) : to \in Seen(p.squares, from, step)
  <2>1. PICK step \in SlidingSteps(kind) : to \in Seen(p.squares, from, step)
    BY <1>5
  <2>2. kind \in {"Bishop", "Rook", "Queen"}
    BY <2>1, <1>2 DEF SlidingSteps
  <2>3. step \in KingSteps
    BY <2>1, <2>2 DEF SlidingSteps, KingSteps
  <2>4. from \in Seen(p.squares, to, -step)
    BY <1>3, <2>1, <2>3, SightIsMutual
  <2>5. PICK line_kind \in {"Bishop", "Rook"} :
            -step \in SlidingSteps(line_kind) /\ kind \in {line_kind, "Queen"}
    <3>1. CASE kind = "Queen"
      <4>1. -step \in BishopSteps \/ -step \in RookSteps
        BY <2>3 DEF KingSteps, BishopSteps, RookSteps
      <4> QED
        BY <3>1, <4>1 DEF SlidingSteps
    <3>2. CASE kind # "Queen"
      <4>1. -step \in SlidingSteps(kind)
        BY <2>1, <2>2, <3>2 DEF SlidingSteps, BishopSteps, RookSteps
      <4> QED
        BY <2>2, <3>2, <4>1
    <3> QED
      BY <3>1, <3>2
  <2>6. p.squares[from] \in {Piece(p.side, line_kind), Piece(p.side, "Queen")}
    BY <1>2, <2>5
  <2> QED
    BY <2>4, <2>5, <2>6 DEF IsAttacked
<1> QED
  BY <1>4, <1>5 DEF PieceTargets, kind

LEMMA CaptureAttacks ==
    ASSUME NEW p, IsPosition(p), NEW mv \in PseudoLegal(p),
           p.squares[mv.to].color = Flip(p.side)
    PROVE  IsAttacked(p.squares, mv.to, p.side)
<1>1. p.side \in Colors
  BY PositionFields DEF IsPosition
<1>2. Empty.color # Flip(p.side)
  BY <1>1 DEF Empty, Piece, Flip, Colors
<1>3. CASE mv \in Castles(p)
  <2>1. IsCastle(mv)
    BY <1>3 DEF Castles, Move, IsCastle
  <2>2. p.squares[mv.to] = Empty
    BY <2>1, PseudoLegalFits DEF Fits, FitsCastle
  <2> QED
    BY <1>2, <2>2
<1>4. ASSUME NEW from \in Squares, p.squares[from].color = p.side, p.squares[from].kind = "Pawn",
             mv \in PawnPushes(p, from) \cup PawnCaptures(p, from)
      PROVE  IsAttacked(p.squares, mv.to, p.side)
  <2>1. p.squares[from] = Piece(p.side, "Pawn")
    BY <1>4, PositionFields DEF IsPosition, Pieces, Piece, Empty
  <2>2. mv \in PawnPushes(p, from) => p.squares[mv.to] = Empty
    BY DEF PawnPushes, PawnMoves, Move
  <2> QED
    BY <1>2, <1>4, <2>1, <2>2, PawnCaptureAttacks
<1>5. ASSUME NEW from \in Squares, p.squares[from].color = p.side, p.squares[from].kind # "Pawn",
             NEW to \in PieceTargets(p, from), mv = Move(from, to, "none", "Normal")
      PROVE  IsAttacked(p.squares, mv.to, p.side)
  BY <1>5, PieceCaptureAttacks DEF Move
<1> QED
  BY <1>3, <1>4, <1>5 DEF PseudoLegal

----------------------------------------------------------------------------
(* Moves keep a position sound.                                            *)

\* The piece on a square that a move neither leaves, enters nor takes from stays; only
\* a castle touches more.
LEMMA Untouched ==
    ASSUME NEW p, IsPosition(p), NEW mv, Fits(p, mv), NEW s \in Squares,
           s # mv.from, s # mv.to, p.squares[s] # Empty,
           p.squares[s] # Piece(Flip(p.side), "Pawn"),
           IsCastle(mv) => s # RookFrom(mv)
    PROVE  MakeMove(p, mv).squares[s] = p.squares[s]
<1>1. MakeMove(p, mv).squares = Moved(p, mv)
  BY DEF MakeMove
<1>2. CASE IsCastle(mv)
  <2>1. p.squares[RookTo(mv)] = Empty
    BY <1>2 DEF Fits, FitsCastle
  <2> QED
    BY <1>1, <1>2, <2>1, MovedBoard
<1>3. CASE ~IsCastle(mv)
  <2>1. s # CapturedSquare(p, mv)
    BY CapturedSquareFits
  <2> QED
    BY <1>1, <1>3, <2>1, MovedBoard
<1> QED
  BY <1>2, <1>3

\* The cache follows the king that moves, and the other king is not taken: it would
\* have stood in check with its opponent to move.
LEMMA KingsStayCached ==
    ASSUME NEW p, IsPosition(p), IsSound(p), NEW mv \in PseudoLegal(p), NEW color \in Colors
    PROVE  MakeMove(p, mv).squares[MakeMove(p, mv).king[color]] = Piece(color, "King")
<1> DEFINE q == MakeMove(p, mv)
           k == p.king[color]
<1>1. /\ p.side \in Colors /\ p.king \in [Colors -> Squares]
      /\ p.squares \in [Squares -> Pieces \cup {Empty}]
  BY PositionFields
<1>2. k \in Squares /\ p.squares[k] = Piece(color, "King")
  BY <1>1 DEF IsSound
<1>3. Fits(p, mv)
  BY PseudoLegalFits
<1>4. /\ q.squares = Moved(p, mv)
      /\ q.king = IF p.squares[mv.from].kind = "King"
                  THEN [p.king EXCEPT ![p.side] = mv.to] ELSE p.king
  BY DEF MakeMove
<1>5. /\ Piece(color, "King") # Empty
      /\ \A side : Piece(color, "King") \notin {Piece(side, "Pawn"), Piece(side, "Rook")}
      /\ Piece(color, "King").color = color /\ Piece(color, "King").kind = "King"
  BY DEF Piece, Empty
<1> HIDE DEF q, k
<1>6. CASE color = p.side /\ p.squares[mv.from].kind = "King"
  <2>1. p.squares[mv.from] = Piece(color, "King")
    BY <1>1, <1>3, <1>6 DEF Fits, Pieces, Piece, Empty
  <2>2. mv.promo = "none"
    BY <1>3, <1>5, <2>1 DEF Fits, FitsPromotion
  <2>3. q.squares[mv.to] = Piece(color, "King")
    BY <1>3, <1>4, <2>1, <2>2, MovedBoard DEF Landing
  <2> QED
    BY <1>1, <1>4, <1>6, <2>3 DEF q
<1>7. CASE color = p.side /\ p.squares[mv.from].kind # "King"
  <2>1. k # mv.from /\ k # mv.to
    BY <1>2, <1>3, <1>5, <1>7 DEF Fits
  <2>2. ~IsCastle(mv)
    BY <1>3, <1>7 DEF Fits, FitsCastle, Piece
  <2>3. q.squares[k] = p.squares[k]
    BY <1>2, <1>3, <1>5, <2>1, <2>2, Untouched DEF q
  <2> QED
    BY <1>2, <1>4, <1>7, <2>3 DEF q, k
<1>8. CASE color # p.side
  <2>1. color = Flip(p.side)
    BY <1>1, <1>8 DEF Flip, Colors
  <2>2. k # mv.from
    BY <1>2, <1>3, <1>5, <1>8 DEF Fits
  <2>3. k # mv.to
    <3> SUFFICES ASSUME k = mv.to
                 PROVE  FALSE
      OBVIOUS
    <3>1. IsAttacked(p.squares, k, p.side)
      BY <1>2, <1>5, <2>1, CaptureAttacks
    <3>2. Flip(Flip(p.side)) = p.side
      BY <1>1 DEF Flip, Colors
    <3> QED
      BY <2>1, <3>1, <3>2 DEF IsSound, InCheck, k
  <2>4. IsCastle(mv) => k # RookFrom(mv)
    BY <1>2, <1>3, <1>5 DEF Fits, FitsCastle
  <2>5. q.squares[k] = p.squares[k]
    BY <1>2, <1>3, <1>5, <2>2, <2>3, <2>4, Untouched DEF q
  <2>6. q.king[color] = k
    BY <1>1, <1>4, <1>8 DEF k
  <2> QED
    BY <1>2, <2>5, <2>6 DEF q
<1> QED
  BY <1>6, <1>7, <1>8

\* A right is lost as soon as its king or its rook is moved or taken.
LEMMA RightsStayTrue ==
    ASSUME NEW p, IsPosition(p), IsSound(p), NEW mv \in PseudoLegal(p),
           NEW right \in MakeMove(p, mv).castling,
           NEW color, color = RightOwner(right)
    PROVE  /\ MakeMove(p, mv).squares[Sq(4, HomeRank(color))] = Piece(color, "King")
           /\ MakeMove(p, mv).squares[Sq(RookFile(right), HomeRank(color))] = Piece(color, "Rook")
<1> DEFINE home == Sq(4, HomeRank(color))
           rook == Sq(RookFile(right), HomeRank(color))
<1>1. right \in p.castling /\ right \notin Ends(mv.from) /\ right \notin Ends(mv.to)
  BY DEF MakeMove, SurvivingRights
<1>2. right \in Rights
  BY <1>1, PositionFields
<1>3. p.squares[home] = Piece(color, "King") /\ p.squares[rook] = Piece(color, "Rook")
  BY <1>1 DEF IsSound
<1>4. /\ home \in Squares /\ rook \in Squares
      /\ right \in Ends(home) /\ right \in Ends(rook)
      /\ RankOf(home) = HomeRank(color) /\ RankOf(rook) = HomeRank(color)
  <2>1. CASE right = "K"
    BY <2>1 DEF RightOwner, HomeRank, RookFile, Sq, Squares, RankOf, Ends
  <2>2. CASE right = "Q"
    BY <2>2 DEF RightOwner, HomeRank, RookFile, Sq, Squares, RankOf, Ends
  <2>3. CASE right = "k"
    BY <2>3 DEF RightOwner, HomeRank, RookFile, Sq, Squares, RankOf, Ends
  <2>4. CASE right = "q"
    BY <2>4 DEF RightOwner, HomeRank, RookFile, Sq, Squares, RankOf, Ends
  <2> QED
    BY <1>2, <2>1, <2>2, <2>3, <2>4 DEF Rights
<1>5. Fits(p, mv) /\ p.side \in Colors /\ color \in Colors
  BY PseudoLegalFits, PositionFields DEF RightOwner, Colors
<1>6. ASSUME IsCastle(mv)
      PROVE  home # RookFrom(mv) /\ rook # RookFrom(mv)
  <2>1. mv.from = Sq(4, HomeRank(p.side)) /\ RankOf(RookFrom(mv)) = HomeRank(p.side)
    BY <1>5, <1>6, CastleSquares DEF Fits, FitsCastle
  <2>2. color # p.side
    BY <1>1, <1>4, <2>1
  <2>3. HomeRank(color) # HomeRank(p.side)
    BY <1>5, <2>2 DEF HomeRank, Colors
  <2> QED
    BY <1>4, <2>1, <2>3
<1>7. \A side, other : /\ Piece(color, "King") \notin {Empty, Piece(side, "Pawn")}
                       /\ Piece(color, "Rook") \notin {Empty, Piece(side, "Pawn")}
  BY DEF Piece, Empty
<1> HIDE DEF home, rook
<1>8. home # mv.from /\ home # mv.to /\ rook # mv.from /\ rook # mv.to
  BY <1>1, <1>4
<1>9. MakeMove(p, mv).squares[home] = p.squares[home]
  BY <1>3, <1>4, <1>5, <1>6, <1>7, <1>8, Untouched
<1>10. MakeMove(p, mv).squares[rook] = p.squares[rook]
  BY <1>3, <1>4, <1>5, <1>6, <1>7, <1>8, Untouched
<1> QED
  BY <1>3, <1>9, <1>10 DEF home, rook

LEMMA MadeIsSound ==
    ASSUME NEW p, IsPosition(p), IsSound(p), NEW mv \in LegalMoves(p)
    PROVE  IsSound(MakeMove(p, mv))
<1>1. mv \in PseudoLegal(p) /\ ~InCheck(MakeMove(p, mv), p.side)
  BY DEF LegalMoves, Legal
<1>2. \A color \in Colors :
        MakeMove(p, mv).squares[MakeMove(p, mv).king[color]] = Piece(color, "King")
  BY <1>1, KingsStayCached
<1>3. Flip(MakeMove(p, mv).side) = p.side
  <2>1. MakeMove(p, mv).side = Flip(p.side)
    BY DEF MakeMove
  <2> QED
    BY <2>1, PositionFields DEF Flip, Colors
<1>4. \A right \in MakeMove(p, mv).castling :
        LET color == RightOwner(right)
        IN  /\ MakeMove(p, mv).squares[Sq(4, HomeRank(color))] = Piece(color, "King")
            /\ MakeMove(p, mv).squares[Sq(RookFile(right), HomeRank(color))] = Piece(color, "Rook")
  BY <1>1, RightsStayTrue
<1> QED
  BY <1>1, <1>2, <1>3, <1>4 DEF IsSound

LEMMA NullIsSound ==
    ASSUME NEW p, IsPosition(p), IsSound(p), ~InCheck(p, p.side)
    PROVE  IsSound(MakeNull(p))
<1>1. /\ MakeNull(p).squares = p.squares /\ MakeNull(p).king = p.king
      /\ MakeNull(p).castling = p.castling /\ Flip(MakeNull(p).side) = p.side
  BY PositionFields DEF MakeNull, PositionOf, Flip, Colors
<1>2. ~InCheck(MakeNull(p), p.side)
  BY <1>1 DEF InCheck
<1> QED
  BY <1>1, <1>2 DEF IsSound

----------------------------------------------------------------------------
(* The hash.                                                               *)

\* The keys of the pieces, of the side to move: compute_hash adds those of the rights
\* and of the en passant square.
PlacedKeys(squares) == UNION {PieceKey(s, squares[s]) : s \in Squares}

TurnKey(side) == IF side = "Black" THEN SideKey ELSE {}

PieceFeatures == {"piece"} \X Squares \X Pieces

EpFeatures == {"ep"} \X (0..7)

CastlingFeatures == {"castling"} \X SUBSET Rights

LEMMA XorMembers == \A a, b, f : f \in Xor(a, b) <=> ~(f \in a <=> f \in b)
BY DEF Xor

\* A feature is of one family only.
LEMMA FamiliesAreApart ==
    \A f : /\ f \in PieceFeatures => f \notin SideKey \cup CastlingFeatures \cup EpFeatures
           /\ f \in SideKey => f \notin CastlingFeatures \cup EpFeatures
           /\ f \in CastlingFeatures => f \notin EpFeatures
<1>1. \A f \in PieceFeatures : f[1] = "piece"
  BY DEF PieceFeatures
<1>2. \A f \in SideKey : f[1] = "side"
  BY DEF SideKey
<1>3. \A f \in CastlingFeatures : f[1] = "castling"
  BY DEF CastlingFeatures
<1>4. \A f \in EpFeatures : f[1] = "ep"
  BY DEF EpFeatures
<1> QED
  BY <1>1, <1>2, <1>3, <1>4

\* The keys of a board: one for each piece.
LEMMA PlacedMembers ==
    ASSUME NEW squares \in [Squares -> Pieces \cup {Empty}]
    PROVE  /\ PlacedKeys(squares) \subseteq PieceFeatures
           /\ \A s \in Squares, piece \in Pieces :
                  <<"piece", s, piece>> \in PlacedKeys(squares) <=> squares[s] = piece
<1>1. Empty \notin Pieces
  BY DEF Empty, Pieces, Piece, Colors
<1>2. ASSUME NEW f
      PROVE  f \in PlacedKeys(squares) <=> \E s \in Squares : f \in PieceKey(s, squares[s])
  BY DEF PlacedKeys
<1>3. ASSUME NEW f, NEW s \in Squares
      PROVE  f \in PieceKey(s, squares[s])
                 <=> squares[s] \in Pieces /\ f = <<"piece", s, squares[s]>>
  BY <1>1 DEF PieceKey
<1>4. PlacedKeys(squares) \subseteq PieceFeatures
  BY <1>2, <1>3 DEF PieceFeatures
<1>5. ASSUME NEW s \in Squares, NEW piece \in Pieces
      PROVE  <<"piece", s, piece>> \in PlacedKeys(squares) <=> squares[s] = piece
  BY <1>2, <1>3
<1> QED
  BY <1>4, <1>5

\* The key of one piece, or of none.
LEMMA PieceKeyMembers ==
    ASSUME NEW s \in Squares, NEW piece \in Pieces \cup {Empty}
    PROVE  /\ PieceKey(s, piece) \subseteq PieceFeatures
           /\ \A t \in Squares, other \in Pieces :
                  <<"piece", t, other>> \in PieceKey(s, piece) <=> t = s /\ other = piece
<1>1. Empty \notin Pieces
  BY DEF Empty, Pieces, Piece, Colors
<1> QED
  BY <1>1 DEF PieceKey, PieceFeatures

\* The keys take and put flip are those by which the two boards differ.
LEMMA PieceKeysFollow ==
    ASSUME NEW p, IsPosition(p), NEW mv, Fits(p, mv)
    PROVE  /\ PieceKeys(p, mv) \subseteq PieceFeatures
           /\ PlacedKeys(Moved(p, mv)) = Xor(PlacedKeys(p.squares), PieceKeys(p, mv))
<1> DEFINE c  == CapturedSquare(p, mv)
           sq == p.squares
           nq == Moved(p, mv)
           land == Landing(p, mv)
           rf == RookFrom(mv)
           rt == RookTo(mv)
           moving == Xor(Xor(PieceKey(c, sq[c]), PieceKey(mv.from, sq[mv.from])),
                         PieceKey(mv.to, land))
           castled == Xor(PieceKey(rf, sq[rf]), PieceKey(rt, sq[rf]))
<1>1. /\ sq \in [Squares -> Pieces \cup {Empty}] /\ p.side \in Colors
      /\ nq \in [Squares -> Pieces \cup {Empty}]
  BY PositionFields, MovedBoard DEF IsPosition
<1>2. /\ c \in Squares /\ c # mv.from
      /\ mv.kind # "EnPassant" => c = mv.to
      /\ mv.kind = "EnPassant" => c # mv.to /\ sq[mv.to] = Empty
  BY CapturedSquareFits
<1>3. mv.from \in Squares /\ mv.to \in Squares /\ mv.from # mv.to
  BY DEF Fits
<1>4. /\ nq[mv.to] = land /\ nq[mv.from] = Empty /\ land \in Pieces \cup {Empty}
      /\ mv.kind = "EnPassant" => nq[c] = Empty
  BY <1>1, <1>3, MovedBoard
<1>5. IsCastle(mv) =>
        /\ rf \in Squares /\ rt \in Squares /\ rf # rt
        /\ rf \notin {mv.from, mv.to} /\ rt \notin {mv.from, mv.to}
        /\ sq[mv.to] = Empty /\ sq[rt] = Empty
        /\ nq[rf] = Empty /\ nq[rt] = sq[rf]
        /\ mv.kind # "EnPassant"
  BY CastleSquares, MovedBoard DEF Fits, FitsCastle, IsCastle
<1>6. \A s \in Squares \ {mv.from, mv.to} :
        IF IsCastle(mv) THEN s \notin {rf, rt} => nq[s] = sq[s] ELSE s # c => nq[s] = sq[s]
  BY MovedBoard
<1>7. PieceKeys(p, mv) = IF IsCastle(mv) THEN Xor(moving, castled) ELSE moving
  BY DEF PieceKeys
<1>8. Empty \notin Pieces
  BY DEF Empty, Pieces, Piece, Colors
<1> HIDE DEF c, sq, nq, land, rf, rt
<1>9. /\ moving \subseteq PieceFeatures
      /\ \A s \in Squares, piece \in Pieces :
             <<"piece", s, piece>> \in moving <=>
                 ~(~((s = c /\ piece = sq[c]) <=> (s = mv.from /\ piece = sq[mv.from]))
                     <=> (s = mv.to /\ piece = land))
  <2>1. /\ PieceKey(c, sq[c]) \subseteq PieceFeatures
        /\ \A s \in Squares, piece \in Pieces :
               <<"piece", s, piece>> \in PieceKey(c, sq[c]) <=> s = c /\ piece = sq[c]
    BY <1>1, <1>2, PieceKeyMembers
  <2>2. /\ PieceKey(mv.from, sq[mv.from]) \subseteq PieceFeatures
        /\ \A s \in Squares, piece \in Pieces :
               <<"piece", s, piece>> \in PieceKey(mv.from, sq[mv.from])
                   <=> s = mv.from /\ piece = sq[mv.from]
    BY <1>1, <1>3, PieceKeyMembers
  <2>3. /\ PieceKey(mv.to, land) \subseteq PieceFeatures
        /\ \A s \in Squares, piece \in Pieces :
               <<"piece", s, piece>> \in PieceKey(mv.to, land) <=> s = mv.to /\ piece = land
    BY <1>3, <1>4, PieceKeyMembers
  <2>4. moving \subseteq PieceFeatures
    BY <2>1, <2>2, <2>3, XorMembers
  <2> QED
    BY <2>1, <2>2, <2>3, <2>4, XorMembers
<1>10. IsCastle(mv) =>
         /\ castled \subseteq PieceFeatures
         /\ \A s \in Squares, piece \in Pieces :
                <<"piece", s, piece>> \in castled <=>
                    ~((s = rf /\ piece = sq[rf]) <=> (s = rt /\ piece = sq[rf]))
  <2> SUFFICES ASSUME IsCastle(mv)
               PROVE  /\ castled \subseteq PieceFeatures
                      /\ \A s \in Squares, piece \in Pieces :
                             <<"piece", s, piece>> \in castled <=>
                                 ~((s = rf /\ piece = sq[rf]) <=> (s = rt /\ piece = sq[rf]))
    OBVIOUS
  <2>1. /\ PieceKey(rf, sq[rf]) \subseteq PieceFeatures
        /\ \A s \in Squares, piece \in Pieces :
               <<"piece", s, piece>> \in PieceKey(rf, sq[rf]) <=> s = rf /\ piece = sq[rf]
    BY <1>1, <1>5, PieceKeyMembers
  <2>2. /\ PieceKey(rt, sq[rf]) \subseteq PieceFeatures
        /\ \A s \in Squares, piece \in Pieces :
               <<"piece", s, piece>> \in PieceKey(rt, sq[rf]) <=> s = rt /\ piece = sq[rf]
    BY <1>1, <1>5, PieceKeyMembers
  <2> QED
    BY <2>1, <2>2, XorMembers
<1> HIDE DEF moving, castled
<1>11. PieceKeys(p, mv) \subseteq PieceFeatures
  BY <1>7, <1>9, <1>10, XorMembers
<1>12. ASSUME NEW s \in Squares, NEW piece \in Pieces
       PROVE  nq[s] = piece <=> ~(sq[s] = piece <=> <<"piece", s, piece>> \in PieceKeys(p, mv))
  <2>1. CASE IsCastle(mv)
    <3>1. c = mv.to
      BY <1>2, <1>5, <2>1
    <3>2. <<"piece", s, piece>> \in PieceKeys(p, mv)
            <=> ~(<<"piece", s, piece>> \in moving <=> <<"piece", s, piece>> \in castled)
      BY <1>7, <2>1, XorMembers
    <3>3. CASE s = mv.from
      BY <1>4, <1>5, <1>8, <1>9, <1>10, <1>3, <2>1, <3>1, <3>2, <3>3
    <3>4. CASE s = mv.to
      BY <1>4, <1>5, <1>8, <1>9, <1>10, <1>3, <2>1, <3>1, <3>2, <3>4
    <3>5. CASE s \in {rf, rt}
      BY <1>4, <1>5, <1>8, <1>9, <1>10, <1>3, <2>1, <3>1, <3>2, <3>5
    <3>6. CASE s \notin {mv.from, mv.to, rf, rt}
      BY <1>5, <1>6, <1>9, <1>10, <2>1, <3>1, <3>2, <3>6
    <3> QED
      BY <3>3, <3>4, <3>5, <3>6
  <2>2. CASE ~IsCastle(mv)
    <3>1. <<"piece", s, piece>> \in PieceKeys(p, mv) <=> <<"piece", s, piece>> \in moving
      BY <1>7, <2>2
    <3>2. CASE s = mv.from
      BY <1>2, <1>3, <1>4, <1>8, <1>9, <3>1, <3>2
    <3>3. CASE s = mv.to
      BY <1>2, <1>3, <1>4, <1>8, <1>9, <3>1, <3>3
    <3>4. CASE s = c /\ s # mv.to
      BY <1>2, <1>3, <1>4, <1>8, <1>9, <3>1, <3>4
    <3>5. CASE s \notin {mv.from, mv.to, c}
      BY <1>6, <1>9, <2>2, <3>1, <3>5
    <3> QED
      BY <1>2, <3>2, <3>3, <3>4, <3>5
  <2> QED
    BY <2>1, <2>2
<1>13. /\ PlacedKeys(nq) \subseteq PieceFeatures
       /\ \A s \in Squares, piece \in Pieces :
              <<"piece", s, piece>> \in PlacedKeys(nq) <=> nq[s] = piece
  BY <1>1, PlacedMembers
<1>14. /\ PlacedKeys(sq) \subseteq PieceFeatures
       /\ \A s \in Squares, piece \in Pieces :
              <<"piece", s, piece>> \in PlacedKeys(sq) <=> sq[s] = piece
  BY <1>1, PlacedMembers
<1>15. ASSUME NEW f
       PROVE  f \in PlacedKeys(nq) <=> f \in Xor(PlacedKeys(sq), PieceKeys(p, mv))
  <2>1. CASE f \in PieceFeatures
    <3>1. PICK s \in Squares, piece \in Pieces : f = <<"piece", s, piece>>
      BY <2>1 DEF PieceFeatures
    <3> QED
      BY <3>1, <1>12, <1>13, <1>14, XorMembers
  <2>2. CASE f \notin PieceFeatures
    BY <2>2, <1>11, <1>13, <1>14, XorMembers
  <2> QED
    BY <2>1, <2>2
<1>16. PlacedKeys(nq) = Xor(PlacedKeys(sq), PieceKeys(p, mv))
  BY <1>15
<1> QED
  BY <1>11, <1>16 DEF nq, sq

\* The sum of the keys a move flips and of the hash before it, taken family by family.
SumsUp(placed, flips, turn, rights, rights2, ep, ep2) ==
    Xor(placed, flips) \cup Xor(turn, SideKey) \cup rights2 \cup ep2
        = Xor(placed \cup turn \cup rights \cup ep,
              Xor(flips, Xor(Xor(ep, rights), Xor(Xor(rights2, SideKey), ep2))))

\* Families that do not meet are summed one by one.
LEMMA FamiliesSum ==
    ASSUME NEW placed \in SUBSET PieceFeatures, NEW flips \in SUBSET PieceFeatures,
           NEW turn \in SUBSET SideKey,
           NEW rights \in SUBSET CastlingFeatures, NEW rights2 \in SUBSET CastlingFeatures,
           NEW ep \in SUBSET EpFeatures, NEW ep2 \in SUBSET EpFeatures
    PROVE  SumsUp(placed, flips, turn, rights, rights2, ep, ep2)
<1> DEFINE left  == Xor(placed, flips) \cup Xor(turn, SideKey) \cup rights2 \cup ep2
           right == Xor(placed \cup turn \cup rights \cup ep,
                        Xor(flips, Xor(Xor(ep, rights), Xor(Xor(rights2, SideKey), ep2))))
<1>1. ASSUME NEW f
      PROVE  f \in left <=> f \in right
  <2>1. CASE f \in PieceFeatures
    BY <2>1, FamiliesAreApart, XorMembers
  <2>2. CASE f \in SideKey
    BY <2>2, FamiliesAreApart, XorMembers
  <2>3. CASE f \in CastlingFeatures
    BY <2>3, FamiliesAreApart, XorMembers
  <2>4. CASE f \in EpFeatures
    BY <2>4, FamiliesAreApart, XorMembers
  <2>5. CASE f \notin PieceFeatures \cup SideKey \cup CastlingFeatures \cup EpFeatures
    BY <2>5, XorMembers
  <2> QED
    BY <2>1, <2>2, <2>3, <2>4, <2>5
<1> QED
  BY <1>1 DEF SumsUp

LEMMA HashParts ==
    \A p : ComputeHash(p) = PlacedKeys(p.squares) \cup TurnKey(p.side)
                               \cup CastlingKey(p.castling) \cup EpKey(p.squares, p.side, p.ep)
BY DEF ComputeHash, PlacedKeys, TurnKey

\* Every part is of its family.
LEMMA PartFamilies ==
    /\ \A side \in Colors : /\ TurnKey(side) \subseteq SideKey
                            /\ TurnKey(Flip(side)) = Xor(TurnKey(side), SideKey)
    /\ \A rights \in SUBSET Rights : CastlingKey(rights) \subseteq CastlingFeatures
    /\ \A squares, side : \A ep \in Squares \cup {NoSquare} :
           EpKey(squares, side, ep) \subseteq EpFeatures
<1>1. ASSUME NEW side \in Colors
      PROVE  /\ TurnKey(side) \subseteq SideKey
             /\ TurnKey(Flip(side)) = Xor(TurnKey(side), SideKey)
  BY DEF TurnKey, Xor, Flip, Colors
<1>2. \A rights \in SUBSET Rights : CastlingKey(rights) \subseteq CastlingFeatures
  BY DEF CastlingKey, CastlingFeatures
<1>3. ASSUME NEW squares, NEW side, NEW ep \in Squares \cup {NoSquare}
      PROVE  EpKey(squares, side, ep) \subseteq EpFeatures
  <2>1. ep # NoSquare => FileOf(ep) \in 0..7
    BY DEF FileOf, Squares
  <2> QED
    BY <2>1 DEF EpKey, EpFeatures
<1> QED
  BY <1>1, <1>2, <1>3

HashRight(p) == p.hash = ComputeHash(p)

\* make_move keeps the hash.
LEMMA MadeKeepsHash ==
    ASSUME NEW p, IsPosition(p), HashRight(p), NEW mv, Fits(p, mv)
    PROVE  HashRight(MakeMove(p, mv))
<1> DEFINE q  == MakeMove(p, mv)
           nq == Moved(p, mv)
           rights == SurvivingRights(p, mv)
           ep == IF mv.kind = "DoublePush" THEN mv.from + Forward(p.side) ELSE NoSquare
<1>1. /\ p.squares \in [Squares -> Pieces \cup {Empty}] /\ p.side \in Colors
      /\ p.castling \in SUBSET Rights /\ p.ep \in Squares \cup {NoSquare}
      /\ nq \in [Squares -> Pieces \cup {Empty}]
  BY PositionFields, MovedBoard
<1>2. ep \in Squares \cup {NoSquare}
  BY DEF Fits, FitsDoublePush
<1>3. rights \in SUBSET Rights
  BY <1>1 DEF SurvivingRights
<1>4. /\ q.squares = nq /\ q.side = Flip(p.side) /\ q.castling = rights /\ q.ep = ep
      /\ q.hash = Xor(p.hash, Xor(PieceKeys(p, mv), StateKeys(p, mv, nq, rights, ep)))
  BY DEF MakeMove
<1> HIDE DEF q, nq, rights, ep
<1>5. /\ PieceKeys(p, mv) \subseteq PieceFeatures
      /\ PlacedKeys(nq) = Xor(PlacedKeys(p.squares), PieceKeys(p, mv))
      /\ PlacedKeys(nq) \subseteq PieceFeatures /\ PlacedKeys(p.squares) \subseteq PieceFeatures
  BY <1>1, PieceKeysFollow, PlacedMembers DEF nq
<1>6. /\ TurnKey(p.side) \subseteq SideKey /\ TurnKey(Flip(p.side)) \subseteq SideKey
      /\ TurnKey(Flip(p.side)) = Xor(TurnKey(p.side), SideKey)
      /\ CastlingKey(p.castling) \subseteq CastlingFeatures
      /\ CastlingKey(rights) \subseteq CastlingFeatures
      /\ EpKey(p.squares, p.side, p.ep) \subseteq EpFeatures
      /\ EpKey(nq, Flip(p.side), ep) \subseteq EpFeatures
  <2>1. Flip(p.side) \in Colors
    BY DEF Flip, Colors
  <2> QED
    BY <1>1, <1>2, <1>3, <2>1, PartFamilies
<1>7. PlacedKeys(nq) \cup TurnKey(Flip(p.side)) \cup CastlingKey(rights)
            \cup EpKey(nq, Flip(p.side), ep)
        = Xor(PlacedKeys(p.squares) \cup TurnKey(p.side) \cup CastlingKey(p.castling)
                  \cup EpKey(p.squares, p.side, p.ep),
              Xor(PieceKeys(p, mv),
                  Xor(Xor(EpKey(p.squares, p.side, p.ep), CastlingKey(p.castling)),
                      Xor(Xor(CastlingKey(rights), SideKey), EpKey(nq, Flip(p.side), ep)))))
  <2> DEFINE placed  == PlacedKeys(p.squares)
             flips   == PieceKeys(p, mv)
             turn    == TurnKey(p.side)
             right   == CastlingKey(p.castling)
             right2  == CastlingKey(rights)
             key     == EpKey(p.squares, p.side, p.ep)
             key2    == EpKey(nq, Flip(p.side), ep)
  <2>1. /\ flips \in SUBSET PieceFeatures /\ placed \in SUBSET PieceFeatures
        /\ turn \in SUBSET SideKey
        /\ right \in SUBSET CastlingFeatures /\ right2 \in SUBSET CastlingFeatures
        /\ key \in SUBSET EpFeatures /\ key2 \in SUBSET EpFeatures
    BY <1>5, <1>6
  <2> HIDE DEF placed, flips, turn, right, right2, key, key2
  <2>2. SumsUp(placed, flips, turn, right, right2, key, key2)
    BY <2>1, FamiliesSum
  <2>3. PlacedKeys(nq) = Xor(placed, flips) /\ TurnKey(Flip(p.side)) = Xor(turn, SideKey)
    BY <1>5, <1>6 DEF placed, flips, turn
  <2> QED
    BY <2>2, <2>3 DEF SumsUp, placed, flips, turn, right, right2, key, key2
<1>8. ComputeHash(p) = PlacedKeys(p.squares) \cup TurnKey(p.side) \cup CastlingKey(p.castling)
                         \cup EpKey(p.squares, p.side, p.ep)
  BY HashParts
<1>9. ComputeHash(q) = PlacedKeys(nq) \cup TurnKey(Flip(p.side)) \cup CastlingKey(rights)
                         \cup EpKey(nq, Flip(p.side), ep)
  BY <1>4, HashParts
<1>10. StateKeys(p, mv, nq, rights, ep) =
         Xor(Xor(EpKey(p.squares, p.side, p.ep), CastlingKey(p.castling)),
             Xor(Xor(CastlingKey(rights), SideKey), EpKey(nq, Flip(p.side), ep)))
  BY DEF StateKeys
<1>11. q.hash = ComputeHash(q)
  BY <1>4, <1>7, <1>8, <1>9, <1>10 DEF HashRight
<1> QED
  BY <1>11 DEF HashRight, q

\* make_null keeps it as well: the rights and the pieces stay.
LEMMA NullKeepsHash ==
    ASSUME NEW p, IsPosition(p), HashRight(p)
    PROVE  HashRight(MakeNull(p))
<1> DEFINE q == MakeNull(p)
<1>1. /\ p.squares \in [Squares -> Pieces \cup {Empty}] /\ p.side \in Colors
      /\ p.castling \in SUBSET Rights /\ p.ep \in Squares \cup {NoSquare}
  BY PositionFields
<1>2. /\ q.squares = p.squares /\ q.side = Flip(p.side) /\ q.castling = p.castling
      /\ q.ep = NoSquare
      /\ q.hash = Xor(p.hash, Xor(EpKey(p.squares, p.side, p.ep), SideKey))
  BY DEF MakeNull, PositionOf
<1> HIDE DEF q
<1>3. EpKey(p.squares, Flip(p.side), NoSquare) = {}
  BY DEF EpKey
<1>4. PlacedKeys(p.squares) \subseteq PieceFeatures
  BY <1>1, PlacedMembers
<1>5. /\ TurnKey(p.side) \subseteq SideKey
      /\ TurnKey(Flip(p.side)) = Xor(TurnKey(p.side), SideKey)
      /\ CastlingKey(p.castling) \subseteq CastlingFeatures
      /\ EpKey(p.squares, p.side, p.ep) \subseteq EpFeatures
  BY <1>1, PartFamilies
<1>6. ComputeHash(p) = PlacedKeys(p.squares) \cup TurnKey(p.side) \cup CastlingKey(p.castling)
                         \cup EpKey(p.squares, p.side, p.ep)
  BY HashParts
<1>7. ComputeHash(q) = PlacedKeys(p.squares) \cup TurnKey(Flip(p.side))
                         \cup CastlingKey(p.castling)
  BY <1>2, <1>3, HashParts
<1> DEFINE placed == PlacedKeys(p.squares)
           turn == TurnKey(p.side)
           turn2 == TurnKey(Flip(p.side))
           rights == CastlingKey(p.castling)
           ep == EpKey(p.squares, p.side, p.ep)
<1> HIDE DEF placed, turn, turn2, rights, ep
<1>8. ASSUME NEW f
      PROVE  f \in placed \cup turn2 \cup rights
                 <=> f \in Xor(placed \cup turn \cup rights \cup ep, Xor(ep, SideKey))
  <2>1. f \in turn2 <=> ~(f \in turn <=> f \in SideKey)
    BY <1>5, XorMembers DEF turn, turn2
  <2>2. /\ f \in placed => f \in PieceFeatures
        /\ f \in turn => f \in SideKey
        /\ f \in rights => f \in CastlingFeatures
        /\ f \in ep => f \in EpFeatures
    BY <1>4, <1>5 DEF placed, turn, rights, ep
  <2> QED
    BY <2>1, <2>2, FamiliesAreApart, XorMembers
<1>9. q.hash = ComputeHash(q)
  <2>1. q.hash = Xor(placed \cup turn \cup rights \cup ep, Xor(ep, SideKey))
    BY <1>2, <1>6 DEF HashRight, placed, turn, rights, ep
  <2>2. ComputeHash(q) = placed \cup turn2 \cup rights
    BY <1>7 DEF placed, turn2, rights
  <2> QED
    BY <1>8, <2>1, <2>2
<1> QED
  BY <1>9 DEF HashRight, q

\* An en passant square that goes into no hash is one no pawn can take on.
LEMMA NobodyTakesEnPassant ==
    ASSUME NEW p, IsPosition(p), EpKey(p.squares, p.side, p.ep) = {},
           NEW from \in Squares, p.squares[from] = Piece(p.side, "Pawn")
    PROVE  p.ep \notin {from + Forward(p.side) + step : step \in {-1, 1}} \cap Squares
<1> SUFFICES ASSUME NEW step \in {-1, 1}, p.ep = from + Forward(p.side) + step, p.ep \in Squares
             PROVE  FALSE
  OBVIOUS
<1>1. p.side \in Colors
  BY PositionFields
<1>2. from = p.ep - Forward(p.side) + (-step) /\ -step \in {-1, 1}
  BY <1>1 DEF Forward, Colors, Squares
<1>3. EpIsCapturable(p.squares, p.side, p.ep)
  BY <1>2 DEF EpIsCapturable
<1>4. p.ep # NoSquare
  BY DEF NoSquare, Squares
<1> QED
  BY <1>3, <1>4 DEF EpKey

\* Without it the generator finds the same moves, ...
LEMMA SamePseudoLegal ==
    ASSUME NEW p, IsPosition(p), EpKey(p.squares, p.side, p.ep) = {}
    PROVE  PseudoLegal([p EXCEPT !.ep = NoSquare]) = PseudoLegal(p)
<1> DEFINE w == [p EXCEPT !.ep = NoSquare]
<1>1. /\ w.squares = p.squares /\ w.side = p.side /\ w.castling = p.castling /\ w.ep = NoSquare
      /\ p.side \in Colors /\ p.squares \in [Squares -> Pieces \cup {Empty}]
  BY PositionFields DEF PositionOf
<1> HIDE DEF w
<1>2. Castles(w) = Castles(p)
  BY <1>1 DEF Castles, CanCastle
<1>3. ASSUME NEW from \in Squares
      PROVE  /\ PawnPushes(w, from) = PawnPushes(p, from)
             /\ PieceTargets(w, from) = PieceTargets(p, from)
  BY <1>1 DEF PawnPushes, PieceTargets
<1>4. ASSUME NEW from \in Squares, p.squares[from] = Piece(p.side, "Pawn")
      PROVE  PawnCaptures(w, from) = PawnCaptures(p, from)
  <2> DEFINE targets == {from + Forward(p.side) + step : step \in {-1, 1}} \cap Squares
  <2>1. p.ep \notin targets
    BY <1>4, NobodyTakesEnPassant
  <2>2. NoSquare \notin targets
    BY DEF NoSquare, Squares
  <2> HIDE DEF targets
  <2>3. {s \in targets : p.squares[s] = Empty /\ s = p.ep} = {}
    BY <2>1
  <2>4. {s \in targets : p.squares[s] = Empty /\ s = NoSquare} = {}
    BY <2>2
  <2> QED
    BY <1>1, <2>3, <2>4 DEF PawnCaptures, targets
<1>5. ASSUME NEW from \in Squares, p.squares[from].color = p.side,
             p.squares[from].kind = "Pawn"
      PROVE  p.squares[from] = Piece(p.side, "Pawn")
  BY <1>1, <1>5 DEF Pieces, Piece, Empty, Colors
<1>6. ASSUME NEW mv
      PROVE  mv \in PseudoLegal(w) <=> mv \in PseudoLegal(p)
  BY <1>1, <1>2, <1>3, <1>4, <1>5 DEF PseudoLegal
<1> QED
  BY <1>6 DEF w

\* ... and each of them leads to the same pieces.
LEMMA SameLegal ==
    ASSUME NEW p, IsPosition(p), EpKey(p.squares, p.side, p.ep) = {}
    PROVE  LegalMoves([p EXCEPT !.ep = NoSquare]) = LegalMoves(p)
<1> DEFINE w == [p EXCEPT !.ep = NoSquare]
<1>1. w.squares = p.squares /\ w.side = p.side /\ w.king = p.king
  BY PositionFields DEF PositionOf
<1>2. PseudoLegal(w) = PseudoLegal(p)
  BY SamePseudoLegal
<1> HIDE DEF w
<1>3. ASSUME NEW mv
      PROVE  /\ MakeMove(w, mv).squares = MakeMove(p, mv).squares
             /\ MakeMove(w, mv).king = MakeMove(p, mv).king
  <2>1. CapturedSquare(w, mv) = CapturedSquare(p, mv) /\ Landing(w, mv) = Landing(p, mv)
    BY <1>1 DEF CapturedSquare, Landing
  <2>2. Moved(w, mv) = Moved(p, mv)
    BY <1>1, <2>1 DEF Moved
  <2> QED
    BY <1>1, <2>2 DEF MakeMove
<1>4. ASSUME NEW mv
      PROVE  InCheck(MakeMove(w, mv), w.side) <=> InCheck(MakeMove(p, mv), p.side)
  BY <1>1, <1>3 DEF InCheck
<1>5. LegalMoves(w) = LegalMoves(p)
  BY <1>2, <1>4 DEF LegalMoves, Legal
<1> QED
  BY <1>5 DEF w

\* What the hash leaves out makes no difference.
LEMMA HashTellsMoves ==
    ASSUME NEW p, IsPosition(p), HashRight(p),
           ComputeHash([p EXCEPT !.ep = NoSquare]) = p.hash
    PROVE  LegalMoves([p EXCEPT !.ep = NoSquare]) = LegalMoves(p)
<1> DEFINE w == [p EXCEPT !.ep = NoSquare]
           key == EpKey(p.squares, p.side, p.ep)
<1>1. /\ w.squares = p.squares /\ w.side = p.side /\ w.castling = p.castling /\ w.ep = NoSquare
      /\ p.side \in Colors /\ p.squares \in [Squares -> Pieces \cup {Empty}]
      /\ p.castling \in SUBSET Rights /\ p.ep \in Squares \cup {NoSquare}
  BY PositionFields DEF PositionOf
<1>2. ComputeHash(w) = ComputeHash(p)
  BY DEF HashRight
<1> HIDE DEF w
<1>3. /\ PlacedKeys(p.squares) \subseteq PieceFeatures /\ TurnKey(p.side) \subseteq SideKey
      /\ CastlingKey(p.castling) \subseteq CastlingFeatures /\ key \subseteq EpFeatures
  BY <1>1, PlacedMembers, PartFamilies
<1>4. EpKey(w.squares, w.side, w.ep) = {}
  BY <1>1 DEF EpKey
<1>5. ComputeHash(w) = PlacedKeys(p.squares) \cup TurnKey(p.side) \cup CastlingKey(p.castling)
  BY <1>1, <1>4, HashParts
<1>6. ComputeHash(p) = PlacedKeys(p.squares) \cup TurnKey(p.side) \cup CastlingKey(p.castling)
                         \cup key
  BY HashParts
<1>7. ASSUME NEW f \in key
      PROVE  FALSE
  BY <1>2, <1>3, <1>5, <1>6, FamiliesAreApart
<1>8. key = {}
  BY <1>7
<1> QED
  BY <1>8, SameLegal

----------------------------------------------------------------------------
(* The walk.                                                               *)

\* The position the i-th move of the line led to.
Reached(i) == IF i = Len(path) THEN pos ELSE path[i + 1]

\* Every position of the line is whole, and each undo record leads back to the position
\* its move was made in: not only the last one, which is all the property speaks of.
LineInv ==
    /\ line \in Seq(Undos)
    /\ path \in Seq(Positions)
    /\ Len(line) = Len(path)
    /\ \A i \in 1..Len(path) : IsPosition(path[i]) /\ IsSound(path[i])
    /\ \A i \in 1..Len(path) : TakeBack(Reached(i), line[i]) = path[i]

BoardInv ==
    /\ IsPosition(pos)
    /\ IsSound(pos)
    /\ LineInv

LEMMA PseudoLegalMoves ==
    ASSUME NEW p, NEW mv \in PseudoLegal(p)
    PROVE  mv = Move(mv.from, mv.to, mv.promo, mv.kind)
<1>1. ASSUME NEW from, NEW to, NEW promo, NEW kind, mv = Move(from, to, promo, kind)
      PROVE  mv = Move(mv.from, mv.to, mv.promo, mv.kind)
  BY <1>1 DEF Move
<1>2. CASE mv \in Castles(p)
  BY <1>2 DEF Castles, Move
<1>3. ASSUME NEW from, mv \in PawnPushes(p, from)
      PROVE  mv = Move(mv.from, mv.to, mv.promo, mv.kind)
  BY <1>3, <1>1 DEF PawnPushes, PawnMoves
<1>4. ASSUME NEW from, mv \in PawnCaptures(p, from)
      PROVE  mv = Move(mv.from, mv.to, mv.promo, mv.kind)
  BY <1>4, <1>1 DEF PawnCaptures, PawnMoves
<1> QED
  BY <1>1, <1>2, <1>3, <1>4 DEF PseudoLegal

LEMMA UndoTypes ==
    ASSUME NEW p, IsPosition(p)
    PROVE  /\ \A mv \in PseudoLegal(p) : UndoOf(p, mv) \in Undos
           /\ NullUndoOf(p) \in Undos
<1>1. ASSUME NEW mv \in PseudoLegal(p)
      PROVE  UndoOf(p, mv) \in Undos
  <2>1. Fits(p, mv) /\ mv = Move(mv.from, mv.to, mv.promo, mv.kind)
    BY PseudoLegalFits, PseudoLegalMoves
  <2>2. mv \in [from : Squares, to : Squares, promo : Kinds \cup {"none"}, kind : MoveKinds]
    BY <2>1 DEF Move, Fits, FitsPromotion, Kinds
  <2>3. CapturedSquare(p, mv) \in Squares
    BY <2>1, CapturedSquareFits
  <2> QED
    BY <2>2, <2>3, PositionFields DEF UndoOf, Undos
<1>2. NullUndoOf(p) \in Undos
  <2>1. NullMove \in [from : Squares, to : Squares, promo : Kinds \cup {"none"}, kind : MoveKinds]
    BY DEF NullMove, Move, Squares, Kinds, MoveKinds
  <2>2. 0 \in Squares
    BY DEF Squares
  <2> QED
    BY <2>1, <2>2, PositionFields DEF NullUndoOf, Undos
<1> QED
  BY <1>1, <1>2

\* One more position on the line, and the record that leads back to it.
LEMMA LineGrows ==
    ASSUME BoardInv, NEW undo \in Undos,
           line' = Append(line, undo), path' = Append(path, pos),
           IsPosition(pos'), IsSound(pos'), TakeBack(pos', undo) = pos
    PROVE  BoardInv'
<1>1. /\ line \in Seq(Undos) /\ path \in Seq(Positions) /\ Len(line) = Len(path)
      /\ pos \in Positions
  BY DEF BoardInv, LineInv, IsPosition
<1>2. /\ line' \in Seq(Undos) /\ path' \in Seq(Positions)
      /\ Len(line') = Len(path') /\ Len(path') = Len(path) + 1
      /\ path'[Len(path) + 1] = pos /\ line'[Len(path) + 1] = undo
      /\ \A i \in 1..Len(path) : path'[i] = path[i] /\ line'[i] = line[i]
  BY <1>1
<1>3. ASSUME NEW i \in 1..Len(path')
      PROVE  /\ IsPosition(path'[i]) /\ IsSound(path'[i])
             /\ TakeBack(Reached(i)', line'[i]) = path'[i]
  <2>1. CASE i = Len(path) + 1
    BY <1>2, <2>1 DEF BoardInv, Reached
  <2>2. CASE i \in 1..Len(path)
    <3>1. Reached(i)' = Reached(i)
      BY <1>1, <1>2, <2>2 DEF Reached
    <3> QED
      BY <1>2, <2>2, <3>1 DEF BoardInv, LineInv
  <2> QED
    BY <1>1, <1>2, <2>1, <2>2
<1> QED
  BY <1>2, <1>3 DEF BoardInv, LineInv

LEMMA LineShrinks ==
    ASSUME BoardInv, Unmake
    PROVE  BoardInv'
<1> DEFINE n == Len(path)
<1>1. /\ line \in Seq(Undos) /\ path \in Seq(Positions) /\ Len(line) = n /\ line # <<>>
      /\ line' = SubSeq(line, 1, n - 1) /\ path' = SubSeq(path, 1, n - 1)
  BY DEF BoardInv, LineInv, Unmake
<1>2. n \in Nat \ {0}
  BY <1>1
<1>3. pos' = path[n]
  <2>1. pos' = TakeBack(Reached(n), line[n])
    BY <1>1 DEF Unmake, TakenBack, Reached
  <2> QED
    BY <1>2, <2>1 DEF BoardInv, LineInv
<1>4. /\ line' \in Seq(Undos) /\ path' \in Seq(Positions)
      /\ Len(line') = n - 1 /\ Len(path') = n - 1
      /\ \A i \in 1..(n - 1) : path'[i] = path[i] /\ line'[i] = line[i]
  BY <1>1, <1>2
<1>5. ASSUME NEW i \in 1..(n - 1)
      PROVE  /\ IsPosition(path'[i]) /\ IsSound(path'[i])
             /\ TakeBack(Reached(i)', line'[i]) = path'[i]
  <2>1. Reached(i)' = Reached(i)
    BY <1>2, <1>3, <1>4 DEF Reached
  <2> QED
    BY <1>2, <1>4, <2>1 DEF BoardInv, LineInv
<1> QED
  BY <1>2, <1>3, <1>4, <1>5 DEF BoardInv, LineInv

LEMMA BoardInvInit ==
    ASSUME BoardInit
    PROVE  BoardInv
BY StartsAssumption DEF BoardInit, BoardInv, LineInv

LEMMA BoardInvNext ==
    ASSUME BoardInv, [BoardNext]_boardVars
    PROVE  BoardInv'
<1>1. IsPosition(pos) /\ IsSound(pos)
  BY DEF BoardInv
<1>2. CASE Make
  <2>1. PICK mv \in LegalMoves(pos) :
            /\ pos' = MakeMove(pos, mv)
            /\ line' = Append(line, UndoOf(pos, mv))
            /\ path' = Append(path, pos)
    BY <1>2 DEF Make
  <2>2. mv \in PseudoLegal(pos)
    BY DEF LegalMoves, Legal
  <2>3. Fits(pos, mv) /\ UndoOf(pos, mv) \in Undos
    BY <1>1, <2>2, PseudoLegalFits, UndoTypes
  <2>4. UndoOf(pos, mv).mv # NullMove
    BY <2>3 DEF UndoOf, NullMove, Move, Fits
  <2>5. TakeBack(pos', UndoOf(pos, mv)) = pos
    BY <1>1, <2>1, <2>3, <2>4, UnmakeRestores DEF TakeBack
  <2>6. IsPosition(pos') /\ IsSound(pos')
    BY <1>1, <2>1, <2>3, MadeIsPosition, MadeIsSound
  <2> QED
    BY <2>1, <2>3, <2>5, <2>6, LineGrows
<1>3. CASE Pass
  <2>1. /\ ~InCheck(pos, pos.side) /\ pos' = MakeNull(pos)
        /\ line' = Append(line, NullUndoOf(pos)) /\ path' = Append(path, pos)
    BY <1>3 DEF Pass
  <2>2. NullUndoOf(pos).mv = NullMove /\ NullUndoOf(pos) \in Undos
    BY <1>1, UndoTypes DEF NullUndoOf
  <2>3. TakeBack(pos', NullUndoOf(pos)) = pos
    BY <1>1, <2>1, <2>2, UnmakeNullRestores DEF TakeBack
  <2>4. IsPosition(pos') /\ IsSound(pos')
    BY <1>1, <2>1, NullIsPosition, NullIsSound
  <2> QED
    BY <2>1, <2>2, <2>3, <2>4, LineGrows
<1>4. CASE Unmake
  BY <1>4, LineShrinks
<1>5. CASE UNCHANGED boardVars
  BY <1>5 DEF boardVars, BoardInv, LineInv, Reached
<1> QED
  BY <1>2, <1>3, <1>4, <1>5 DEF BoardNext

LEMMA BoardInvariant == BoardSpec => []BoardInv
<1>1. BoardInit => BoardInv
  BY BoardInvInit
<1>2. BoardInv /\ [BoardNext]_boardVars => BoardInv'
  BY BoardInvNext
<1> QED
  BY <1>1, <1>2, PTL DEF BoardSpec

\* Taking back the last move of a line of any length restores the position it was made
\* in, whatever was captured, promoted, castled or passed on the way.
THEOREM TakingBack == BoardSpec => []TakingBackRestores
<1>1. BoardInv => TakingBackRestores
  <2> SUFFICES ASSUME BoardInv, line # <<>>
               PROVE  TakenBack = path[Len(path)]
    BY DEF TakingBackRestores
  <2>1. line \in Seq(Undos) /\ path \in Seq(Positions) /\ Len(line) = Len(path)
    BY DEF BoardInv, LineInv
  <2>2. Len(path) \in 1..Len(path)
    BY <2>1
  <2>3. TakeBack(Reached(Len(path)), line[Len(path)]) = path[Len(path)]
    BY <2>2 DEF BoardInv, LineInv
  <2> QED
    BY <2>1, <2>3 DEF TakenBack, Reached
<1> QED
  BY <1>1, BoardInvariant, PTL

\* However long the line, the kings are where the cache has them, nobody moved into
\* check, and every right names a king and a rook in their places.
THEOREM PositionsStaySound == BoardSpec => []PositionIsSound
<1>1. BoardInv => PositionIsSound
  BY DEF BoardInv, PositionIsSound
<1> QED
  BY <1>1, BoardInvariant, PTL

----------------------------------------------------------------------------
(* The hash along the line.                                                *)

\* The hash is right in every position of the line, not only the last: taking a move
\* back gives back the hash that was saved.
HashesRight == HashRight(pos) /\ \A i \in 1..Len(path) : HashRight(path[i])

LEMMA HashesRightInit ==
    ASSUME BoardInit
    PROVE  HashesRight
BY StartsAssumption DEF BoardInit, HashesRight, HashRight

\* One more position on the line.
LEMMA HashesGrow ==
    ASSUME BoardInv, HashesRight, path' = Append(path, pos), HashRight(pos')
    PROVE  HashesRight'
<1>1. path \in Seq(Positions) /\ pos \in Positions
  BY DEF BoardInv, LineInv, IsPosition
<1>2. /\ Len(path') = Len(path) + 1 /\ path'[Len(path) + 1] = pos
      /\ \A i \in 1..Len(path) : path'[i] = path[i]
  BY <1>1
<1>3. ASSUME NEW i \in 1..Len(path')
      PROVE  HashRight(path'[i])
  <2>1. Len(path) \in Nat
    BY <1>1
  <2>2. CASE i = Len(path) + 1
    BY <1>2, <2>2 DEF HashesRight
  <2>3. CASE i \in 1..Len(path)
    BY <1>2, <2>3 DEF HashesRight
  <2> QED
    BY <1>2, <2>1, <2>2, <2>3
<1> QED
  BY <1>3 DEF HashesRight, HashRight

LEMMA HashesRightNext ==
    ASSUME BoardInv, HashesRight, [BoardNext]_boardVars
    PROVE  HashesRight'
<1>1. IsPosition(pos) /\ HashRight(pos)
  BY DEF BoardInv, HashesRight
<1>2. CASE Make
  <2>1. PICK mv \in LegalMoves(pos) : pos' = MakeMove(pos, mv) /\ path' = Append(path, pos)
    BY <1>2 DEF Make
  <2>2. Fits(pos, mv)
    BY <1>1, PseudoLegalFits DEF LegalMoves, Legal
  <2> QED
    BY <1>1, <2>1, <2>2, MadeKeepsHash, HashesGrow
<1>3. CASE Pass
  BY <1>1, <1>3, NullKeepsHash, HashesGrow DEF Pass
<1>4. CASE Unmake
  <2> DEFINE n == Len(path)
  <2>1. /\ path \in Seq(Positions) /\ Len(line) = n /\ line \in Seq(Undos) /\ line # <<>>
        /\ path' = SubSeq(path, 1, n - 1)
    BY <1>4 DEF BoardInv, LineInv, Unmake
  <2>2. n \in Nat \ {0}
    BY <2>1
  <2>3. pos' = path[n]
    <3>1. pos' = TakeBack(Reached(n), line[n])
      BY <1>4, <2>1 DEF Unmake, TakenBack, Reached
    <3> QED
      BY <2>2, <3>1 DEF BoardInv, LineInv
  <2>4. Len(path') = n - 1 /\ \A i \in 1..(n - 1) : path'[i] = path[i]
    BY <2>1, <2>2
  <2>5. HashRight(pos')
    BY <2>2, <2>3 DEF HashesRight
  <2>6. \A i \in 1..Len(path') : HashRight(path'[i])
    BY <2>2, <2>4 DEF HashesRight
  <2> QED
    BY <2>5, <2>6 DEF HashesRight, HashRight
<1>5. CASE UNCHANGED boardVars
  BY <1>5 DEF boardVars, HashesRight, HashRight
<1> QED
  BY <1>2, <1>3, <1>4, <1>5 DEF BoardNext

\* The hash make_move carries along is the one compute_hash would find, after a line of
\* any length of moves, null moves and moves taken back; and a position whose en passant
\* square it leaves out has the moves of the position without that square.
THEOREM HashesIdentify == BoardSpec => []HashIdentifiesThePosition
<1>1. BoardInit => HashesRight
  BY HashesRightInit
<1>2. BoardInv /\ HashesRight /\ [BoardNext]_boardVars => HashesRight'
  BY HashesRightNext
<1>3. BoardInv /\ HashesRight => HashIdentifiesThePosition
  BY HashTellsMoves DEF BoardInv, HashesRight, HashRight, HashIdentifiesThePosition
<1> QED
  BY <1>1, <1>2, <1>3, BoardInvariant, PTL DEF BoardSpec

----------------------------------------------------------------------------
(* A move onto a piece is an attack on it.                                 *)

\* A ray shows squares of the board only.
LEMMA SeenOnBoard ==
    ASSUME NEW squares, NEW s \in Squares, NEW step \in KingSteps,
           NEW t \in Seen(squares, s, step)
    PROVE  t \in Squares
<1>1. /\ Reach[s][step] \in 0..7
      /\ s + Reach[s][step] * step \in Squares
  BY ReachEnds
<1>2. PICK n \in 1..Reach[s][step] : t = s + n * step
  BY DEF Seen
<1> QED
  BY <1>1, <1>2, RaysAreStraight

\* is_attacked looks outwards from a square, and what it finds is a piece of which the
\* generator has a capture there.
LEMMA AttackIsCapture ==
    ASSUME NEW p, IsPosition(p), NEW s \in Squares, p.squares[s].color = Flip(p.side),
           IsAttacked(p.squares, s, p.side)
    PROVE  \E mv \in PseudoCaptures(p) : mv.to = s
<1>1. p.side \in Colors /\ p.squares \in [Squares -> Pieces \cup {Empty}]
  BY PositionFields
<1>2. p.squares[s] # Empty /\ p.squares[s].color # p.side
  BY <1>1 DEF Empty, Piece, Flip, Colors
<1>3. CASE \E step \in {-1, 1} : LET from == s - Forward(p.side) + step
                                 IN  from \in Squares /\ p.squares[from] = Piece(p.side, "Pawn")
  <2>1. PICK step \in {-1, 1} : /\ s - Forward(p.side) + step \in Squares
                                /\ p.squares[s - Forward(p.side) + step] = Piece(p.side, "Pawn")
    BY <1>3
  <2> DEFINE from == s - Forward(p.side) + step
  <2>2. s = from + Forward(p.side) + (-step) /\ -step \in {-1, 1}
    BY <1>1 DEF Forward, Colors, Squares
  <2>3. /\ from \in Squares /\ p.squares[from].color = p.side
        /\ p.squares[from].kind = "Pawn"
    BY <2>1 DEF Piece
  <2> HIDE DEF from
  <2>4. s \in {to \in {from + Forward(p.side) + back : back \in {-1, 1}} \cap Squares :
                   p.squares[to].color = Flip(p.side)}
    BY <2>2
  <2>5. PawnMoves(from, s, "Normal") \subseteq PawnCaptures(p, from)
    BY <2>4 DEF PawnCaptures
  <2>6. \E promo : Move(from, s, promo, "Normal") \in PawnMoves(from, s, "Normal")
    BY DEF PawnMoves
  <2>7. PICK promo : Move(from, s, promo, "Normal") \in PawnCaptures(p, from)
    BY <2>5, <2>6
  <2>8. Move(from, s, promo, "Normal") \in PseudoCaptures(p)
    BY <2>3, <2>7 DEF PseudoCaptures
  <2> QED
    BY <2>8 DEF Move
<1>4. ASSUME NEW from \in Squares, p.squares[from].color = p.side, p.squares[from].kind # "Pawn",
             s \in PieceTargets(p, from)
      PROVE  \E mv \in PseudoCaptures(p) : mv.to = s
  <2>1. Move(from, s, "none", "Normal") \in PseudoCaptures(p)
    BY <1>2, <1>4 DEF PseudoCaptures
  <2> QED
    BY <2>1 DEF Move
<1>5. CASE \E kind \in {"Knight", "King"} : \E step \in JumpingSteps(kind) :
               s + step \in Squares /\ p.squares[s + step] = Piece(p.side, kind)
  <2> PICK kind \in {"Knight", "King"} : \E step \in JumpingSteps(kind) :
               s + step \in Squares /\ p.squares[s + step] = Piece(p.side, kind)
    BY <1>5
  <2>1. PICK step \in JumpingSteps(kind) :
            s + step \in Squares /\ p.squares[s + step] = Piece(p.side, kind)
    OBVIOUS
  <2>2. -step \in JumpingSteps(kind) /\ step \in Int
    BY DEF JumpingSteps, KnightSteps, KingSteps, BishopSteps, RookSteps
  <2>3. s = (s + step) + (-step)
    BY <2>2 DEF Squares
  <2>4. p.squares[s + step].color = p.side /\ p.squares[s + step].kind = kind
    BY <2>1 DEF Piece
  <2>5. s \in PieceTargets(p, s + step)
    BY <1>2, <2>2, <2>3, <2>4 DEF PieceTargets
  <2> QED
    BY <1>4, <2>1, <2>4, <2>5
<1>6. CASE \E kind \in {"Bishop", "Rook"} : \E step \in SlidingSteps(kind) :
               \E from \in Seen(p.squares, s, step) :
                   p.squares[from] \in {Piece(p.side, kind), Piece(p.side, "Queen")}
  <2> PICK kind \in {"Bishop", "Rook"} : \E step \in SlidingSteps(kind) :
               \E from \in Seen(p.squares, s, step) :
                   p.squares[from] \in {Piece(p.side, kind), Piece(p.side, "Queen")}
    BY <1>6
  <2> PICK step \in SlidingSteps(kind) : \E from \in Seen(p.squares, s, step) :
               p.squares[from] \in {Piece(p.side, kind), Piece(p.side, "Queen")}
    OBVIOUS
  <2>1. PICK from \in Seen(p.squares, s, step) :
            p.squares[from] \in {Piece(p.side, kind), Piece(p.side, "Queen")}
    OBVIOUS
  <2>2. step \in KingSteps /\ -step \in SlidingSteps(kind) /\ -step \in SlidingSteps("Queen")
    BY DEF SlidingSteps, KingSteps, BishopSteps, RookSteps
  <2>3. from \in Squares
    BY <2>2, SeenOnBoard
  <2>4. s \in Seen(p.squares, from, -step)
    BY <2>2, <2>3, SightIsMutual
  <2>5. /\ p.squares[from].color = p.side
        /\ p.squares[from].kind \in {kind, "Queen"}
    BY <2>1 DEF Piece
  <2>6. -step \in SlidingSteps(p.squares[from].kind)
    BY <2>2, <2>5
  <2>7. s \in PieceTargets(p, from)
    BY <1>2, <2>4, <2>6 DEF PieceTargets
  <2> QED
    BY <1>4, <2>3, <2>5, <2>7
<1> QED
  BY <1>3, <1>5, <1>6 DEF IsAttacked

\* What a side attacks of the other is what it can take, whoever is to move.
LEMMA CapturesAreAttacks ==
    ASSUME NEW p, IsPosition(p), p.ep = NoSquare
    PROVE  {s \in Squares : p.squares[s].color = Flip(p.side) /\ IsAttacked(p.squares, s, p.side)}
               = {mv.to : mv \in PseudoCaptures(p)}
<1>1. p.side \in Colors /\ p.squares \in [Squares -> Pieces \cup {Empty}]
  BY PositionFields
<1>2. ASSUME NEW mv \in PseudoCaptures(p)
      PROVE  /\ mv.to \in Squares
             /\ p.squares[mv.to].color = Flip(p.side)
             /\ IsAttacked(p.squares, mv.to, p.side)
  <2>1. PICK from \in Squares :
            /\ p.squares[from].color = p.side
            /\ mv \in IF p.squares[from].kind = "Pawn" THEN PawnCaptures(p, from)
                      ELSE {Move(from, to, "none", "Normal") :
                               to \in {s \in PieceTargets(p, from) : p.squares[s] # Empty}}
    BY DEF PseudoCaptures
  <2>2. CASE p.squares[from].kind = "Pawn"
    <3>1. p.squares[from] = Piece(p.side, "Pawn")
      BY <1>1, <2>1, <2>2 DEF Pieces, Piece, Empty, Colors
    <3>2. mv \in PawnCaptures(p, from)
      BY <2>1, <2>2
    <3>3. \A to \in Squares : to # p.ep
      BY DEF NoSquare, Squares
    <3>4. mv.to \in Squares /\ p.squares[mv.to].color = Flip(p.side)
      BY <3>2, <3>3 DEF PawnCaptures, PawnMoves, Move
    <3> QED
      BY <3>1, <3>2, <3>4, PawnCaptureAttacks
  <2>3. CASE p.squares[from].kind # "Pawn"
    <3>1. PICK to \in PieceTargets(p, from) :
              p.squares[to] # Empty /\ mv = Move(from, to, "none", "Normal")
      BY <2>1, <2>3
    <3>2. mv.to = to
      BY <3>1 DEF Move
    <3>3. to \in Squares /\ p.squares[to].color # p.side
      BY DEF PieceTargets
    <3>4. p.squares[to].color = Flip(p.side)
      BY <1>1, <3>1, <3>3 DEF Pieces, Flip, Colors
    <3> QED
      BY <2>1, <2>3, <3>2, <3>3, <3>4, PieceCaptureAttacks
  <2> QED
    BY <2>2, <2>3
<1> QED
  BY <1>2, AttackIsCapture

----------------------------------------------------------------------------
(* The board seen from the other side.                                     *)

\* The step that looks in a mirror as this one: up for down, the files kept.
MirrorStep(step) == 2 * (((step + 8) % 16) - 8) - step

LEMMA MirrorSteps ==
    /\ \A step \in KnightSteps : MirrorStep(step) \in KnightSteps
    /\ \A step \in BishopSteps : MirrorStep(step) \in BishopSteps
    /\ \A step \in RookSteps : MirrorStep(step) \in RookSteps
    /\ \A kind : \A step \in JumpingSteps(kind) : MirrorStep(step) \in JumpingSteps(kind)
    /\ \A kind : \A step \in SlidingSteps(kind) : MirrorStep(step) \in SlidingSteps(kind)
<1>1. \A step \in KnightSteps : MirrorStep(step) \in KnightSteps
  BY DEF MirrorStep, KnightSteps
<1>2. \A step \in BishopSteps : MirrorStep(step) \in BishopSteps
  BY DEF MirrorStep, BishopSteps
<1>3. \A step \in RookSteps : MirrorStep(step) \in RookSteps
  BY DEF MirrorStep, RookSteps
<1>4. \A step \in KingSteps : MirrorStep(step) \in KingSteps
  BY <1>2, <1>3 DEF KingSteps
<1> QED
  BY <1>1, <1>2, <1>3, <1>4 DEF JumpingSteps, SlidingSteps

\* A square by its file and rank; a number beside the board is none.
LEMMA SquareNumbers ==
    \A file \in (-8)..15, rank \in Int :
        /\ Sq(file, rank) \in Squares <=> file \in 0..7 /\ rank \in 0..7
        /\ file \in 0..7 /\ rank \in 0..7 =>
               /\ FileOf(Sq(file, rank)) = file
               /\ RankOf(Sq(file, rank)) = rank
               /\ MirrorSquare(Sq(file, rank)) = Sq(file, 7 - rank)
<1> TAKE file \in (-8)..15, rank \in Int
<1>1. file >= 0 => (rank * 16 + file) % 16 = file /\ (rank * 16 + file) \div 16 = rank
  OBVIOUS
<1>2. file < 0 => (rank * 16 + file) % 16 = file + 16
  OBVIOUS
<1> QED
  BY <1>1, <1>2 DEF Squares, FileOf, RankOf, MirrorSquare, NoSquare, Sq

LEMMA SquareCoordinates ==
    ASSUME NEW s \in Squares
    PROVE  FileOf(s) \in 0..7 /\ RankOf(s) \in 0..7 /\ s = Sq(FileOf(s), RankOf(s))
BY DEF Squares, FileOf, RankOf, Sq

\* The mirror of the mirror is the square itself.
LEMMA MirrorSquares ==
    /\ \A s \in Squares : /\ MirrorSquare(s) \in Squares
                          /\ MirrorSquare(MirrorSquare(s)) = s
                          /\ FileOf(MirrorSquare(s)) = FileOf(s)
                          /\ RankOf(MirrorSquare(s)) = 7 - RankOf(s)
    /\ MirrorSquare(NoSquare) = NoSquare
    /\ NoSquare \notin Squares
<1>1. ASSUME NEW s \in Squares
      PROVE  /\ MirrorSquare(s) \in Squares
             /\ MirrorSquare(MirrorSquare(s)) = s
             /\ FileOf(MirrorSquare(s)) = FileOf(s)
             /\ RankOf(MirrorSquare(s)) = 7 - RankOf(s)
  <2> DEFINE file == FileOf(s)
             rank == RankOf(s)
  <2>1. file \in 0..7 /\ rank \in 0..7 /\ s = Sq(file, rank)
    BY SquareCoordinates
  <2> HIDE DEF file, rank
  <2>2. file \in (-8)..15 /\ rank \in Int /\ 7 - rank \in 0..7 /\ 7 - (7 - rank) = rank
    BY <2>1
  <2>3. MirrorSquare(s) = Sq(file, 7 - rank)
    BY <2>1, <2>2, SquareNumbers
  <2>4. /\ Sq(file, 7 - rank) \in Squares
        /\ FileOf(Sq(file, 7 - rank)) = file
        /\ RankOf(Sq(file, 7 - rank)) = 7 - rank
        /\ MirrorSquare(Sq(file, 7 - rank)) = Sq(file, 7 - (7 - rank))
    BY <2>1, <2>2, SquareNumbers
  <2> QED
    BY <2>1, <2>2, <2>3, <2>4 DEF file, rank
<1>2. MirrorSquare(NoSquare) = NoSquare /\ NoSquare \notin Squares
  BY DEF MirrorSquare, NoSquare, Squares
<1> QED
  BY <1>1, <1>2

\* A walk and its mirror image stay on the board together, and end on mirrored squares.
LEMMA WalksAreMirrored ==
    ASSUME NEW s \in Squares, NEW step \in KingSteps \cup KnightSteps, NEW n \in 0..8,
           n > 1 => step \in KingSteps
    PROVE  /\ s + n * step \in Squares <=> MirrorSquare(s) + n * MirrorStep(step) \in Squares
           /\ s + n * step \in Squares =>
                  MirrorSquare(s + n * step) = MirrorSquare(s) + n * MirrorStep(step)
<1> DEFINE file == FileOf(s)
           rank == RankOf(s)
<1>1. file \in 0..7 /\ rank \in 0..7 /\ s = Sq(file, rank)
  BY SquareCoordinates
<1> HIDE DEF file, rank
<1>2. MirrorSquare(s) = Sq(file, 7 - rank)
  BY <1>1, SquareNumbers
<1>3. ASSUME NEW x \in (-16)..16, NEW y \in (-8)..8, n * step = 16 * x + y,
             n * MirrorStep(step) = -16 * x + y
      PROVE  /\ s + n * step \in Squares <=> MirrorSquare(s) + n * MirrorStep(step) \in Squares
             /\ s + n * step \in Squares =>
                    MirrorSquare(s + n * step) = MirrorSquare(s) + n * MirrorStep(step)
  <2> DEFINE f == file + y
             r == rank + x
  <2>1. f \in (-8)..15 /\ r \in Int /\ 7 - r \in Int
    BY <1>1
  <2>2. /\ s + n * step = Sq(f, r)
        /\ MirrorSquare(s) + n * MirrorStep(step) = Sq(f, 7 - r)
    BY <1>1, <1>2, <1>3 DEF Sq
  <2> HIDE DEF f, r
  <2>3. /\ Sq(f, r) \in Squares <=> f \in 0..7 /\ r \in 0..7
        /\ Sq(f, 7 - r) \in Squares <=> f \in 0..7 /\ 7 - r \in 0..7
        /\ f \in 0..7 /\ r \in 0..7 => MirrorSquare(Sq(f, r)) = Sq(f, 7 - r)
    BY <2>1, SquareNumbers
  <2> QED
    BY <2>1, <2>2, <2>3
<1>4. ASSUME NEW a \in {-1, 0, 1}, NEW b \in {-1, 0, 1}, step = 16 * a + b
      PROVE  /\ MirrorStep(step) = -16 * a + b
             /\ n * step = 16 * (n * a) + n * b
             /\ n * MirrorStep(step) = -16 * (n * a) + n * b
             /\ n * a \in (-16)..16 /\ n * b \in (-8)..8
  BY <1>4 DEF MirrorStep
<1>5. CASE step \in KingSteps
  <2>1. \E a, b \in {-1, 0, 1} : step = 16 * a + b
    <3>1. /\ 17 = 16 * 1 + 1 /\ 15 = 16 * 1 + (-1) /\ -15 = 16 * (-1) + 1
          /\ -17 = 16 * (-1) + (-1) /\ 16 = 16 * 1 + 0 /\ 1 = 16 * 0 + 1
          /\ -1 = 16 * 0 + (-1) /\ -16 = 16 * (-1) + 0
      OBVIOUS
    <3> QED
      BY <1>5, <3>1 DEF KingSteps, BishopSteps, RookSteps
  <2>2. PICK a \in {-1, 0, 1}, b \in {-1, 0, 1} : step = 16 * a + b
    BY <2>1
  <2> QED
    BY <1>3, <1>4, <2>2
<1>6. CASE step \in KnightSteps /\ n \in {0, 1}
  <2>1. \E a, b \in (-2)..2 : step = 16 * a + b /\ MirrorStep(step) = -16 * a + b
    <3>1. ASSUME NEW a \in (-2)..2, NEW b \in (-2)..2, step = 16 * a + b
          PROVE  MirrorStep(step) = -16 * a + b
      <4>1. (step + 8) % 16 = b + 8
        BY <3>1
      <4> QED
        BY <3>1, <4>1 DEF MirrorStep
    <3>2. /\ 33 = 16 * 2 + 1 /\ 31 = 16 * 2 + (-1) /\ 18 = 16 * 1 + 2 /\ 14 = 16 * 1 + (-2)
          /\ -33 = 16 * (-2) + (-1) /\ -31 = 16 * (-2) + 1 /\ -18 = 16 * (-1) + (-2)
          /\ -14 = 16 * (-1) + 2
      OBVIOUS
    <3>3. \E a, b \in (-2)..2 : step = 16 * a + b
      BY <1>6, <3>2 DEF KnightSteps
    <3> QED
      BY <3>1, <3>3
  <2>2. PICK a \in (-2)..2, b \in (-2)..2 : step = 16 * a + b /\ MirrorStep(step) = -16 * a + b
    BY <2>1
  <2>3. CASE n = 0
    <3>1. n * step = 16 * 0 + 0 /\ n * MirrorStep(step) = -16 * 0 + 0
      BY <2>2, <2>3
    <3>2. 0 \in (-16)..16 /\ 0 \in (-8)..8
      OBVIOUS
    <3> QED
      BY <1>3, <2>2, <3>1, <3>2
  <2>4. CASE n = 1
    <3>1. n * step = 16 * a + b /\ n * MirrorStep(step) = -16 * a + b
      BY <2>2, <2>4
    <3>2. a \in (-16)..16 /\ b \in (-8)..8
      OBVIOUS
    <3> QED
      BY <1>3, <2>2, <3>1, <3>2
  <2> QED
    BY <1>6, <2>3, <2>4
<1>7. n \in {0, 1} \/ step \in KingSteps
  OBVIOUS
<1> QED
  BY <1>5, <1>6, <1>7

\* A step of a jump or of a walk.
LEMMA StepsAreMirrored ==
    ASSUME NEW s \in Squares, NEW step \in KingSteps \cup KnightSteps
    PROVE  /\ s + step \in Squares <=> MirrorSquare(s) + MirrorStep(step) \in Squares
           /\ s + step \in Squares =>
                  MirrorSquare(s + step) = MirrorSquare(s) + MirrorStep(step)
<1>1. 1 * step = step /\ 1 * MirrorStep(step) = MirrorStep(step)
  BY DEF MirrorStep, KingSteps, BishopSteps, RookSteps, KnightSteps
<1> QED
  BY <1>1, WalksAreMirrored

\* White's pawns go the way that is Black's in the mirror, straight and to the side.
LEMMA PawnStepsAreMirrored ==
    ASSUME NEW color \in Colors
    PROVE  /\ Flip(color) \in Colors /\ Flip(Flip(color)) = color
           /\ Forward(color) \in KingSteps /\ -Forward(color) \in KingSteps
           /\ MirrorStep(Forward(color)) = Forward(Flip(color))
           /\ -Forward(Flip(color)) = Forward(color)
           /\ \A step \in {-1, 1} :
                  /\ Forward(color) + step \in KingSteps
                  /\ MirrorStep(Forward(color) + step) = Forward(Flip(color)) + step
<1>1. Flip(color) \in Colors /\ Flip(Flip(color)) = color
  BY DEF Flip, Colors
<1>2. /\ Forward(color) \in {16, -16} /\ Forward(Flip(color)) = -Forward(color)
      /\ -Forward(Flip(color)) = Forward(color)
  BY DEF Forward, Flip, Colors
<1>3. ASSUME NEW forward \in {16, -16}
      PROVE  /\ forward \in KingSteps /\ -forward \in KingSteps
             /\ MirrorStep(forward) = -forward
  <2>1. (forward + 8) % 16 = 8
    BY <1>3
  <2> QED
    BY <2>1 DEF MirrorStep, KingSteps, RookSteps
<1>4. ASSUME NEW forward \in {16, -16}, NEW step \in {-1, 1}
      PROVE  forward + step \in KingSteps /\ MirrorStep(forward + step) = -forward + step
  <2>1. (forward + step + 8) % 16 = 8 + step
    BY <1>4
  <2> QED
    BY <2>1 DEF MirrorStep, KingSteps, BishopSteps
<1> QED
  BY <1>1, <1>2, <1>3, <1>4

LEMMA MirrorPieces ==
    ASSUME NEW piece \in Pieces \cup {Empty}
    PROVE  /\ MirrorPiece(piece) \in Pieces \cup {Empty}
           /\ MirrorPiece(MirrorPiece(piece)) = piece
           /\ MirrorPiece(piece) = Empty <=> piece = Empty
           /\ MirrorPiece(piece).kind = piece.kind
           /\ \A color \in Colors :
                  /\ MirrorPiece(piece).color = Flip(color) <=> piece.color = color
                  /\ \A kind : MirrorPiece(piece) = Piece(Flip(color), kind)
                                  <=> piece = Piece(color, kind)
<1>1. CASE piece = Empty
  BY <1>1 DEF MirrorPiece, Empty, Piece, Flip, Colors
<1>2. CASE piece \in Pieces
  <2>1. piece.color \in Colors /\ piece.kind \in Kinds /\ piece = Piece(piece.color, piece.kind)
    BY <1>2 DEF Pieces, Piece
  <2>2. piece # Empty
    BY <2>1 DEF Empty, Piece, Colors
  <2>3. MirrorPiece(piece) = Piece(Flip(piece.color), piece.kind)
    BY <2>2 DEF MirrorPiece
  <2>4. Flip(piece.color) \in Colors /\ Flip(Flip(piece.color)) = piece.color
    BY <2>1 DEF Flip, Colors
  <2>5. MirrorPiece(piece) \in Pieces /\ MirrorPiece(piece) # Empty
    BY <2>1, <2>3, <2>4 DEF Pieces, Piece, Empty, Colors
  <2>6. MirrorPiece(MirrorPiece(piece)) = piece
    BY <2>1, <2>3, <2>4, <2>5 DEF MirrorPiece, Piece
  <2>7. ASSUME NEW color \in Colors
        PROVE  Flip(piece.color) = Flip(color) <=> piece.color = color
    BY <2>1 DEF Flip, Colors
  <2>8. ASSUME NEW color \in Colors, NEW kind
        PROVE  MirrorPiece(piece) = Piece(Flip(color), kind) <=> piece = Piece(color, kind)
    BY <2>1, <2>3, <2>7 DEF Piece
  <2>9. MirrorPiece(piece).color = Flip(piece.color) /\ MirrorPiece(piece).kind = piece.kind
    BY <2>3 DEF Piece
  <2> QED
    BY <2>2, <2>5, <2>6, <2>7, <2>8, <2>9
<1> QED
  BY <1>1, <1>2

----------------------------------------------------------------------------
(* Attacks in the mirror.                                                  *)

\* Two boards, each the mirror image of the other.
Mirrored(squares, image) ==
    /\ squares \in [Squares -> Pieces \cup {Empty}]
    /\ image \in [Squares -> Pieces \cup {Empty}]
    /\ \A s \in Squares : image[MirrorSquare(s)] = MirrorPiece(squares[s])

LEMMA MirroredBack ==
    ASSUME NEW squares, NEW image, Mirrored(squares, image)
    PROVE  Mirrored(image, squares)
<1> SUFFICES ASSUME NEW s \in Squares
             PROVE  squares[MirrorSquare(s)] = MirrorPiece(image[s])
  BY DEF Mirrored
<1>1. MirrorSquare(s) \in Squares /\ MirrorSquare(MirrorSquare(s)) = s
  BY MirrorSquares
<1>2. image[s] = MirrorPiece(squares[MirrorSquare(s)])
  BY <1>1 DEF Mirrored
<1>3. squares[MirrorSquare(s)] \in Pieces \cup {Empty}
  BY <1>1 DEF Mirrored
<1> QED
  BY <1>2, <1>3, MirrorPieces

\* What is on a square and on its mirror image.
LEMMA MirroredPiece ==
    ASSUME NEW squares, NEW image, Mirrored(squares, image), NEW s \in Squares
    PROVE  /\ MirrorSquare(s) \in Squares
           /\ image[MirrorSquare(s)] = Empty <=> squares[s] = Empty
           /\ image[MirrorSquare(s)].kind = squares[s].kind
           /\ \A color \in Colors :
                  /\ image[MirrorSquare(s)].color = Flip(color) <=> squares[s].color = color
                  /\ \A kind : image[MirrorSquare(s)] = Piece(Flip(color), kind)
                                  <=> squares[s] = Piece(color, kind)
<1>1. /\ MirrorSquare(s) \in Squares /\ squares[s] \in Pieces \cup {Empty}
      /\ image[MirrorSquare(s)] = MirrorPiece(squares[s])
  BY MirrorSquares DEF Mirrored
<1> QED
  BY <1>1, MirrorPieces

\* Sight along a ray.
LEMMA SightIsMirrored ==
    ASSUME NEW squares, NEW image, Mirrored(squares, image), NEW s \in Squares,
           NEW step \in KingSteps, NEW t \in Seen(squares, s, step)
    PROVE  MirrorSquare(t) \in Seen(image, MirrorSquare(s), MirrorStep(step))
<1>1. /\ Reach[s][step] \in 0..7
      /\ s + Reach[s][step] * step \in Squares
  BY ReachEnds
<1>2. PICK n \in 1..Reach[s][step] :
        /\ t = s + n * step
        /\ \A k \in 1..(n - 1) : squares[s + k * step] = Empty
  BY DEF Seen
<1>3. MirrorSquare(s) \in Squares /\ MirrorStep(step) \in KingSteps
  BY MirrorSquares, MirrorSteps DEF KingSteps
<1>4. ASSUME NEW k \in 0..n
      PROVE  /\ s + k * step \in Squares
             /\ MirrorSquare(s + k * step) = MirrorSquare(s) + k * MirrorStep(step)
  <2>1. k \in 0..7 /\ k \in 0..8 /\ k \in 0..Reach[s][step]
    BY <1>1, <1>2
  <2>2. s + k * step \in Squares
    BY <1>1, <2>1, RaysAreStraight
  <2> QED
    BY <2>1, <2>2, WalksAreMirrored
<1>5. MirrorSquare(t) = MirrorSquare(s) + n * MirrorStep(step)
  BY <1>1, <1>2, <1>4
<1>6. MirrorSquare(s) + n * MirrorStep(step) \in Squares
  <2>1. n \in 0..n
    BY <1>1, <1>2
  <2> QED
    BY <2>1, <1>4, MirrorSquares
<1>7. n \in 1..Reach[MirrorSquare(s)][MirrorStep(step)]
  <2>1. n \in 0..7 /\ n >= 1
    BY <1>1, <1>2
  <2>2. n <= Reach[MirrorSquare(s)][MirrorStep(step)]
    BY <1>3, <1>6, <2>1, ReachCovers
  <2> QED
    BY <1>3, <2>1, <2>2, ReachEnds
<1>8. ASSUME NEW k \in 1..(n - 1)
      PROVE  image[MirrorSquare(s) + k * MirrorStep(step)] = Empty
  <2>1. k \in 0..n
    BY <1>1, <1>2
  <2>2. squares[s + k * step] = Empty
    BY <1>2
  <2> QED
    BY <1>4, <2>1, <2>2, MirroredPiece
<1> QED
  BY <1>5, <1>7, <1>8 DEF Seen

LEMMA AttacksAreMirrored ==
    ASSUME NEW squares, NEW image, Mirrored(squares, image), NEW target \in Squares,
           NEW by \in Colors, IsAttacked(squares, target, by)
    PROVE  IsAttacked(image, MirrorSquare(target), Flip(by))
<1>1. MirrorSquare(target) \in Squares
  BY MirrorSquares
<1>2. CASE \E step \in {-1, 1} : LET from == target - Forward(by) + step
                                 IN  from \in Squares /\ squares[from] = Piece(by, "Pawn")
  <2>1. PICK step \in {-1, 1} : /\ target - Forward(by) + step \in Squares
                                /\ squares[target - Forward(by) + step] = Piece(by, "Pawn")
    BY <1>2
  <2> DEFINE back == Forward(Flip(by)) + step
  <2>2. /\ back \in KingSteps /\ MirrorStep(back) = -Forward(Flip(by)) + step
        /\ target - Forward(by) + step = target + back
    <3>1. /\ Flip(by) \in Colors /\ Flip(Flip(by)) = by
          /\ -Forward(Flip(by)) = Forward(by) /\ Forward(Flip(by)) = -Forward(by)
          /\ Forward(by) \in Int
      BY DEF Flip, Forward, Colors
    <3>2. back \in KingSteps /\ MirrorStep(back) = Forward(by) + step
      BY <3>1, PawnStepsAreMirrored
    <3> QED
      BY <3>1, <3>2 DEF Squares
  <2>3. Forward(Flip(by)) \in Int /\ back \in Int
    BY DEF Forward
  <2> HIDE DEF back
  <2>4. MirrorSquare(target + back) = MirrorSquare(target) - Forward(Flip(by)) + step
    <3>1. MirrorSquare(target + back) = MirrorSquare(target) + MirrorStep(back)
      BY <2>1, <2>2, StepsAreMirrored
    <3> QED
      BY <1>1, <2>2, <2>3, <3>1 DEF Squares
  <2>5. /\ MirrorSquare(target + back) \in Squares
        /\ image[MirrorSquare(target + back)] = Piece(Flip(by), "Pawn")
    BY <2>1, <2>2, MirroredPiece
  <2> QED
    BY <2>4, <2>5 DEF IsAttacked
<1>3. CASE \E kind \in {"Knight", "King"} : \E step \in JumpingSteps(kind) :
               target + step \in Squares /\ squares[target + step] = Piece(by, kind)
  <2> PICK kind \in {"Knight", "King"} : \E step \in JumpingSteps(kind) :
               target + step \in Squares /\ squares[target + step] = Piece(by, kind)
    BY <1>3
  <2>1. PICK step \in JumpingSteps(kind) :
            target + step \in Squares /\ squares[target + step] = Piece(by, kind)
    OBVIOUS
  <2>2. step \in KingSteps \cup KnightSteps
    BY DEF JumpingSteps
  <2>3. /\ MirrorSquare(target + step) = MirrorSquare(target) + MirrorStep(step)
        /\ MirrorStep(step) \in JumpingSteps(kind)
    BY <2>1, <2>2, StepsAreMirrored, MirrorSteps
  <2>4. /\ MirrorSquare(target + step) \in Squares
        /\ image[MirrorSquare(target + step)] = Piece(Flip(by), kind)
    BY <2>1, MirroredPiece
  <2> QED
    BY <2>3, <2>4 DEF IsAttacked
<1>4. CASE \E kind \in {"Bishop", "Rook"} : \E step \in SlidingSteps(kind) :
               \E s \in Seen(squares, target, step) :
                   squares[s] \in {Piece(by, kind), Piece(by, "Queen")}
  <2> PICK kind \in {"Bishop", "Rook"} : \E step \in SlidingSteps(kind) :
               \E s \in Seen(squares, target, step) :
                   squares[s] \in {Piece(by, kind), Piece(by, "Queen")}
    BY <1>4
  <2> PICK step \in SlidingSteps(kind) : \E s \in Seen(squares, target, step) :
               squares[s] \in {Piece(by, kind), Piece(by, "Queen")}
    OBVIOUS
  <2>1. PICK s \in Seen(squares, target, step) :
            squares[s] \in {Piece(by, kind), Piece(by, "Queen")}
    OBVIOUS
  <2>2. step \in KingSteps /\ MirrorStep(step) \in SlidingSteps(kind)
    BY MirrorSteps DEF SlidingSteps, KingSteps
  <2>3. s \in Squares /\ MirrorSquare(s) \in Seen(image, MirrorSquare(target), MirrorStep(step))
    BY <2>2, SeenOnBoard, SightIsMirrored
  <2>4. image[MirrorSquare(s)] \in {Piece(Flip(by), kind), Piece(Flip(by), "Queen")}
    BY <2>1, <2>3, MirroredPiece
  <2> QED
    BY <2>2, <2>3, <2>4 DEF IsAttacked
<1> QED
  BY <1>2, <1>3, <1>4 DEF IsAttacked

\* A square is attacked when its mirror image is.
LEMMA AttacksAreTheSame ==
    ASSUME NEW squares, NEW image, Mirrored(squares, image), NEW target \in Squares,
           NEW by \in Colors
    PROVE  IsAttacked(image, MirrorSquare(target), Flip(by)) <=> IsAttacked(squares, target, by)
<1>1. Mirrored(image, squares)
  BY MirroredBack
<1>2. /\ MirrorSquare(target) \in Squares /\ MirrorSquare(MirrorSquare(target)) = target
      /\ Flip(by) \in Colors /\ Flip(Flip(by)) = by
  BY MirrorSquares, PawnStepsAreMirrored
<1>3. IsAttacked(image, MirrorSquare(target), Flip(by)) =>
        IsAttacked(squares, MirrorSquare(MirrorSquare(target)), Flip(Flip(by)))
  BY <1>1, <1>2, AttacksAreMirrored
<1> QED
  BY <1>2, <1>3, AttacksAreMirrored

----------------------------------------------------------------------------
(* Moves in the mirror.                                                    *)

MirrorMove(mv) == Move(MirrorSquare(mv.from), MirrorSquare(mv.to), mv.promo, mv.kind)

\* Two positions, each the mirror image of the other but for what it counts.
Images(p, q) ==
    /\ IsPosition(p) /\ IsPosition(q)
    /\ Mirrored(p.squares, q.squares)
    /\ q.side = Flip(p.side)
    /\ q.castling = {MirrorRight(right) : right \in p.castling}
    /\ q.ep = MirrorSquare(p.ep)
    /\ \A color \in Colors : q.king[Flip(color)] = MirrorSquare(p.king[color])

LEMMA MirrorRights ==
    ASSUME NEW right \in Rights
    PROVE  MirrorRight(right) \in Rights /\ MirrorRight(MirrorRight(right)) = right
BY DEF Rights, MirrorRight

LEMMA ImagesBack ==
    ASSUME NEW p, NEW q, Images(p, q)
    PROVE  Images(q, p)
<1>1. /\ p.side \in Colors /\ p.castling \subseteq Rights /\ p.king \in [Colors -> Squares]
      /\ p.ep \in Squares \cup {NoSquare}
  BY PositionFields DEF Images
<1>2. Mirrored(q.squares, p.squares)
  BY MirroredBack DEF Images
<1>3. p.side = Flip(q.side)
  BY <1>1, PawnStepsAreMirrored DEF Images
<1>4. p.castling = {MirrorRight(right) : right \in q.castling}
  BY <1>1, MirrorRights DEF Images
<1>5. p.ep = MirrorSquare(q.ep)
  BY <1>1, MirrorSquares DEF Images
<1>6. ASSUME NEW color \in Colors
      PROVE  p.king[Flip(color)] = MirrorSquare(q.king[color])
  <2>1. Flip(color) \in Colors /\ Flip(Flip(color)) = color
    BY PawnStepsAreMirrored
  <2>2. q.king[color] = MirrorSquare(p.king[Flip(color)])
    BY <2>1 DEF Images
  <2> QED
    BY <1>1, <2>1, <2>2, MirrorSquares
<1> QED
  BY <1>2, <1>3, <1>4, <1>5, <1>6 DEF Images

\* What the images have in common, for the steps below.
LEMMA ImageFields ==
    ASSUME NEW p, NEW q, Images(p, q)
    PROVE  /\ p.side \in Colors /\ q.side = Flip(p.side) /\ Flip(q.side) = p.side
           /\ q.side \in Colors /\ Flip(p.side) \in Colors
           /\ p.squares \in [Squares -> Pieces \cup {Empty}]
           /\ q.squares \in [Squares -> Pieces \cup {Empty}]
           /\ Mirrored(p.squares, q.squares)
<1>1. p.side \in Colors
  BY PositionFields DEF Images
<1> QED
  BY <1>1, PawnStepsAreMirrored DEF Images, Mirrored

LEMMA PawnMovesMirrored ==
    ASSUME NEW from \in Squares, NEW to \in Squares, NEW kind, NEW mv \in PawnMoves(from, to, kind)
    PROVE  MirrorMove(mv) \in PawnMoves(MirrorSquare(from), MirrorSquare(to), kind)
<1>1. RankOf(to) \in {0, 7} <=> RankOf(MirrorSquare(to)) \in {0, 7}
  BY MirrorSquares, SquareCoordinates
<1>2. PICK promo : /\ promo \in (IF RankOf(to) \in {0, 7}
                                  THEN {"Queen", "Rook", "Bishop", "Knight"} ELSE {"none"})
                   /\ mv = Move(from, to, promo, kind)
  BY DEF PawnMoves
<1>3. MirrorMove(mv) = Move(MirrorSquare(from), MirrorSquare(to), promo, kind)
  BY <1>2 DEF MirrorMove, Move
<1> QED
  BY <1>1, <1>2, <1>3 DEF PawnMoves

LEMMA PawnPushesMirrored ==
    ASSUME NEW p, NEW q, Images(p, q), NEW from \in Squares, NEW mv \in PawnPushes(p, from)
    PROVE  MirrorMove(mv) \in PawnPushes(q, MirrorSquare(from))
<1> DEFINE one  == from + Forward(p.side)
           two  == from + 2 * Forward(p.side)
           mone == MirrorSquare(from) + Forward(q.side)
           mtwo == MirrorSquare(from) + 2 * Forward(q.side)
           start == IF p.side = "White" THEN 1 ELSE 6
           mstart == IF q.side = "White" THEN 1 ELSE 6
<1>1. /\ p.side \in Colors /\ q.side = Flip(p.side)
      /\ Mirrored(p.squares, q.squares)
  BY ImageFields
<1>2. Forward(p.side) \in KingSteps /\ MirrorStep(Forward(p.side)) = Forward(q.side)
  BY <1>1, PawnStepsAreMirrored
<1>3. one \in Squares /\ p.squares[one] = Empty
  BY DEF PawnPushes
<1>4. MirrorSquare(one) = mone /\ mone \in Squares /\ q.squares[mone] = Empty
  <2>1. MirrorSquare(one) = mone
    BY <1>2, <1>3, StepsAreMirrored
  <2> QED
    BY <1>1, <1>3, <2>1, MirroredPiece
<1>5. RankOf(from) = start <=> RankOf(MirrorSquare(from)) = mstart
  <2>1. RankOf(MirrorSquare(from)) = 7 - RankOf(from) /\ RankOf(from) \in 0..7
    BY MirrorSquares, SquareCoordinates
  <2>2. mstart = 7 - start /\ start \in 0..7
    BY <1>1 DEF Flip, Colors
  <2> HIDE DEF start, mstart
  <2> QED
    BY <2>1, <2>2
<1>6. ASSUME two \in Squares, p.squares[two] = Empty
      PROVE  MirrorSquare(two) = mtwo /\ mtwo \in Squares /\ q.squares[mtwo] = Empty
  <2>1. MirrorSquare(two) = mtwo
    <3>1. 2 \in 0..8
      OBVIOUS
    <3> QED
      BY <1>2, <1>6, <3>1, WalksAreMirrored
  <2> QED
    BY <1>1, <1>6, <2>1, MirroredPiece
<1>7. PawnPushes(q, MirrorSquare(from)) =
        PawnMoves(MirrorSquare(from), mone, "Normal") \cup
           {move \in {Move(MirrorSquare(from), mtwo, "none", "DoublePush")} :
               RankOf(MirrorSquare(from)) = mstart /\ mtwo \in Squares /\ q.squares[mtwo] = Empty}
  BY <1>4 DEF PawnPushes
<1>8. PawnPushes(p, from) =
        PawnMoves(from, one, "Normal") \cup
           {move \in {Move(from, two, "none", "DoublePush")} :
               RankOf(from) = start /\ two \in Squares /\ p.squares[two] = Empty}
  BY <1>3 DEF PawnPushes
<1>9. CASE mv \in PawnMoves(from, one, "Normal")
  <2>1. MirrorMove(mv) \in PawnMoves(MirrorSquare(from), mone, "Normal")
    BY <1>3, <1>4, <1>9, PawnMovesMirrored
  <2> QED
    BY <1>7, <2>1
<1>10. CASE /\ mv = Move(from, two, "none", "DoublePush")
            /\ RankOf(from) = start /\ two \in Squares /\ p.squares[two] = Empty
  <2>1. MirrorMove(mv) = Move(MirrorSquare(from), mtwo, "none", "DoublePush")
    BY <1>6, <1>10 DEF MirrorMove, Move
  <2> QED
    BY <1>5, <1>6, <1>7, <1>10, <2>1
<1> QED
  BY <1>8, <1>9, <1>10

LEMMA PawnCapturesMirrored ==
    ASSUME NEW p, NEW q, Images(p, q), NEW from \in Squares, NEW mv \in PawnCaptures(p, from)
    PROVE  MirrorMove(mv) \in PawnCaptures(q, MirrorSquare(from))
<1> DEFINE targets(b, s) == {s + Forward(b.side) + step : step \in {-1, 1}} \cap Squares
           from2 == MirrorSquare(from)
<1>1. /\ p.side \in Colors /\ q.side = Flip(p.side) /\ Flip(q.side) = p.side
      /\ Flip(p.side) \in Colors
      /\ Mirrored(p.squares, q.squares) /\ q.ep = MirrorSquare(p.ep)
  BY ImageFields DEF Images
<1>2. ASSUME NEW to \in targets(p, from)
      PROVE  /\ to \in Squares
             /\ MirrorSquare(to) \in targets(q, from2)
             /\ p.squares[to].color = Flip(p.side) => q.squares[MirrorSquare(to)].color = Flip(q.side)
             /\ p.squares[to] = Empty => q.squares[MirrorSquare(to)] = Empty
  <2>1. PICK step \in {-1, 1} : to = from + Forward(p.side) + step
    OBVIOUS
  <2> DEFINE way == Forward(p.side) + step
  <2>2. /\ way \in KingSteps /\ MirrorStep(way) = Forward(q.side) + step
        /\ to = from + way
    <3>1. Forward(p.side) \in Int /\ from \in Int
      BY DEF Forward, Squares
    <3> QED
      BY <1>1, <2>1, <3>1, PawnStepsAreMirrored
  <2> HIDE DEF way
  <2>3. to \in Squares
    OBVIOUS
  <2>4. MirrorSquare(to) = from2 + MirrorStep(way)
    BY <2>2, <2>3, StepsAreMirrored
  <2>5. MirrorSquare(to) = from2 + Forward(q.side) + step
    <3>1. Forward(q.side) \in Int /\ from2 \in Int
      BY MirrorSquares DEF Forward, Squares
    <3> QED
      BY <2>2, <2>4, <3>1
  <2>6. MirrorSquare(to) \in Squares
    BY <2>3, MirrorSquares
  <2> QED
    BY <1>1, <2>3, <2>5, <2>6, MirroredPiece
<1>3. PawnCaptures(p, from) =
        (UNION {PawnMoves(from, to, "Normal") :
                    to \in {s \in targets(p, from) : p.squares[s].color = Flip(p.side)}})
          \cup {Move(from, to, "none", "EnPassant") :
                    to \in {s \in targets(p, from) : p.squares[s] = Empty /\ s = p.ep}}
  BY DEF PawnCaptures
<1>4. PawnCaptures(q, from2) =
        (UNION {PawnMoves(from2, to, "Normal") :
                    to \in {s \in targets(q, from2) : q.squares[s].color = Flip(q.side)}})
          \cup {Move(from2, to, "none", "EnPassant") :
                    to \in {s \in targets(q, from2) : q.squares[s] = Empty /\ s = q.ep}}
  BY DEF PawnCaptures
<1> HIDE DEF targets
<1>5. CASE \E to \in targets(p, from) :
               p.squares[to].color = Flip(p.side) /\ mv \in PawnMoves(from, to, "Normal")
  <2>1. PICK to \in targets(p, from) :
               p.squares[to].color = Flip(p.side) /\ mv \in PawnMoves(from, to, "Normal")
    BY <1>5
  <2>2. MirrorMove(mv) \in PawnMoves(from2, MirrorSquare(to), "Normal")
    BY <1>2, <2>1, PawnMovesMirrored
  <2>3. MirrorSquare(to) \in {s \in targets(q, from2) : q.squares[s].color = Flip(q.side)}
    BY <1>2, <2>1
  <2> QED
    BY <1>4, <2>2, <2>3
<1>6. CASE \E to \in targets(p, from) :
               p.squares[to] = Empty /\ to = p.ep /\ mv = Move(from, to, "none", "EnPassant")
  <2>1. PICK to \in targets(p, from) :
               p.squares[to] = Empty /\ to = p.ep /\ mv = Move(from, to, "none", "EnPassant")
    BY <1>6
  <2>2. MirrorMove(mv) = Move(from2, MirrorSquare(to), "none", "EnPassant")
    BY <2>1 DEF MirrorMove, Move
  <2>3. MirrorSquare(to) \in {s \in targets(q, from2) : q.squares[s] = Empty /\ s = q.ep}
    BY <1>1, <1>2, <2>1
  <2> QED
    BY <1>4, <2>2, <2>3
<1> QED
  BY <1>3, <1>5, <1>6

LEMMA PieceTargetsMirrored ==
    ASSUME NEW p, NEW q, Images(p, q), NEW from \in Squares, NEW to \in PieceTargets(p, from)
    PROVE  to \in Squares /\ MirrorSquare(to) \in PieceTargets(q, MirrorSquare(from))
<1> DEFINE kind == p.squares[from].kind
<1>1. /\ p.side \in Colors /\ q.side = Flip(p.side) /\ Mirrored(p.squares, q.squares)
      /\ q.squares[MirrorSquare(from)].kind = kind
  BY ImageFields, MirroredPiece
<1>2. to \in Squares /\ p.squares[to].color # p.side
  BY DEF PieceTargets
<1>3. MirrorSquare(to) \in Squares /\ q.squares[MirrorSquare(to)].color # q.side
  BY <1>1, <1>2, MirroredPiece
<1> HIDE DEF kind
<1>4. CASE \E step \in SlidingSteps(kind) : to \in Seen(p.squares, from, step)
  <2>1. PICK step \in SlidingSteps(kind) : to \in Seen(p.squares, from, step)
    BY <1>4
  <2>2. step \in KingSteps /\ MirrorStep(step) \in SlidingSteps(kind)
    BY MirrorSteps DEF SlidingSteps, KingSteps
  <2>3. MirrorSquare(to) \in Seen(q.squares, MirrorSquare(from), MirrorStep(step))
    BY <1>1, <2>1, <2>2, SightIsMirrored
  <2> QED
    BY <1>1, <1>2, <1>3, <2>2, <2>3 DEF PieceTargets
<1>5. CASE \E step \in JumpingSteps(kind) : to = from + step
  <2>1. PICK step \in JumpingSteps(kind) : to = from + step
    BY <1>5
  <2>2. step \in KingSteps \cup KnightSteps /\ MirrorStep(step) \in JumpingSteps(kind)
    BY MirrorSteps DEF JumpingSteps
  <2>3. MirrorSquare(to) = MirrorSquare(from) + MirrorStep(step)
    BY <1>2, <2>1, <2>2, StepsAreMirrored
  <2> QED
    BY <1>1, <1>2, <1>3, <2>2, <2>3 DEF PieceTargets
<1> QED
  BY <1>4, <1>5 DEF PieceTargets, kind

\* The squares a castle is about, and the rights.
LEMMA HomesAreMirrored ==
    ASSUME NEW color \in Colors
    PROVE  /\ \A file \in 0..7 :
                  /\ Sq(file, HomeRank(color)) \in Squares
                  /\ MirrorSquare(Sq(file, HomeRank(color))) = Sq(file, HomeRank(Flip(color)))
           /\ HomeRank(Flip(color)) = 7 - HomeRank(color)
<1>1. HomeRank(color) \in 0..7 /\ HomeRank(Flip(color)) = 7 - HomeRank(color)
  BY DEF HomeRank, Flip, Colors
<1>2. ASSUME NEW file \in 0..7
      PROVE  /\ Sq(file, HomeRank(color)) \in Squares
             /\ MirrorSquare(Sq(file, HomeRank(color))) = Sq(file, 7 - HomeRank(color))
  <2>1. file \in (-8)..15 /\ HomeRank(color) \in Int
    BY <1>1
  <2> QED
    BY <1>1, <2>1, SquareNumbers
<1> QED
  BY <1>1, <1>2

LEMMA CanCastleMirrored ==
    ASSUME NEW p, NEW q, Images(p, q), NEW right, NEW rook \in 0..7,
           NEW between \in SUBSET (0..7), NEW crossed \in SUBSET (0..7),
           CanCastle(p, right, rook, between, crossed)
    PROVE  CanCastle(q, MirrorRight(right), rook, between, crossed)
<1> DEFINE at(file)    == Sq(file, HomeRank(p.side))
           image(file) == Sq(file, HomeRank(q.side))
<1>1. /\ p.side \in Colors /\ q.side = Flip(p.side) /\ Flip(q.side) = p.side
      /\ Flip(p.side) \in Colors /\ Mirrored(p.squares, q.squares)
      /\ q.castling = {MirrorRight(r) : r \in p.castling}
  BY ImageFields DEF Images
<1>2. ASSUME NEW file \in 0..7
      PROVE  /\ q.squares[image(file)] = Empty <=> p.squares[at(file)] = Empty
             /\ \A kind : q.squares[image(file)] = Piece(q.side, kind)
                             <=> p.squares[at(file)] = Piece(p.side, kind)
             /\ IsAttacked(q.squares, image(file), Flip(q.side))
                  <=> IsAttacked(p.squares, at(file), Flip(p.side))
  <2>1. at(file) \in Squares /\ MirrorSquare(at(file)) = image(file)
    BY <1>1, HomesAreMirrored
  <2>2. Flip(q.side) = Flip(Flip(p.side))
    BY <1>1
  <2> HIDE DEF at, image
  <2> QED
    BY <1>1, <2>1, <2>2, MirroredPiece, AttacksAreTheSame
<1>3. /\ p.squares[at(4)] = Piece(p.side, "King")
      /\ ~IsAttacked(p.squares, at(4), Flip(p.side))
      /\ right \in p.castling
      /\ p.squares[at(rook)] = Piece(p.side, "Rook")
      /\ \A file \in between : p.squares[at(file)] = Empty
      /\ \A file \in crossed : ~IsAttacked(p.squares, at(file), Flip(p.side))
  BY DEF CanCastle, HomeRank
<1>4. MirrorRight(right) \in q.castling
  BY <1>1, <1>3
<1> HIDE DEF at, image
<1>5. /\ q.squares[image(4)] = Piece(q.side, "King")
      /\ ~IsAttacked(q.squares, image(4), Flip(q.side))
      /\ q.squares[image(rook)] = Piece(q.side, "Rook")
      /\ \A file \in between : q.squares[image(file)] = Empty
      /\ \A file \in crossed : ~IsAttacked(q.squares, image(file), Flip(q.side))
  <2>1. 4 \in 0..7
    OBVIOUS
  <2> QED
    BY <1>2, <1>3, <2>1
<1> QED
  BY <1>4, <1>5 DEF CanCastle, HomeRank, image

LEMMA CastlesMirrored ==
    ASSUME NEW p, NEW q, Images(p, q), NEW mv \in Castles(p)
    PROVE  MirrorMove(mv) \in Castles(q)
<1> DEFINE home  == HomeRank(p.side)
           home2 == HomeRank(q.side)
           rights(color) == IF color = "White" THEN <<"K", "Q">> ELSE <<"k", "q">>
<1>1. /\ p.side \in Colors /\ q.side = Flip(p.side)
  BY ImageFields
<1>2. /\ MirrorRight(rights(p.side)[1]) = rights(q.side)[1]
      /\ MirrorRight(rights(p.side)[2]) = rights(q.side)[2]
  BY <1>1 DEF MirrorRight, Flip, Colors
<1>3. /\ {5, 6} \in SUBSET (0..7) /\ {1, 2, 3} \in SUBSET (0..7) /\ {3, 2} \in SUBSET (0..7)
      /\ 7 \in 0..7 /\ 0 \in 0..7 /\ 4 \in 0..7 /\ 6 \in 0..7 /\ 2 \in 0..7
  OBVIOUS
<1>4. \A file \in 0..7 : MirrorSquare(Sq(file, home)) = Sq(file, home2)
  BY <1>1, HomesAreMirrored
<1>5. Castles(p) =
        {move \in {Move(Sq(4, home), Sq(6, home), "none", "CastleKing")} :
            CanCastle(p, rights(p.side)[1], 7, {5, 6}, {5, 6})}
        \cup
        {move \in {Move(Sq(4, home), Sq(2, home), "none", "CastleQueen")} :
            CanCastle(p, rights(p.side)[2], 0, {1, 2, 3}, {3, 2})}
  BY DEF Castles, HomeRank
<1>6. Castles(q) =
        {move \in {Move(Sq(4, home2), Sq(6, home2), "none", "CastleKing")} :
            CanCastle(q, rights(q.side)[1], 7, {5, 6}, {5, 6})}
        \cup
        {move \in {Move(Sq(4, home2), Sq(2, home2), "none", "CastleQueen")} :
            CanCastle(q, rights(q.side)[2], 0, {1, 2, 3}, {3, 2})}
  BY DEF Castles, HomeRank
<1> HIDE DEF home, home2, rights
<1>7. CASE /\ mv = Move(Sq(4, home), Sq(6, home), "none", "CastleKing")
           /\ CanCastle(p, rights(p.side)[1], 7, {5, 6}, {5, 6})
  <2>1. MirrorMove(mv) = Move(Sq(4, home2), Sq(6, home2), "none", "CastleKing")
    BY <1>3, <1>4, <1>7 DEF MirrorMove, Move
  <2>2. CanCastle(q, rights(q.side)[1], 7, {5, 6}, {5, 6})
    BY <1>2, <1>3, <1>7, CanCastleMirrored
  <2> QED
    BY <1>6, <2>1, <2>2
<1>8. CASE /\ mv = Move(Sq(4, home), Sq(2, home), "none", "CastleQueen")
           /\ CanCastle(p, rights(p.side)[2], 0, {1, 2, 3}, {3, 2})
  <2>1. MirrorMove(mv) = Move(Sq(4, home2), Sq(2, home2), "none", "CastleQueen")
    BY <1>3, <1>4, <1>8 DEF MirrorMove, Move
  <2>2. CanCastle(q, rights(q.side)[2], 0, {1, 2, 3}, {3, 2})
    BY <1>2, <1>3, <1>8, CanCastleMirrored
  <2> QED
    BY <1>6, <2>1, <2>2
<1> QED
  BY <1>5, <1>7, <1>8

\* The generator finds for the image the mirrored moves.
LEMMA PseudoLegalMirrored ==
    ASSUME NEW p, NEW q, Images(p, q), NEW mv \in PseudoLegal(p)
    PROVE  MirrorMove(mv) \in PseudoLegal(q)
<1>1. /\ p.side \in Colors /\ q.side = Flip(p.side) /\ Mirrored(p.squares, q.squares)
  BY ImageFields
<1>2. CASE mv \in Castles(p)
  BY <1>2, CastlesMirrored DEF PseudoLegal
<1>3. ASSUME NEW from \in Squares, p.squares[from].color = p.side
      PROVE  /\ MirrorSquare(from) \in {s \in Squares : q.squares[s].color = q.side}
             /\ q.squares[MirrorSquare(from)].kind = p.squares[from].kind
  BY <1>1, <1>3, MirroredPiece
<1>4. ASSUME NEW from \in Squares, p.squares[from].color = p.side, p.squares[from].kind = "Pawn",
             mv \in PawnPushes(p, from) \cup PawnCaptures(p, from)
      PROVE  MirrorMove(mv) \in PseudoLegal(q)
  <2>1. MirrorMove(mv) \in PawnPushes(q, MirrorSquare(from)) \cup PawnCaptures(q, MirrorSquare(from))
    BY <1>4, PawnPushesMirrored, PawnCapturesMirrored
  <2> QED
    BY <1>3, <1>4, <2>1 DEF PseudoLegal
<1>5. ASSUME NEW from \in Squares, p.squares[from].color = p.side, p.squares[from].kind # "Pawn",
             NEW to \in PieceTargets(p, from), mv = Move(from, to, "none", "Normal")
      PROVE  MirrorMove(mv) \in PseudoLegal(q)
  <2>1. MirrorSquare(to) \in PieceTargets(q, MirrorSquare(from))
    BY PieceTargetsMirrored
  <2>2. MirrorMove(mv) = Move(MirrorSquare(from), MirrorSquare(to), "none", "Normal")
    BY <1>5 DEF MirrorMove, Move
  <2> QED
    BY <1>3, <1>5, <2>1, <2>2 DEF PseudoLegal
<1> QED
  BY <1>2, <1>4, <1>5 DEF PseudoLegal

----------------------------------------------------------------------------
(* The positions that moves lead to.                                       *)

\* Putting a piece on a square and its image on the mirrored one.
LEMMA PutMirrored ==
    ASSUME NEW squares, NEW image, Mirrored(squares, image), NEW t \in Squares,
           NEW piece \in Pieces \cup {Empty}
    PROVE  Mirrored([squares EXCEPT ![t] = piece],
                    [image EXCEPT ![MirrorSquare(t)] = MirrorPiece(piece)])
<1> DEFINE after  == [squares EXCEPT ![t] = piece]
           after2 == [image EXCEPT ![MirrorSquare(t)] = MirrorPiece(piece)]
<1>1. MirrorSquare(t) \in Squares /\ MirrorPiece(piece) \in Pieces \cup {Empty}
  BY MirrorSquares, MirrorPieces
<1>2. /\ after \in [Squares -> Pieces \cup {Empty}] /\ after2 \in [Squares -> Pieces \cup {Empty}]
  BY <1>1 DEF Mirrored
<1>3. ASSUME NEW s \in Squares
      PROVE  after2[MirrorSquare(s)] = MirrorPiece(after[s])
  <2>1. MirrorSquare(s) \in Squares /\ (MirrorSquare(s) = MirrorSquare(t) <=> s = t)
    BY MirrorSquares
  <2>2. image[MirrorSquare(s)] = MirrorPiece(squares[s])
    BY DEF Mirrored
  <2> QED
    BY <1>1, <2>1, <2>2 DEF Mirrored
<1> QED
  BY <1>2, <1>3 DEF Mirrored

\* The squares a move touches, and what lands.
LEMMA TouchedMirrored ==
    ASSUME NEW p, NEW q, Images(p, q), NEW mv \in PseudoLegal(p)
    PROVE  /\ mv.from \in Squares /\ mv.to \in Squares /\ CapturedSquare(p, mv) \in Squares
           /\ MirrorMove(mv).from = MirrorSquare(mv.from)
           /\ MirrorMove(mv).to = MirrorSquare(mv.to)
           /\ MirrorMove(mv).kind = mv.kind /\ MirrorMove(mv).promo = mv.promo
           /\ IsCastle(MirrorMove(mv)) <=> IsCastle(mv)
           /\ CapturedSquare(q, MirrorMove(mv)) = MirrorSquare(CapturedSquare(p, mv))
           /\ Landing(p, mv) \in Pieces \cup {Empty}
           /\ Landing(q, MirrorMove(mv)) = MirrorPiece(Landing(p, mv))
           /\ IsCastle(mv) =>
                  /\ RookFrom(mv) \in Squares /\ RookTo(mv) \in Squares
                  /\ RookFrom(MirrorMove(mv)) = MirrorSquare(RookFrom(mv))
                  /\ RookTo(MirrorMove(mv)) = MirrorSquare(RookTo(mv))
<1>1. /\ p.side \in Colors /\ q.side = Flip(p.side) /\ Mirrored(p.squares, q.squares)
      /\ IsPosition(p) /\ Fits(p, mv)
  BY ImageFields, PseudoLegalFits DEF Images
<1>2. mv.from \in Squares /\ mv.to \in Squares /\ CapturedSquare(p, mv) \in Squares
  BY <1>1, CapturedSquareFits DEF Fits
<1>3. /\ MirrorMove(mv).from = MirrorSquare(mv.from) /\ MirrorMove(mv).to = MirrorSquare(mv.to)
      /\ MirrorMove(mv).kind = mv.kind /\ MirrorMove(mv).promo = mv.promo
  BY DEF MirrorMove, Move
<1>4. CapturedSquare(q, MirrorMove(mv)) = MirrorSquare(CapturedSquare(p, mv))
  <2>1. CASE mv.kind # "EnPassant"
    BY <1>3, <2>1 DEF CapturedSquare
  <2>2. CASE mv.kind = "EnPassant"
    <3> DEFINE back == Forward(Flip(p.side))
    <3>1. back \in KingSteps /\ MirrorStep(back) = Forward(p.side) /\ -Forward(q.side) = Forward(p.side)
      BY <1>1, PawnStepsAreMirrored
    <3>2. mv.to - Forward(p.side) = mv.to + back
      BY <1>1, <1>2 DEF Forward, Flip, Colors, Squares
    <3>3. mv.to + back \in Squares
      BY <1>2, <2>2, <3>2 DEF CapturedSquare
    <3>4. MirrorSquare(mv.to + back) = MirrorSquare(mv.to) + Forward(p.side)
      BY <1>2, <3>1, <3>3, StepsAreMirrored
    <3>5. MirrorSquare(mv.to) + Forward(p.side) = MirrorSquare(mv.to) - Forward(q.side)
      <4>1. MirrorSquare(mv.to) \in Int
        BY <1>2, MirrorSquares DEF Squares
      <4>2. Forward(q.side) = -Forward(p.side) /\ Forward(p.side) \in Int
        BY <1>1 DEF Forward, Flip, Colors
      <4> QED
        BY <4>1, <4>2
    <3> QED
      BY <1>3, <2>2, <3>2, <3>4, <3>5 DEF CapturedSquare
  <2> QED
    BY <2>1, <2>2
<1>5. Landing(p, mv) \in Pieces \cup {Empty}
  BY <1>1, <1>2, MovedBoard
<1>6. Landing(q, MirrorMove(mv)) = MirrorPiece(Landing(p, mv))
  <2>1. CASE mv.promo = "none"
    BY <1>1, <1>2, <1>3, <2>1 DEF Landing, Mirrored
  <2>2. CASE mv.promo # "none"
    <3>1. Landing(p, mv) = Piece(p.side, mv.promo)
      BY <2>2 DEF Landing
    <3>2. Landing(q, MirrorMove(mv)) = Piece(Flip(p.side), mv.promo)
      BY <1>1, <1>3, <2>2 DEF Landing
    <3> QED
      BY <1>1, <1>5, <3>1, <3>2, MirrorPieces
  <2> QED
    BY <2>1, <2>2
<1>7. ASSUME IsCastle(mv)
      PROVE  /\ RookFrom(mv) \in Squares /\ RookTo(mv) \in Squares
             /\ RookFrom(MirrorMove(mv)) = MirrorSquare(RookFrom(mv))
             /\ RookTo(MirrorMove(mv)) = MirrorSquare(RookTo(mv))
  <2>1. RookFrom(mv) \in Squares /\ RookTo(mv) \in Squares /\ RankOf(mv.from) = HomeRank(p.side)
    BY <1>1, <1>7, CastleSquares
  <2>2. RankOf(MirrorSquare(mv.from)) = HomeRank(Flip(p.side))
    BY <1>1, <1>2, <2>1, MirrorSquares, HomesAreMirrored
  <2>3. \A file \in 0..7 :
          MirrorSquare(Sq(file, HomeRank(p.side))) = Sq(file, HomeRank(Flip(p.side)))
    BY <1>1, HomesAreMirrored
  <2>4. 7 \in 0..7 /\ 0 \in 0..7 /\ 5 \in 0..7 /\ 3 \in 0..7
    OBVIOUS
  <2> QED
    BY <1>3, <2>1, <2>2, <2>3, <2>4 DEF RookFrom, RookTo
<1>8. IsCastle(MirrorMove(mv)) <=> IsCastle(mv)
  BY <1>3 DEF IsCastle
<1> QED
  BY <1>2, <1>3, <1>4, <1>5, <1>6, <1>7, <1>8

\* Mirrored moves lead to mirrored boards.
LEMMA BoardsMirrored ==
    ASSUME NEW p, NEW q, Images(p, q), NEW mv \in PseudoLegal(p)
    PROVE  Mirrored(Moved(p, mv), Moved(q, MirrorMove(mv)))
<1> DEFINE mm == MirrorMove(mv)
           c  == CapturedSquare(p, mv)
           cleared  == [[p.squares EXCEPT ![c] = Empty] EXCEPT ![mv.from] = Empty]
           landed   == [cleared EXCEPT ![mv.to] = Landing(p, mv)]
           cleared2 == [[q.squares EXCEPT ![MirrorSquare(c)] = Empty]
                            EXCEPT ![MirrorSquare(mv.from)] = Empty]
           landed2  == [cleared2 EXCEPT ![MirrorSquare(mv.to)] = MirrorPiece(Landing(p, mv))]
<1>1. Mirrored(p.squares, q.squares)
  BY ImageFields
<1>2. /\ mv.from \in Squares /\ mv.to \in Squares /\ c \in Squares
      /\ mm.from = MirrorSquare(mv.from) /\ mm.to = MirrorSquare(mv.to)
      /\ IsCastle(mm) <=> IsCastle(mv)
      /\ CapturedSquare(q, mm) = MirrorSquare(c)
      /\ Landing(p, mv) \in Pieces \cup {Empty}
      /\ Landing(q, mm) = MirrorPiece(Landing(p, mv))
      /\ IsCastle(mv) =>
             /\ RookFrom(mv) \in Squares /\ RookTo(mv) \in Squares
             /\ RookFrom(mm) = MirrorSquare(RookFrom(mv))
             /\ RookTo(mm) = MirrorSquare(RookTo(mv))
  BY TouchedMirrored
<1>3. Empty \in Pieces \cup {Empty} /\ MirrorPiece(Empty) = Empty
  BY DEF MirrorPiece
<1>4. Mirrored([p.squares EXCEPT ![c] = Empty], [q.squares EXCEPT ![MirrorSquare(c)] = Empty])
  <2>1. Mirrored([p.squares EXCEPT ![c] = Empty],
                 [q.squares EXCEPT ![MirrorSquare(c)] = MirrorPiece(Empty)])
    BY <1>1, <1>2, <1>3, PutMirrored
  <2> QED
    BY <1>3, <2>1
<1>5. Mirrored(cleared, cleared2)
  <2> DEFINE one  == [p.squares EXCEPT ![c] = Empty]
             one2 == [q.squares EXCEPT ![MirrorSquare(c)] = Empty]
  <2>1. Mirrored(one, one2)
    BY <1>4
  <2> HIDE DEF one, one2
  <2>2. Mirrored([one EXCEPT ![mv.from] = Empty],
                 [one2 EXCEPT ![MirrorSquare(mv.from)] = MirrorPiece(Empty)])
    BY <1>2, <1>3, <2>1, PutMirrored
  <2> QED
    BY <1>3, <2>2 DEF one, one2
<1>6. Moved(p, mv) = IF IsCastle(mv)
                     THEN [[landed EXCEPT ![RookFrom(mv)] = Empty]
                              EXCEPT ![RookTo(mv)] = landed[RookFrom(mv)]]
                     ELSE landed
  BY DEF Moved
<1>7. Moved(q, mm) = IF IsCastle(mm)
                     THEN [[landed2 EXCEPT ![RookFrom(mm)] = Empty]
                              EXCEPT ![RookTo(mm)] = landed2[RookFrom(mm)]]
                     ELSE landed2
  BY <1>2 DEF Moved
<1> HIDE DEF mm, c, cleared, cleared2
<1>8. Mirrored(landed, landed2)
  BY <1>2, <1>5, PutMirrored
<1> HIDE DEF landed, landed2
<1>9. CASE ~IsCastle(mv)
  BY <1>2, <1>6, <1>7, <1>8, <1>9 DEF mm
<1>10. CASE IsCastle(mv)
  <2> DEFINE gone  == [landed EXCEPT ![RookFrom(mv)] = Empty]
             gone2 == [landed2 EXCEPT ![MirrorSquare(RookFrom(mv))] = Empty]
  <2>1. Mirrored(gone, gone2)
    <3>1. Mirrored([landed EXCEPT ![RookFrom(mv)] = Empty],
                   [landed2 EXCEPT ![MirrorSquare(RookFrom(mv))] = MirrorPiece(Empty)])
      BY <1>2, <1>3, <1>8, <1>10, PutMirrored
    <3> QED
      BY <1>3, <3>1
  <2>2. /\ landed[RookFrom(mv)] \in Pieces \cup {Empty}
        /\ landed2[MirrorSquare(RookFrom(mv))] = MirrorPiece(landed[RookFrom(mv)])
    BY <1>2, <1>8, <1>10 DEF Mirrored
  <2> HIDE DEF gone, gone2
  <2>3. Mirrored([gone EXCEPT ![RookTo(mv)] = landed[RookFrom(mv)]],
                 [gone2 EXCEPT ![MirrorSquare(RookTo(mv))] = MirrorPiece(landed[RookFrom(mv)])])
    BY <1>2, <1>10, <2>1, <2>2, PutMirrored
  <2>4. Moved(p, mv) = [gone EXCEPT ![RookTo(mv)] = landed[RookFrom(mv)]]
    BY <1>6, <1>10 DEF gone
  <2>5. Moved(q, mm) = [gone2 EXCEPT ![MirrorSquare(RookTo(mv))] = MirrorPiece(landed[RookFrom(mv)])]
    BY <1>2, <1>7, <1>10, <2>2 DEF gone2
  <2> QED
    BY <2>3, <2>4, <2>5 DEF mm
<1> QED
  BY <1>9, <1>10

\* The images of the moves that filter_legal keeps are kept.
LEMMA LegalMirrored ==
    ASSUME NEW p, NEW q, Images(p, q), NEW mv \in LegalMoves(p)
    PROVE  MirrorMove(mv) \in LegalMoves(q)
<1> DEFINE after  == MakeMove(p, mv)
           after2 == MakeMove(q, MirrorMove(mv))
           side   == p.side
<1>1. /\ side \in Colors /\ q.side = Flip(side) /\ Flip(side) \in Colors
      /\ IsPosition(p) /\ IsPosition(q) /\ Mirrored(p.squares, q.squares)
      /\ \A color \in Colors : q.king[Flip(color)] = MirrorSquare(p.king[color])
  BY ImageFields DEF Images
<1>2. mv \in PseudoLegal(p) /\ ~InCheck(after, side) /\ Fits(p, mv)
  BY <1>1, PseudoLegalFits DEF LegalMoves, Legal
<1>3. MirrorMove(mv) \in PseudoLegal(q)
  BY <1>2, PseudoLegalMirrored
<1>4. Mirrored(after.squares, after2.squares)
  BY <1>2, BoardsMirrored DEF MakeMove
<1>5. after.king[side] \in Squares
  <2>1. IsPosition(after)
    BY <1>1, <1>2, MadeIsPosition
  <2> QED
    BY <1>1, <2>1, PositionFields
<1>6. after2.king[Flip(side)] = MirrorSquare(after.king[side])
  <2>1. /\ after.king = IF p.squares[mv.from].kind = "King"
                        THEN [p.king EXCEPT ![side] = mv.to] ELSE p.king
        /\ after2.king = IF q.squares[MirrorMove(mv).from].kind = "King"
                         THEN [q.king EXCEPT ![q.side] = MirrorMove(mv).to] ELSE q.king
    BY DEF MakeMove
  <2>2. /\ mv.from \in Squares /\ MirrorMove(mv).from = MirrorSquare(mv.from)
        /\ MirrorMove(mv).to = MirrorSquare(mv.to)
    BY <1>2, TouchedMirrored
  <2>3. q.squares[MirrorMove(mv).from].kind = p.squares[mv.from].kind
    BY <1>1, <2>2, MirroredPiece
  <2>4. p.king \in [Colors -> Squares] /\ q.king \in [Colors -> Squares]
    BY <1>1, PositionFields
  <2> QED
    BY <1>1, <2>1, <2>2, <2>3, <2>4
<1> HIDE DEF after, after2
<1>7. InCheck(after2, Flip(side)) <=> InCheck(after, side)
  <2>1. IsAttacked(after2.squares, MirrorSquare(after.king[side]), Flip(Flip(side)))
          <=> IsAttacked(after.squares, after.king[side], Flip(side))
    BY <1>1, <1>4, <1>5, AttacksAreTheSame
  <2> QED
    BY <1>6, <2>1 DEF InCheck
<1> QED
  BY <1>1, <1>2, <1>3, <1>7 DEF LegalMoves, Legal, after2

LEMMA ImagesPlayAlike ==
    ASSUME NEW p, NEW q, Images(p, q)
    PROVE  {MirrorMove(mv) : mv \in LegalMoves(p)} = LegalMoves(q)
<1>1. ASSUME NEW mv \in LegalMoves(q)
      PROVE  MirrorMove(mv) \in LegalMoves(p) /\ mv = MirrorMove(MirrorMove(mv))
  <2>1. Images(q, p)
    BY ImagesBack
  <2>2. mv \in PseudoLegal(q)
    BY DEF LegalMoves, Legal
  <2>3. mv = Move(mv.from, mv.to, mv.promo, mv.kind)
    BY <2>2, PseudoLegalMoves
  <2>4. mv.from \in Squares /\ mv.to \in Squares
    BY <2>1, <2>2, TouchedMirrored
  <2>5. MirrorMove(MirrorMove(mv)) = Move(mv.from, mv.to, mv.promo, mv.kind)
    BY <2>4, MirrorSquares DEF MirrorMove, Move
  <2> QED
    BY <2>1, <2>3, <2>5, LegalMirrored
<1> QED
  BY <1>1, LegalMirrored

----------------------------------------------------------------------------
(* The mirror image of a position.                                         *)

LEMMA ComputedHash ==
    ASSUME NEW p, p.squares \in [Squares -> Pieces \cup {Empty}], p.side \in Colors,
           p.castling \in SUBSET Rights, p.ep \in Squares \cup {NoSquare}
    PROVE  ComputeHash(p) \in SUBSET Features
<1>1. \A s \in Squares : PieceKey(s, p.squares[s]) \in SUBSET Features
  BY Keys
<1>2. /\ SideKey \in SUBSET Features /\ CastlingKey(p.castling) \in SUBSET Features
      /\ EpKey(p.squares, p.side, p.ep) \in SUBSET Features
  BY Keys
<1> QED
  BY <1>1, <1>2 DEF ComputeHash

\* The image is a position, with its kings where from_fen finds them.
LEMMA MirrorIsImage ==
    ASSUME NEW p, IsPosition(p), IsSound(p)
    PROVE  Images(p, Mirror(p))
<1> DEFINE q == Mirror(p)
           squares == [s \in Squares |-> MirrorPiece(p.squares[MirrorSquare(s)])]
           side == Flip(p.side)
           castling == {MirrorRight(right) : right \in p.castling}
           ep == MirrorSquare(p.ep)
           king == [c \in Colors |-> CHOOSE s \in Squares : squares[s] = Piece(c, "King")]
           bare == PositionOf(squares, side, castling, ep, 0, 1, king, {})
<1>1. /\ p.squares \in [Squares -> Pieces \cup {Empty}] /\ p.side \in Colors
      /\ p.castling \in SUBSET Rights /\ p.ep \in Squares \cup {NoSquare}
      /\ p.king \in [Colors -> Squares]
  BY PositionFields
<1>2. q = [bare EXCEPT !.hash = ComputeHash(bare)]
  BY DEF Mirror, FromFen
<1>3. /\ bare.squares = squares /\ bare.side = side /\ bare.castling = castling
      /\ bare.ep = ep
      /\ q = PositionOf(squares, side, castling, ep, 0, 1, king, ComputeHash(bare))
  BY <1>2 DEF PositionOf
<1>4. /\ q.squares = squares /\ q.side = side /\ q.castling = castling /\ q.ep = ep
      /\ q.halfmove = 0 /\ q.fullmove = 1 /\ q.king = king /\ q.hash = ComputeHash(bare)
  BY <1>3 DEF PositionOf
<1>5. Mirrored(p.squares, squares)
  <2>1. ASSUME NEW s \in Squares
        PROVE  /\ squares[s] \in Pieces \cup {Empty}
               /\ squares[MirrorSquare(s)] = MirrorPiece(p.squares[s])
    <3>1. MirrorSquare(s) \in Squares /\ MirrorSquare(MirrorSquare(s)) = s
      BY MirrorSquares
    <3>2. p.squares[MirrorSquare(s)] \in Pieces \cup {Empty}
      BY <1>1, <3>1
    <3> QED
      BY <3>1, <3>2, MirrorPieces
  <2> QED
    BY <1>1, <2>1 DEF Mirrored
<1>6. side \in Colors /\ Flip(side) = p.side
  BY <1>1, PawnStepsAreMirrored
<1>7. castling \in SUBSET Rights
  BY <1>1, MirrorRights
<1>8. ep \in Squares \cup {NoSquare} /\ (ep # NoSquare => p.ep \in Squares)
  BY <1>1, MirrorSquares
<1> HIDE DEF q, squares, side, castling, ep, bare
<1>9. ASSUME NEW color \in Colors
      PROVE  /\ king[Flip(color)] = MirrorSquare(p.king[color])
             /\ \A s \in Squares :
                    squares[s] = Piece(Flip(color), "King") => s = MirrorSquare(p.king[color])
  <2>1. Flip(color) \in Colors
    BY PawnStepsAreMirrored
  <2>2. p.king[color] \in Squares /\ p.squares[p.king[color]] = Piece(color, "King")
    BY <1>1 DEF IsSound
  <2>3. /\ MirrorSquare(p.king[color]) \in Squares
        /\ squares[MirrorSquare(p.king[color])] = Piece(Flip(color), "King")
    BY <1>5, <2>2, MirroredPiece
  <2>4. ASSUME NEW s \in Squares, squares[s] = Piece(Flip(color), "King")
        PROVE  s = MirrorSquare(p.king[color])
    <3>1. MirrorSquare(s) \in Squares /\ MirrorSquare(MirrorSquare(s)) = s
      BY MirrorSquares
    <3>2. p.squares[MirrorSquare(s)] = Piece(color, "King")
      BY <1>5, <2>4, <3>1, MirroredPiece
    <3>3. p.king[color] = MirrorSquare(s)
      BY <3>1, <3>2 DEF IsPosition
    <3> QED
      BY <3>1, <3>3
  <2> QED
    BY <2>1, <2>3, <2>4
<1>10. king \in [Colors -> Squares] /\ \A color \in Colors, s \in Squares :
                                          squares[s] = Piece(color, "King") => king[color] = s
  <2>1. ASSUME NEW color \in Colors
        PROVE  /\ king[color] \in Squares
               /\ \A s \in Squares : squares[s] = Piece(color, "King") => king[color] = s
    <3>1. Flip(color) \in Colors /\ Flip(Flip(color)) = color
      BY PawnStepsAreMirrored
    <3>2. /\ king[color] = MirrorSquare(p.king[Flip(color)])
          /\ \A s \in Squares :
                squares[s] = Piece(color, "King") => s = MirrorSquare(p.king[Flip(color)])
      BY <1>9, <3>1
    <3> QED
      BY <1>1, <3>1, <3>2, MirrorSquares
  <2>2. king = [c \in Colors |-> king[c]]
    OBVIOUS
  <2> HIDE DEF king
  <2> QED
    BY <2>1, <2>2
<1> HIDE DEF king
<1>11. ComputeHash(bare) \in SUBSET Features
  BY <1>3, <1>5, <1>6, <1>7, <1>8, ComputedHash DEF Mirrored
<1>12. q \in Positions
  BY <1>3, <1>4, <1>5, <1>6, <1>7, <1>8, <1>10, <1>11, PositionBuilt DEF Mirrored
<1>13. ASSUME q.ep # NoSquare
       PROVE  /\ q.ep - Forward(q.side) \in Squares
              /\ q.squares[q.ep - Forward(q.side)] = Piece(Flip(q.side), "Pawn")
  <2>1. p.ep \in Squares /\ p.ep # NoSquare
    BY <1>4, <1>8, <1>13, MirrorSquares
  <2>2. /\ p.ep - Forward(p.side) \in Squares
        /\ p.squares[p.ep - Forward(p.side)] = Piece(side, "Pawn")
    BY <2>1 DEF IsPosition, side
  <2>3. Forward(side) = -Forward(p.side) /\ Forward(side) \in KingSteps
        /\ MirrorStep(Forward(side)) = Forward(p.side)
    BY <1>1, <1>6, PawnStepsAreMirrored DEF Forward, Flip, Colors, side
  <2>4. p.ep - Forward(p.side) = p.ep + Forward(side)
    BY <2>1, <2>3 DEF Forward, Squares
  <2>5. MirrorSquare(p.ep + Forward(side)) = ep + Forward(p.side)
    BY <2>1, <2>2, <2>3, <2>4, StepsAreMirrored DEF ep
  <2>6. ep - Forward(side) = ep + Forward(p.side)
    BY <1>8, <2>1, <2>3, MirrorSquares DEF Forward, Squares, NoSquare
  <2>7. /\ ep + Forward(p.side) \in Squares
        /\ squares[ep + Forward(p.side)] = Piece(Flip(side), "Pawn")
    BY <1>5, <1>6, <2>2, <2>4, <2>5, MirroredPiece
  <2> QED
    BY <1>4, <2>6, <2>7
<1>14. IsPosition(q)
  BY <1>4, <1>10, <1>12, <1>13 DEF IsPosition
<1> QED
  BY <1>4, <1>5, <1>9, <1>14 DEF Images, q, side, castling, ep

----------------------------------------------------------------------------

\* In every position a line of any length reaches, a piece is attacked exactly when the
\* generator has a capture of it, whichever side is looked at, and the legal moves of
\* the mirrored position are the mirrored legal moves: nothing in make_move, the
\* generator or the attack walk treats one colour otherwise than the other.
THEOREM OneRuleForBoth == BoardSpec => []MovesFollowOneRule
<1>1. BoardInv => MovesFollowOneRule
  <2> SUFFICES ASSUME IsPosition(pos), IsSound(pos)
               PROVE  MovesFollowOneRule
    BY DEF BoardInv
  <2>1. ASSUME NEW by \in Colors
        PROVE  {s \in Squares : pos.squares[s].color = Flip(by) /\ IsAttacked(pos.squares, s, by)}
                  = {mv.to : mv \in PseudoCaptures([pos EXCEPT !.side = by, !.ep = NoSquare])}
    <3> DEFINE p == [pos EXCEPT !.side = by, !.ep = NoSquare]
    <3>1. pos \in Positions
      BY DEF IsPosition
    <3>2. p.squares = pos.squares /\ p.side = by /\ p.ep = NoSquare /\ p.king = pos.king
      BY <3>1 DEF Positions
    <3>3. p \in Positions
      BY <3>1 DEF Positions
    <3> HIDE DEF p
    <3>4. IsPosition(p)
      BY <3>2, <3>3 DEF IsPosition
    <3> QED
      BY <3>2, <3>4, CapturesAreAttacks DEF p
  <2>2. {MirrorMove(mv) : mv \in LegalMoves(pos)} = LegalMoves(Mirror(pos))
    BY MirrorIsImage, ImagesPlayAlike
  <2> QED
    BY <2>1, <2>2 DEF MovesFollowOneRule, MirrorMove
<1> QED
  BY <1>1, BoardInvariant, PTL
=============================================================================
