------------------------------- MODULE MCRules -------------------------------
(***************************************************************************)
(* Positions with few pieces, one per family of moves, for TLC.            *)
(***************************************************************************)
EXTENDS Notation, Evaluation

\* The letters of FEN.
PieceOf ==
    [P |-> Piece("White", "Pawn"), N |-> Piece("White", "Knight"), B |-> Piece("White", "Bishop"),
     R |-> Piece("White", "Rook"), Q |-> Piece("White", "Queen"), K |-> Piece("White", "King"),
     p |-> Piece("Black", "Pawn"), n |-> Piece("Black", "Knight"), b |-> Piece("Black", "Bishop"),
     r |-> Piece("Black", "Rook"), q |-> Piece("Black", "Queen"), k |-> Piece("Black", "King")]

Name(s) == FileLetter[FileOf(s) + 1] \o RankDigit[RankOf(s) + 1]

Placed(pieces) ==
    [s \in Squares |-> IF Name(s) \in DOMAIN pieces THEN PieceOf[pieces[Name(s)]] ELSE Empty]

\* Castling both ways, rooks that are taken on their square, a way that is attacked.
Castling ==
    FromFen(Placed([e1 |-> "K", h1 |-> "R", h2 |-> "P", a1 |-> "R", a2 |-> "P",
                    e8 |-> "k", a8 |-> "r", a7 |-> "p", g7 |-> "b"]),
            "White", {"K", "Q", "q"}, NoSquare)

\* A double push beside a pawn that may take it only at the cost of its king.
EnPassantPinned ==
    FromFen(Placed([a5 |-> "K", d5 |-> "P", c7 |-> "p", h5 |-> "r", e8 |-> "k"]),
            "Black", {}, NoSquare)

\* The same square reached by a pawn en passant and by a bishop.
EnPassantOrBishop ==
    FromFen(Placed([a1 |-> "K", b5 |-> "P", c7 |-> "p", e4 |-> "B", h8 |-> "k"]),
            "Black", {}, NoSquare)

\* Promotions with and without a capture, both sides.
Promotions ==
    FromFen(Placed([h1 |-> "K", b7 |-> "P", a8 |-> "n", c8 |-> "r", g6 |-> "k", d2 |-> "p"]),
            "White", {}, NoSquare)

\* Queens that share files and ranks, and a knight that is pinned.
Twins ==
    FromFen(Placed([a1 |-> "K", h4 |-> "Q", e4 |-> "Q", h1 |-> "Q", c8 |-> "k", b8 |-> "r"]),
            "White", {}, NoSquare)

Knights ==
    FromFen(Placed([e1 |-> "K", e2 |-> "N", b1 |-> "N", a8 |-> "k", e8 |-> "r"]),
            "White", {}, NoSquare)

\* Minor pieces only: two of them can help to mate, one cannot.
Minors ==
    FromFen(Placed([c7 |-> "K", c6 |-> "N", d5 |-> "N", a8 |-> "k"]), "White", {}, NoSquare)

Bishops ==
    FromFen(Placed([a1 |-> "k", c1 |-> "K", b1 |-> "b", d6 |-> "B"]), "White", {}, NoSquare)

Rooks2 ==
    FromFen(Placed([e1 |-> "K", a6 |-> "R", c6 |-> "P", d6 |-> "P", h8 |-> "k", f7 |-> "p"]),
            "White", {}, NoSquare)

MCStarts ==
    {Castling, EnPassantPinned, EnPassantOrBishop, Promotions, Twins, Knights, Minors, Bishops,
     Rooks2}
=============================================================================
