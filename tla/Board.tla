-------------------------------- MODULE Board --------------------------------
(***************************************************************************)
(* The position of crates/chess-core/src/board.rs and the move generator   *)
(* of movegen.rs: make_move, unmake_move and the null move, attack         *)
(* detection, pseudo-legal and legal moves, and the hash that make_move    *)
(* keeps up to date as it goes.  A Zobrist key is a 64-bit number drawn    *)
(* once per feature and keys are combined by exclusive or; here a hash is  *)
(* the set of the features that went in an odd number of times, which is   *)
(* what that sum is when no two combinations collide.                      *)
(*                                                                         *)
(* The state machine walks a line of moves from one of the Starts and back *)
(* as Search and filter_legal do: every move made is pushed with its undo  *)
(* record, and taken back in the opposite order.                           *)
(***************************************************************************)
EXTENDS Integers, Sequences, FiniteSets

CONSTANTS
    Starts,    \* the positions a line starts from, as from_fen builds them
    MaxLine    \* bound: the moves of a line that are not taken back

VARIABLES
    pos,     \* Position
    line,    \* the undo records of the moves made, oldest first
    path     \* the positions those moves were made in (what undoing must restore)

boardVars == <<pos, line, path>>

----------------------------------------------------------------------------
(* Squares, pieces and the 0x88 board.                                     *)

\* on_board: the numbers of the 0x88 board whose bits 0x88 are clear.
Squares == {s \in 0..127 : s % 16 < 8}

Sq(file, rank) == rank * 16 + file

FileOf(s) == s % 16

RankOf(s) == s \div 16

Colors == {"White", "Black"}

Kinds == {"Pawn", "Knight", "Bishop", "Rook", "Queen", "King"}

Flip(color) == IF color = "White" THEN "Black" ELSE "White"

Piece(color, kind) == [color |-> color, kind |-> kind]

Pieces == [color : Colors, kind : Kinds]

\* `None` in the array of squares, and the absent `ep` and `promo`.
Empty == Piece("none", "none")

NoSquare == -1

Rights == {"K", "Q", "k", "q"}

MoveKinds == {"Normal", "DoublePush", "EnPassant", "CastleKing", "CastleQueen"}

Move(from, to, promo, kind) == [from |-> from, to |-> to, promo |-> promo, kind |-> kind]

\* The rights a move that touches s ends (the complement of castle_mask).
Ends(s) ==
    CASE s = Sq(0, 0) -> {"Q"}
      [] s = Sq(7, 0) -> {"K"}
      [] s = Sq(4, 0) -> {"K", "Q"}
      [] s = Sq(0, 7) -> {"q"}
      [] s = Sq(7, 7) -> {"k"}
      [] s = Sq(4, 7) -> {"k", "q"}
      [] OTHER -> {}

Forward(color) == IF color = "White" THEN 16 ELSE -16

----------------------------------------------------------------------------
(* The hash.                                                               *)

Xor(a, b) == (a \ b) \cup (b \ a)

\* The key of a piece on a square; an empty square has none.
PieceKey(s, piece) == IF piece = Empty THEN {} ELSE {<<"piece", s, piece>>}

SideKey == {<<"side">>}

CastlingKey(rights) == {<<"castling", rights>>}

\* An enemy pawn stands ready to take en passant (ep_is_capturable).
EpIsCapturable(squares, side, ep) ==
    \E step \in {-1, 1} :
        LET from == ep - Forward(side) + step
        IN  from \in Squares /\ squares[from] = Piece(side, "Pawn")

EpKey(squares, side, ep) ==
    IF ep # NoSquare /\ EpIsCapturable(squares, side, ep) THEN {<<"ep", FileOf(ep)>>} ELSE {}

\* compute_hash: the whole position, from nothing.
ComputeHash(p) ==
    (UNION {PieceKey(s, p.squares[s]) : s \in Squares})
        \cup (IF p.side = "Black" THEN SideKey ELSE {})
        \cup CastlingKey(p.castling)
        \cup EpKey(p.squares, p.side, p.ep)

\* The fields of a Position.
PositionOf(squares, side, castling, ep, halfmove, fullmove, king, hash) ==
    [squares |-> squares, side |-> side, castling |-> castling, ep |-> ep,
     halfmove |-> halfmove, fullmove |-> fullmove, king |-> king, hash |-> hash]

\* from_fen with its fields: the kings are looked for and the hash computed.
FromFen(squares, side, castling, ep) ==
    LET king == [c \in Colors |-> CHOOSE s \in Squares : squares[s] = Piece(c, "King")]
        p    == PositionOf(squares, side, castling, ep, 0, 1, king, {})
    IN  [p EXCEPT !.hash = ComputeHash(p)]

----------------------------------------------------------------------------
(* Making and unmaking a move.                                             *)

\* En passant takes the pawn beside the destination.
CapturedSquare(p, mv) == IF mv.kind = "EnPassant" THEN mv.to - Forward(p.side) ELSE mv.to

Landing(p, mv) == IF mv.promo # "none" THEN Piece(p.side, mv.promo) ELSE p.squares[mv.from]

IsCastle(mv) == mv.kind \in {"CastleKing", "CastleQueen"}

RookFrom(mv) == Sq(IF mv.kind = "CastleKing" THEN 7 ELSE 0, RankOf(mv.from))

RookTo(mv) == Sq(IF mv.kind = "CastleKing" THEN 5 ELSE 3, RankOf(mv.from))

UndoOf(p, mv) ==
    [mv |-> mv, captured |-> p.squares[CapturedSquare(p, mv)],
     captured_sq |-> CapturedSquare(p, mv), castling |-> p.castling, ep |-> p.ep,
     halfmove |-> p.halfmove, hash |-> p.hash]

\* The board after the move: the capture, the piece, the rook of a castle.
Moved(p, mv) ==
    LET cleared == [p.squares EXCEPT ![CapturedSquare(p, mv)] = Empty, ![mv.from] = Empty]
        landed  == [cleared EXCEPT ![mv.to] = Landing(p, mv)]
    IN  IF IsCastle(mv)
        THEN [landed EXCEPT ![RookFrom(mv)] = Empty, ![RookTo(mv)] = landed[RookFrom(mv)]]
        ELSE landed

\* The keys `take` and `put` flip while the pieces move.
PieceKeys(p, mv) ==
    LET captured == CapturedSquare(p, mv)
        moving   == Xor(Xor(PieceKey(captured, p.squares[captured]),
                            PieceKey(mv.from, p.squares[mv.from])),
                        PieceKey(mv.to, Landing(p, mv)))
        rook     == p.squares[RookFrom(mv)]
    IN  IF IsCastle(mv)
        THEN Xor(moving, Xor(PieceKey(RookFrom(mv), rook), PieceKey(RookTo(mv), rook)))
        ELSE moving

\* Mutant: only a rook that moves ends its right.
RightsOfWhatStays(p, mv) == p.castling \ Ends(mv.from)

SurvivingRights(p, mv) == p.castling \ (Ends(mv.from) \cup Ends(mv.to))

\* Mutant: the en passant key of the position left is not taken out.
StateKeysKeepingEnPassant(p, mv, squares, castling, ep) ==
    Xor(CastlingKey(p.castling),
        Xor(Xor(CastlingKey(castling), SideKey), EpKey(squares, Flip(p.side), ep)))

\* The keys a move flips beside those of the pieces it moves.
StateKeys(p, mv, squares, castling, ep) ==
    Xor(Xor(EpKey(p.squares, p.side, p.ep), CastlingKey(p.castling)),
        Xor(Xor(CastlingKey(castling), SideKey), EpKey(squares, Flip(p.side), ep)))

MakeMove(p, mv) ==
    LET piece    == p.squares[mv.from]
        captured == p.squares[CapturedSquare(p, mv)]
        squares  == Moved(p, mv)
        castling == SurvivingRights(p, mv)
        ep       == IF mv.kind = "DoublePush" THEN mv.from + Forward(p.side) ELSE NoSquare
    IN  [squares  |-> squares,
         side     |-> Flip(p.side),
         castling |-> castling,
         ep       |-> ep,
         halfmove |-> IF piece.kind = "Pawn" \/ captured # Empty THEN 0 ELSE p.halfmove + 1,
         fullmove |-> IF p.side = "Black" THEN p.fullmove + 1 ELSE p.fullmove,
         king     |-> IF piece.kind = "King" THEN [p.king EXCEPT ![p.side] = mv.to] ELSE p.king,
         hash     |-> Xor(p.hash, Xor(PieceKeys(p, mv),
                                      StateKeys(p, mv, squares, castling, ep)))]

\* The piece that left mv.from: what landed, or the pawn that was promoted.
Original(p, mv) ==
    IF mv.promo # "none" THEN Piece(Flip(p.side), "Pawn") ELSE p.squares[mv.to]

\* Mutant: the captured piece is put where the capturing one landed.
UnmovedOnto(p, undo) ==
    LET mv   == undo.mv
        back == [p.squares EXCEPT ![mv.to] = undo.captured, ![mv.from] = Original(p, mv)]
    IN  IF IsCastle(mv)
        THEN [back EXCEPT ![RookTo(mv)] = Empty, ![RookFrom(mv)] = back[RookTo(mv)]]
        ELSE back

Unmoved(p, undo) ==
    LET mv   == undo.mv
        back == [p.squares EXCEPT ![mv.to] = Empty, ![mv.from] = Original(p, mv)]
        full == IF undo.captured = Empty THEN back
                ELSE [back EXCEPT ![undo.captured_sq] = undo.captured]
    IN  IF IsCastle(mv)
        THEN [full EXCEPT ![RookTo(mv)] = Empty, ![RookFrom(mv)] = full[RookTo(mv)]]
        ELSE full

UnmakeMove(p, undo) ==
    LET mover == Flip(p.side)
    IN  [squares  |-> Unmoved(p, undo),
         side     |-> mover,
         castling |-> undo.castling,
         ep       |-> undo.ep,
         halfmove |-> undo.halfmove,
         fullmove |-> IF mover = "Black" THEN p.fullmove - 1 ELSE p.fullmove,
         king     |-> IF Original(p, undo.mv).kind = "King"
                      THEN [p.king EXCEPT ![mover] = undo.mv.from] ELSE p.king,
         hash     |-> undo.hash]

\* The turn passed without a move, in the search only.  Its undo record has no move.
NullMove == Move(0, 0, "none", "Normal")

NullUndoOf(p) ==
    [mv |-> NullMove, captured |-> Empty, captured_sq |-> 0, castling |-> p.castling,
     ep |-> p.ep, halfmove |-> p.halfmove, hash |-> p.hash]

MakeNull(p) ==
    PositionOf(p.squares, Flip(p.side), p.castling, NoSquare, p.halfmove + 1, p.fullmove, p.king,
               Xor(p.hash, Xor(EpKey(p.squares, p.side, p.ep), SideKey)))

UnmakeNull(p, undo) ==
    PositionOf(p.squares, Flip(p.side), undo.castling, undo.ep, undo.halfmove, p.fullmove, p.king,
               undo.hash)

----------------------------------------------------------------------------
(* Attacks and moves.                                                      *)

KnightSteps == {33, 31, 18, 14, -33, -31, -18, -14}

BishopSteps == {17, 15, -15, -17}

RookSteps == {16, 1, -1, -16}

KingSteps == BishopSteps \cup RookSteps

\* The steps of a piece that slides, of one that jumps, and of any other.
SlidingSteps(kind) ==
    CASE kind = "Bishop" -> BishopSteps
      [] kind = "Rook"   -> RookSteps
      [] kind = "Queen"  -> KingSteps
      [] OTHER           -> {}

JumpingSteps(kind) ==
    CASE kind = "Knight" -> KnightSteps
      [] kind = "King"   -> KingSteps
      [] OTHER           -> {}

\* How far a ray runs from s before it leaves the board.
Reach ==
    [s \in Squares |-> [step \in KingSteps |->
        CHOOSE n \in 0..7 : s + n * step \in Squares /\ s + (n + 1) * step \notin Squares]]

\* The squares of the ray that a piece on s sees: up to and with the first piece.
Seen(squares, s, step) ==
    {s + n * step : n \in {m \in 1..Reach[s][step] :
        \A k \in 1..(m - 1) : squares[s + k * step] = Empty}}

\* The walk of is_attacked goes outwards from the target.
IsAttacked(squares, target, by) ==
    \/ \E step \in {-1, 1} :
           LET from == target - Forward(by) + step
           IN  from \in Squares /\ squares[from] = Piece(by, "Pawn")
    \/ \E kind \in {"Knight", "King"} : \E step \in JumpingSteps(kind) :
           target + step \in Squares /\ squares[target + step] = Piece(by, kind)
    \/ \E kind \in {"Bishop", "Rook"} : \E step \in SlidingSteps(kind) :
           \E s \in Seen(squares, target, step) :
               squares[s] \in {Piece(by, kind), Piece(by, "Queen")}

InCheck(p, color) == IsAttacked(p.squares, p.king[color], Flip(color))

\* push_pawn_move: a pawn that reaches the last rank promotes.
PawnMoves(from, to, kind) ==
    {Move(from, to, promo, kind) :
        promo \in IF RankOf(to) \in {0, 7} THEN {"Queen", "Rook", "Bishop", "Knight"}
                  ELSE {"none"}}

\* Mutant: the rank of the double push does not depend on the colour.
PawnPushesFromRankOne(p, from) ==
    LET one == from + Forward(p.side)
        two == from + 2 * Forward(p.side)
    IN  IF one \notin Squares \/ p.squares[one] # Empty THEN {}
        ELSE PawnMoves(from, one, "Normal") \cup
             {mv \in {Move(from, two, "none", "DoublePush")} :
                 RankOf(from) = 1 /\ two \in Squares /\ p.squares[two] = Empty}

PawnPushes(p, from) ==
    LET one   == from + Forward(p.side)
        two   == from + 2 * Forward(p.side)
        start == IF p.side = "White" THEN 1 ELSE 6
    IN  IF one \notin Squares \/ p.squares[one] # Empty THEN {}
        ELSE PawnMoves(from, one, "Normal") \cup
             {mv \in {Move(from, two, "none", "DoublePush")} :
                 RankOf(from) = start /\ two \in Squares /\ p.squares[two] = Empty}

PawnCaptures(p, from) ==
    LET targets == {from + Forward(p.side) + step : step \in {-1, 1}} \cap Squares
    IN  (UNION {PawnMoves(from, to, "Normal") :
                   to \in {s \in targets : p.squares[s].color = Flip(p.side)}})
        \cup {Move(from, to, "none", "EnPassant") :
                  to \in {s \in targets : p.squares[s] = Empty /\ s = p.ep}}

\* Where the piece on `from` that is not a pawn may go.
PieceTargets(p, from) ==
    LET kind == p.squares[from].kind
    IN  {s \in (UNION {Seen(p.squares, from, step) : step \in SlidingSteps(kind)})
               \cup {from + step : step \in JumpingSteps(kind)} :
            s \in Squares /\ p.squares[s].color # p.side}

\* One side's castle: the king at home, the right, the rook, the way free and safe.
CanCastle(p, right, rook, between, crossed) ==
    LET home == IF p.side = "White" THEN 0 ELSE 7
    IN  /\ p.squares[Sq(4, home)] = Piece(p.side, "King")
        /\ ~IsAttacked(p.squares, Sq(4, home), Flip(p.side))
        /\ right \in p.castling
        /\ p.squares[Sq(rook, home)] = Piece(p.side, "Rook")
        /\ \A file \in between : p.squares[Sq(file, home)] = Empty
        /\ \A file \in crossed : ~IsAttacked(p.squares, Sq(file, home), Flip(p.side))

Castles(p) ==
    LET home   == IF p.side = "White" THEN 0 ELSE 7
        rights == IF p.side = "White" THEN <<"K", "Q">> ELSE <<"k", "q">>
    IN  {mv \in {Move(Sq(4, home), Sq(6, home), "none", "CastleKing")} :
            CanCastle(p, rights[1], 7, {5, 6}, {5, 6})}
        \cup
        {mv \in {Move(Sq(4, home), Sq(2, home), "none", "CastleQueen")} :
            CanCastle(p, rights[2], 0, {1, 2, 3}, {3, 2})}

\* generate_pseudo_legal, and with captures_only the part of it that captures.
PseudoCaptures(p) ==
    UNION {IF p.squares[from].kind = "Pawn" THEN PawnCaptures(p, from)
           ELSE {Move(from, to, "none", "Normal") :
                    to \in {s \in PieceTargets(p, from) : p.squares[s] # Empty}} :
              from \in {s \in Squares : p.squares[s].color = p.side}}

PseudoLegal(p) ==
    Castles(p) \cup
    UNION {IF p.squares[from].kind = "Pawn" THEN PawnPushes(p, from) \cup PawnCaptures(p, from)
           ELSE {Move(from, to, "none", "Normal") : to \in PieceTargets(p, from)} :
              from \in {s \in Squares : p.squares[s].color = p.side}}

\* filter_legal: made on a copy, a move must not leave the mover's king attacked.
Legal(p, moves) == {mv \in moves : ~InCheck(MakeMove(p, mv), p.side)}

LegalMoves(p) == Legal(p, PseudoLegal(p))

HasNonPawnMaterial(p, color) ==
    \E s \in Squares : p.squares[s].color = color /\ p.squares[s].kind \notin {"Pawn", "King"}

----------------------------------------------------------------------------
(* What positions are.                                                     *)

\* What goes into a hash.
Features ==
    ({"piece"} \X Squares \X Pieces) \cup SideKey \cup ({"castling"} \X SUBSET Rights)
        \cup ({"ep"} \X (0..7))

Positions ==
    [squares : [Squares -> Pieces \cup {Empty}], side : Colors, castling : SUBSET Rights,
     ep : Squares \cup {NoSquare}, halfmove : Nat, fullmove : Nat,
     king : [Colors -> Squares], hash : SUBSET Features]

Undos ==
    [mv : [from : Squares, to : Squares, promo : Kinds \cup {"none"}, kind : MoveKinds],
     captured : Pieces \cup {Empty}, captured_sq : Squares, castling : SUBSET Rights,
     ep : Squares \cup {NoSquare}, halfmove : Nat, hash : SUBSET Features]

\* The parts of a position agree: a king that is on the board is where the cache has
\* it, and the square to take en passant lies behind a pawn that has just passed it.
IsPosition(p) ==
    /\ p \in Positions
    /\ \A color \in Colors, s \in Squares :
           p.squares[s] = Piece(color, "King") => p.king[color] = s
    /\ p.ep # NoSquare =>
           /\ p.ep - Forward(p.side) \in Squares
           /\ p.squares[p.ep - Forward(p.side)] = Piece(Flip(p.side), "Pawn")

\* Who castles with a right, and from where.
RightOwner(right) == IF right \in {"K", "Q"} THEN "White" ELSE "Black"

HomeRank(color) == IF color = "White" THEN 0 ELSE 7

RookFile(right) == IF right \in {"K", "k"} THEN 7 ELSE 0

\* What a position remembers is true of its pieces.
IsSound(p) ==
    /\ \A color \in Colors : p.squares[p.king[color]] = Piece(color, "King")
    /\ ~InCheck(p, Flip(p.side))
    /\ \A right \in p.castling :
           LET color == RightOwner(right)
           IN  /\ p.squares[Sq(4, HomeRank(color))] = Piece(color, "King")
               /\ p.squares[Sq(RookFile(right), HomeRank(color))] = Piece(color, "Rook")

\* Lines start from positions, in which the side to move cannot take the king, with the
\* hash that from_fen computes.
ASSUME StartsAssumption ==
    \A p \in Starts : IsPosition(p) /\ IsSound(p) /\ p.hash = ComputeHash(p)

ASSUME MaxLineAssumption == MaxLine \in Nat

----------------------------------------------------------------------------
(* The walk.                                                               *)

BoardInit ==
    /\ pos \in Starts
    /\ line = <<>>
    /\ path = <<>>

Make ==
    /\ Len(line) < MaxLine
    /\ \E mv \in LegalMoves(pos) :
        /\ pos' = MakeMove(pos, mv)
        /\ line' = Append(line, UndoOf(pos, mv))
        /\ path' = Append(path, pos)

\* The null move of the search: never at the root, in check or in a pawn ending.
Pass ==
    /\ Len(line) \in 1..(MaxLine - 1)
    /\ ~InCheck(pos, pos.side)
    /\ HasNonPawnMaterial(pos, pos.side)
    /\ pos' = MakeNull(pos)
    /\ line' = Append(line, NullUndoOf(pos))
    /\ path' = Append(path, pos)

TakeBack(p, undo) ==
    IF undo.mv = NullMove THEN UnmakeNull(p, undo) ELSE UnmakeMove(p, undo)

\* What taking back the last move of the line gives.
TakenBack == TakeBack(pos, line[Len(line)])

Unmake ==
    /\ line # <<>>
    /\ pos' = TakenBack
    /\ line' = SubSeq(line, 1, Len(line) - 1)
    /\ path' = SubSeq(path, 1, Len(path) - 1)

BoardNext == Make \/ Pass \/ Unmake

BoardSpec == BoardInit /\ [][BoardNext]_boardVars

----------------------------------------------------------------------------
(* Properties.                                                             *)

\* make_move never computes the hash anew: whatever it captured, promoted or
\* castled, and whatever rights and en passant square came and went, the hash it
\* carries along is the one compute_hash would find.  Repetition compares hashes, and
\* the hash leaves out an en passant square no pawn stands ready to use: that square
\* then makes no move possible.
HashIdentifiesThePosition ==
    /\ pos.hash = ComputeHash(pos)
    /\ LET without == [pos EXCEPT !.ep = NoSquare]
       IN  ComputeHash(without) = pos.hash => LegalMoves(without) = LegalMoves(pos)

\* unmake_move and unmake_null restore everything the move changed, the parts
\* that are computed back (pieces, king squares, move number) and the parts that
\* are saved (rights, en passant, halfmove clock, hash), however deep the line.
TakingBackRestores == line # <<>> => TakenBack = path[Len(path)]

\* What the position remembers is true of its pieces.  The cached king squares are
\* where the kings are, and filter_legal, which relies on them, lets no move leave the
\* mover's king attacked.  A right that survives names a king and a rook that have not
\* moved: it is lost when the rook is taken on its square as much as when it leaves it.
PositionIsSound == IsSound(pos)

\* The position seen from the other side of the board, colours exchanged.
MirrorSquare(s) == IF s = NoSquare THEN NoSquare ELSE Sq(FileOf(s), 7 - RankOf(s))

MirrorPiece(piece) == IF piece = Empty THEN Empty ELSE Piece(Flip(piece.color), piece.kind)

MirrorRight(right) ==
    CASE right = "K" -> "k" [] right = "k" -> "K" [] right = "Q" -> "q" [] right = "q" -> "Q"

Mirror(p) ==
    FromFen([s \in Squares |-> MirrorPiece(p.squares[MirrorSquare(s)])], Flip(p.side),
            {MirrorRight(right) : right \in p.castling}, MirrorSquare(p.ep))

\* is_attacked looks outwards from a square and the generator outwards from the
\* pieces: a piece is attacked exactly when the generator has a capture of it.  And
\* both colours play by the same rules: the moves of the mirrored position are the
\* mirrored moves.
MovesFollowOneRule ==
    /\ \A by \in Colors :
           {s \in Squares : pos.squares[s].color = Flip(by) /\ IsAttacked(pos.squares, s, by)}
               = {mv.to : mv \in PseudoCaptures([pos EXCEPT !.side = by, !.ep = NoSquare])}
    /\ {Move(MirrorSquare(mv.from), MirrorSquare(mv.to), mv.promo, mv.kind) :
            mv \in LegalMoves(pos)}
           = LegalMoves(Mirror(pos))
=============================================================================
