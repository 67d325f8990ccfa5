------------------------------- MODULE Notation -------------------------------
(***************************************************************************)
(* Moves as text: to_san_with and parse_move of crates/chess-core/src/     *)
(* san.rs, and promotion_default and under_specified of                    *)
(* src/src/app/parse.rs, which the move input falls back on.               *)
(*                                                                         *)
(* A text is a sequence of letters.  Only texts that name squares, pieces  *)
(* and the punctuation of a move are told apart: surrounding blanks and    *)
(* the marks ! and ? are dropped by `tidy` before anything is compared.    *)
(***************************************************************************)
EXTENDS Board, SequencesExt

FileLetter == <<"a", "b", "c", "d", "e", "f", "g", "h">>

RankDigit == <<"1", "2", "3", "4", "5", "6", "7", "8">>

Letter(kind) ==
    CASE kind = "Pawn" -> "P" [] kind = "Knight" -> "N" [] kind = "Bishop" -> "B"
      [] kind = "Rook" -> "R" [] kind = "Queen" -> "Q" [] kind = "King" -> "K"

FileName(s) == <<FileLetter[FileOf(s) + 1]>>

RankName(s) == <<RankDigit[RankOf(s) + 1]>>

SquareName(s) == FileName(s) \o RankName(s)

\* eq_ignore_ascii_case compares the small letters.
Small(letter) ==
    CASE letter = "P" -> "p" [] letter = "N" -> "n" [] letter = "B" -> "b" [] letter = "R" -> "r"
      [] letter = "Q" -> "q" [] letter = "K" -> "k" [] letter = "O" -> "o" [] OTHER -> letter

Folded(text) == [i \in DOMAIN text |-> Small(text[i])]

----------------------------------------------------------------------------
(* Rendering.                                                              *)

IsCapture(p, mv) == p.squares[mv.to] # Empty \/ mv.kind = "EnPassant"

\* The legal moves of other pieces of the same kind to the same square.
Rivals(p, mv, legal) ==
    {other \in legal : /\ other.to = mv.to
                       /\ other.from # mv.from
                       /\ p.squares[other.from] = p.squares[mv.from]}

\* Mutant: the file is taken to be hint enough.
DisambiguationByFile(p, mv, legal) ==
    IF Rivals(p, mv, legal) = {} THEN <<>> ELSE FileName(mv.from)

\* The least hint that tells mv from its rivals: the file, the rank, or both.
Disambiguation(p, mv, legal) ==
    LET rivals == Rivals(p, mv, legal)
    IN  IF rivals = {} THEN <<>>
        ELSE IF \A r \in rivals : FileOf(r.from) # FileOf(mv.from) THEN FileName(mv.from)
        ELSE IF \A r \in rivals : RankOf(r.from) # RankOf(mv.from) THEN RankName(mv.from)
        ELSE SquareName(mv.from)

Cross(p, mv) == IF IsCapture(p, mv) THEN <<"x">> ELSE <<>>

\* The text of a move without the sign for check or mate.
Body(p, mv, legal) ==
    LET kind == p.squares[mv.from].kind
    IN  CASE mv.kind = "CastleKing"  -> <<"O", "-", "O">>
          [] mv.kind = "CastleQueen" -> <<"O", "-", "O", "-", "O">>
          [] kind = "Pawn" /\ ~IsCastle(mv) ->
                 (IF IsCapture(p, mv) THEN FileName(mv.from) ELSE <<>>) \o Cross(p, mv)
                     \o SquareName(mv.to)
                     \o (IF mv.promo = "none" THEN <<>> ELSE <<"=", Letter(mv.promo)>>)
          [] OTHER ->
                 <<Letter(kind)>> \o Disambiguation(p, mv, legal) \o Cross(p, mv)
                     \o SquareName(mv.to)

\* The sign is found on a copy of the position with the move made.
Suffix(p, mv) ==
    LET after == MakeMove(p, mv)
    IN  IF ~InCheck(after, after.side) THEN <<>>
        ELSE IF LegalMoves(after) = {} THEN <<"#">> ELSE <<"+">>

ToSan(p, mv, legal) == Body(p, mv, legal) \o Suffix(p, mv)

\* Long algebraic form, the one chess engines exchange.
ToUci(mv) ==
    SquareName(mv.from) \o SquareName(mv.to)
        \o (IF mv.promo = "none" THEN <<>> ELSE <<Small(Letter(mv.promo))>>)

----------------------------------------------------------------------------
(* Parsing.                                                                *)

Without(text, letters) == SelectSeq(text, LAMBDA c : c \notin letters)

Tidy(text) == Without(text, {"+", "#"})

Loose(text) == Without(Tidy(text), {"x", "=", "-"})

\* Castling without its hyphens is castling too.
Want(text) ==
    CASE Tidy(text) = <<"O", "O">>      -> <<"O", "-", "O">>
      [] Tidy(text) = <<"O", "O", "O">> -> <<"O", "-", "O", "-", "O">>
      [] OTHER                          -> Tidy(text)

NoMove == Move(NoSquare, NoSquare, "none", "Normal")

\* parse_square, which takes a capital for the file as well.
Named(file, rank) == {s \in Squares : FileName(s) = <<Small(file)>> /\ RankName(s) = <<rank>>}

\* Coordinates; a pawn that reaches the last rank unasked becomes a queen.
ParseCoordinate(text, legal) ==
    LET cleaned == Without(text, {"-"})
        promos  == IF Len(cleaned) = 5
                   THEN {k \in Kinds : Small(Letter(k)) = Small(cleaned[5])}
                   ELSE IF \E mv \in legal : /\ mv.from \in Named(cleaned[1], cleaned[2])
                                             /\ mv.to \in Named(cleaned[3], cleaned[4])
                                             /\ mv.promo = "none"
                        THEN {"none"} ELSE {"Queen"}
    IN  IF Len(cleaned) \notin {4, 5} THEN {}
        ELSE {mv \in legal : /\ mv.from \in Named(cleaned[1], cleaned[2])
                             /\ mv.to \in Named(cleaned[3], cleaned[4])
                             /\ mv.promo \in promos}

\* The moves a text stands for: the first way of reading it that fits any move.
\* One move is played, several are offered, none is refused.
ParseMove(text, sans) ==
    LET legal  == DOMAIN sans
        want   == Want(text)
        exact  == {mv \in legal : Tidy(sans[mv]) = want}
        coords == ParseCoordinate(want, legal)
        folded == {mv \in legal : Folded(Tidy(sans[mv])) = Folded(want)}
        loose  == {mv \in legal : Loose(sans[mv]) = Loose(want)}
    IN  IF Cardinality(exact) = 1 THEN exact
        ELSE IF coords # {} THEN coords
        ELSE IF folded # {} THEN folded
        ELSE IF loose # {} THEN loose
        ELSE {mv \in legal : Folded(Loose(sans[mv])) = Folded(Loose(want))}

\* The text of every legal move, as parse_move renders them first.
Sans(p) == LET legal == LegalMoves(p) IN [mv \in legal |-> ToSan(p, mv, legal)]

\* A pawn move that reaches the last rank and does not say what it becomes is
\* taken for the queen (promotion_default): what stands before "=".
PromotionDefault(text, sans) ==
    {mv \in DOMAIN sans :
        /\ mv.promo = "Queen"
        /\ LET upTo == CHOOSE i \in DOMAIN sans[mv] : sans[mv][i] = "="
           IN  Folded(Loose(SubSeq(sans[mv], 1, upTo - 1))) = Folded(Loose(text))}

\* A text that names a piece and a square but not which of several pieces: all are
\* offered (under_specified).
UnderSpecified(text, p, sans) ==
    {mv \in DOMAIN sans :
        /\ p.squares[mv.from].kind # "Pawn"
        /\ Folded(<<Letter(p.squares[mv.from].kind)>> \o SquareName(mv.to))
               = Folded(Loose(text))}

----------------------------------------------------------------------------
(* PGN: movetext is a sequence of words and of the marks that set words    *)
(* apart, and is read back to the words of the main line.                  *)

Word(is, text) == [is |-> is, text |-> text]

Mark(c) == Word("mark", <<c>>)

\* pgn_lines: White's moves have their number before them, and so has the first move
\* of a game that starts with Black's; the result comes last.
PgnWords(side, sans) ==
    LET MoverOf(i) == IF i % 2 = 1 THEN side ELSE Flip(side)
        Numbered(i) ==
            (IF MoverOf(i) = "White" \/ i = 1 THEN <<Word("number", <<>>)>> ELSE <<>>)
                \o <<Word("move", sans[i])>>
    IN  FlattenSeq([i \in DOMAIN sans |-> Numbered(i)]) \o <<Word("result", <<>>)>>


\* strip_pgn_noise: comments in braces and to the end of the line, and variations.
\* Braces do not count inside variations, nor parentheses inside braces.
Stripped(words) ==
    LET Outside(acc) == acc.braces = 0 /\ acc.variations = 0
        Step(acc, w) ==
            IF acc.toEnd THEN [acc EXCEPT !.toEnd = w # Mark("newline")]
            ELSE CASE w = Mark(";") /\ Outside(acc) -> [acc EXCEPT !.toEnd = TRUE]
                   [] w = Mark("{") /\ acc.variations = 0 -> [acc EXCEPT !.braces = @ + 1]
                   [] w = Mark("}") /\ acc.braces > 0 -> [acc EXCEPT !.braces = @ - 1]
                   [] w = Mark("(") /\ acc.braces = 0 -> [acc EXCEPT !.variations = @ + 1]
                   [] w = Mark(")") /\ acc.braces = 0 /\ acc.variations > 0 ->
                          [acc EXCEPT !.variations = @ - 1]
                   [] Outside(acc) /\ w \notin {Mark(c) : c \in {";", "{", "(", "newline"}} ->
                          [acc EXCEPT !.kept = Append(@, w)]
                   [] OTHER -> acc
    IN  FoldLeft(Step, [toEnd |-> FALSE, braces |-> 0, variations |-> 0, kept |-> <<>>], words).kept

\* parse_pgn: what is left without numbers, results and numeric glyphs.
Mainline(words) ==
    SelectSeq(Stripped(words), LAMBDA w : w.is \notin {"number", "result", "glyph"})

----------------------------------------------------------------------------
(* Properties.                                                             *)

\* What the program writes it reads back: in move lists, saved games and exported
\* PGN the text of a move stands for that move and no other, in both notations.  Typed
\* without its hint, a move that has rivals is refused by parse_move and offered by
\* under_specified together with them, instead of one of them being played.  Typed
\* without what it becomes, a pawn becomes a queen.
TextsNameTheirMove ==
    LET sans == Sans(pos)
    IN  \A mv \in DOMAIN sans :
            /\ ParseMove(sans[mv], sans) = {mv}
            /\ ParseMove(ToUci(mv), sans) = {mv}
            /\ LET bare   == <<Letter(pos.squares[mv.from].kind)>> \o SquareName(mv.to)
                   rivals == Rivals(pos, mv, DOMAIN sans)
               IN  (pos.squares[mv.from].kind # "Pawn" /\ rivals # {}) =>
                       /\ ParseMove(bare, sans) \cap ({mv} \cup rivals) = {}
                       /\ {mv} \cup rivals \subseteq UnderSpecified(bare, pos, sans)
            /\ mv.promo = "Queen" =>
                   PromotionDefault(Body(pos, [mv EXCEPT !.promo = "none"], DOMAIN sans), sans)
                       = {mv}

\* What other programs write into a PGN file: glyphs, comments in braces and to the
\* end of the line, with marks in them or without, and variations, with comments and
\* variations in them.
Annotations ==
    LET move == Word("move", <<"e", "4">>)
        texts == {<<>>, <<move>>, <<Mark("("), move, Mark(")")>>}
                 \cup {<<Mark(c)>> : c \in {"(", ")", "{", ";"}}
        comments == {<<Mark("{")>> \o text \o <<Mark("}")>> : text \in texts}
                    \cup {<<Mark(";")>> \o text \o <<Mark("newline")>> : text \in texts}
        Varied(notes) == {<<Mark("("), move>> \o note \o <<Mark(")")>> : note \in notes}
        plain == {<<>>, <<Word("glyph", <<>>)>>} \cup comments
    IN  plain \cup Varied(plain) \cup Varied(Varied(plain))

\* A note that begins with a parenthesis or a brace ends where those in it match, the
\* ones in its comments included.
Matched(note) ==
    LET Depth(open, close, i) == Cardinality({j \in 1..i : note[j] = Mark(open)})
                                 - Cardinality({j \in 1..i : note[j] = Mark(close)})
        Closes(open, close) ==
            note # <<>> /\ Head(note) = Mark(open)
                => \A i \in DOMAIN note : Depth(open, close, i) = 0 <=> i = Len(note)
    IN  Closes("(", ")") /\ Closes("{", "}")

\* The text of the moves of the line.
LineSans == [i \in DOMAIN line |-> ToSan(path[i], line[i].mv, LegalMoves(path[i]))]

=============================================================================
