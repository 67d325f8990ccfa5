------------------------------- MODULE MCSearch -------------------------------
(***************************************************************************)
(* Small games for TLC: six or seven positions, with several choices of    *)
(* who is in check, what captures and what the middle ones lead to.        *)
(***************************************************************************)
EXTENDS Search

Game(moves, checked, captures, pass, value) ==
    [root |-> 1, moves |-> moves, checked |-> checked, captures |-> captures, pass |-> pass,
     dead |-> {}, value |-> value, gain |-> <<0, 100, 0, 300, 100, 500, 0>>]

\* Games that end, in which positions are reached by ways of different lengths.
Ending ==
    {Game(<<first, second, <<5, 4>>, fourth, fifth, <<>>, <<>>>>, checked, captures,
          <<0, 0, 0, 0, 0, 0, 0>>, value) :
        first \in {<<2, 3>>, <<3, 2>>}, second \in {<<3, 4>>, <<5, 3>>, <<7>>, <<7, 3>>},
        fourth \in {<<>>, <<5, 6>>, <<6>>}, fifth \in {<<>>, <<6>>},
        checked \in {c \cup {6} : c \in SUBSET {3, 4, 5}},
        captures \in {{}, {<<3, 5>>, <<4, 6>>}},
        value \in {<<10, -40, 30, 0, 250, -90, 60>>, <<-10, 140, -30, 50, -250, 90, 60>>}}

\* Games that go round, with passes and more moves than are searched in full.
Endless ==
    {Game(<<<<2, 4, 3, 7, 5>>, second, <<5, 1>>, fourth, <<6, 2>>, <<>>, <<4>>>>, checked, captures,
          pass, <<10, -40, 30, 0, 250, -90, 60>>) :
        second \in {<<3, 4>>, <<1, 5>>, <<4, 7, 1>>}, fourth \in {<<3>>, <<5, 7>>, <<7, 1, 5>>},
        checked \in {{6}, {4, 6}, {3, 6}, {4, 5, 6}, {}}, captures \in {{}, {<<3, 5>>, <<5, 6>>}},
        pass \in {<<0, 0, 0, 0, 0, 0, 0>>, <<0, 4, 0, 2, 0, 0, 3>>}}

\* A position with too little material has no moves here: no way leads out of it.
Drawish == {[g EXCEPT !.dead = {5}, !.moves[5] = <<>>] : g \in {h \in Ending : 5 \notin h.checked}}

MCGames == Ending \cup Endless \cup Drawish
=============================================================================
