---------------------------- MODULE MCLevelFiles ----------------------------
EXTENDS LevelFiles

Row(a, b, c) == Line("row", <<a, b, c>>)
Order(c)     == Line(c, <<>>)
Wait(n)      == Line("T", <<n>>)
Passo(n)     == Line("PASSO", <<n>>)
Pos(x, y)    == Line("POS", <<x, y>>)

\* Complete files: a wait, a passo, a single order; then one that begins with
\* a wait, one that is too long, one without an order; nobody has "x".
MCFiles ==
  "a" :> <<Passo(1), Pos(1, 0), Order("A"), Wait(2), Order("R")>> @@
  "c" :> <<Passo(0), Pos(2, 1), Order("C")>> @@
  "p" :> <<Passo(2), Pos(0, 1), Order("D"), Wait(2)>> @@
  "t" :> <<Passo(0), Pos(2, 0), Wait(2), Order("W")>> @@
  "l" :> <<Passo(0), Pos(0, 1), Order("A"), Wait(0), Order("D"), Order("A"), Order("W")>> @@
  "e" :> <<Pos(0, 1), Line("blank", <<>>), Passo(1), Line("POS", <<2>>)>>

Size(w, h) == Line("DIM", <<w, h>>)
Tempo      == Line("TEMPO", <<10>>)
Mon(e)     == Line("MON", e)
Pac(e)     == Line("PAC", e)
Blank      == Line("blank", <<>>)
Grid       == <<Row("X", "o", "@"), Row("o", "X", "o")>>

Whole  == <<Size(3, 2), Blank, Tempo, Mon(<<"a", "c">>)>> \o Grid
Other  == <<Tempo, Pac(<<"p">>), Mon(<<"c">>), Size(3, 2)>> \o Grid \o <<Row("o", "o", "o")>>
Short  == <<Size(3, 2), Mon(<<"t">>), Line("row", <<"o">>)>>
Many   == <<Size(3, 2), Line("DIM", <<2>>), Pac(<<>>), Mon(<<"l", "c", "a", "t">>)>> \o Grid
Empty  == <<Size(3, 2), Mon(<<"a", "e">>), Nothing>> \o Grid
Absent == <<Size(3, 2), Pac(<<"x">>), Mon(<<"c", "x", "a">>)>> \o Grid
NoSize == <<Tempo, Mon(<<"a">>)>> \o Grid
Alone  == <<Tempo>> \o Grid

MCLevels == <<Whole, Other, Short, Many, Empty, Absent, NoSize, Alone>>
=============================================================================
