-------------------------- MODULE MCStandaloneBoard --------------------------
EXTENDS StandaloneBoard, TLC

Row(a, b, c) == Line("row", <<a, b, c>>)
Order(c)     == Line(c, <<>>)
Passo(n)     == Line("PASSO", <<n>>)
Pos(l, c)    == Line("POS", <<l, c>>)

\* A ghost that charges, one that waits and wanders, one with a passo, and
\* pacmans with orders and without; nobody has a file "x".
MCEntities ==
  "c" :> <<Passo(0), Pos(0, 0), Order("C"), Order("D"), Order("A")>> @@
  "t" :> <<Passo(0), Pos(0, 2), Line("T", <<2>>), Order("R")>> @@
  "s" :> <<Passo(1), Pos(1, 0), Order("S"), Order("C"), Order("W")>> @@
  "p" :> <<Passo(1), Pos(0, 1), Order("R"), Order("D")>> @@
  "q" :> <<Passo(1), Pos(0, 1)>> @@
  "w" :> <<Passo(0), Pos(0, 1), Line("T", <<2>>), Order("D")>>

Size(h)   == Line("DIM", <<h, 3>>)
Tempo     == Line("TEMPO", <<10>>)
Mon(e)    == Line("MON", e)
Grid2     == <<Row("o", "o", "o"), Row("X", "o", "@")>>
Grid3     == <<Row("o", "o", "X"), Row("o", "o", "o"), Row("@", "X", "o")>>

MCJunk == {{}, {<<<<2, 0>>, "dot">>, <<<<0, 0>>, "portal">>}}

MCLevels == <<
  <<Size(2), Tempo, Mon(<<"c", "t">>)>> \o Grid2,
  <<Size(2), Tempo, Line("PAC", <<"q">>), Mon(<<"c">>)>> \o Grid2,
  <<Size(3), Tempo, Line("PAC", <<"p">>), Mon(<<"c", "s">>)>> \o Grid3,
  \* not sound: a blank line, a file that is not there, an end of line of DOS
  <<Size(2), Tempo, Mon(<<"c">>), Line("blank", <<>>)>> \o Grid2,
  <<Size(2), Tempo, Mon(<<"c", "x">>)>> \o Grid2,
  <<Size(2), Tempo, Line("MON_CR", <<"c">>)>> \o Grid2 >>

\* For PacmanWaitsEnd: a pacman that has to wait.
WaitingLevels == << <<Size(2), Tempo, Line("PAC", <<"w">>), Mon(<<"t">>)>> \o Grid2 >>
=============================================================================
