------------------------------ MODULE LevelFiles ------------------------------
(***************************************************************************)
(* How a session of the server loads its levels, one after another into    *)
(* the same board_t: read_level, read_pacman and read_ghosts, a line at a  *)
(* time, and the turns of the ghosts' scripts until the level is left.     *)
(* What the turns do to the board is Board's.                              *)
(*                                                                         *)
(* A line is [is, args]: its first word, "#" for a comment, "row" for one  *)
(* of the grid, "blank" for spaces, "" for nothing at all; and the rest.   *)
(***************************************************************************)
EXTENDS MoveScript, SequencesExt

CONSTANTS
  Levels,            \* the level files: a sequence of texts
  MaxLevels,         \* bound: levels in the directory
  Files,             \* the files of moves that can be opened, by name
  MaxMoves,          \* MAX_MOVES
  MaxGhosts          \* MAX_GHOSTS

Line(is, args) == [is |-> is, args |-> args]
Comment == Line("#", <<>>)
Nothing == Line("", <<>>)

Keywords == {"DIM", "TEMPO", "PAC", "MON"}
Letters(p) == {"W", "S", "A", "D", "R"} \cup IF p = 0 THEN {"G", "Q"} ELSE {"C"}

\* A size is not negative, other numbers are; "o" is any letter that is neither
\* a wall nor a portal.  No keyword is where a row of the grid belongs.
IsSequence(s) == s \in Seq(Range(s))
LineOK(l) ==
  /\ DOMAIN l = {"is", "args"} /\ IsSequence(l.args)
  /\ l.is = "DIM" => Range(l.args) \subseteq Nat
  /\ l.is \in {"PASSO", "POS", "T"} => Range(l.args) \subseteq Int
  /\ l.is = "row" => Range(l.args) \subseteq {"X", "o", "@"}
ASSUME FilesAssumption ==
  /\ MaxMoves \in Nat \ {0} /\ MaxGhosts \in Nat \ {0, 1} /\ MaxLevels \in Nat \ {0}
  /\ "" \notin DOMAIN Files
  /\ \A text \in Range(Levels) \cup Range(Files) :
       IsSequence(text) /\ \A l \in Range(text) : LineOK(l)
  /\ \A text \in Range(Levels) : \A l \in DOMAIN text :
       /\ text[l].is \in Keywords \cup {"row", "#", "blank", ""}
       /\ text[l].is = "row" => \A m \in l .. Len(text) : text[m].is \notin Keywords

VARIABLES
  pc,                \* "level", "header", "grid", "entity", "head", "moves",
                     \* "play", or "refused", "crashed"
  filenames,         \* of levels: which of Levels, in the order they are played
  level,             \* current_level, from 1
  comment,           \* every file has a comment after this many lines, or at
                     \* its beginning if it has fewer
  reader,            \* [rest, command, read, cut]: the file that is read
  board,             \* [w, h, pac, mons]: not reset between two levels
  content,           \* of each cell: "nul", " ", "W", "P", "M"
  dots, portals,     \* the cells with has_dot, has_portal
  row,               \* rows of the grid read so far
  who,               \* 0 for the pacman, then the ghosts
  players            \* 0 and the ghosts: [pos, passo, waiting, moves, cursor]

grid == <<content, dots, portals, row>>
vars == <<pc, filenames, level, comment, reader, board, grid, who, players>>

Opened(text) ==
  LET k == IF comment <= Len(text) THEN comment ELSE 0 IN
  [rest |-> SubSeq(text, 1, k) \o <<Comment>> \o SubSeq(text, k + 1, Len(text)),
   command |-> Nothing, read |-> 1, cut |-> FALSE]
Cells == DOMAIN content

read_line_eof(r) ==              \* slip: a line without a newline is no line
  IF Len(r.rest) < 2 THEN [r EXCEPT !.read = 0, !.command = Nothing, !.cut = FALSE]
  ELSE [rest |-> Tail(r.rest), command |-> Head(r.rest), cut |-> FALSE,
        read |-> IF Head(r.rest).is = "" THEN 0 ELSE 1]

\* read_line: 0 at the end of the file, and for a line with nothing on it.
read_line(r) ==
  IF r.rest = <<>> THEN [r EXCEPT !.read = 0, !.command = Nothing, !.cut = FALSE]
  ELSE [rest |-> Tail(r.rest), command |-> Head(r.rest), cut |-> FALSE,
        read |-> IF Head(r.rest).is = "" THEN 0 ELSE 1]
Word == reader.command.is
Args == reader.command.args
More == reader.read > 0
Skipped == More /\ Word \in {"#", "blank"}

Nobody == [pos |-> <<0, 0>>, passo |-> 0, waiting |-> 0, moves |-> <<>>,
           cursor |-> [waiting |-> 0, current |-> 0, left |-> <<>>]]
NoFile == [rest |-> <<>>, command |-> Nothing, read |-> 0, cut |-> FALSE]

\* scan_level_directory: the levels there are, in the order of readdir.
scan_level_directory ==
  {f \in UNION {[1 .. n -> DOMAIN Levels] : n \in 1 .. MaxLevels} :
     \A a, b \in DOMAIN f : a # b => f[a] # f[b]}

Init ==
  /\ pc = "level" /\ filenames \in scan_level_directory /\ level = 1
  /\ comment \in UNION {0 .. Len(text) : text \in Range(Levels)}
  /\ reader = NoFile /\ board = [w |-> 0, h |-> 0, pac |-> "", mons |-> <<>>]
  /\ content = <<>> /\ dots = {} /\ portals = {} /\ row = 0
  /\ who = 0 /\ players = <<>>
-----------------------------------------------------------------------------
(* read_level.                                                             *)

OpenLevel ==
  /\ pc = "level" /\ pc' = "header"
  /\ reader' = read_line(Opened(Levels[filenames[level]])) /\ board' = [board EXCEPT !.pac = ""]
  /\ UNCHANGED <<filenames, level, comment, grid, who, players>>

NamesKept(names) ==
  SubSeq(names, 1, IF Len(names) < MaxGhosts - 1 THEN Len(names) ELSE MaxGhosts - 1)

HeaderLine ==
  /\ pc = "header" /\ (Skipped \/ (More /\ Word \in Keywords))
  /\ board' = CASE Word = "DIM" /\ Len(Args) > 1 -> [board EXCEPT !.w = Args[1], !.h = Args[2]]
                [] Word = "PAC" /\ Args # <<>>  -> [board EXCEPT !.pac = Args[1]]
                [] Word = "MON"                 -> [board EXCEPT !.mons = NamesKept(Args)]
                [] OTHER                        -> board
  /\ reader' = read_line(reader) /\ UNCHANGED <<pc, filenames, level, comment, grid, who, players>>

\* The first line that is none of these is the first one of the grid.
HeaderEnds ==
  /\ pc = "header" /\ ~Skipped /\ ~(More /\ Word \in Keywords)
  /\ board.w # 0 /\ board.h # 0 /\ pc' = "grid"
  /\ content' = [c \in (0 .. board.w - 1) \X (0 .. board.h - 1) |-> "nul"]
  /\ dots' = {} /\ portals' = {} /\ row' = 0
  /\ players' = [p \in 0 .. Len(board.mons) |-> Nobody]
  /\ UNCHANGED <<filenames, level, comment, reader, board, who>>

\* load_level fails, run_game_session goes on: start_ghost_threads has no
\* ghost_tids, and without ghosts there is a session without a board.
NoDimensions ==
  /\ pc = "header" /\ ~Skipped /\ ~(More /\ Word \in Keywords)
  /\ board.w = 0 \/ board.h = 0
  /\ pc' = IF board.mons = <<>> THEN "refused" ELSE "crashed"
  /\ UNCHANGED <<filenames, level, comment, reader, board, grid, who, players>>

\* One row: the end of a short line is a dot, what is beyond is from the
\* lines before or was never written.
Letter(x, junk) == IF x < Len(Args) THEN Args[x + 1]
                   ELSE IF x = Len(Args) THEN "o" ELSE junk[x]
RowBeyond == Len(Args) + 1 .. board.w - 1
RowLeftOver == row <= board.h                      \* slip: one row too many
RowLeft == row < board.h
GridLine ==
  /\ pc = "grid" /\ More /\ Word # "#" /\ RowLeft
  /\ \E junk \in [RowBeyond -> {"X", "o", "@"}] :
       LET here(letter) == {<<x, row>> : x \in {i \in 0 .. board.w - 1 : Letter(i, junk) = letter}}
       IN /\ content' = [c \in Cells |-> IF c[2] # row THEN content[c]
                           ELSE IF c \in here("X") THEN "W" ELSE " "]
          /\ dots' = dots \cup here("o") /\ portals' = portals \cup here("@")
  /\ row' = row + 1 /\ reader' = read_line(reader)
  /\ UNCHANGED <<pc, filenames, level, comment, board, who, players>>

\* A comment among the rows, or after them, is read again for ever.
GridEnds ==
  /\ pc = "grid" /\ (~More \/ (Word # "#" /\ ~RowLeft))
  /\ pc' = "entity" /\ who' = 0
  /\ UNCHANGED <<filenames, level, comment, reader, board, grid, players>>
-----------------------------------------------------------------------------
(* read_pacman and read_ghosts, and the rest of load_level.                *)

\* Without a file the pacman takes the first free cell.
Free == {c \in Cells : content[c] = " "}
PacmanByDefault ==
  /\ pc = "entity" /\ who = 0 /\ board.pac = "" /\ who' = 1
  /\ IF Free = {} THEN UNCHANGED <<content, players>>
     ELSE LET first == CHOOSE c \in Free : \A d \in Free :
                         c[2] < d[2] \/ (c[2] = d[2] /\ c[1] <= d[1]) IN
          /\ content' = [content EXCEPT ![first] = "P"]
          /\ players' = [players EXCEPT ![0].pos = first]
  /\ UNCHANGED <<pc, filenames, level, comment, reader, board, dots, portals, row>>

NameOf(p) == IF p = 0 THEN board.pac ELSE board.mons[p]
Opens(p) == p \in DOMAIN players /\ (p = 0 => board.pac # "")

OpenEntity ==
  /\ pc = "entity" /\ Opens(who) /\ NameOf(who) \in DOMAIN Files
  /\ pc' = "head" /\ reader' = read_line(Opened(Files[NameOf(who)]))
  /\ UNCHANGED <<filenames, level, comment, board, grid, who, players>>

\* A file that cannot be opened: read_pacman and read_ghosts return -1, and
\* the ghosts that come after it are not read either.
EntityFails ==
  /\ pc = "entity" /\ Opens(who) /\ NameOf(who) \notin DOMAIN Files
  /\ who' = IF who = 0 THEN 1 ELSE Len(board.mons) + 1
  /\ UNCHANGED <<pc, filenames, level, comment, reader, board, grid, players>>

Placed == Word = "POS" /\ Len(Args) > 1
Place  == <<Args[1], Args[2]>>
HeadLine ==
  /\ pc = "head" /\ (Skipped \/ (More /\ Word \in {"PASSO", "POS"}))
  /\ players' = CASE Word = "PASSO" /\ Args # <<>> ->
                       [players EXCEPT ![who].passo = Args[1], ![who].waiting = Args[1]]
                  [] Placed -> [players EXCEPT ![who].pos = Place]
                  [] OTHER  -> players
  /\ content' = IF Placed THEN [content EXCEPT ![Place] = IF who = 0 THEN "P" ELSE "M"]
                ELSE content
  /\ reader' = read_line(reader)
  /\ UNCHANGED <<pc, filenames, level, comment, board, dots, portals, row, who>>

HeadEndsReading ==               \* slip: the line in hand is dropped
  /\ pc = "head" /\ ~Skipped /\ ~(More /\ Word \in {"PASSO", "POS"})
  /\ pc' = "moves" /\ reader' = read_line(reader)
  /\ UNCHANGED <<filenames, level, comment, board, grid, who, players>>

\* strtok has cut this line after its first word.
HeadEnds ==
  /\ pc = "head" /\ ~Skipped /\ ~(More /\ Word \in {"PASSO", "POS"})
  /\ pc' = "moves" /\ reader' = [reader EXCEPT !.cut = TRUE]
  /\ UNCHANGED <<filenames, level, comment, board, grid, who, players>>

Kept ==
  CASE Word \in Letters(who) -> <<[command |-> Word, turns |-> 1]>>
    [] Word = "T" /\ ~reader.cut /\ Args # <<>> /\ Args[1] > 0 ->
         <<[command |-> "T", turns |-> Args[1]]>>
    [] OTHER -> <<>>

Room(moves) == Len(moves) < MaxMoves

MovesLine ==
  /\ pc = "moves" /\ More /\ Room(players[who].moves) /\ Word # "#"
  /\ players' = [players EXCEPT ![who].moves = @ \o Kept]
  /\ reader' = read_line(reader)
  /\ UNCHANGED <<pc, filenames, level, comment, board, grid, who>>

MovesEnd ==
  /\ pc = "moves" /\ ~(More /\ Room(players[who].moves))
  /\ pc' = "entity" /\ who' = who + 1
  /\ UNCHANGED <<filenames, level, comment, reader, board, grid, players>>

Script(p) == [passo |-> players[p].passo, moves |-> players[p].moves,
              steps |-> Directions \cup {"R", "C"}]
Ready ==
  /\ pc = "entity" /\ who \notin DOMAIN players /\ pc' = "play"
  /\ players' = [p \in DOMAIN players |->
       [players[p] EXCEPT !.cursor = Start(Script(p), players[p].waiting)]]
  /\ UNCHANGED <<filenames, level, comment, reader, board, grid, who>>
-----------------------------------------------------------------------------
(* The level is played.                                                    *)

Ghosts == DOMAIN players \ {0}

GhostTurn(g) ==
  /\ pc = "play" /\ players[g].moves # <<>>
  /\ players' = [players EXCEPT ![g].cursor = Tick(Script(g), @)]
  /\ UNCHANGED <<pc, filenames, level, comment, reader, board, grid, who>>

\* current_move % n_moves of a ghost that has none ends the server.
GhostDivides(g) ==
  /\ pc = "play" /\ players[g].moves = <<>> /\ pc' = "crashed"
  /\ UNCHANGED <<filenames, level, comment, reader, board, grid, who, players>>

unload_level ==
  /\ pc = "play" /\ level < Len(filenames) /\ level' = level + 1 /\ pc' = "level"
  /\ content' = <<>> /\ dots' = {} /\ portals' = {} /\ row' = 0 /\ players' = <<>>
  /\ UNCHANGED <<filenames, comment, reader, board, who>>

Reads == \/ OpenLevel \/ HeaderLine \/ HeaderEnds \/ NoDimensions \/ GridLine \/ GridEnds
         \/ PacmanByDefault \/ OpenEntity \/ EntityFails \/ HeadLine \/ HeadEnds
         \/ MovesLine \/ MovesEnd \/ Ready
Next  == Reads \/ unload_level \/ \E g \in Ghosts : GhostTurn(g) \/ GhostDivides(g)
Spec  == Init /\ [][Next]_vars
\* The manager's thread is never kept from reading.
FairSpec == Spec /\ WF_vars(Reads)
-----------------------------------------------------------------------------
(* The files, read without the program.                                    *)

LinesOf(text, is) == {l \in DOMAIN text : text[l].is = is}
ArgsOf(text, is)  == IF LinesOf(text, is) = {} THEN <<>>
                     ELSE text[Min(LinesOf(text, is))].args
FirstRow(text)    == Min(LinesOf(text, "row") \cup {Len(text) + 1})
Of   == [k \in DOMAIN Levels |->
  LET text == Levels[k] IN
  [dim |-> ArgsOf(text, "DIM"), mons |-> ArgsOf(text, "MON"), pac |-> ArgsOf(text, "PAC"),
   rows |-> [y \in 1 .. Len(text) + 1 - FirstRow(text) |-> text[FirstRow(text) + y - 1].args]]]
Orders == [e \in DOMAIN Files |-> [k \in 1 .. Len(Files[e]) - 2 |->
  LET line == Files[e][k + 2] IN
  [command |-> line.is, turns |-> IF line.is = "T" THEN line.args[1] ELSE 1]]]

\* A file of orders, all of which fit, the first one not to wait.
Sings == {e \in DOMAIN Files :
            LET text == Files[e] IN
            /\ Len(text) - 2 \in 1 .. MaxMoves /\ text[3].is # "T"
            /\ text[1].is = "PASSO" /\ text[1].args # <<>> /\ text[1].args[1] >= 0
            /\ text[2].is = "POS" /\ Len(text[2].args) > 1
            /\ \A l \in 3 .. Len(text) :
                 \/ text[l].is \in Directions \cup {"R", "C"}
                 \/ text[l].is = "T" /\ text[l].args # <<>> /\ text[l].args[1] > 0}
PosOf(e) == <<Files[e][2].args[1], Files[e][2].args[2]>>
CellsOf(k, letters) == {c \in (0 .. Of[k].dim[1] - 1) \X (0 .. Of[k].dim[2] - 1) :
                          Of[k].rows[c[2] + 1][c[1] + 1] \in letters}

\* A complete level: every line that is asked for, and what is said again is
\* said alike; in the end only rows, at least as many and as long as DIM says,
\* no comment among them or among the orders of a file; a place for everybody.
Clear(text, head) == comment <= head \/ comment > Len(text)
Sound(k) ==
  LET text == Levels[k]
      of   == Of[k] IN
  /\ Clear(text, FirstRow(text) - 1)
  /\ \A l \in DOMAIN text :
       /\ text[l].is # "" /\ (l > FirstRow(text) => text[l].is = "row")
       /\ text[l].is \in {"DIM", "PAC", "MON"} => text[l].args = ArgsOf(text, text[l].is)
  /\ Len(of.dim) > 1 /\ Len(of.mons) \in 1 .. MaxGhosts - 1
  /\ Len(of.rows) >= of.dim[2] /\ \A y \in 1 .. of.dim[2] : Len(of.rows[y]) >= of.dim[1]
  /\ \A e \in Range(of.mons) \cup Range(of.pac) :
       e \in Sings /\ Clear(Files[e], 2) /\ PosOf(e) \in CellsOf(k, {"X", "o", "@"})
  /\ of.pac = <<>> => CellsOf(k, {"o", "@"}) # {}

Now == filenames[level]
-----------------------------------------------------------------------------
\* The type invariant: no row, name or move is stored past the end of its
\* array, whatever the files have.
FilesTypeOK ==
  /\ pc \in {"level", "header", "grid", "entity", "head", "moves", "play",
            "refused", "crashed"}
  /\ level \in DOMAIN filenames /\ reader.read \in {0, 1}
  /\ Len(board.mons) < MaxGhosts /\ (pc = "grid" => row \in 0 .. board.h)
  /\ content \in [Cells -> {"nul", " ", "W", "P", "M"}]
  /\ dots \subseteq Cells /\ portals \subseteq Cells
  /\ \A p \in DOMAIN players : Len(players[p].moves) <= MaxMoves

\* What this level's files say, whatever level was played before it on the same
\* board: size, walls, dots and portals; as many ghosts as MON names, each with
\* his moves, where POS puts him (column, then line); the pacman where POS has
\* him or on the first free cell.
Written ==
  LET mons   == Of[Now].mons
      free   == CellsOf(Now, {"o", "@"})
      starts == {players[p].pos : p \in DOMAIN players} IN
  /\ Cells = free \cup CellsOf(Now, {"X"})
  /\ {c \in Cells : content[c] = "W"} = CellsOf(Now, {"X"}) \ starts
  /\ dots = CellsOf(Now, {"o"}) /\ portals = CellsOf(Now, {"@"})
  /\ DOMAIN players = 0 .. Len(mons)
  /\ \A g \in DOMAIN mons : /\ players[g].pos = PosOf(mons[g])
                            /\ players[g].moves = Orders[mons[g]]
                            /\ content[PosOf(mons[g])] = "M"
  /\ IF Of[Now].pac # <<>> THEN players[0].pos = PosOf(Of[Now].pac[1])
     ELSE \A c \in free : LET p == players[0].pos IN
            p \in free /\ (p[2] < c[2] \/ (p[2] = c[2] /\ p[1] <= c[1]))

\* load_level: a complete level is played as its files have it.
LevelAsWritten == [][pc' = "play" /\ pc # "play" /\ Sound(Now) => Written']_vars

\* lvl/2.m: "Todos os comandos após PASSO e POS são executados em ciclo
\* infinito".  Every ghost of a complete level keeps the Timetable
\* of its file, which begins anew with each level, passo turns before the
\* first order.
GhostOf(e) == CHOOSE g \in Ghosts : board.mons[g] = e
Plays(e)   == pc = "play" /\ Sound(Now) /\ \E g \in Ghosts : board.mons[g] = e
PassoOf(e) == Files[e][1].args[1]
Begin(e)   == IF PassoOf(e) = 0 THEN <<1, 0>>
              ELSE LET last == Orders[e][Len(Orders[e])] IN
                   <<Len(Orders[e]), last.turns * (1 + PassoOf(e)) - PassoOf(e)>>
Time(e)    == IF Plays(e) THEN TimeOf(Script(GhostOf(e)), players[GhostOf(e)].cursor)
              ELSE Begin(e)
Table(e)   == INSTANCE Timetable WITH Moves <- Orders[e], Passo <- PassoOf(e),
                First <- Begin(e), order <- Time(e)[1], turn <- Time(e)[2],
                due <- IF Plays(e) THEN Issues(Script(GhostOf(e)), players[GhostOf(e)].cursor)
                       ELSE IF PassoOf(e) > 0 THEN "wait" ELSE Orders[e][1].command
OrdersServed ==
  [][\A e \in Sings : IF Plays(e) /\ pc' = "play" THEN Table(e)!Step
                      ELSE Table(e)!Init']_<<pc, players>>

\* A complete level is played: reading it comes to an end, it is not refused,
\* and its ghosts never end the server.
SoundLevelsPlay == Sound(Now) ~> pc = "play"

\* What keeps a level from being played: it is refused, a ghost without orders
\* ends the server, or a comment among its rows or orders is read for ever.
Survives ==
  Sound(Now) => /\ pc \notin {"refused", "crashed"}
                /\ pc = "grid" /\ More => Word # "#"
                /\ pc = "moves" /\ More => Word # "#"

\* lvl/2.m: "POS: comando de colocação inicial do monstro (linha e coluna)".
MonsterWhereAsked ==
  [][pc' = "play" /\ pc # "play" /\ Sound(Now) =>
       \A g \in DOMAIN Of[Now].mons :
         LET p == PosOf(Of[Now].mons[g]) IN players'[g].pos = <<p[2], p[1]>>]_vars

\* lvl/2.m: "Todos os comandos após PASSO e POS são executados": also the
\* first one of a file, when that is a T.
FirstOrderKept ==
  [][pc = "moves" /\ reader.cut /\ Word = "T" => players'[who].moves # <<>>]_vars

\* A level is played by the monsters that its own file names.
GhostsOfThisLevel == pc = "play" => board.mons = NamesKept(Of[Now].mons)

\* A comment keeps no level from being loaded, wherever it is.
CommentsAreSkipped == pc = "level" ~> pc \in {"play", "refused", "crashed"}
=============================================================================
