--------------------------- MODULE StandaloneBoard ---------------------------
(***************************************************************************)
(* One level of the standalone game: it is read from its files, and then   *)
(* the pacman and the ghosts move in turn, one at a time under board_lock. *)
(* Backups and the end of the threads are StandaloneGame's.                *)
(***************************************************************************)
EXTENDS StandaloneFiles, MoveScript

CONSTANTS
  LevelTexts,        \* the level files there are: a sequence of texts
  EntityTexts,       \* what can be opened in the level's directory, by name
  Junk               \* bound: the sets of <<cell, flag>> that malloc may leave
                     \* not zero, flag "dot" or "portal"

MonLine(text) == IF text[3].is \in {"MON", "MON_CR"} THEN 3 ELSE 4
IsSequence(s) == s \in Seq(ToSet(s))

MAX_MOVES  == 20
MAX_GHOSTS == 25
MAX_HEIGHT == 250

\* Lines in their documented order and enough of them: rows that are missing
\* are read from the stack.  No more of them than the arrays have room for, a
\* last newline included.  Comments come with the layout.
ASSUME FilesAssumption ==
  /\ {} \in Junk
  /\ \A k \in DOMAIN LevelTexts :
       LET text == LevelTexts[k]
           n    == MonLine(text) IN
       /\ IsSequence(text) /\ \A l \in DOMAIN text : text[l].is # "comment"
       /\ text[1].is = "DIM" /\ text[2].is = "TEMPO"
       /\ \A l \in 1 .. 2 : text[1].args[l] \in 2 .. 40
       /\ text[n].is \in {"MON", "MON_CR"} /\ Len(text) >= n + text[1].args[1]
       /\ Len(text) < n + MAX_HEIGHT
       /\ IsSequence(text[n].args) /\ Len(text[n].args) <= MAX_GHOSTS
  /\ \A e \in DOMAIN EntityTexts :
       LET text == EntityTexts[e] IN
       /\ IsSequence(text) /\ \A l \in DOMAIN text : text[l].is \notin {"comment", "blank"}
       /\ Len(text) >= 2 /\ text[1].is = "PASSO" /\ text[2].is = "POS"
       /\ Len(text) <= 2 + MAX_MOVES

VARIABLES
  pc,                \* "load", "play", or how the process was lost
  level,             \* which of LevelTexts
  layout,            \* a comment after that line of the files; a last newline
  content,           \* of each cell: " ", "W" wall, "P" pacman, "M" monster
  dots, portals,     \* the cells whose has_dot, has_portal is not zero
  pac,               \* [pos, alive, points, script, cursor]
  ghosts,            \* a sequence of [pos, charged, script, cursor]
  thread,            \* 0 is pacman_thread: "test", "act" or "done"
  result             \* *result, which main waits on

board == <<content, dots, portals, pac, ghosts>>
vars  == <<pc, level, layout, board, thread, result>>

Cells == DOMAIN content
Ahead(c, d, k) == CASE d = "W" -> <<c[1], c[2] - k>> [] d = "S" -> <<c[1], c[2] + k>>
                    [] d = "A" -> <<c[1] - k, c[2]>> [] d = "D" -> <<c[1] + k, c[2]>>

\* A file as it may be laid out: with or without a newline at its end, and
\* with a comment before any line but the last one.
Lines(text)     == IF layout.newline THEN Append(text, Blank) ELSE text
CommentAt(text) == IF layout.comment < Len(Lines(text)) THEN layout.comment + 1 ELSE 1
LaidOut(text) ==
  [n \in 1 .. Len(Lines(text)) + 1 |->
     CASE n < CommentAt(text) -> Lines(text)[n]
       [] n = CommentAt(text) -> Comment
       [] n > CommentAt(text) -> Lines(text)[n - 1]]

Plain == [comment |-> 0, newline |-> FALSE]
Entity(name) ==
  IF name \in DOMAIN EntityTexts THEN load_entity_file(LaidOut(EntityTexts[name]))
  ELSE NoFile
Script(e, steps) == [passo |-> e.passo, moves |-> e.moves, steps |-> steps]
PacmanScript(e)  == Script(e, Directions \cup {"R"})
GhostScript(e)   == Script(e, Directions \cup {"R", "C"})

Init ==
  /\ pc = "load" /\ level \in DOMAIN LevelTexts
  /\ layout \in [comment : 0 .. Len(LevelTexts[level]), newline : BOOLEAN]
  /\ content = <<>> /\ dots = {} /\ portals = {} /\ ghosts = <<>>
  /\ pac = [pos |-> <<0, 0>>, alive |-> FALSE, points |-> 0,
            script |-> PacmanScript(NoFile), cursor |-> Start(PacmanScript(NoFile), 0)]
  /\ thread = <<>> /\ result = "CONTINUE"
-----------------------------------------------------------------------------
(* process_file, load_level and start_threads.                             *)

\* process_board sets the flags its letters ask for; malloc left the others.
Cleared(f, junk) ==
  /\ dots'    = {c \in Grid(f) : Read(f, c) = "o" \/ <<c, "dot">> \in junk}
  /\ portals' = {c \in Grid(f) : Read(f, c) = "@" \/ <<c, "portal">> \in junk}

PacmanOf(f) ==
  LET e == IF f.pac = "none" THEN [NoFile EXCEPT !.pos = <<1, 1>>] ELSE Entity(f.pac) IN
  [pos |-> e.pos, alive |-> TRUE, points |-> 0, script |-> PacmanScript(e),
   cursor |-> Start(PacmanScript(e), 0)]
GhostsOf(f) == [g \in DOMAIN f.mons |->
  LET e == Entity(f.mons[g]) IN
  [pos |-> e.pos, charged |-> FALSE, script |-> GhostScript(e),
   cursor |-> Start(GhostScript(e), 0)]]

Loads ==
  LET f == process_file(LaidOut(LevelTexts[level])) IN
  /\ pc = "load" /\ ~Hangs(f) /\ Known(f) /\ pc' = "play"
  /\ pac' = PacmanOf(f) /\ ghosts' = GhostsOf(f)
  /\ \E junk \in Junk : Cleared(f, junk)
  /\ content' = [c \in Grid(f) |->
       CASE c = pac'.pos -> "P"
         [] c # pac'.pos /\ \E g \in DOMAIN f.mons : ghosts'[g].pos = c -> "M"
         [] OTHER -> IF Read(f, c) = "X" THEN "W" ELSE " "]
  /\ thread' = [t \in {0} \cup DOMAIN f.mons |-> "test"]
  /\ layout' = Plain /\ UNCHANGED <<level, result>>

\* A name that is never passed, or load_level writing to the board NULL.
LoadIsLost ==
  LET f == process_file(LaidOut(LevelTexts[level])) IN
  /\ pc = "load" /\ (Hangs(f) \/ ~Known(f))
  /\ pc' = IF Hangs(f) THEN "hangs" ELSE "crashed"
  /\ layout' = Plain /\ UNCHANGED <<level, board, thread, result>>
-----------------------------------------------------------------------------
(* pacman_thread and move_pacman.                                          *)

Goto(t, from, to) ==
  /\ pc = "play" /\ thread[t] = from /\ thread' = [thread EXCEPT ![t] = to]

PacmanTests ==
  /\ Goto(0, "test", IF pac.alive THEN "act" ELSE "done")
  /\ UNCHANGED <<pc, level, layout, board, result>>

\* The next command, typed or from the file.
FromFile == pac.script.moves # <<>>
Commands == IF FromFile THEN {Move(pac.script, pac.cursor).command}
            ELSE Directions \cup {"Q"}
NoKey ==
  /\ ~FromFile /\ Goto(0, "act", "test")
  /\ UNCHANGED <<pc, level, layout, board, result>>

\* A turn of the pacman: passo holds for typed commands too.  pacman_thread
\* hands over a copy of its command, so that turns_left stays.
Ticked == IF FromFile
          THEN [pac EXCEPT !.cursor = [Tick(pac.script, @) EXCEPT !.left = pac.cursor.left]]
          ELSE [pac EXCEPT !.cursor.waiting = IF @ > 0 THEN @ - 1 ELSE pac.script.passo]
Orders(c) == IF pac.cursor.waiting > 0 THEN {"wait"}
             ELSE IF c = "R" THEN Directions ELSE {c}

Arrives(to) ==
  content' = [content EXCEPT ![pac.pos] = " ", ![to] = "P"]
Stays == pac' = Ticked /\ UNCHANGED <<content, dots>>

EatsForEver(to) ==                \* slip: the dot stays
  /\ UNCHANGED dots
  /\ pac' = [Ticked EXCEPT !.pos = to, !.points = @ + (IF to \in dots THEN 1 ELSE 0)]

Eats(to) ==
  /\ dots' = dots \ {to}
  /\ pac' = [Ticked EXCEPT !.pos = to, !.points = @ + (IF to \in dots THEN 1 ELSE 0)]

\* A step in direction d comes to r.
PacmanMoves(d, r) ==
  LET to == Ahead(pac.pos, d, 1) IN
  \/ to \notin Cells /\ r = "valid" /\ Stays
  \/ /\ to \in portals /\ r = "portal"
     /\ Arrives(to) /\ pac' = Ticked /\ UNCHANGED dots
  \/ to \in Cells \ portals /\ content[to] = "W" /\ r = "valid" /\ Stays
  \/ /\ to \in Cells \ portals /\ content[to] = "M" /\ r = "dead"
     /\ content' = [content EXCEPT ![pac.pos] = " "] /\ UNCHANGED dots
     /\ pac' = [Ticked EXCEPT !.alive = FALSE]
  \/ /\ to \in Cells \ portals /\ content[to] \notin {"W", "M"} /\ r = "valid"
     /\ Arrives(to) /\ Eats(to)

PacmanMoveDead(o, r) ==          \* slip: alive is not tested under the lock
  \/ o \notin Directions /\ r = "valid" /\ Stays
  \/ o \in Directions /\ PacmanMoves(o, r)

PacmanMove(o, r) ==
  \/ ~pac.alive /\ r = "dead" /\ UNCHANGED <<content, dots, pac>>
  \/ pac.alive /\ o \notin Directions /\ r = "valid" /\ Stays
  \/ pac.alive /\ o \in Directions /\ PacmanMoves(o, r)

ResultOf(c, r) == CASE r = "portal" -> "NEXT" [] r = "dead" -> "QUIT"
                    [] r = "valid"  -> IF c = "Q" THEN "QUIT" ELSE "CONTINUE"

PacmanTurn ==
  /\ \E c \in Commands : \E o \in Orders(c), r \in {"valid", "portal", "dead"} :
       PacmanMove(o, r) /\ result' = ResultOf(c, r)
  /\ Goto(0, "act", IF result' = "CONTINUE" THEN "test" ELSE "done")
  /\ UNCHANGED <<pc, level, layout, portals, ghosts>>
-----------------------------------------------------------------------------
(* ghost_thread, move_ghost and move_ghost_charged.                        *)

GhostTests(g) ==
  /\ Goto(g, "test", IF result = "CONTINUE" THEN "act" ELSE "done")
  /\ UNCHANGED <<pc, level, layout, board, result>>

\* current_move % n_moves of a file without moves, or one not opened.
GhostDivides(g) ==
  /\ pc = "play" /\ thread[g] = "act" /\ ghosts[g].script.moves = <<>>
  /\ pc' = "crashed" /\ UNCHANGED <<level, layout, board, thread, result>>

\* A charge goes on to the first cell that is not empty: it stops before a
\* wall or a ghost, and takes the place of the pacman.
ChargeStop(c, d) ==
  LET reach  == {k \in 1 .. Cardinality(Cells) : Ahead(c, d, k) \in Cells}
      barred == {k \in reach : content[Ahead(c, d, k)] # " "} IN
  IF barred = {} THEN Ahead(c, d, Cardinality(reach))
  ELSE LET k == Min(barred) IN
       Ahead(c, d, IF content[Ahead(c, d, k)] = "P" THEN k ELSE k - 1)

GhostPlaceTwice(g, to) ==           \* slip: the old cell keeps its monster
  /\ content' = [content EXCEPT ![to] = "M"]
  /\ pac' = [pac EXCEPT !.alive = @ /\ pac.pos # to]

GhostPlace(g, to) ==
  /\ content' = [content EXCEPT ![ghosts[g].pos] = " ", ![to] = "M"]
  /\ pac' = [pac EXCEPT !.alive = @ /\ ~(content[to] = "P" /\ pac.pos = to)]

\* A step needs a free cell ahead, a charge only one that is on the board.
HasRoom(g, o) ==
  LET to == Ahead(ghosts[g].pos, o, 1) IN
  /\ o \in Directions /\ to \in Cells
  /\ ghosts[g].charged \/ content[to] \notin {"W", "M"}

GhostTurn(g) ==
  LET me    == ghosts[g]
      order == Issues(me.script, me.cursor) IN
  /\ me.script.moves # <<>> /\ Goto(g, "act", "test")
  /\ \E o \in IF order = "R" THEN Directions ELSE {order} :
       LET to == IF ~HasRoom(g, o) THEN me.pos
                 ELSE IF me.charged THEN ChargeStop(me.pos, o)
                 ELSE Ahead(me.pos, o, 1) IN
       /\ ghosts' = [ghosts EXCEPT ![g].pos = to,
            ![g].cursor  = Tick(me.script, @),
            ![g].charged = IF o \in Directions THEN FALSE ELSE @ \/ o = "C"]
       /\ IF HasRoom(g, o) THEN GhostPlace(g, to) ELSE UNCHANGED <<content, pac>>
  /\ UNCHANGED <<pc, level, layout, dots, portals, result>>
-----------------------------------------------------------------------------
Players == DOMAIN ghosts
Numbers == UNION {DOMAIN LevelTexts[k][n].args :
                     k \in DOMAIN LevelTexts, n \in 3 .. 4}
PacmanStep   == PacmanTests \/ NoKey \/ PacmanTurn
GhostStep(g) == GhostTests(g) \/ GhostDivides(g) \/ GhostTurn(g)

Next == Loads \/ LoadIsLost \/ PacmanStep \/ \E g \in Players : GhostStep(g)
Spec == Init /\ [][Next]_vars
\* Every thread goes on: board_lock is free whenever nobody moves.
FairSpec == /\ Spec /\ WF_vars(PacmanStep)
            /\ \A g \in Numbers : WF_vars(g \in Players /\ GhostStep(g))
-----------------------------------------------------------------------------
(* The files, read without the program.                                    *)

Text    == LevelTexts[level]
Dim     == Text[1].args
NamesIn == [k \in DOMAIN LevelTexts |-> LevelTexts[k][MonLine(LevelTexts[k])].args]
Names   == NamesIn[level]
PacFile == IF MonLine(Text) = 4 /\ Text[3].is = "PAC" THEN Text[3].args[1] ELSE "none"
RowsIn  == [k \in DOMAIN LevelTexts |->
  LET text == LevelTexts[k] IN
  [y \in 1 .. text[1].args[1] |-> text[MonLine(text) + y].args]]
Rows    == RowsIn[level]
Field   == (0 .. Dim[2] - 1) \X (0 .. Dim[1] - 1)
CellsOf(letter) == {c \in Field : Rows[c[2] + 1][c[1] + 1] = letter}
PosOf(name) == LET p == EntityTexts[name][2].args IN <<p[2], p[1]>>
OrdersOf == [e \in DOMAIN EntityTexts |-> [k \in 1 .. Len(EntityTexts[e]) - 2 |->
  LET l == EntityTexts[e][k + 2] IN
  [command |-> l.is, turns |-> IF l.args = <<>> THEN 1 ELSE l.args[1]]]]

\* A level of this form, every monster's file with moves, can be played.
Sound == /\ Text[MonLine(Text)].is = "MON" /\ (MonLine(Text) = 4 => Text[3].is = "PAC")
         /\ \A y \in 1 .. Dim[1] : /\ Text[MonLine(Text) + y].is = "row"
                                   /\ Len(Rows[y]) >= Dim[2]
                                   /\ \A x \in 1 .. Dim[2] : Rows[y][x] \in {"X", "o", "@"}
         /\ PacFile # "none" => PacFile \in DOMAIN EntityTexts
         /\ \A n \in DOMAIN Names : Names[n] \in DOMAIN EntityTexts
                                    /\ OrdersOf[Names[n]] # <<>>
PacmanAt == IF PacFile = "none" THEN <<1, 1>> ELSE PosOf(PacFile)
Starts   == {PosOf(Names[n]) : n \in DOMAIN Names}
\* and nobody starts in the place of another.
WellPlaced == /\ Cardinality(Starts) = Len(Names) /\ PacmanAt \notin Starts
              /\ Starts \cup {PacmanAt} \subseteq CellsOf("o")
-----------------------------------------------------------------------------
\* process_file and load_level: a sound level can be played, wherever its files
\* have a comment and whether they end with a newline, and what is played is
\* what they say: walls, dots and portals where the rows have them (a fresh
\* cell's flags may be anything else), everybody where POS puts him (line, then
\* column), with his moves in their order.
LoadedAsWritten ==
  [][pc = "load" /\ Sound =>
       /\ pc' = "play"
       /\ {c \in DOMAIN content' : content'[c] = "W"}
             = CellsOf("X") \ (Starts \cup {PacmanAt})
       /\ CellsOf("o") \subseteq dots' /\ CellsOf("@") \subseteq portals'
       /\ pac'.pos = PacmanAt /\ DOMAIN ghosts' = DOMAIN Names
       /\ \A g \in DOMAIN Names : /\ ghosts'[g].pos = PosOf(Names[g])
                                  /\ ghosts'[g].script.moves = OrdersOf[Names[g]]]_vars

\* move_pacman: a dot becomes a point and nothing else does, whatever portals,
\* walls and ghosts are in the way.
PointsAreDots ==
  [][pc = "play" => pac.points + Cardinality(dots)
                      = pac'.points + Cardinality(dots')]_vars

\* The letters on the board are those of the walls, of the ghosts and of a
\* living pacman, after every step, charge and capture; only the move into a
\* portal draws the pacman away from his place.
BoardShows ==
  pc = "play" /\ Sound /\ WellPlaced /\ result # "NEXT" =>
    /\ {c \in Cells : content[c] = "W"} = CellsOf("X")
    /\ {c \in Cells : content[c] = "P"} = IF pac.alive THEN {pac.pos} ELSE {}
    /\ {c \in Cells : content[c] = "M"} = {ghosts[g].pos : g \in Players}
    /\ Cardinality({ghosts[g].pos : g \in Players}) = Cardinality(Players)

\* pacman_thread tests alive before it takes the lock: a pacman that a ghost
\* killed in between does not reach the next level.
DeadNeverWins == [][~pac.alive /\ result = "CONTINUE" => result' # "NEXT"]_vars

\* lvl/2.m: "Todos os comandos após PASSO e POS são executados em ciclo
\* infinito".  Every ghost is where the Timetable of its file has it: none of
\* its turns is lost or taken twice, whatever the others do.  (An order that no
\* ghost knows is never passed, nor is a T 0.)
PassoOf(e)   == EntityTexts[e][1].args[1]
Monsters     == {e \in DOMAIN EntityTexts :
                   /\ OrdersOf[e] # <<>> /\ PassoOf(e) \in Nat
                   /\ \A k \in DOMAIN OrdersOf[e] :
                        /\ OrdersOf[e][k].command \in Directions \cup {"R", "C", "T"}
                        /\ OrdersOf[e][k].turns \in Nat \ {0}}
Plays(e)     == \E g \in Players : Names[g] = e
GhostOf(e)   == ghosts[CHOOSE g \in Players : Names[g] = e]
Time(e)      == IF Plays(e) THEN TimeOf(GhostOf(e).script, GhostOf(e).cursor) ELSE <<1, 0>>
Table(e)     == INSTANCE Timetable WITH Moves <- OrdersOf[e], Passo <- PassoOf(e),
                  First <- <<1, 0>>, order <- Time(e)[1], turn <- Time(e)[2],
                  due  <- IF Plays(e) THEN Issues(GhostOf(e).script, GhostOf(e).cursor)
                          ELSE OrdersOf[e][1].command
OrdersInTurn == /\ \A e \in Monsters : Table(e)!Init    \* all the Table(e)!Spec
                /\ [][\A e \in Monsters : Table(e)!Step]_ghosts

\* move_ghost: as long as the level goes on, and after the pacman is dead,
\* every ghost comes to the beginning of its file again and again.
Begins(e)    == GhostOf(e).cursor = Start(GhostOf(e).script, 0)
RoundsRepeat ==
  \A e \in Monsters : []<>(pc = "play" /\ Plays(e) /\ result = "CONTINUE" => Begins(e))

\* lvl/2.m: "T (espera um número de jogadas)": a pacman whose file has a T
\* gets past it.
PacmanWaitsEnd ==
  (pc = "play" /\ FromFile /\ Move(pac.script, pac.cursor).command = "T")
    ~> (~pac.alive \/ Move(pac.script, pac.cursor).command # "T")
=============================================================================
