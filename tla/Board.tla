-------------------------------- MODULE Board --------------------------------
(***************************************************************************)
(* The board of one game in the server: its cells with a mutex each, the   *)
(* pacman the session moves while it holds state_lock for writing, and the *)
(* ghost threads that move concurrently while they hold it for reading.    *)
(* A cell is named by its index y * width + x.  The moves a ghost file     *)
(* lists, PASSO and T only say which order comes next and after how many   *)
(* turns: here any order of Orders may come next, at any time.             *)
(***************************************************************************)
EXTENDS Integers, FiniteSets, FiniteSetsExt

CONSTANTS
  Width, Height,
  Walls, Portals,     \* cells read as 'X' and '@'; all others have a dot
  Ghosts, GhostStart, \* the ghost threads, the cell each ghost starts at
  PacStart,           \* the cell of the pacman when the level is loaded
  Orders              \* what ghost files may order: W A S D and C, charge

Cells      == 0 .. Width * Height - 1
Directions == {"W", "S", "A", "D"}

ASSUME BoardAssumption ==
  /\ Width \in Nat \ {0} /\ Height \in Nat \ {0}
  /\ Walls \subseteq Cells /\ Portals \subseteq Cells \ Walls
  /\ Ghosts \cap {"session", "nobody"} = {}
  /\ GhostStart \in [Ghosts -> Cells \ Walls]
  /\ \A g, h \in Ghosts : g # h => GhostStart[g] # GhostStart[h]
  /\ PacStart \in Cells \ (Walls \cup Portals)
  /\ \A g \in Ghosts : GhostStart[g] # PacStart
  /\ Orders \subseteq Directions \cup {"C"}

VARIABLES
  content,           \* of each cell: " ", "W" wall, "P" pacman, "M" monster
  dots,              \* the cells that have a dot
  pac,               \* pacmans[0]: [pos, alive, points]
  ghosts,            \* of each ghost: pos, charged, and where its thread is
  lock,              \* who holds the mutex of each cell
  victory, game_over

cells == <<content, dots, lock>>
flags == <<victory, game_over>>
board == <<cells, pac, ghosts, flags>>

X(c) == c % Width
Y(c) == c \div Width
Inside(c, d) == CASE d = "W" -> Y(c) > 0   [] d = "S" -> Y(c) < Height - 1
                  [] d = "A" -> X(c) > 0   [] d = "D" -> X(c) < Width - 1
Step(d) == CASE d = "W" -> -Width [] d = "S" -> Width
             [] d = "A" -> -1     [] d = "D" -> 1
\* The cells from c to the border in direction d, c among them.
Path(c, d) == {k \in Cells :
                 CASE d = "W" -> X(k) = X(c) /\ k <= c
                   [] d = "S" -> X(k) = X(c) /\ k >= c
                   [] d = "A" -> Y(k) = Y(c) /\ k <= c
                   [] d = "D" -> Y(k) = Y(c) /\ k >= c}
Nearest(S, d)  == IF d \in {"W", "A"} THEN Max(S) ELSE Min(S)
Farthest(S, d) == IF d \in {"W", "A"} THEN Min(S) ELSE Max(S)

\* A ghost thread: pc is where it is, dir, dest and todo are its locals (the
\* direction, the new cell, the mutexes still to be locked).
Asleep(p, ch) == [pos |-> p, charged |-> ch, pc |-> "sleep",
                  dir |-> "W", dest |-> p, todo |-> {}]

LevelContent == [c \in Cells |->
  CASE c \in Walls -> "W" [] c = PacStart -> "P"
    [] \E g \in Ghosts : c = GhostStart[g] -> "M" [] OTHER -> " "]

\* load_level and start_ghost_threads.
Loaded(points) ==
  /\ content' = LevelContent /\ dots' = Cells \ (Walls \cup Portals)
  /\ pac' = [pos |-> PacStart, alive |-> TRUE, points |-> points]
  /\ ghosts' = [g \in Ghosts |-> Asleep(GhostStart[g], FALSE)]
  /\ lock' = [c \in Cells |-> "nobody"]
  /\ victory' = FALSE

BoardInit ==
  /\ content = LevelContent /\ dots = Cells \ (Walls \cup Portals)
  /\ pac = [pos |-> PacStart, alive |-> TRUE, points |-> 0]
  /\ ghosts = [g \in Ghosts |-> Asleep(GhostStart[g], FALSE)]
  /\ lock = [c \in Cells |-> "nobody"]
  /\ victory = FALSE /\ game_over = FALSE
-----------------------------------------------------------------------------
(* state_lock: a ghost holds it for reading for the whole of its turn.     *)
Readers   == {g \in Ghosts : ghosts[g].pc \notin {"sleep", "exit"}}
CanWrite  == Readers = {}

Killed == [pac EXCEPT !.alive = FALSE]
Unlocked(who) == [c \in Cells |-> IF lock[c] = who THEN "nobody" ELSE lock[c]]
-----------------------------------------------------------------------------
(* move_pacman, called with state_lock held for writing: no ghost is in    *)
(* the middle of a turn, so the call is one step.                          *)

PacmanStays ==                     \* a wait, an order or a place not valid
  UNCHANGED <<content, dots, pac, ghosts, lock, flags>>

PacmanIsDead == ~pac.alive /\ game_over' = TRUE
                /\ UNCHANGED <<cells, pac, ghosts, victory>>

PacmanPortal(to) ==            \* returns with the mutexes of both cells held
  /\ to \in Portals /\ victory' = TRUE
  /\ content' = [content EXCEPT ![pac.pos] = " ", ![to] = "P"]
  /\ lock' = [lock EXCEPT ![pac.pos] = "session", ![to] = "session"]
  /\ UNCHANGED <<dots, pac, ghosts, game_over>>

PacmanWall(to) == to \notin Portals /\ content[to] = "W" /\ PacmanStays

PacmanMeetsGhostStays(to) ==       \* slip: the dead pacman stays on the board
  /\ to \notin Portals /\ content[to] = "M"
  /\ pac' = Killed /\ game_over' = TRUE
  /\ UNCHANGED <<content, dots, ghosts, lock, victory>>

PacmanMeetsGhost(to) ==
  /\ to \notin Portals /\ content[to] = "M"
  /\ content' = [content EXCEPT ![pac.pos] = " "] /\ pac' = Killed
  /\ game_over' = TRUE
  /\ UNCHANGED <<dots, ghosts, lock, victory>>

PacmanWalksNoEat(to) ==                        \* slip: the dot stays
  /\ to \notin Portals /\ content[to] \notin {"W", "M"}
  /\ pac' = [pac EXCEPT !.pos = to,
               !.points = @ + (IF to \in dots THEN 1 ELSE 0)]
  /\ content' = [content EXCEPT ![pac.pos] = " ", ![to] = "P"]
  /\ UNCHANGED <<dots, ghosts, lock, flags>>

PacmanWalks(to) ==
  /\ to \notin Portals /\ content[to] \notin {"W", "M"}
  /\ pac' = [pac EXCEPT !.pos = to,
               !.points = @ + (IF to \in dots THEN 1 ELSE 0)]
  /\ dots' = dots \ {to}
  /\ content' = [content EXCEPT ![pac.pos] = " ", ![to] = "P"]
  /\ UNCHANGED <<ghosts, lock, flags>>

PlayUnlessBarred(d) ==               \* slip: does not ask who is alive
  /\ CanWrite
  /\ \/ ~Inside(pac.pos, d) /\ PacmanStays
     \/ /\ Inside(pac.pos, d)
        /\ LET to == pac.pos + Step(d) IN
             /\ lock[pac.pos] = "nobody" /\ lock[to] = "nobody"
             /\ \/ PacmanPortal(to) \/ PacmanWall(to)
                \/ PacmanMeetsGhost(to) \/ PacmanWalks(to)

\* A PLAY command of the client: move_pacman and what its result sets.
Play(d) ==
  /\ CanWrite
  /\ \/ PacmanIsDead
     \/ pac.alive /\ ~Inside(pac.pos, d) /\ PacmanStays
     \/ /\ pac.alive /\ Inside(pac.pos, d)
        /\ LET to == pac.pos + Step(d) IN
             /\ lock[pac.pos] = "nobody" /\ lock[to] = "nobody"
             /\ \/ PacmanPortal(to) \/ PacmanWall(to)
                \/ PacmanMeetsGhost(to) \/ PacmanWalks(to)
-----------------------------------------------------------------------------
(* ghost_thread, move_ghost and move_ghost_charged.                        *)

Set(g, r) == ghosts' = [ghosts EXCEPT ![g] = r]

\* rdlock, then the order: C charges; a direction out of the board is given
\* up; otherwise the cells to be locked are known.
GhostCharges(g) ==
  /\ ghosts[g].pc = "sleep" /\ "C" \in Orders
  /\ Set(g, [ghosts[g] EXCEPT !.charged = TRUE])
  /\ UNCHANGED <<cells, pac, flags>>

GhostSetsOut(g, d) ==
  LET old == ghosts[g] IN
  /\ old.pc = "sleep" /\ d \in Orders \cap Directions
  /\ Set(g, IF ~Inside(old.pos, d) THEN Asleep(old.pos, FALSE)
            ELSE [old EXCEPT !.charged = FALSE, !.dir = d,
                    !.pc   = IF old.charged THEN "charge" ELSE "step",
                    !.todo = IF old.charged THEN Path(old.pos, d)
                             ELSE {old.pos, old.pos + Step(d)}])
  /\ UNCHANGED <<cells, pac, flags>>

GhostLocksBackwards(g) ==   \* slip: own cell first, whatever its index
  /\ ghosts[g].todo # {}
  /\ LET own == ghosts[g].pos
         c   == IF own \in ghosts[g].todo THEN own ELSE Min(ghosts[g].todo) IN
       /\ lock[c] = "nobody" /\ lock' = [lock EXCEPT ![c] = g]
       /\ Set(g, [ghosts[g] EXCEPT !.todo = @ \ {c}])
  /\ UNCHANGED <<content, dots, pac, flags>>

GhostLocks(g) ==                       \* always the lowest index first
  /\ ghosts[g].todo # {}
  /\ LET c == Min(ghosts[g].todo) IN
       /\ lock[c] = "nobody" /\ lock' = [lock EXCEPT ![c] = g]
       /\ Set(g, [ghosts[g] EXCEPT !.todo = @ \ {c}])
  /\ UNCHANGED <<content, dots, pac, flags>>

\* With everything locked: what is in the way, and the pacman it kills.
Kills(c) == content[c] = "P" /\ pac.alive /\ pac.pos = c
KillAt(c) ==
  IF Kills(c) THEN /\ pac' = Killed
                   /\ content' = [content EXCEPT ![c] = " "]
  ELSE UNCHANGED <<content, pac>>

GhostLooksKeepsLocks(g) ==   \* slip: a way that is barred leaves the locks
  LET to == ghosts[g].pos + Step(ghosts[g].dir) IN
  /\ ghosts[g].pc = "step" /\ ghosts[g].todo = {}
  /\ IF content[to] \in {"W", "M"}
     THEN Set(g, Asleep(ghosts[g].pos, FALSE)) /\ UNCHANGED <<content, pac, lock>>
     ELSE /\ Set(g, [ghosts[g] EXCEPT !.pc = "move", !.dest = to])
          /\ KillAt(to) /\ UNCHANGED lock
  /\ UNCHANGED <<dots, flags>>

GhostLooksPastGhosts(g) ==   \* slip: only walls are in the way
  LET to == ghosts[g].pos + Step(ghosts[g].dir) IN
  /\ ghosts[g].pc = "step" /\ ghosts[g].todo = {}
  /\ IF content[to] = "W"
     THEN /\ Set(g, Asleep(ghosts[g].pos, FALSE))
          /\ lock' = Unlocked(g) /\ UNCHANGED <<content, pac>>
     ELSE /\ Set(g, [ghosts[g] EXCEPT !.pc = "move", !.dest = to])
          /\ KillAt(to) /\ UNCHANGED lock
  /\ UNCHANGED <<dots, flags>>

GhostLooksEarly(g) ==        \* slip: looks before it holds both mutexes
  LET to == ghosts[g].pos + Step(ghosts[g].dir) IN
  /\ ghosts[g].pc = "step"
  /\ IF content[to] \in {"W", "M"}
     THEN /\ Set(g, Asleep(ghosts[g].pos, FALSE))
          /\ lock' = Unlocked(g) /\ UNCHANGED <<content, pac>>
     ELSE /\ Set(g, [ghosts[g] EXCEPT !.pc = "move", !.dest = to])
          /\ KillAt(to) /\ UNCHANGED lock
  /\ UNCHANGED <<dots, flags>>

GhostLooks(g) ==
  LET to == ghosts[g].pos + Step(ghosts[g].dir) IN
  /\ ghosts[g].pc = "step" /\ ghosts[g].todo = {}
  /\ IF content[to] \in {"W", "M"}
     THEN /\ Set(g, Asleep(ghosts[g].pos, FALSE))
          /\ lock' = Unlocked(g) /\ UNCHANGED <<content, pac>>
     ELSE /\ Set(g, [ghosts[g] EXCEPT !.pc = "move", !.dest = to])
          /\ KillAt(to) /\ UNCHANGED lock
  /\ UNCHANGED <<dots, flags>>

GhostMoves(g) ==                        \* both cells, the ghost, unlock
  LET old == ghosts[g] IN
  /\ old.pc = "move"
  /\ content' = [content EXCEPT ![old.pos] = " ", ![old.dest] = "M"]
  /\ Set(g, Asleep(old.dest, FALSE)) /\ lock' = Unlocked(g)
  /\ UNCHANGED <<dots, pac, flags>>

\* A charge looks along the whole path, then unlocks it all ...
Stop(path, d) ==
  LET barred == {c \in path : content[c] # " "}
      first  == Nearest(barred, d) IN
  IF barred = {} THEN Farthest(path, d)
  ELSE IF content[first] = "P" THEN first ELSE first - Step(d)

GhostScans(g) ==
  LET me == ghosts[g]
      to == Stop(Path(me.pos, me.dir) \ {me.pos}, me.dir) IN
  /\ me.pc = "charge" /\ me.todo = {}
  /\ Set(g, [me EXCEPT !.pc = "clear", !.dest = to])
  /\ KillAt(to) /\ lock' = Unlocked(g)
  /\ UNCHANGED <<dots, flags>>

\* ... and only then writes the two cells, with no mutex held.
GhostClears(g) ==
  /\ ghosts[g].pc = "clear"
  /\ content' = [content EXCEPT ![ghosts[g].pos] = " "]
  /\ Set(g, [ghosts[g] EXCEPT !.pc = "place"])
  /\ UNCHANGED <<dots, pac, lock, flags>>

GhostPlaces(g) ==
  /\ ghosts[g].pc = "place"
  /\ content' = [content EXCEPT ![ghosts[g].dest] = "M"]
  /\ Set(g, Asleep(ghosts[g].dest, FALSE))
  /\ UNCHANGED <<dots, pac, lock, flags>>

GhostTurn(g) == \/ GhostLocks(g) \/ GhostLooks(g) \/ GhostMoves(g)
                \/ GhostScans(g) \/ GhostClears(g) \/ GhostPlaces(g)
GhostStarts(g) == GhostCharges(g) \/ \E d \in Directions : GhostSetsOut(g, d)

\* The board on its own: the session plays while the level lasts.
BoardNext == \/ ~victory /\ ~game_over /\ \E d \in Directions : Play(d)
             \/ \E g \in Ghosts : GhostStarts(g) \/ GhostTurn(g)

BoardSpec == BoardInit /\ [][BoardNext]_board
\* A thread that holds state_lock goes on until its turn is over; it gets a
\* mutex that is free again and again, since a ghost sleeps between turns.
TurnFairness == \A g \in Ghosts : WF_board(GhostTurn(g)) /\ SF_board(GhostLocks(g))
BoardFairSpec == BoardSpec /\ TurnFairness
-----------------------------------------------------------------------------
GhostType == [pos : Cells, charged : BOOLEAN, dir : Directions, dest : Cells,
              pc : {"sleep", "step", "charge", "move", "clear", "place", "exit"},
              todo : SUBSET Cells]

\* The type invariant of the board.
BoardTypeOK ==
  /\ content \in [Cells -> {" ", "W", "P", "M"}]
  /\ dots \in SUBSET Cells
  /\ pac \in [pos : Cells, alive : BOOLEAN, points : Nat]
  /\ ghosts \in [Ghosts -> GhostType]
  /\ lock \in [Cells -> Ghosts \cup {"session", "nobody"}]
  /\ victory \in BOOLEAN /\ game_over \in BOOLEAN

\* Every point was a dot, whatever the ghosts walk over meanwhile.
DotsConserved ==
  pac.points + Cardinality(dots)
    = Cardinality(Cells \ (Walls \cup Portals))

\* What the cells show is where everybody is, outside the two writes that
\* end a charge and until the pacman reaches a portal (which may have a
\* ghost on it): a ghost on each "M", the live pacman, and nobody else, on
\* the only "P".
BoardTruthful == ~victory =>
  /\ {c \in Cells : content[c] = "M"}
       = {ghosts[g].pos : g \in {h \in Ghosts : ghosts[h].pc # "place"}}
  /\ {c \in Cells : content[c] = "P"}
       = IF pac.alive THEN {pac.pos} ELSE {}
  /\ {c \in Cells : content[c] = "W"} = Walls

\* Moves "must check for [...] other monsters": no two ghosts share a cell.
GhostsApart ==
  \A g, h \in Ghosts : g # h => ghosts[g].pos # ghosts[h].pos

\* Every return of a move gives back the mutexes it took (the portal branch
\* of move_pacman apart), so that a sleeping ghost never blocks another.
LocksReleased ==
  /\ \A g \in Ghosts : ghosts[g].pc \in {"sleep", "clear", "place", "exit"}
                         => \A c \in Cells : lock[c] # g
  /\ ~victory => \A c \in Cells : lock[c] # "session"

\* Ghosts in their turns, and with them whoever waits to write, are never all
\* of them waiting for one another's mutexes: one has what it asks for.
Waits(g) == ghosts[g].todo # {} /\ lock[Min(ghosts[g].todo)] # "nobody"
SomebodyMoves == ~victory /\ Readers # {} => \E g \in Readers : ~Waits(g)

\* Locking by ascending index cannot block ghosts on one another: a turn
\* that has begun ends, unless the portal branch kept its two mutexes.
TurnsEnd ==
  \A g \in Ghosts : ghosts[g].pc # "sleep" ~> ghosts[g].pc = "sleep" \/ victory
=============================================================================
