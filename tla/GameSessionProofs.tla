-------------------------- MODULE GameSessionProofs --------------------------
(***************************************************************************)
(* Proofs about Board, for boards of every size and layout, any number of  *)
(* ghosts and any orders, and about GameSession, which extends it, for any *)
(* number of levels.                                                       *)
(***************************************************************************)
EXTENDS GameSession, FiniteSetTheorems, WellFoundedInduction, TLAPS

(* Numbers: remainders, least and greatest elements.                       *)

LEMMA ProductStep ==
  ASSUME NEW n \in Nat \ {0}, NEW p \in Int, NEW q \in Int, q >= p + 1
  PROVE  n * q >= n * p + n
<1> DEFINE d == q - p - 1
<1>1. d \in Nat /\ q = p + 1 + d
  OBVIOUS
<1> HIDE DEF d
<1>2. n * q = n * p + n + n * d
  BY <1>1
<1>3. n * d >= 0
  BY <1>1
<1> QED
  BY <1>1, <1>2, <1>3

LEMMA RemainderUnique ==
  ASSUME NEW n \in Nat \ {0}, NEW a \in Int, NEW q \in Int,
         NEW r \in 0 .. n - 1, a = n * q + r
  PROVE  a % n = r
<1> DEFINE p == a \div n
           s == a % n
<1>1. p \in Int /\ s \in 0 .. n - 1 /\ a = n * p + s
  OBVIOUS
<1>2. n * p \in Int /\ n * q \in Int
  BY <1>1
<1> HIDE DEF p, s
<1>3. CASE q >= p + 1
  BY <1>1, <1>2, <1>3, ProductStep
<1>4. CASE p >= q + 1
  BY <1>1, <1>2, <1>4, ProductStep
<1>5. CASE p = q
  BY <1>1, <1>2, <1>5 DEF s
<1> QED
  BY <1>1, <1>3, <1>4, <1>5

LEMMA HasLeast == ASSUME NEW S \in SUBSET Nat, S # {} PROVE \E x \in S : \A y \in S : x <= y
<1> DEFINE R == OpToRel(<, Nat)
<1>1. IsWellFoundedOn(R, Nat)
  BY NatLessThanWellFounded
<1>2. \A x, y \in Nat : y < x => <<y, x>> \in R
  BY DEF OpToRel
<1> HIDE DEF R
<1>3. PICK x \in S : \A y \in S : ~ (<<y, x>> \in R)
  BY <1>1, WFMin
<1>4. ASSUME NEW y \in S PROVE x <= y
  <2>1. x \in Nat /\ y \in Nat
    OBVIOUS
  <2>2. ~(y < x)
    BY <1>2, <1>3, <2>1
  <2> QED
    BY <2>1, <2>2
<1> QED
  BY <1>4

LEMMA LeastType == ASSUME NEW S \in SUBSET Nat, S # {} PROVE Min(S) \in S
  BY HasLeast DEF Min

LEMMA HasGreatest ==
  ASSUME NEW n \in Nat, NEW S \in SUBSET (0 .. n), S # {}
  PROVE  \E x \in S : \A y \in S : y <= x
<1> DEFINE T == {n - x : x \in S}
<1>0. \A x \in S : n - x \in Nat
  OBVIOUS
<1>1. T \in SUBSET Nat /\ T # {}
  BY <1>0 DEF T
<1>2. PICK t \in T : \A u \in T : t <= u
  BY <1>1, HasLeast
<1>3. PICK x \in S : t = n - x
  BY DEF T
<1>4. \A y \in S : n - y \in T
  BY DEF T
<1>5. \A y \in S : y <= x
  BY <1>2, <1>3, <1>4
<1> QED
  BY <1>5

LEMMA GreatestType ==
  ASSUME NEW n \in Nat, NEW S \in SUBSET (0 .. n), S # {} PROVE Max(S) \in S
<1>1. PICK x \in S : \A y \in S : y <= x
  BY HasGreatest
<1>2. \A y \in S : x >= y
  BY <1>1
<1> QED
  BY <1>2 DEF Max
-----------------------------------------------------------------------------
(* The geometry of the board: a cell is its line times Width and its       *)
(* column.                                                                 *)

LEMMA Size == /\ Width \in Nat \ {0} /\ Height \in Nat \ {0}
              /\ Width * Height \in Nat \ {0}
  BY BoardAssumption

LEMMA CellSplit ==
  ASSUME NEW c \in Cells
  PROVE  /\ c \in Nat /\ X(c) \in 0 .. Width - 1 /\ Y(c) \in Int
         /\ c = Width * Y(c) + X(c)
<1>1. c \in Nat
  BY Size DEF Cells
<1> QED
  BY <1>1, Size DEF X, Y

LEMMA LineType == ASSUME NEW c \in Cells PROVE Y(c) \in 0 .. Height - 1
<1>1. /\ c \in Nat /\ c < Width * Height /\ X(c) \in 0 .. Width - 1 /\ Y(c) \in Int
      /\ c = Width * Y(c) + X(c)
  BY CellSplit, Size DEF Cells
<1>2. CASE Y(c) < 0
  <2>1. Width * 0 >= Width * Y(c) + Width
    BY <1>1, <1>2, Size, ProductStep
  <2> QED
    BY <1>1, <2>1, Size
<1>3. CASE Y(c) >= Height
  <2>1. CASE Y(c) = Height
    BY <1>1, <2>1, Size
  <2>2. CASE Y(c) > Height
    <3>1. Width * Y(c) >= Width * Height + Width
      BY <1>1, <2>2, Size, ProductStep
    <3> QED
      BY <1>1, <3>1, Size
  <2> QED
    BY <1>1, <1>3, <2>1, <2>2, Size
<1> QED
  BY <1>1, <1>2, <1>3, Size

\* The cell of a line and a column.
LEMMA CellAt ==
  ASSUME NEW y \in 0 .. Height - 1, NEW x \in 0 .. Width - 1, NEW c \in Int,
         c = Width * y + x
  PROVE  c \in Cells /\ X(c) = x /\ Y(c) = y
<1>1. Width * y \in Int /\ Width * y >= 0 /\ Width * Height >= Width * y + Width
  <2>1. Height >= y + 1 /\ y \in Int /\ Height \in Int
    BY Size
  <2>2. Width * Height >= Width * y + Width
    BY <2>1, Size, ProductStep
  <2>3. Width * y \in Int /\ Width * y >= 0
    BY Size
  <2> QED
    BY <2>2, <2>3
<1>2. c \in Cells
  BY <1>1, Size DEF Cells
<1>3. X(c) = x
  <2>1. Width \in Nat \ {0} /\ c \in Int /\ y \in Int
    BY Size
  <2>2. c % Width = x
    BY <2>1, RemainderUnique
  <2> QED
    BY <2>2 DEF X
<1>4. Width * Y(c) = Width * y
  BY <1>1, <1>2, <1>3, CellSplit, LineType, Size
<1>5. Y(c) \in Int /\ y \in Int
  BY <1>2, CellSplit
<1>6. ~(Y(c) > y) /\ ~(y > Y(c))
  <2>1. ASSUME Y(c) > y PROVE FALSE
    <3>1. Width * Y(c) >= Width * y + Width
      BY <1>5, <2>1, Size, ProductStep
    <3> QED
      BY <1>1, <1>4, <3>1, Size
  <2>2. ASSUME y > Y(c) PROVE FALSE
    <3>1. Width * y >= Width * Y(c) + Width
      BY <1>5, <2>2, Size, ProductStep
    <3> QED
      BY <1>1, <1>4, <3>1, Size
  <2> QED
    BY <2>1, <2>2
<1> QED
  BY <1>2, <1>3, <1>5, <1>6

\* A step inside the board ends on it, a cell further on the same line or
\* column.
LEMMA StepStays ==
  ASSUME NEW c \in Cells, NEW d \in Directions, Inside(c, d)
  PROVE  c + Step(d) \in Cells /\ c + Step(d) \in Path(c, d) /\ c + Step(d) # c
<1> DEFINE y == Y(c)
           x == X(c)
<1>1. /\ c \in Nat /\ x \in 0 .. Width - 1 /\ y \in 0 .. Height - 1
      /\ c = Width * y + x
  BY CellSplit, LineType
<1>2. Width * y \in Int /\ Width * (y + 1) = Width * y + Width
      /\ Width * (y - 1) = Width * y - Width
  BY <1>1, Size
<1> HIDE DEF x, y
<1>3. CASE d = "W"
  <2>1. y > 0 /\ Step(d) = -Width
    BY <1>3 DEF Inside, Step, y
  <2>2. c + Step(d) = Width * (y - 1) + x /\ y - 1 \in 0 .. Height - 1
    BY <1>1, <1>2, <2>1, Size
  <2>3. c + Step(d) \in Int
    BY <1>1, <2>1, Size
  <2>4. c + Step(d) \in Cells /\ X(c + Step(d)) = x
    BY <1>1, <2>2, <2>3, CellAt
  <2> QED
    BY <1>1, <1>3, <2>1, <2>4, Size DEF Path, x
<1>4. CASE d = "S"
  <2>1. y < Height - 1 /\ Step(d) = Width
    BY <1>4 DEF Inside, Step, y
  <2>2. c + Step(d) = Width * (y + 1) + x /\ y + 1 \in 0 .. Height - 1
    BY <1>1, <1>2, <2>1, Size
  <2>3. c + Step(d) \in Int
    BY <1>1, <2>1, Size
  <2>4. c + Step(d) \in Cells /\ X(c + Step(d)) = x
    BY <1>1, <2>2, <2>3, CellAt
  <2> QED
    BY <1>1, <1>4, <2>1, <2>4, Size DEF Path, x
<1>5. CASE d = "A"
  <2>1. x > 0 /\ Step(d) = -1
    BY <1>5 DEF Inside, Step, x
  <2>2. c + Step(d) = Width * y + (x - 1) /\ x - 1 \in 0 .. Width - 1
    BY <1>1, <1>2, <2>1, Size
  <2>3. c + Step(d) \in Int
    BY <1>1, <2>1, Size
  <2>4. c + Step(d) \in Cells /\ Y(c + Step(d)) = y
    BY <1>1, <2>2, <2>3, CellAt
  <2> QED
    BY <1>1, <1>5, <2>1, <2>4, Size DEF Path, y
<1>6. CASE d = "D"
  <2>1. x < Width - 1 /\ Step(d) = 1
    BY <1>6 DEF Inside, Step, x
  <2>2. c + Step(d) = Width * y + (x + 1) /\ x + 1 \in 0 .. Width - 1
    BY <1>1, <1>2, <2>1, Size
  <2>3. c + Step(d) \in Int
    BY <1>1, <2>1, Size
  <2>4. c + Step(d) \in Cells /\ Y(c + Step(d)) = y
    BY <1>1, <2>2, <2>3, CellAt
  <2> QED
    BY <1>1, <1>6, <2>1, <2>4, Size DEF Path, y
<1> QED
  BY <1>3, <1>4, <1>5, <1>6 DEF Directions

\* The line of a later cell of the same column is a later one.
LEMMA LaterLine ==
  ASSUME NEW a \in Cells, NEW b \in Cells, X(a) = X(b), a < b
  PROVE  Y(a) < Y(b)
<1>1. /\ Y(a) \in Int /\ Y(b) \in Int /\ X(a) \in Int /\ X(b) \in Int
      /\ a = Width * Y(a) + X(a) /\ b = Width * Y(b) + X(b)
      /\ Width * Y(a) \in Int /\ Width * Y(b) \in Int
  BY CellSplit, Size
<1>2. Width * Y(a) < Width * Y(b)
  BY <1>1
<1>3. ASSUME Y(a) > Y(b) PROVE FALSE
  <2>1. Width * Y(a) >= Width * Y(b) + Width
    BY <1>1, <1>3, Size, ProductStep
  <2> QED
    BY <1>1, <1>2, <2>1, Size
<1>4. Y(a) # Y(b)
  BY <1>1, <1>2
<1> QED
  BY <1>1, <1>3, <1>4

\* One cell back on the way of a charge there is a cell.
LEMMA BackStays ==
  ASSUME NEW c \in Cells, NEW d \in Directions, NEW k \in Path(c, d) \ {c}
  PROVE  k - Step(d) \in Cells
<1> DEFINE y == Y(k)
           x == X(k)
<1>1. /\ k \in Cells /\ k \in Nat /\ k # c /\ c \in Nat
      /\ x \in 0 .. Width - 1 /\ y \in 0 .. Height - 1 /\ k = Width * y + x
      /\ X(c) \in 0 .. Width - 1 /\ Y(c) \in 0 .. Height - 1
      /\ c = Width * Y(c) + X(c)
  BY CellSplit, LineType DEF Path
<1>2. Width * y \in Int /\ Width * (y + 1) = Width * y + Width
      /\ Width * (y - 1) = Width * y - Width
  BY <1>1, Size
<1>3. CASE d = "W"
  <2>1. X(k) = X(c) /\ k < c /\ Step(d) = -Width
    BY <1>1, <1>3 DEF Path, Step
  <2>2. y < Y(c)
    BY <1>1, <2>1, LaterLine
  <2> HIDE DEF x, y
  <2>3. /\ k - Step(d) = Width * (y + 1) + x /\ y + 1 \in 0 .. Height - 1
        /\ k - Step(d) \in Int
    BY <1>1, <1>2, <2>1, <2>2, Size
  <2> QED
    BY <1>1, <2>3, CellAt
<1>4. CASE d = "S"
  <2>1. X(k) = X(c) /\ c < k /\ Step(d) = Width
    BY <1>1, <1>4 DEF Path, Step
  <2>2. Y(c) < y
    BY <1>1, <2>1, LaterLine
  <2> HIDE DEF x, y
  <2>3. /\ k - Step(d) = Width * (y - 1) + x /\ y - 1 \in 0 .. Height - 1
        /\ k - Step(d) \in Int
    BY <1>1, <1>2, <2>1, <2>2, Size
  <2> QED
    BY <1>1, <2>3, CellAt
<1>5. CASE d = "A"
  <2>1. Y(c) = y /\ k < c /\ Step(d) = -1
    BY <1>1, <1>5 DEF Path, Step
  <2> HIDE DEF x, y
  <2>2. x < X(c)
    BY <1>1, <1>2, <2>1
  <2>3. /\ k - Step(d) = Width * y + (x + 1) /\ x + 1 \in 0 .. Width - 1
        /\ k - Step(d) \in Int
    BY <1>1, <1>2, <2>1, <2>2, Size
  <2> QED
    BY <1>1, <2>3, CellAt
<1>6. CASE d = "D"
  <2>1. Y(c) = y /\ c < k /\ Step(d) = 1
    BY <1>1, <1>6 DEF Path, Step
  <2> HIDE DEF x, y
  <2>2. X(c) < x
    BY <1>1, <1>2, <2>1
  <2>3. /\ k - Step(d) = Width * y + (x - 1) /\ x - 1 \in 0 .. Width - 1
        /\ k - Step(d) \in Int
    BY <1>1, <1>2, <2>1, <2>2, Size
  <2> QED
    BY <1>1, <2>3, CellAt
<1> QED
  BY <1>3, <1>4, <1>5, <1>6 DEF Directions

LEMMA NearestType ==
  ASSUME NEW S \in SUBSET Cells, S # {}, NEW d
  PROVE  Nearest(S, d) \in S /\ Farthest(S, d) \in S
<1>1. S \in SUBSET Nat /\ Width * Height - 1 \in Nat /\ S \in SUBSET (0 .. Width * Height - 1)
  BY Size DEF Cells
<1> QED
  BY <1>1, LeastType, GreatestType DEF Nearest, Farthest

\* A charge ends on the board.
LEMMA StopStays ==
  ASSUME NEW c \in Cells, NEW d \in Directions, Inside(c, d)
  PROVE  Stop(Path(c, d) \ {c}, d) \in Cells
<1> DEFINE path   == Path(c, d) \ {c}
           barred == {k \in path : content[k] # " "}
           first  == Nearest(barred, d)
<1>1. path \in SUBSET Cells /\ path # {}
  <2>1. Path(c, d) \subseteq Cells
    BY DEF Path
  <2>2. c + Step(d) \in path
    BY StepStays
  <2> QED
    BY <2>1, <2>2
<1>2. CASE barred = {}
  BY <1>1, <1>2, NearestType DEF Stop
<1>3. CASE barred # {}
  <2>1. barred \in SUBSET Cells
    BY <1>1
  <2>2. first \in barred
    BY <1>3, <2>1, NearestType
  <2>3. first \in Cells /\ first - Step(d) \in Cells
    BY <2>1, <2>2, BackStays
  <2> QED
    BY <1>3, <2>3 DEF Stop
<1> QED
  BY <1>2, <1>3
-----------------------------------------------------------------------------
(* Types and mutexes.                                                      *)

\* A ghost waits for mutexes only while its move is being prepared, and then
\* the move is one that stays on the board.
Turns ==
  \A g \in Ghosts :
    /\ ghosts[g].todo # {} => ghosts[g].pc \in {"step", "charge"}
    /\ ghosts[g].pc \in {"step", "charge"} => Inside(ghosts[g].pos, ghosts[g].dir)

BoardInv == BoardTypeOK /\ Turns /\ LocksReleased

LEMMA Names == \A g \in Ghosts : g # "session" /\ g # "nobody"
  BY BoardAssumption

\* A ghost's record is replaced by one that respects Turns.
LEMMA SetTurn ==
  ASSUME BoardInv, NEW g \in Ghosts, NEW r \in GhostType, Set(g, r),
         r.todo # {} => r.pc \in {"step", "charge"},
         r.pc \in {"step", "charge"} => Inside(r.pos, r.dir)
  PROVE  /\ ghosts' \in [Ghosts -> GhostType] /\ Turns'
         /\ ghosts'[g] = r /\ \A h \in Ghosts \ {g} : ghosts'[h] = ghosts[h]
<1>1. ghosts \in [Ghosts -> GhostType] /\ Turns /\ ghosts' = [ghosts EXCEPT ![g] = r]
  BY DEF BoardInv, BoardTypeOK, Set
<1>2. ghosts'[g] = r /\ \A h \in Ghosts \ {g} : ghosts'[h] = ghosts[h]
  BY <1>1
<1>3. ghosts' \in [Ghosts -> GhostType]
  BY <1>1
<1>4. Turns'
  BY <1>1, <1>2 DEF Turns
<1> QED
  BY <1>2, <1>3, <1>4

LEMMA AsleepType ==
  ASSUME NEW p \in Cells, NEW ch \in BOOLEAN
  PROVE  /\ Asleep(p, ch) \in GhostType /\ Asleep(p, ch).todo = {}
         /\ Asleep(p, ch).pc = "sleep" /\ Asleep(p, ch).pos = p
         /\ Asleep(p, ch).charged = ch
  BY DEF Asleep, GhostType, Directions

LEMMA UnlockedType ==
  ASSUME BoardTypeOK, NEW g \in Ghosts
  PROVE  /\ Unlocked(g) \in [Cells -> Ghosts \cup {"session", "nobody"}]
         /\ \A c \in Cells : /\ Unlocked(g)[c] # g
                             /\ Unlocked(g)[c] # "nobody" => Unlocked(g)[c] = lock[c]
                             /\ lock[c] # g => Unlocked(g)[c] = lock[c]
<1>1. lock \in [Cells -> Ghosts \cup {"session", "nobody"}]
  BY DEF BoardTypeOK
<1> QED
  BY <1>1, Names DEF Unlocked

LEMMA KillType ==
  ASSUME BoardTypeOK, NEW c \in Cells, KillAt(c)
  PROVE  /\ content' \in [Cells -> {" ", "W", "P", "M"}]
         /\ pac' \in [pos : Cells, alive : BOOLEAN, points : Nat]
         /\ pac'.pos = pac.pos /\ pac'.points = pac.points
         /\ \A k \in Cells \ {c} : content'[k] = content[k]
         /\ IF Kills(c) THEN content'[c] = " " /\ pac'.alive = FALSE
            ELSE content' = content /\ pac' = pac
<1> USE DEF BoardTypeOK
<1>1. CASE Kills(c)
  <2>1. pac' = [pac EXCEPT !.alive = FALSE] /\ content' = [content EXCEPT ![c] = " "]
    BY <1>1 DEF KillAt, Killed
  <2> QED
    BY <1>1, <2>1
<1>2. CASE ~Kills(c)
  BY <1>2 DEF KillAt
<1> QED
  BY <1>1, <1>2

\* Where the mutexes are after a step of ghost g that is not in the middle of
\* a move.
LEMMA LocksKept ==
  ASSUME BoardInv, NEW g \in Ghosts, ghosts' \in [Ghosts -> GhostType],
         \A h \in Ghosts \ {g} : ghosts'[h] = ghosts[h],
         victory' = victory,
         \A c \in Cells, w \in (Ghosts \ {g}) \cup {"session"} :
            lock'[c] = w => lock[c] = w,
         ghosts'[g].pc \in {"sleep", "clear", "place", "exit"}
            => \A c \in Cells : lock'[c] # g
  PROVE  LocksReleased'
<1>1. LocksReleased
  BY DEF BoardInv
<1>2. ASSUME NEW h \in Ghosts, ghosts'[h].pc \in {"sleep", "clear", "place", "exit"},
             NEW c \in Cells
      PROVE  lock'[c] # h
  <2>1. CASE h = g
    BY <1>2, <2>1
  <2>2. CASE h # g
    BY <1>1, <1>2, <2>2 DEF LocksReleased
  <2> QED
    BY <2>1, <2>2
<1>3. ASSUME ~victory', NEW c \in Cells PROVE lock'[c] # "session"
  BY <1>1, <1>3 DEF LocksReleased
<1> QED
  BY <1>2, <1>3 DEF LocksReleased

LEMMA LocksGiven ==
  ASSUME BoardInv, NEW g \in Ghosts, ghosts' \in [Ghosts -> GhostType],
         \A h \in Ghosts \ {g} : ghosts'[h] = ghosts[h],
         victory' = victory, lock' = Unlocked(g)
  PROVE  LocksReleased'
<1>1. \A c \in Cells : /\ Unlocked(g)[c] # g
                       /\ Unlocked(g)[c] # "nobody" => Unlocked(g)[c] = lock[c]
  BY UnlockedType DEF BoardInv
<1>2. \A w \in (Ghosts \ {g}) \cup {"session"} : w # "nobody"
  BY Names
<1>3. \A c \in Cells, w \in (Ghosts \ {g}) \cup {"session"} :
            lock'[c] = w => lock[c] = w
  BY <1>1, <1>2
<1> QED
  BY <1>1, <1>3, LocksKept
-----------------------------------------------------------------------------
(* A turn of a ghost, call by call.                                        *)

LEMMA GhostChargesInv ==
  ASSUME BoardInv, NEW g \in Ghosts, GhostCharges(g) PROVE BoardInv'
<1> DEFINE r == [ghosts[g] EXCEPT !.charged = TRUE]
<1>1. /\ ghosts[g] \in GhostType /\ ghosts[g].pc = "sleep" /\ Set(g, r)
      /\ UNCHANGED <<cells, pac, flags>>
  BY DEF GhostCharges, BoardInv, BoardTypeOK
<1>2. /\ r \in GhostType /\ r.pc = "sleep" /\ r.todo = ghosts[g].todo
  BY <1>1 DEF GhostType
<1> HIDE DEF r
<1>3. r.todo = {}
  BY <1>1, <1>2 DEF BoardInv, Turns
<1>4. /\ ghosts' \in [Ghosts -> GhostType] /\ Turns'
      /\ ghosts'[g] = r /\ \A h \in Ghosts \ {g} : ghosts'[h] = ghosts[h]
  BY <1>1, <1>2, <1>3, SetTurn
<1>5. BoardTypeOK'
  BY <1>1, <1>4 DEF BoardInv, BoardTypeOK, cells, flags
<1>6. LocksReleased'
  BY <1>1, <1>2, <1>4, LocksKept DEF cells, flags, BoardInv, LocksReleased
<1> QED
  BY <1>4, <1>5, <1>6 DEF BoardInv

LEMMA GhostSetsOutInv ==
  ASSUME BoardInv, NEW g \in Ghosts, NEW d \in Directions, GhostSetsOut(g, d)
  PROVE  BoardInv'
<1> DEFINE old == ghosts[g]
           r   == IF ~Inside(old.pos, d) THEN Asleep(old.pos, FALSE)
                  ELSE [old EXCEPT !.charged = FALSE, !.dir = d,
                          !.pc   = IF old.charged THEN "charge" ELSE "step",
                          !.todo = IF old.charged THEN Path(old.pos, d)
                                   ELSE {old.pos, old.pos + Step(d)}]
<1>1. /\ old \in GhostType /\ old.pos \in Cells /\ old.pc = "sleep" /\ Set(g, r)
      /\ UNCHANGED <<cells, pac, flags>>
  BY DEF GhostSetsOut, BoardInv, BoardTypeOK, GhostType
<1>2. /\ r \in GhostType
      /\ r.todo # {} => r.pc \in {"step", "charge"}
      /\ r.pc \in {"step", "charge"} => Inside(r.pos, r.dir)
  <2>1. CASE ~Inside(old.pos, d)
    BY <1>1, <2>1, AsleepType
  <2>2. CASE Inside(old.pos, d)
    <3>1. Path(old.pos, d) \subseteq Cells /\ {old.pos, old.pos + Step(d)} \subseteq Cells
      BY <1>1, <2>2, StepStays DEF Path
    <3>2. /\ r = [old EXCEPT !.charged = FALSE, !.dir = d,
                          !.pc   = IF old.charged THEN "charge" ELSE "step",
                          !.todo = IF old.charged THEN Path(old.pos, d)
                                   ELSE {old.pos, old.pos + Step(d)}]
      BY <2>2
    <3> HIDE DEF r
    <3>3. /\ r \in GhostType /\ r.pos = old.pos /\ r.dir = d
          /\ r.pc \in {"step", "charge"}
      BY <1>1, <3>1, <3>2 DEF GhostType
    <3> QED
      BY <2>2, <3>3
  <2> QED
    BY <2>1, <2>2
<1>3. /\ ghosts' \in [Ghosts -> GhostType] /\ Turns'
      /\ ghosts'[g] = r /\ \A h \in Ghosts \ {g} : ghosts'[h] = ghosts[h]
  <2> HIDE DEF r
  <2> QED
    BY <1>1, <1>2, SetTurn
<1>4. BoardTypeOK'
  BY <1>1, <1>3 DEF BoardInv, BoardTypeOK, cells, flags
<1>5. LocksReleased'
  <2>1. \A c \in Cells : lock[c] # g
    BY <1>1 DEF BoardInv, LocksReleased
  <2> QED
    BY <1>1, <1>3, <2>1, LocksKept DEF cells, flags
<1> QED
  BY <1>3, <1>4, <1>5 DEF BoardInv

LEMMA GhostLocksInv ==
  ASSUME BoardInv, NEW g \in Ghosts, GhostLocks(g) PROVE BoardInv'
<1> DEFINE c == Min(ghosts[g].todo)
           r == [ghosts[g] EXCEPT !.todo = @ \ {c}]
<1>1. /\ ghosts[g] \in GhostType /\ ghosts[g].todo # {} /\ Set(g, r)
      /\ lock[c] = "nobody" /\ lock' = [lock EXCEPT ![c] = g]
      /\ UNCHANGED <<content, dots, pac, flags>>
  BY DEF GhostLocks, BoardInv, BoardTypeOK
<1>2. c \in Cells
  <2>1. ghosts[g].todo \in SUBSET Nat /\ ghosts[g].todo \in SUBSET Cells
    BY <1>1, Size DEF GhostType, Cells
  <2> QED
    BY <1>1, <2>1, LeastType
<1> HIDE DEF c
<1>3. /\ r \in GhostType /\ r.pc = ghosts[g].pc /\ r.pos = ghosts[g].pos
      /\ r.dir = ghosts[g].dir
  BY <1>1 DEF GhostType
<1> HIDE DEF r
<1>4. r.pc \in {"step", "charge"} /\ Inside(r.pos, r.dir)
  BY <1>1, <1>3 DEF BoardInv, Turns
<1>5. /\ ghosts' \in [Ghosts -> GhostType] /\ Turns'
      /\ ghosts'[g] = r /\ \A h \in Ghosts \ {g} : ghosts'[h] = ghosts[h]
  BY <1>1, <1>3, <1>4, SetTurn
<1>6. BoardTypeOK'
  BY <1>1, <1>2, <1>5 DEF BoardInv, BoardTypeOK, flags
<1>7. LocksReleased'
  <2>1. \A k \in Cells, w \in (Ghosts \ {g}) \cup {"session"} : lock'[k] = w => lock[k] = w
    BY <1>1, <1>2, Names DEF BoardInv, BoardTypeOK
  <2> QED
    BY <1>1, <1>4, <1>5, <2>1, LocksKept DEF flags
<1> QED
  BY <1>5, <1>6, <1>7 DEF BoardInv

LEMMA GhostLooksInv ==
  ASSUME BoardInv, NEW g \in Ghosts, GhostLooks(g)
  PROVE  BoardInv' /\ pac'.points = pac.points
<1> DEFINE to == ghosts[g].pos + Step(ghosts[g].dir)
<1>1. /\ ghosts[g] \in GhostType /\ ghosts[g].pc = "step" /\ ghosts[g].todo = {}
      /\ ghosts[g].pos \in Cells /\ ghosts[g].dir \in Directions
      /\ dots' = dots /\ UNCHANGED flags
  BY DEF GhostLooks, BoardInv, BoardTypeOK, GhostType
<1>2. Inside(ghosts[g].pos, ghosts[g].dir) /\ to \in Cells
  BY <1>1, StepStays DEF BoardInv, Turns
<1> HIDE DEF to
<1>3. CASE content[to] \in {"W", "M"}
  <2> DEFINE r == Asleep(ghosts[g].pos, FALSE)
  <2>1. Set(g, r) /\ lock' = Unlocked(g) /\ UNCHANGED <<content, pac>>
    BY <1>3 DEF GhostLooks, to
  <2>2. r \in GhostType /\ r.todo = {} /\ r.pc = "sleep"
    BY <1>1, AsleepType
  <2> HIDE DEF r
  <2>3. /\ ghosts' \in [Ghosts -> GhostType] /\ Turns'
        /\ \A h \in Ghosts \ {g} : ghosts'[h] = ghosts[h]
    BY <2>1, <2>2, SetTurn
  <2>4. BoardTypeOK'
    BY <1>1, <2>1, <2>3, UnlockedType DEF BoardInv, BoardTypeOK, flags
  <2>5. LocksReleased'
    BY <1>1, <2>1, <2>3, LocksGiven DEF flags
  <2> QED
    BY <2>1, <2>3, <2>4, <2>5 DEF BoardInv
<1>4. CASE content[to] \notin {"W", "M"}
  <2> DEFINE r == [ghosts[g] EXCEPT !.pc = "move", !.dest = to]
  <2>1. Set(g, r) /\ KillAt(to) /\ lock' = lock
    BY <1>4 DEF GhostLooks, to
  <2>2. r \in GhostType /\ r.todo = {} /\ r.pc = "move"
    BY <1>1, <1>2 DEF GhostType
  <2> HIDE DEF r
  <2>3. /\ ghosts' \in [Ghosts -> GhostType] /\ Turns' /\ ghosts'[g] = r
        /\ \A h \in Ghosts \ {g} : ghosts'[h] = ghosts[h]
    BY <2>1, <2>2, SetTurn
  <2>4. BoardTypeOK' /\ pac'.points = pac.points
    BY <1>1, <1>2, <2>1, <2>3, KillType DEF BoardInv, BoardTypeOK, flags
  <2>5. LocksReleased'
    BY <1>1, <2>1, <2>2, <2>3, LocksKept DEF flags
  <2> QED
    BY <2>3, <2>4, <2>5 DEF BoardInv
<1> QED
  BY <1>3, <1>4

LEMMA GhostMovesInv ==
  ASSUME BoardInv, NEW g \in Ghosts, GhostMoves(g) PROVE BoardInv'
<1> DEFINE r == Asleep(ghosts[g].dest, FALSE)
<1>1. /\ ghosts[g] \in GhostType /\ ghosts[g].pos \in Cells /\ ghosts[g].dest \in Cells
      /\ content' = [content EXCEPT ![ghosts[g].pos] = " ", ![ghosts[g].dest] = "M"]
      /\ Set(g, r) /\ lock' = Unlocked(g) /\ UNCHANGED <<dots, pac, flags>>
  BY DEF GhostMoves, BoardInv, BoardTypeOK, GhostType
<1>2. r \in GhostType /\ r.todo = {} /\ r.pc = "sleep"
  BY <1>1, AsleepType
<1> HIDE DEF r
<1>3. /\ ghosts' \in [Ghosts -> GhostType] /\ Turns'
      /\ \A h \in Ghosts \ {g} : ghosts'[h] = ghosts[h]
  BY <1>1, <1>2, SetTurn
<1>4. BoardTypeOK'
  BY <1>1, <1>3, UnlockedType DEF BoardInv, BoardTypeOK, flags
<1>5. LocksReleased'
  BY <1>1, <1>3, LocksGiven DEF flags
<1> QED
  BY <1>3, <1>4, <1>5 DEF BoardInv

LEMMA GhostScansInv ==
  ASSUME BoardInv, NEW g \in Ghosts, GhostScans(g)
  PROVE  BoardInv' /\ pac'.points = pac.points
<1> DEFINE to == Stop(Path(ghosts[g].pos, ghosts[g].dir) \ {ghosts[g].pos}, ghosts[g].dir)
           r  == [ghosts[g] EXCEPT !.pc = "clear", !.dest = to]
<1>1. /\ ghosts[g] \in GhostType /\ ghosts[g].pc = "charge" /\ ghosts[g].todo = {}
      /\ ghosts[g].pos \in Cells /\ ghosts[g].dir \in Directions
      /\ Set(g, r) /\ KillAt(to) /\ lock' = Unlocked(g) /\ UNCHANGED <<dots, flags>>
  BY DEF GhostScans, BoardInv, BoardTypeOK, GhostType
<1>2. to \in Cells
  BY <1>1, StopStays DEF BoardInv, Turns
<1> HIDE DEF to
<1>3. r \in GhostType /\ r.todo = {} /\ r.pc = "clear"
  BY <1>1, <1>2 DEF GhostType
<1> HIDE DEF r
<1>4. /\ ghosts' \in [Ghosts -> GhostType] /\ Turns'
      /\ \A h \in Ghosts \ {g} : ghosts'[h] = ghosts[h]
  BY <1>1, <1>3, SetTurn
<1>5. BoardTypeOK' /\ pac'.points = pac.points
  BY <1>1, <1>2, <1>4, UnlockedType, KillType DEF BoardInv, BoardTypeOK, flags
<1>6. LocksReleased'
  BY <1>1, <1>4, LocksGiven DEF flags
<1> QED
  BY <1>4, <1>5, <1>6 DEF BoardInv

\* The two writes of a charge, without a mutex.
LEMMA GhostClearsInv ==
  ASSUME BoardInv, NEW g \in Ghosts, GhostClears(g) \/ GhostPlaces(g) PROVE BoardInv'
<1> DEFINE r == IF ghosts[g].pc = "clear" THEN [ghosts[g] EXCEPT !.pc = "place"]
                ELSE Asleep(ghosts[g].dest, FALSE)
<1>1. /\ ghosts[g] \in GhostType /\ ghosts[g].pc \in {"clear", "place"}
      /\ ghosts[g].pos \in Cells /\ ghosts[g].dest \in Cells
      /\ Set(g, r) /\ UNCHANGED <<dots, pac, lock, flags>>
      /\ \E c \in Cells, v \in {" ", "M"} : content' = [content EXCEPT ![c] = v]
  <2>1. ghosts[g] \in GhostType /\ ghosts[g].pos \in Cells /\ ghosts[g].dest \in Cells
    BY DEF BoardInv, BoardTypeOK, GhostType
  <2> QED
    BY <2>1 DEF GhostClears, GhostPlaces
<1>2. r \in GhostType /\ r.todo = {} /\ r.pc \in {"place", "sleep"}
  <2>1. ghosts[g].todo = {}
    BY <1>1 DEF BoardInv, Turns
  <2> QED
    BY <1>1, <2>1, AsleepType DEF GhostType
<1> HIDE DEF r
<1>3. /\ ghosts' \in [Ghosts -> GhostType] /\ Turns'
      /\ \A h \in Ghosts \ {g} : ghosts'[h] = ghosts[h]
  BY <1>1, <1>2, SetTurn
<1>4. BoardTypeOK'
  BY <1>1, <1>3 DEF BoardInv, BoardTypeOK, flags
<1>5. LocksReleased'
  <2>1. \A c \in Cells : lock[c] # g
    BY <1>1 DEF BoardInv, LocksReleased
  <2> QED
    BY <1>1, <1>3, <2>1, LocksKept DEF flags
<1> QED
  BY <1>3, <1>4, <1>5 DEF BoardInv

LEMMA GhostTurnInv ==
  ASSUME BoardInv, NEW g \in Ghosts, GhostStarts(g) \/ GhostTurn(g)
  PROVE  BoardInv' /\ dots' = dots /\ pac'.points = pac.points /\ UNCHANGED flags
<1>1. dots' = dots /\ UNCHANGED flags
  BY DEF GhostStarts, GhostTurn, GhostCharges, GhostSetsOut, GhostLocks, GhostLooks,
         GhostMoves, GhostScans, GhostClears, GhostPlaces, cells
<1>2. GhostLooks(g) \/ GhostScans(g) \/ pac' = pac
  BY DEF GhostStarts, GhostTurn, GhostCharges, GhostSetsOut, GhostLocks,
         GhostMoves, GhostClears, GhostPlaces
<1>3. pac'.points = pac.points
  BY <1>2, GhostLooksInv, GhostScansInv
<1> QED
  BY <1>1, <1>3, GhostChargesInv, GhostSetsOutInv, GhostLocksInv, GhostLooksInv,
     GhostMovesInv, GhostScansInv, GhostClearsInv DEF GhostStarts, GhostTurn
-----------------------------------------------------------------------------
(* A move of the pacman.                                                   *)

Score == pac.points + Cardinality(dots)

LEMMA DotsFinite ==
  ASSUME BoardTypeOK
  PROVE  IsFiniteSet(dots) /\ Cardinality(dots) \in Nat
<1>1. IsFiniteSet(Cells)
  BY Size, FS_Interval DEF Cells
<1> QED
  BY <1>1, FS_Subset, FS_CardinalityType DEF BoardTypeOK

LEMMA PacmanWalksInv ==
  ASSUME BoardInv, NEW to \in Cells, PacmanWalks(to)
  PROVE  BoardInv' /\ Score' = Score /\ UNCHANGED flags
<1> DEFINE e == IF to \in dots THEN 1 ELSE 0
<1>1. /\ pac \in [pos : Cells, alive : BOOLEAN, points : Nat] /\ dots \in SUBSET Cells
      /\ content \in [Cells -> {" ", "W", "P", "M"}] /\ pac.pos \in Cells
      /\ pac.points \in Nat /\ pac.alive \in BOOLEAN
  BY DEF BoardInv, BoardTypeOK
<1>2. /\ pac' = [pac EXCEPT !.pos = to, !.points = @ + e]
      /\ dots' = dots \ {to}
      /\ content' = [content EXCEPT ![pac.pos] = " ", ![to] = "P"]
      /\ UNCHANGED <<ghosts, lock, flags>>
  BY DEF PacmanWalks
<1>3. IsFiniteSet(dots) /\ Cardinality(dots) \in Nat
  BY DotsFinite DEF BoardInv
<1>4. e \in Nat /\ Cardinality(dots') = Cardinality(dots) - e
  <2>1. CASE to \in dots
    BY <1>2, <1>3, <2>1, FS_RemoveElement
  <2>2. CASE to \notin dots
    <3>1. dots' = dots
      BY <1>2, <2>2
    <3> QED
      BY <1>3, <2>2, <3>1
  <2> QED
    BY <2>1, <2>2
<1> HIDE DEF e
<1>5. /\ pac' \in [pos : Cells, alive : BOOLEAN, points : Nat]
      /\ pac'.points = pac.points + e
  <2>1. \A p \in Nat : p + e \in Nat
    BY <1>4
  <2>2. pac.points + e \in Nat
    BY <1>1, <2>1
  <2> QED
    BY <1>1, <1>2, <2>2
<1>6. Score' = Score
  <2>1. \A p, n \in Nat : (p + e) + (n - e) = p + n
    BY <1>4
  <2>2. Score' = (pac.points + e) + (Cardinality(dots) - e)
    BY <1>4, <1>5 DEF Score
  <2> QED
    BY <1>1, <1>3, <2>1, <2>2 DEF Score
<1>7. content' \in [Cells -> {" ", "W", "P", "M"}] /\ dots' \in SUBSET Cells
  BY <1>1, <1>2
<1>8. BoardTypeOK'
  BY <1>2, <1>5, <1>7 DEF BoardInv, BoardTypeOK, flags
<1>9. Turns' /\ LocksReleased'
  BY <1>2 DEF BoardInv, Turns, LocksReleased, flags
<1> QED
  BY <1>2, <1>6, <1>8, <1>9 DEF BoardInv

LEMMA PacmanPortalInv ==
  ASSUME BoardInv, NEW to \in Cells, PacmanPortal(to),
         lock[pac.pos] = "nobody", lock[to] = "nobody"
  PROVE  BoardInv' /\ Score' = Score
<1>1. /\ pac.pos \in Cells /\ lock \in [Cells -> Ghosts \cup {"session", "nobody"}]
      /\ lock' = [lock EXCEPT ![pac.pos] = "session", ![to] = "session"]
      /\ content' = [content EXCEPT ![pac.pos] = " ", ![to] = "P"]
      /\ victory' = TRUE /\ UNCHANGED <<dots, pac, ghosts, game_over>>
  BY DEF BoardInv, BoardTypeOK, PacmanPortal
<1>2. BoardTypeOK'
  <2>1. content' \in [Cells -> {" ", "W", "P", "M"}]
    BY <1>1 DEF BoardInv, BoardTypeOK
  <2>2. lock' \in [Cells -> Ghosts \cup {"session", "nobody"}]
    BY <1>1
  <2> QED
    BY <1>1, <2>1, <2>2 DEF BoardInv, BoardTypeOK
<1>3. Turns'
  BY <1>1 DEF BoardInv, Turns
<1>4. LocksReleased'
  <2>1. \A g \in Ghosts, c \in Cells : lock'[c] = g => lock[c] = g
    BY <1>1, Names
  <2> QED
    BY <1>1, <2>1 DEF BoardInv, LocksReleased
<1> QED
  BY <1>1, <1>2, <1>3, <1>4 DEF BoardInv, Score

LEMMA PlayInv ==
  ASSUME BoardInv, NEW d \in Directions, Play(d) PROVE BoardInv' /\ Score' = Score
<1> DEFINE to == pac.pos + Step(d)
<1>1. pac.pos \in Cells /\ pac \in [pos : Cells, alive : BOOLEAN, points : Nat]
  BY DEF BoardInv, BoardTypeOK
<1>2. CASE PacmanIsDead \/ PacmanStays
  BY <1>2 DEF PacmanIsDead, PacmanStays, BoardInv, BoardTypeOK, Turns, LocksReleased,
     Score, cells, flags
<1>3. CASE pac.alive /\ Inside(pac.pos, d)
  <2>1. to \in Cells
    BY <1>1, <1>3, StepStays
  <2> HIDE DEF to
  <2>2. CASE PacmanMeetsGhost(to)
    <3>1. /\ content' = [content EXCEPT ![pac.pos] = " "] /\ pac' = Killed
          /\ game_over' = TRUE /\ UNCHANGED <<dots, ghosts, lock, victory>>
      BY <2>2 DEF PacmanMeetsGhost
    <3>2. /\ pac' \in [pos : Cells, alive : BOOLEAN, points : Nat]
          /\ pac'.points = pac.points
      BY <1>1, <3>1 DEF Killed
    <3> QED
      BY <1>1, <3>1, <3>2 DEF BoardInv, BoardTypeOK, Turns, LocksReleased, Score
  <2>3. /\ lock[pac.pos] = "nobody" /\ lock[to] = "nobody"
        /\ \/ PacmanPortal(to) \/ PacmanStays \/ PacmanMeetsGhost(to) \/ PacmanWalks(to)
        \/ PacmanIsDead
    BY <1>3 DEF Play, to, PacmanWall, PacmanIsDead
  <2> QED
    BY <1>2, <2>1, <2>2, <2>3, PacmanPortalInv, PacmanWalksInv
<1> QED
  BY <1>2, <1>3 DEF Play
-----------------------------------------------------------------------------
(* The level.                                                              *)

\* Whatever load_level makes is well-formed.
LEMMA LevelType ==
  /\ LevelContent \in [Cells -> {" ", "W", "P", "M"}]
  /\ Cells \ (Walls \cup Portals) \in SUBSET Cells
  /\ PacStart \in Cells /\ \A g \in Ghosts : GhostStart[g] \in Cells
  BY BoardAssumption DEF LevelContent

\* The board of a level that was just loaded, its ghosts not yet on their way
\* or all gone.
Fresh ==
  /\ content = LevelContent /\ dots = Cells \ (Walls \cup Portals)
  /\ pac \in [pos : {PacStart}, alive : {TRUE}, points : Nat]
  /\ ghosts \in [Ghosts -> GhostType]
  /\ \A g \in Ghosts : /\ ghosts[g].pos = GhostStart[g] /\ ~ghosts[g].charged
                       /\ ghosts[g].pc \in {"sleep", "exit"} /\ ghosts[g].todo = {}
  /\ lock = [c \in Cells |-> "nobody"]
  /\ victory = FALSE /\ game_over \in BOOLEAN

LEMMA FreshInv == Fresh => BoardInv
<1> SUFFICES ASSUME Fresh PROVE BoardInv
  OBVIOUS
<1>1. BoardTypeOK
  BY LevelType DEF Fresh, BoardTypeOK
<1>2. Turns /\ LocksReleased
  BY Names DEF Fresh, Turns, LocksReleased
<1> QED
  BY <1>1, <1>2 DEF BoardInv

LEMMA InitFresh == BoardInit => Fresh
<1> SUFFICES ASSUME BoardInit PROVE Fresh
  OBVIOUS
<1>1. ghosts = [g \in Ghosts |-> Asleep(GhostStart[g], FALSE)]
  BY DEF BoardInit
<1>2. \A g \in Ghosts : GhostStart[g] \in Cells /\ FALSE \in BOOLEAN
  BY LevelType
<1>3. \A g \in Ghosts : /\ ghosts[g] \in GhostType /\ ghosts[g].pos = GhostStart[g]
                        /\ ghosts[g].pc = "sleep" /\ ghosts[g].todo = {}
                        /\ ghosts[g].charged = FALSE
  BY <1>1, <1>2, AsleepType
<1>4. ghosts \in [Ghosts -> GhostType]
  BY <1>1, <1>3
<1> QED
  BY <1>3, <1>4 DEF BoardInit, Fresh

LEMMA BoardInitInv == BoardInit => BoardInv /\ DotsConserved
<1> SUFFICES ASSUME BoardInit PROVE BoardInv /\ DotsConserved
  OBVIOUS
<1>1. BoardInv
  BY InitFresh, FreshInv
<1>2. DotsConserved
  BY <1>1, DotsFinite DEF BoardInit, DotsConserved, BoardInv
<1> QED
  BY <1>1, <1>2

LEMMA BoardStepInv ==
  BoardInv /\ DotsConserved /\ [BoardNext]_board => BoardInv' /\ DotsConserved'
<1> SUFFICES ASSUME BoardInv, DotsConserved, [BoardNext]_board
             PROVE  BoardInv' /\ DotsConserved'
  OBVIOUS
<1>1. CASE \E d \in Directions : Play(d)
  <2>1. BoardInv' /\ Score' = Score
    BY <1>1, PlayInv
  <2> QED
    BY <2>1 DEF DotsConserved, Score
<1>2. CASE \E g \in Ghosts : GhostStarts(g) \/ GhostTurn(g)
  BY <1>2, GhostTurnInv DEF DotsConserved
<1>3. CASE UNCHANGED board
  BY <1>3 DEF board, cells, flags, BoardInv, BoardTypeOK, Turns, LocksReleased, DotsConserved
<1> QED
  BY <1>1, <1>2, <1>3 DEF BoardNext

LEMMA BoardInvariant == BoardSpec => [](BoardInv /\ DotsConserved)
  BY BoardInitInv, BoardStepInv, PTL DEF BoardSpec

\* Everybody stays on the board, also at its border and at the end of a charge
\* (BoardTypeOK).
THEOREM BoardTypeCorrect == BoardSpec => []BoardTypeOK
<1>1. BoardInv => BoardTypeOK
  BY DEF BoardInv
<1> QED
  BY <1>1, BoardInvariant, PTL

\* Every point of the pacman was a dot (DotsConserved).
THEOREM DotsTheorem == BoardSpec => []DotsConserved
  BY BoardInvariant, PTL

\* A ghost between two turns holds no mutex, and the session holds some only
\* after the portal (LocksReleased).
THEOREM LocksTheorem == BoardSpec => []LocksReleased
<1>1. BoardInv => LocksReleased
  BY DEF BoardInv
<1> QED
  BY <1>1, BoardInvariant, PTL
-----------------------------------------------------------------------------
(* When no ghost is ordered to charge: the mutexes of the cells keep the   *)
(* ghosts apart and the board true, however their turns interleave.        *)

\* The mutexes a ghost has when it looks, and when it moves to a cell it saw
\* free.
HeldBy(g) ==
  LET me == ghosts[g]
      to == me.pos + Step(me.dir) IN
  /\ ~me.charged /\ me.pc \in {"sleep", "step", "move", "exit"}
  /\ me.pc = "step" => \A c \in {me.pos, to} \ me.todo : lock[c] = g
  /\ me.pc = "move" => /\ lock[me.pos] = g /\ lock[me.dest] = g
                       /\ me.dest # me.pos /\ content[me.dest] = " "
Held == \A g \in Ghosts : HeldBy(g)

\* The cells show who is where, but for the two the session keeps.
ShownAt(c) ==
  /\ content[c] = "M" <=> \E g \in Ghosts : ghosts[g].pos = c
  /\ content[c] = "P" <=> pac.alive /\ pac.pos = c
Shown == \A c \in Cells : lock[c] # "session" => ShownAt(c)
WallsShown == \A c \in Cells : content[c] = "W" <=> c \in Walls

ApartInv == BoardInv /\ Held /\ Shown /\ WallsShown /\ GhostsApart

LEMMA ApartTyped ==
  ASSUME BoardTypeOK, NEW g \in Ghosts
  PROVE  /\ ghosts \in [Ghosts -> GhostType] /\ ghosts[g] \in GhostType
         /\ ghosts[g].pos \in Cells /\ ghosts[g].dest \in Cells
         /\ ghosts[g].dir \in Directions /\ ghosts[g].todo \in SUBSET Cells
         /\ \A c \in Cells : content[c] \in {" ", "W", "P", "M"}
  BY DEF BoardTypeOK, GhostType

\* Another ghost keeps what it holds.
LEMMA OtherHeld ==
  ASSUME ApartInv, NEW h \in Ghosts, ghosts'[h] = ghosts[h],
         \A c \in Cells : lock[c] = h => lock'[c] = h /\ content'[c] = content[c]
  PROVE  HeldBy(h)'
<1> DEFINE me == ghosts[h]
           to == me.pos + Step(me.dir)
<1>1. me.pos \in Cells /\ me.dest \in Cells /\ me.dir \in Directions
  BY ApartTyped DEF ApartInv, BoardInv
<1>2. me.pc = "step" => to \in Cells
  BY <1>1, StepStays DEF ApartInv, BoardInv, Turns
<1>3. HeldBy(h)
  BY DEF ApartInv, Held
<1> QED
  BY <1>1, <1>2, <1>3 DEF HeldBy
-----------------------------------------------------------------------------
(* A turn of a ghost.                                                      *)

LEMMA ApartStarts ==
  ASSUME "C" \notin Orders, ApartInv, NEW g \in Ghosts, GhostStarts(g)
  PROVE  ApartInv'
<1>1. BoardInv'
  BY GhostTurnInv DEF ApartInv
<1>2. PICK d \in Directions : GhostSetsOut(g, d)
  BY DEF GhostStarts, GhostCharges
<1> DEFINE old == ghosts[g]
           r   == IF ~Inside(old.pos, d) THEN Asleep(old.pos, FALSE)
                  ELSE [old EXCEPT !.charged = FALSE, !.dir = d,
                          !.pc   = IF old.charged THEN "charge" ELSE "step",
                          !.todo = IF old.charged THEN Path(old.pos, d)
                                   ELSE {old.pos, old.pos + Step(d)}]
<1>3. /\ old.pc = "sleep" /\ ghosts' = [ghosts EXCEPT ![g] = r]
      /\ UNCHANGED <<content, dots, lock, pac, flags>>
  BY <1>2 DEF GhostSetsOut, Set, cells
<1>4. old \in GhostType /\ old.pos \in Cells /\ ghosts \in [Ghosts -> GhostType]
  BY ApartTyped DEF ApartInv, BoardInv
<1>5. ~old.charged
  BY DEF ApartInv, Held, HeldBy
<1>6. /\ r.pos = old.pos /\ ~r.charged /\ r.pc \in {"sleep", "step"}
      /\ r.pc = "step" => r.todo = {old.pos, old.pos + Step(d)} /\ r.dir = d
  <2>1. CASE ~Inside(old.pos, d)
    BY <1>4, <2>1, AsleepType
  <2>2. CASE Inside(old.pos, d)
    BY <1>4, <1>5, <2>2 DEF GhostType
  <2> QED
    BY <2>1, <2>2
<1> HIDE DEF r
<1>7. ghosts'[g] = r /\ \A h \in Ghosts \ {g} : ghosts'[h] = ghosts[h]
  BY <1>3, <1>4
<1>8. \A h \in Ghosts : ghosts'[h].pos = ghosts[h].pos
  BY <1>6, <1>7
<1>9. Shown' /\ WallsShown' /\ GhostsApart'
  BY <1>3, <1>8 DEF ApartInv, Shown, ShownAt, WallsShown, GhostsApart
<1>10. Held'
  <2>1. ASSUME NEW h \in Ghosts \ {g} PROVE HeldBy(h)'
    BY <1>3, <1>7, OtherHeld
  <2>2. HeldBy(g)'
    BY <1>6, <1>7 DEF HeldBy
  <2> QED
    BY <2>1, <2>2 DEF Held
<1> QED
  BY <1>1, <1>9, <1>10 DEF ApartInv

LEMMA ApartLocks ==
  ASSUME ApartInv, NEW g \in Ghosts, GhostLocks(g) PROVE ApartInv'
<1> DEFINE old == ghosts[g]
           c   == Min(old.todo)
<1>1. BoardInv'
  BY GhostTurnInv DEF ApartInv, GhostTurn
<1>2. /\ old \in GhostType /\ ghosts \in [Ghosts -> GhostType] /\ old.todo \in SUBSET Cells
      /\ old.pos \in Cells /\ old.todo # {} /\ Cells \subseteq Nat
  BY ApartTyped, CellSplit DEF ApartInv, BoardInv, GhostLocks
<1>3. c \in old.todo
  BY <1>2, LeastType
<1>4. /\ lock[c] = "nobody" /\ lock' = [lock EXCEPT ![c] = g]
      /\ ghosts' = [ghosts EXCEPT ![g] = [old EXCEPT !.todo = @ \ {c}]]
      /\ UNCHANGED <<content, dots, pac, flags>>
  BY DEF GhostLocks, Set
<1> HIDE DEF c
<1>5. lock \in [Cells -> Ghosts \cup {"session", "nobody"}] /\ c \in Cells
  BY <1>2, <1>3 DEF ApartInv, BoardInv, BoardTypeOK
<1>6. /\ lock'[c] = g /\ \A k \in Cells \ {c} : lock'[k] = lock[k]
      /\ g # "session" /\ g # "nobody"
  BY <1>4, <1>5, Names
<1>7. /\ \A h \in Ghosts \ {g} : ghosts'[h] = ghosts[h]
      /\ ghosts'[g] = [old EXCEPT !.todo = @ \ {c}]
  BY <1>2, <1>4
<1>8. /\ ghosts'[g].todo = old.todo \ {c} /\ ghosts'[g].pos = old.pos
      /\ ghosts'[g].charged = old.charged /\ ghosts'[g].pc = old.pc
      /\ ghosts'[g].dir = old.dir
  BY <1>2, <1>7 DEF GhostType
<1>9. \A h \in Ghosts : ghosts'[h].pos = ghosts[h].pos
  BY <1>7, <1>8
<1>10. Shown' /\ WallsShown' /\ GhostsApart'
  <2>1. \A k \in Cells : lock'[k] # "session" => lock[k] # "session"
    BY <1>4, <1>6
  <2>2. Shown'
    BY <1>4, <1>9, <2>1 DEF ApartInv, Shown, ShownAt
  <2> QED
    BY <1>4, <1>9, <2>2 DEF ApartInv, WallsShown, GhostsApart
<1>11. Held'
  <2>1. ASSUME NEW h \in Ghosts \ {g} PROVE HeldBy(h)'
    <3>1. h # "nobody"
      BY Names
    <3>2. \A k \in Cells : lock[k] = h => lock'[k] = h /\ content'[k] = content[k]
      BY <1>4, <1>6, <3>1
    <3> QED
      BY <1>7, <3>2, OtherHeld
  <2>2. HeldBy(g)'
    <3>0. HeldBy(g)
      BY DEF ApartInv, Held
    <3>1. old.pc = "step"
      BY <1>2 DEF ApartInv, BoardInv, Turns, Held, HeldBy
    <3>2. old.pos + Step(old.dir) \in Cells
      BY <1>2, <3>1, StepStays DEF ApartInv, BoardInv, Turns, GhostType
    <3>3. /\ ~old.charged
          /\ \A k \in {old.pos, old.pos + Step(old.dir)} \ old.todo : lock[k] = g
      BY <3>0, <3>1 DEF HeldBy
    <3>4. ASSUME NEW k \in {old.pos, old.pos + Step(old.dir)} \ (old.todo \ {c})
          PROVE  lock'[k] = g
      <4>1. k \in Cells
        BY <1>2, <3>2
      <4>2. k = c \/ lock[k] = g
        BY <3>3
      <4> QED
        BY <1>6, <4>1, <4>2
    <3>5. ~ghosts'[g].charged /\ ghosts'[g].pc = "step"
      BY <1>8, <3>1, <3>3
    <3> QED
      BY <1>8, <3>4, <3>5 DEF HeldBy
  <2> QED
    BY <2>1, <2>2 DEF Held
<1> QED
  BY <1>1, <1>10, <1>11 DEF ApartInv

\* What a ghost that gives its mutexes back leaves to the others.
LEMMA OthersKeep ==
  ASSUME ApartInv, NEW g \in Ghosts, lock' = Unlocked(g)
  PROVE  /\ \A c \in Cells, h \in Ghosts \ {g} : lock[c] = h => lock'[c] = h
         /\ \A c \in Cells : lock'[c] # "session" => lock[c] # "session"
<1>1. \A c \in Cells : lock[c] # g => lock'[c] = lock[c]
  BY UnlockedType DEF ApartInv, BoardInv
<1> QED
  BY <1>1, Names

LEMMA ApartLooks ==
  ASSUME ApartInv, NEW g \in Ghosts, GhostLooks(g) PROVE ApartInv'
<1> DEFINE old == ghosts[g]
           to  == old.pos + Step(old.dir)
<1>1. BoardInv'
  BY GhostTurnInv DEF ApartInv, GhostTurn
<1>2. /\ old \in GhostType /\ ghosts \in [Ghosts -> GhostType] /\ old.pos \in Cells
      /\ old.dir \in Directions /\ \A k \in Cells : content[k] \in {" ", "W", "P", "M"}
  BY ApartTyped DEF ApartInv, BoardInv
<1>3. old.pc = "step" /\ old.todo = {} /\ UNCHANGED <<dots, flags>>
  BY DEF GhostLooks
<1>4. to \in Cells /\ to # old.pos
  BY <1>2, <1>3, StepStays DEF ApartInv, BoardInv, Turns
<1>5. lock[old.pos] = g /\ lock[to] = g /\ ~old.charged
  BY <1>3 DEF ApartInv, Held, HeldBy
<1>6. CASE content[to] \in {"W", "M"}
  <2>1. /\ ghosts' = [ghosts EXCEPT ![g] = Asleep(old.pos, FALSE)]
        /\ lock' = Unlocked(g) /\ UNCHANGED <<content, pac>>
    BY <1>6 DEF GhostLooks, Set
  <2>2. /\ ghosts'[g] = Asleep(old.pos, FALSE)
        /\ \A h \in Ghosts \ {g} : ghosts'[h] = ghosts[h]
    BY <1>2, <2>1
  <2>3. /\ ghosts'[g].pos = old.pos /\ ghosts'[g].pc = "sleep"
        /\ ghosts'[g].charged = FALSE
    <3>1. old.pos \in Cells /\ FALSE \in BOOLEAN
      BY <1>2
    <3> QED
      BY <2>2, <3>1, AsleepType
  <2>4. \A h \in Ghosts : ghosts'[h].pos = ghosts[h].pos
    BY <2>2, <2>3
  <2>5. Shown' /\ WallsShown' /\ GhostsApart'
    <3>1. \A k \in Cells : lock'[k] # "session" => lock[k] # "session"
      BY <2>1, OthersKeep
    <3>2. \A k \in Cells : ShownAt(k) => ShownAt(k)'
      BY <2>1, <2>4 DEF ShownAt
    <3>3. Shown'
      BY <3>1, <3>2 DEF ApartInv, Shown
    <3> QED
      BY <2>1, <2>4, <3>3 DEF ApartInv, WallsShown, GhostsApart
  <2>6. Held'
    <3>1. ASSUME NEW h \in Ghosts \ {g} PROVE HeldBy(h)'
      <4>1. \A k \in Cells : lock[k] = h => lock'[k] = h /\ content'[k] = content[k]
        BY <2>1, OthersKeep
      <4> QED
        BY <2>2, <4>1, OtherHeld
    <3>2. HeldBy(g)'
      BY <2>3 DEF HeldBy
    <3> QED
      BY <3>1, <3>2 DEF Held
  <2> QED
    BY <1>1, <2>5, <2>6 DEF ApartInv
<1>7. CASE content[to] \notin {"W", "M"}
  <2>1. /\ ghosts' = [ghosts EXCEPT ![g] = [old EXCEPT !.pc = "move", !.dest = to]]
        /\ KillAt(to) /\ lock' = lock
    BY <1>7 DEF GhostLooks, Set
  <2>2. /\ ghosts'[g] = [old EXCEPT !.pc = "move", !.dest = to]
        /\ \A h \in Ghosts \ {g} : ghosts'[h] = ghosts[h]
    BY <1>2, <2>1
  <2>3. /\ ghosts'[g].pos = old.pos /\ ghosts'[g].dest = to /\ ghosts'[g].pc = "move"
        /\ ghosts'[g].charged = old.charged
    BY <1>2, <2>2 DEF GhostType
  <2>4. \A h \in Ghosts : ghosts'[h].pos = ghosts[h].pos
    BY <2>2, <2>3
  <2>5. ShownAt(to)
    BY <1>4, <1>5, Names DEF ApartInv, Shown
  <2>6. /\ pac'.pos = pac.pos
        /\ \A k \in Cells \ {to} : content'[k] = content[k]
        /\ IF Kills(to) THEN content'[to] = " " /\ pac'.alive = FALSE
           ELSE content' = content /\ pac' = pac
    BY <1>4, <2>1, KillType DEF ApartInv, BoardInv
  <2> HIDE DEF to
  <2>7. /\ content'[to] = " " /\ ~(pac'.alive /\ pac'.pos = to)
        /\ \A k \in Cells \ {to} : pac'.alive /\ pac'.pos = k <=> pac.alive /\ pac.pos = k
    <3>1. CASE Kills(to)
      BY <2>6, <3>1 DEF Kills
    <3>2. CASE ~Kills(to)
      BY <1>2, <1>4, <1>7, <2>5, <2>6, <3>2 DEF Kills, ShownAt
    <3> QED
      BY <3>1, <3>2
  <2>8. Shown'
    <3> SUFFICES ASSUME NEW k \in Cells, lock'[k] # "session" PROVE ShownAt(k)'
      BY DEF Shown
    <3>1. CASE k = to
      BY <1>7, <2>4, <2>5, <2>7, <3>1 DEF ShownAt
    <3>2. CASE k # to
      <4>1. ShownAt(k)
        BY <2>1 DEF ApartInv, Shown
      <4> QED
        BY <2>4, <2>6, <2>7, <3>2, <4>1 DEF ShownAt
    <3> QED
      BY <3>1, <3>2
  <2>9. WallsShown' /\ GhostsApart'
    <3>1. \A k \in Cells : content'[k] = "W" <=> content[k] = "W"
      BY <1>7, <2>6
    <3>2. WallsShown'
      BY <3>1 DEF ApartInv, WallsShown
    <3>3. GhostsApart'
      BY <2>4 DEF ApartInv, GhostsApart
    <3> QED
      BY <3>2, <3>3
  <2>10. Held'
    <3>1. ASSUME NEW h \in Ghosts \ {g} PROVE HeldBy(h)'
      <4>1. \A k \in Cells : lock[k] = h => lock'[k] = h /\ content'[k] = content[k]
        BY <1>5, <2>1, <2>6
      <4> QED
        BY <2>2, <4>1, OtherHeld
    <3>2. HeldBy(g)'
      BY <1>4, <1>5, <2>1, <2>3, <2>7 DEF HeldBy
    <3> QED
      BY <3>1, <3>2 DEF Held
  <2> QED
    BY <1>1, <2>8, <2>9, <2>10 DEF ApartInv
<1> QED
  BY <1>6, <1>7

LEMMA ApartMoves ==
  ASSUME ApartInv, NEW g \in Ghosts, GhostMoves(g) PROVE ApartInv'
<1> DEFINE old == ghosts[g]
<1>1. BoardInv'
  BY GhostTurnInv DEF ApartInv, GhostTurn
<1>2. /\ old \in GhostType /\ ghosts \in [Ghosts -> GhostType] /\ old.pos \in Cells
      /\ old.dest \in Cells /\ content \in [Cells -> {" ", "W", "P", "M"}]
  BY ApartTyped DEF ApartInv, BoardInv, BoardTypeOK
<1>3. /\ old.pc = "move" /\ lock' = Unlocked(g) /\ UNCHANGED <<dots, pac, flags>>
      /\ content' = [content EXCEPT ![old.pos] = " ", ![old.dest] = "M"]
      /\ ghosts' = [ghosts EXCEPT ![g] = Asleep(old.dest, FALSE)]
  BY DEF GhostMoves, Set
<1>4. /\ lock[old.pos] = g /\ lock[old.dest] = g
      /\ old.dest # old.pos /\ content[old.dest] = " "
  BY <1>3 DEF ApartInv, Held, HeldBy
<1>5. ShownAt(old.pos) /\ ShownAt(old.dest)
  BY <1>2, <1>4, Names DEF ApartInv, Shown
<1>6. content[old.pos] = "M" /\ ~(pac.alive /\ pac.pos \in {old.pos, old.dest})
  BY <1>4, <1>5 DEF ShownAt
<1>7. \A h \in Ghosts : ghosts[h].pos # old.dest
  BY <1>4, <1>5 DEF ShownAt
<1>8. \A h \in Ghosts \ {g} : ghosts[h].pos # old.pos
  BY DEF ApartInv, GhostsApart
<1>9. /\ content'[old.pos] = " " /\ content'[old.dest] = "M"
      /\ \A k \in Cells \ {old.pos, old.dest} : content'[k] = content[k]
  BY <1>2, <1>3, <1>4
<1>10. /\ ghosts'[g] = Asleep(old.dest, FALSE)
       /\ \A h \in Ghosts \ {g} : ghosts'[h] = ghosts[h]
  BY <1>2, <1>3
<1>11. /\ ghosts'[g].pos = old.dest /\ ghosts'[g].pc = "sleep"
       /\ ghosts'[g].charged = FALSE
  <2>1. FALSE \in BOOLEAN /\ old.dest \in Cells
    BY <1>2
  <2> QED
    BY <1>10, <2>1, AsleepType
<1>12. Shown'
  <2> SUFFICES ASSUME NEW k \in Cells, lock'[k] # "session" PROVE ShownAt(k)'
    BY DEF Shown
  <2>1. CASE k = old.pos
    <3>1. \A h \in Ghosts : ghosts'[h].pos # k
      BY <1>4, <1>8, <1>10, <1>11, <2>1
    <3> QED
      BY <1>3, <1>6, <1>9, <2>1, <3>1 DEF ShownAt
  <2>2. CASE k = old.dest
    BY <1>3, <1>6, <1>9, <1>11, <2>2 DEF ShownAt
  <2>3. CASE k \notin {old.pos, old.dest}
    <3>1. lock[k] # "session"
      BY <1>3, OthersKeep
    <3>2. ShownAt(k)
      BY <3>1 DEF ApartInv, Shown
    <3>3. (\E h \in Ghosts : ghosts'[h].pos = k) <=> (\E h \in Ghosts : ghosts[h].pos = k)
      BY <1>10, <1>11, <2>3
    <3> QED
      BY <1>3, <1>9, <2>3, <3>2, <3>3 DEF ShownAt
  <2> QED
    BY <2>1, <2>2, <2>3
<1>13. WallsShown'
  BY <1>2, <1>4, <1>6, <1>9 DEF ApartInv, WallsShown
<1>14. GhostsApart'
  BY <1>7, <1>10, <1>11 DEF ApartInv, GhostsApart
<1>15. Held'
  <2>1. ASSUME NEW h \in Ghosts \ {g} PROVE HeldBy(h)'
    <3>1. \A k \in Cells : lock[k] = h => lock'[k] = h /\ content'[k] = content[k]
      BY <1>3, <1>4, <1>9, OthersKeep
    <3> QED
      BY <1>10, <3>1, OtherHeld
  <2>2. HeldBy(g)'
    BY <1>11 DEF HeldBy
  <2> QED
    BY <2>1, <2>2 DEF Held
<1> QED
  BY <1>1, <1>12, <1>13, <1>14, <1>15 DEF ApartInv

LEMMA ApartGhost ==
  ASSUME "C" \notin Orders, ApartInv, NEW g \in Ghosts, GhostStarts(g) \/ GhostTurn(g)
  PROVE  ApartInv'
<1>1. ghosts[g].pc \notin {"charge", "clear", "place"}
  BY DEF ApartInv, Held, HeldBy
<1>2. ~GhostScans(g) /\ ~GhostClears(g) /\ ~GhostPlaces(g)
  BY <1>1 DEF GhostScans, GhostClears, GhostPlaces
<1> QED
  BY <1>2, ApartStarts, ApartLocks, ApartLooks, ApartMoves DEF GhostTurn
-----------------------------------------------------------------------------
(* A PLAY.                                                                 *)

LEMMA ApartPlay ==
  ASSUME ApartInv, ~victory, NEW d \in Directions, Play(d) PROVE ApartInv'
<1> DEFINE to == pac.pos + Step(d)
<1>1. BoardInv'
  BY PlayInv DEF ApartInv
<1>2. /\ pac \in [pos : Cells, alive : BOOLEAN, points : Nat] /\ pac.pos \in Cells
      /\ content \in [Cells -> {" ", "W", "P", "M"}]
      /\ lock \in [Cells -> Ghosts \cup {"session", "nobody"}]
  BY DEF ApartInv, BoardInv, BoardTypeOK
<1>3. \A k \in Cells : lock[k] # "session" /\ ShownAt(k)
  BY DEF ApartInv, BoardInv, LocksReleased, Shown
<1>4. \A g \in Ghosts : ~ghosts[g].charged /\ ghosts[g].pc \in {"sleep", "exit"}
  BY DEF Play, CanWrite, Readers, ApartInv, Held, HeldBy
<1>5. ghosts' = ghosts
  BY DEF Play, PacmanIsDead, PacmanStays, PacmanPortal, PacmanWall, PacmanMeetsGhost,
     PacmanWalks
<1>6. Held' /\ GhostsApart'
  <2>1. Held'
    BY <1>4, <1>5 DEF Held, HeldBy
  <2>2. GhostsApart'
    BY <1>5 DEF ApartInv, GhostsApart
  <2> QED
    BY <2>1, <2>2
<1>7. CASE PacmanIsDead \/ PacmanStays
  <2>1. UNCHANGED <<content, pac, lock>>
    BY <1>7 DEF PacmanIsDead, PacmanStays, cells
  <2>2. \A k \in Cells : ShownAt(k) => ShownAt(k)'
    BY <1>5, <2>1 DEF ShownAt
  <2> QED
    BY <1>1, <1>3, <1>6, <2>1, <2>2 DEF ApartInv, Shown, WallsShown
<1>8. CASE pac.alive /\ Inside(pac.pos, d)
  <2>1. to \in Cells /\ to # pac.pos
    BY <1>2, <1>8, StepStays
  <2> HIDE DEF to
  <2>2. /\ content[pac.pos] = "P" /\ ~\E g \in Ghosts : ghosts[g].pos = pac.pos
        /\ \A k \in Cells \ {pac.pos} : content[k] # "P"
    BY <1>2, <1>3, <1>8 DEF ShownAt
  <2>3. CASE PacmanMeetsGhost(to)
    <3>1. /\ content' = [content EXCEPT ![pac.pos] = " "] /\ pac' = Killed /\ lock' = lock
      BY <2>3 DEF PacmanMeetsGhost
    <3>2. /\ pac'.alive = FALSE /\ content'[pac.pos] = " "
          /\ \A k \in Cells \ {pac.pos} : content'[k] = content[k]
      BY <1>2, <3>1 DEF Killed
    <3>3. \A k \in Cells : ShownAt(k)'
      BY <1>3, <1>5, <2>2, <3>2 DEF ShownAt
    <3>4. WallsShown'
      BY <1>2, <2>2, <3>2 DEF ApartInv, WallsShown
    <3> QED
      BY <1>1, <1>6, <3>3, <3>4 DEF ApartInv, Shown
  <2>4. CASE PacmanPortal(to)
    <3>1. /\ to \in Portals /\ pac' = pac
          /\ content' = [content EXCEPT ![pac.pos] = " ", ![to] = "P"]
          /\ lock' = [lock EXCEPT ![pac.pos] = "session", ![to] = "session"]
      BY <2>4 DEF PacmanPortal
    <3>2. /\ lock'[pac.pos] = "session" /\ lock'[to] = "session"
          /\ content'[pac.pos] = " " /\ content'[to] = "P"
          /\ \A k \in Cells \ {pac.pos, to} : content'[k] = content[k]
      BY <1>2, <2>1, <3>1
    <3>3. ASSUME NEW k \in Cells, lock'[k] # "session" PROVE ShownAt(k)'
      <4>1. k \notin {pac.pos, to} /\ ShownAt(k)
        BY <1>3, <3>2, <3>3
      <4> QED
        BY <1>5, <3>1, <3>2, <4>1 DEF ShownAt
    <3>4. to \notin Walls
      BY <3>1, BoardAssumption
    <3>5. WallsShown'
      BY <1>2, <2>2, <3>2, <3>4 DEF ApartInv, WallsShown
    <3> QED
      BY <1>1, <1>6, <3>3, <3>5 DEF ApartInv, Shown
  <2>5. CASE PacmanWalks(to)
    <3>1. /\ content[to] \notin {"W", "M"} /\ lock' = lock
          /\ pac' = [pac EXCEPT !.pos = to, !.points = @ + (IF to \in dots THEN 1 ELSE 0)]
          /\ content' = [content EXCEPT ![pac.pos] = " ", ![to] = "P"]
      BY <2>5 DEF PacmanWalks
    <3>2. /\ pac'.pos = to /\ pac'.alive = pac.alive
          /\ content'[pac.pos] = " " /\ content'[to] = "P"
          /\ \A k \in Cells \ {pac.pos, to} : content'[k] = content[k]
      BY <1>2, <2>1, <3>1
    <3>3. ~\E g \in Ghosts : ghosts[g].pos = to
      BY <1>3, <2>1, <3>1 DEF ShownAt
    <3>4. ASSUME NEW k \in Cells PROVE ShownAt(k)'
      <4>1. CASE k = to
        BY <1>5, <1>8, <3>2, <3>3, <4>1 DEF ShownAt
      <4>2. CASE k = pac.pos
        BY <1>5, <2>1, <2>2, <3>2, <4>2 DEF ShownAt
      <4>3. CASE k \notin {pac.pos, to}
        <5>1. ShownAt(k) /\ content'[k] = content[k]
          BY <1>3, <3>2, <4>3
        <5> QED
          BY <1>5, <3>2, <4>3, <5>1 DEF ShownAt
      <4> QED
        BY <4>1, <4>2, <4>3
    <3>5. WallsShown'
      BY <1>2, <2>1, <2>2, <3>1, <3>2 DEF ApartInv, WallsShown
    <3> QED
      BY <1>1, <1>6, <3>4, <3>5 DEF ApartInv, Shown
  <2>6. \/ PacmanPortal(to) \/ PacmanStays \/ PacmanMeetsGhost(to) \/ PacmanWalks(to)
        \/ PacmanIsDead
    BY <1>8 DEF Play, to, PacmanWall, PacmanIsDead
  <2> QED
    BY <1>7, <2>3, <2>4, <2>5, <2>6
<1> QED
  BY <1>7, <1>8 DEF Play
-----------------------------------------------------------------------------
(* All behaviours.                                                         *)

LEMMA FreshApart == Fresh => ApartInv
<1> SUFFICES ASSUME Fresh PROVE ApartInv
  OBVIOUS
<1>1. BoardInv
  BY FreshInv
<1>2. content = LevelContent /\ pac.pos = PacStart /\ pac.alive
  BY DEF Fresh
<1>3. \A g \in Ghosts : /\ ghosts[g].pos = GhostStart[g] /\ ~ghosts[g].charged
                        /\ ghosts[g].pc \in {"sleep", "exit"}
  BY DEF Fresh
<1>4. Held /\ GhostsApart
  <2>1. Held
    BY <1>3 DEF Held, HeldBy
  <2>2. \A g, h \in Ghosts : g # h => GhostStart[g] # GhostStart[h]
    BY BoardAssumption
  <2>3. GhostsApart
    BY <1>3, <2>2 DEF GhostsApart
  <2> QED
    BY <2>1, <2>3
<1>5. ASSUME NEW c \in Cells PROVE ShownAt(c) /\ (content[c] = "W" <=> c \in Walls)
  <2>1. content[c] = CASE c \in Walls -> "W" [] c = PacStart -> "P"
                       [] \E g \in Ghosts : c = GhostStart[g] -> "M" [] OTHER -> " "
    BY <1>2 DEF LevelContent
  <2>2. pac.alive /\ pac.pos = PacStart /\ PacStart \notin Walls
    BY <1>2, BoardAssumption
  <2>3. \A g \in Ghosts : GhostStart[g] \notin Walls /\ GhostStart[g] # PacStart
    BY BoardAssumption
  <2>4. (\E g \in Ghosts : ghosts[g].pos = c) <=> (\E g \in Ghosts : c = GhostStart[g])
    BY <1>3
  <2>5. CASE c \in Walls
    BY <2>1, <2>2, <2>3, <2>4, <2>5 DEF ShownAt
  <2>6. CASE c = PacStart
    BY <2>1, <2>2, <2>3, <2>4, <2>6 DEF ShownAt
  <2>7. CASE c \notin Walls /\ c # PacStart
    BY <2>1, <2>2, <2>4, <2>7 DEF ShownAt
  <2> QED
    BY <2>5, <2>6, <2>7
<1> QED
  BY <1>1, <1>4, <1>5 DEF ApartInv, Shown, WallsShown

LEMMA ApartStep ==
  ASSUME "C" \notin Orders PROVE ApartInv /\ [BoardNext]_board => ApartInv'
<1> SUFFICES ASSUME ApartInv, [BoardNext]_board PROVE ApartInv'
  OBVIOUS
<1>1. CASE UNCHANGED board
  <2>1. UNCHANGED <<content, dots, lock, pac, ghosts, victory, game_over>>
    BY <1>1 DEF board, cells, flags
  <2>2. BoardInv'
    BY <2>1 DEF ApartInv, BoardInv, BoardTypeOK, Turns, LocksReleased
  <2>3. Held' /\ GhostsApart' /\ WallsShown'
    <3>1. \A g \in Ghosts : HeldBy(g) => HeldBy(g)'
      BY <2>1 DEF HeldBy
    <3>2. WallsShown' /\ GhostsApart'
      BY <2>1 DEF ApartInv, WallsShown, GhostsApart
    <3> QED
      BY <3>1, <3>2 DEF ApartInv, Held
  <2>4. Shown'
    BY <2>1 DEF ApartInv, Shown, ShownAt
  <2> QED
    BY <2>2, <2>3, <2>4 DEF ApartInv
<1>2. CASE BoardNext
  BY <1>2, ApartPlay, ApartGhost DEF BoardNext
<1> QED
  BY <1>1, <1>2

LEMMA ApartTruthful == ApartInv => BoardTruthful
<1> SUFFICES ASSUME ApartInv, ~victory
             PROVE  /\ {c \in Cells : content[c] = "M"}
                         = {ghosts[g].pos : g \in {h \in Ghosts : ghosts[h].pc # "place"}}
                    /\ {c \in Cells : content[c] = "P"} = IF pac.alive THEN {pac.pos} ELSE {}
                    /\ {c \in Cells : content[c] = "W"} = Walls
  BY DEF BoardTruthful
<1>1. \A c \in Cells : ShownAt(c)
  BY DEF ApartInv, BoardInv, LocksReleased, Shown
<1>2. \A g \in Ghosts : ghosts[g].pos \in Cells /\ ghosts[g].pc # "place"
  BY ApartTyped DEF ApartInv, BoardInv, Held, HeldBy
<1>3. pac.pos \in Cells /\ Walls \subseteq Cells
  BY BoardAssumption DEF ApartInv, BoardInv, BoardTypeOK
<1>4. {c \in Cells : content[c] = "M"}
        = {ghosts[g].pos : g \in {h \in Ghosts : ghosts[h].pc # "place"}}
  BY <1>1, <1>2 DEF ShownAt
<1>5. {c \in Cells : content[c] = "P"} = IF pac.alive THEN {pac.pos} ELSE {}
  BY <1>1, <1>3 DEF ShownAt
<1>6. {c \in Cells : content[c] = "W"} = Walls
  BY <1>3 DEF ApartInv, WallsShown
<1> QED
  BY <1>4, <1>5, <1>6

\* Without charges no two ghosts are ever on one cell, however their turns
\* interleave: the two mutexes of a move are enough (GhostsApart).
THEOREM ApartTheorem == ASSUME "C" \notin Orders PROVE BoardSpec => []GhostsApart
<1>1. ApartInv => GhostsApart
  BY DEF ApartInv
<1> QED
  BY <1>1, InitFresh, FreshApart, ApartStep, PTL DEF BoardSpec

\* Without charges the cells show who is where until the pacman reaches a
\* portal, also in the middle of a move (BoardTruthful).
THEOREM TruthTheorem == ASSUME "C" \notin Orders PROVE BoardSpec => []BoardTruthful
  BY ApartTruthful, InitFresh, FreshApart, ApartStep, PTL DEF BoardSpec
-----------------------------------------------------------------------------
(* Mutexes by ascending index: no circle of ghosts that wait.              *)

\* Whatever a ghost still has to lock lies after all that it has locked.
Ascending == \A g \in Ghosts : \A c \in Cells :
               lock[c] = g => \A k \in ghosts[g].todo : c < k

\* A step of ghost g that leaves it with nothing to lock, or nothing locked.
LEMMA AscendingKept ==
  ASSUME Ascending, NEW g \in Ghosts,
         \A h \in Ghosts \ {g} : /\ ghosts'[h] = ghosts[h]
                                 /\ \A c \in Cells : lock'[c] = h => lock[c] = h,
         ghosts'[g].todo = {} \/ \A c \in Cells : lock'[c] # g
  PROVE  Ascending'
  BY DEF Ascending

LEMMA OthersWait ==
  ASSUME BoardInv, NEW g \in Ghosts, NEW r, Set(g, r)
  PROVE  ghosts'[g] = r /\ \A h \in Ghosts \ {g} : ghosts'[h] = ghosts[h]
  BY DEF BoardInv, BoardTypeOK, Set

LEMMA GhostAscends ==
  ASSUME BoardInv, Ascending, NEW g \in Ghosts, GhostStarts(g) \/ GhostTurn(g)
  PROVE  Ascending'
<1>1. CASE GhostStarts(g)
  <2>1. lock' = lock /\ ghosts[g].pc = "sleep" /\ \E r : Set(g, r)
    BY <1>1 DEF GhostStarts, GhostCharges, GhostSetsOut, cells
  <2>2. \A c \in Cells : lock'[c] # g
    BY <2>1 DEF BoardInv, LocksReleased
  <2>3. \A h \in Ghosts \ {g} : ghosts'[h] = ghosts[h]
    BY <2>1, OthersWait
  <2> QED
    BY <2>1, <2>2, <2>3, AscendingKept
<1>2. CASE GhostLocks(g)
  <2> DEFINE T == ghosts[g].todo
             m == Min(T)
             r == [ghosts[g] EXCEPT !.todo = T \ {m}]
  <2>1. T # {} /\ T \in SUBSET Nat /\ T \in SUBSET Cells /\ ghosts[g] \in GhostType
    <3>1. T # {} /\ T \in SUBSET Cells /\ ghosts[g] \in GhostType
      BY <1>2 DEF GhostLocks, BoardInv, BoardTypeOK, GhostType
    <3>2. Cells \subseteq Nat
      BY Size DEF Cells
    <3> QED
      BY <3>1, <3>2
  <2>2. lock[m] = "nobody" /\ lock' = [lock EXCEPT ![m] = g] /\ Set(g, r)
    BY <1>2 DEF GhostLocks
  <2>3. m \in T /\ \A k \in T : m <= k
    <3> HIDE DEF T
    <3> QED
      BY <2>1, HasLeast, LeastType DEF Min
  <2>4. r.todo = T \ {m}
    BY <2>1 DEF GhostType
  <2> HIDE DEF r
  <2>5. ghosts'[g].todo = T \ {m} /\ \A h \in Ghosts \ {g} : ghosts'[h] = ghosts[h]
    BY <2>2, <2>4, OthersWait
  <2>6. \A c \in Cells, h \in Ghosts : lock'[c] = h => lock[c] = h \/ (h = g /\ c = m)
    BY <2>1, <2>2, <2>3 DEF BoardInv, BoardTypeOK
  <2>7. \A k \in T \ {m} : m < k
    BY <2>1, <2>3
  <2> HIDE DEF m
  <2>8. ASSUME NEW h \in Ghosts, NEW c \in Cells, lock'[c] = h, NEW k \in ghosts'[h].todo
        PROVE  c < k
    <3>1. CASE h # g
      BY <2>5, <2>6, <2>8, <3>1 DEF Ascending
    <3>2. CASE h = g /\ c = m
      BY <2>5, <2>7, <2>8, <3>2
    <3>3. CASE h = g /\ c # m
      BY <2>5, <2>6, <2>8, <3>3 DEF Ascending
    <3> QED
      BY <3>1, <3>2, <3>3
  <2> QED
    BY <2>8 DEF Ascending
<1>3. CASE GhostLooks(g) \/ GhostMoves(g) \/ GhostScans(g) \/ GhostClears(g) \/ GhostPlaces(g)
  <2> DEFINE old == ghosts[g]
  <2>0. /\ old \in GhostType /\ old.todo \in SUBSET Cells
        /\ old.pc \notin {"step", "charge"} => old.todo = {}
    BY DEF BoardInv, BoardTypeOK, Turns, GhostType
  <2>1. \E r : Set(g, r) /\ r.todo = {}
    <3>1. ASSUME NEW to, old.todo = {}
          PROVE  /\ [old EXCEPT !.pc = "move", !.dest = to].todo = {}
                 /\ [old EXCEPT !.pc = "clear", !.dest = to].todo = {}
                 /\ [old EXCEPT !.pc = "place"].todo = {}
      BY <2>0, <3>1 DEF GhostType
    <3>2. \A p : Asleep(p, FALSE).todo = {}
      BY DEF Asleep
    <3>3. CASE GhostLooks(g)
      BY <3>1, <3>2, <3>3 DEF GhostLooks
    <3>4. CASE GhostScans(g)
      BY <3>1, <3>4 DEF GhostScans
    <3>5. CASE GhostMoves(g) \/ GhostPlaces(g)
      BY <3>2, <3>5 DEF GhostMoves, GhostPlaces
    <3>6. CASE GhostClears(g)
      BY <2>0, <3>1, <3>6 DEF GhostClears
    <3> QED
      BY <1>3, <3>3, <3>4, <3>5, <3>6
  <2> HIDE DEF old
  <2>2. ghosts'[g].todo = {} /\ \A h \in Ghosts \ {g} : ghosts'[h] = ghosts[h]
    BY <2>1, OthersWait
  <2>3. lock' = lock \/ lock' = Unlocked(g)
    BY <1>3 DEF GhostLooks, GhostMoves, GhostScans, GhostClears, GhostPlaces
  <2>4. \A c \in Cells, h \in Ghosts \ {g} : lock'[c] = h => lock[c] = h
    BY <2>3, Names DEF Unlocked
  <2> QED
    BY <2>2, <2>4, AscendingKept
<1> QED
  BY <1>1, <1>2, <1>3 DEF GhostTurn

LEMMA PlayAscends ==
  ASSUME BoardInv, Ascending, NEW d \in Directions, Play(d) PROVE Ascending'
<1>1. /\ ghosts' = ghosts
      /\ \/ lock' = lock
         \/ \E a, b : lock' = [lock EXCEPT ![a] = "session", ![b] = "session"]
  BY DEF Play, PacmanIsDead, PacmanStays, PacmanPortal, PacmanWall, PacmanMeetsGhost,
     PacmanWalks, cells
<1>2. \A c \in Cells, g \in Ghosts : lock'[c] = g => lock[c] = g
  <2>1. lock \in [Cells -> Ghosts \cup {"session", "nobody"}]
    BY DEF BoardInv, BoardTypeOK
  <2> QED
    BY <1>1, <2>1, Names
<1> QED
  BY <1>1, <1>2 DEF Ascending

LEMMA FreshAscends == Fresh => Ascending
  BY Names DEF Fresh, Ascending

\* Of the ghosts in their turns, the one that asks for the cell furthest on
\* finds it free: whoever had it would ask for one still further on.
LEMMA AscendingMoves == BoardInv /\ Ascending => SomebodyMoves
<1> SUFFICES ASSUME BoardInv, Ascending, ~victory, Readers # {},
                    \A g \in Readers : Waits(g)
             PROVE  FALSE
  BY DEF SomebodyMoves
<1> DEFINE next(g) == Min(ghosts[g].todo)
           n == Width * Height
           S == {next(g) : g \in Readers}
<1>1. n \in Nat /\ Cells \subseteq 0 .. n
  BY Size DEF Cells
<1>2. ASSUME NEW g \in Readers
      PROVE  next(g) \in ghosts[g].todo /\ next(g) \in Cells /\ lock[next(g)] # "nobody"
  <2>1. ghosts[g].todo \in SUBSET Cells /\ ghosts[g].todo # {} /\ lock[next(g)] # "nobody"
    BY <1>2 DEF Waits, Readers, BoardInv, BoardTypeOK, GhostType
  <2>2. ghosts[g].todo \in SUBSET Nat
    BY <2>1, Size DEF Cells
  <2> QED
    BY <2>1, <2>2, LeastType
<1> HIDE DEF next, n
<1>3. PICK m \in S : \A k \in S : k <= m
  <2>1. S \in SUBSET (0 .. n) /\ S # {}
    BY <1>1, <1>2
  <2> HIDE DEF S
  <2> QED
    BY <1>1, <2>1, HasGreatest
<1>4. m \in Cells /\ lock[m] # "nobody"
  BY <1>2, <1>3
<1>5. lock[m] \in Ghosts
  BY <1>4 DEF BoardInv, BoardTypeOK, LocksReleased
<1> DEFINE h == lock[m]
<1>6. h \in Readers
  BY <1>4, <1>5 DEF BoardInv, LocksReleased, Readers
<1>7. m < next(h) /\ next(h) <= m
  BY <1>2, <1>3, <1>4, <1>5, <1>6 DEF Ascending
<1>8. m \in Int /\ next(h) \in Int
  <2>1. next(h) \in Cells
    BY <1>2, <1>6
  <2> QED
    BY <1>4, <2>1, Size DEF Cells
<1> HIDE DEF h
<1> QED
  BY <1>7, <1>8

LEMMA BoardAscends == BoardSpec => []Ascending
<1>1. BoardInit => Ascending
  BY InitFresh, FreshAscends
<1>2. BoardInv /\ Ascending /\ [BoardNext]_board => Ascending'
  <2> SUFFICES ASSUME BoardInv, Ascending, [BoardNext]_board PROVE Ascending'
    OBVIOUS
  <2>1. CASE UNCHANGED board
    BY <2>1 DEF board, cells, Ascending
  <2> QED
    BY <2>1, PlayAscends, GhostAscends DEF BoardNext
<1> QED
  BY <1>1, <1>2, BoardInvariant, PTL DEF BoardSpec

\* move_ghost and move_ghost_charged: however many ghosts charge and step on
\* whatever board, they never come to wait for one another in a circle.
THEOREM CircleTheorem == BoardSpec => []SomebodyMoves
  BY BoardAscends, BoardInvariant, AscendingMoves, PTL
-----------------------------------------------------------------------------
(* The session.                                                            *)

\* What the session relies on between two steps: no ghost runs without a
\* board, the level it plays exists and is not finished when it plays, and the
\* client has the points of the pacman.
SessionInv ==
  /\ SessionTypeOK /\ Turns /\ LocksReleased
  /\ NoGhostAfterFree
  /\ client_points = pac.points
  /\ pc \in {"sleep", "frame", "read", "play"} => ~victory
  /\ pc \in {"loop", "sleep", "frame", "read", "play", "end", "count"}
       => current_level < Levels

LEMMA BoardSame ==
  ASSUME BoardInv, UNCHANGED board
  PROVE  BoardInv' /\ pac' = pac /\ ghosts' = ghosts /\ victory' = victory
<1>1. UNCHANGED <<content, dots, lock, pac, ghosts, victory, game_over>>
  BY DEF board, cells, flags
<1>2. BoardInv'
  BY <1>1 DEF BoardInv, BoardTypeOK, Turns, LocksReleased
<1> QED
  BY <1>1, <1>2

LEMMA SessionBoard == SessionInv => BoardInv
  BY DEF SessionInv, SessionTypeOK, BoardInv

LEMMA GoneFresh == SessionInit => Fresh
<1> SUFFICES ASSUME SessionInit PROVE Fresh
  OBVIOUS
<1>1. ghosts = [g \in Ghosts |-> [Asleep(GhostStart[g], FALSE) EXCEPT !.pc = "exit"]]
  BY DEF SessionInit, Gone
<1>2. \A g \in Ghosts : GhostStart[g] \in Cells /\ FALSE \in BOOLEAN
  BY LevelType
<1>3. \A g \in Ghosts :
        LET a == Asleep(GhostStart[g], FALSE) IN
        /\ a \in GhostType /\ a.pos = GhostStart[g] /\ a.todo = {} /\ a.charged = FALSE
  BY <1>2, AsleepType
<1>4. \A g \in Ghosts : /\ ghosts[g] \in GhostType /\ ghosts[g].pos = GhostStart[g]
                        /\ ghosts[g].pc = "exit" /\ ghosts[g].todo = {}
                        /\ ghosts[g].charged = FALSE
  BY <1>1, <1>3 DEF GhostType
<1>5. ghosts \in [Ghosts -> GhostType]
  BY <1>1, <1>4
<1> QED
  BY <1>4, <1>5 DEF SessionInit, Fresh

LEMMA LoadedFresh ==
  ASSUME NEW p \in Nat, Loaded(p), game_over' \in BOOLEAN
  PROVE  Fresh' /\ pac'.points = p
<1>1. /\ content' = LevelContent /\ dots' = Cells \ (Walls \cup Portals)
      /\ pac' = [pos |-> PacStart, alive |-> TRUE, points |-> p]
      /\ ghosts' = [g \in Ghosts |-> Asleep(GhostStart[g], FALSE)]
      /\ lock' = [c \in Cells |-> "nobody"] /\ victory' = FALSE
  BY DEF Loaded
<1>2. \A g \in Ghosts : GhostStart[g] \in Cells /\ FALSE \in BOOLEAN
  BY LevelType
<1>3. \A g \in Ghosts : /\ ghosts'[g] \in GhostType /\ ghosts'[g].pos = GhostStart[g]
                        /\ ghosts'[g].pc = "sleep" /\ ghosts'[g].todo = {}
                        /\ ghosts'[g].charged = FALSE
  BY <1>1, <1>2, AsleepType
<1>4. ghosts' \in [Ghosts -> GhostType]
  BY <1>1, <1>3
<1> QED
  BY <1>1, <1>3, <1>4 DEF Fresh

LEMMA FreshNext == (Fresh => BoardInv)' /\ (Fresh => ApartInv)'
  BY FreshInv, FreshApart, PTL
-----------------------------------------------------------------------------
(* The ghost threads.                                                      *)

\* A ghost that has left does nothing.
LEMMA GoneStays ==
  ASSUME BoardInv, NEW g \in Ghosts, ghosts[g].pc = "exit"
  PROVE  ~GhostStarts(g) /\ ~GhostTurn(g)
  BY DEF BoardInv, Turns, GhostStarts, GhostCharges, GhostSetsOut, GhostTurn, GhostLocks,
     GhostLooks, GhostMoves, GhostScans, GhostClears, GhostPlaces

\* What a ghost's step leaves as it is.
LEMMA GhostLeaves ==
  ASSUME BoardInv, NEW g \in Ghosts, GhostStarts(g) \/ GhostTurn(g)
  PROVE  /\ UNCHANGED <<dots, flags>> /\ pac'.points = pac.points
         /\ (~pac.alive => ~pac'.alive)
<1>1. /\ pac \in [pos : Cells, alive : BOOLEAN, points : Nat]
      /\ Killed.points = pac.points /\ Killed.alive = FALSE
  BY DEF BoardInv, BoardTypeOK, Killed
<1>2. ASSUME NEW c, KillAt(c) PROVE pac' = Killed \/ pac' = pac
  BY <1>2 DEF KillAt
<1>3. /\ UNCHANGED <<dots, flags>>
      /\ pac' = Killed \/ pac' = pac
  BY <1>2 DEF GhostStarts, GhostTurn, GhostCharges, GhostSetsOut, GhostLocks, GhostLooks,
     GhostMoves, GhostScans, GhostClears, GhostPlaces, cells
<1> QED
  BY <1>1, <1>3

LEMMA ExitInv ==
  ASSUME BoardInv, NEW g \in Ghosts, ghosts[g].pc = "sleep",
         Set(g, [ghosts[g] EXCEPT !.pc = "exit"]), UNCHANGED <<cells, pac, flags>>
  PROVE  /\ BoardInv' /\ ghosts'[g] = [ghosts[g] EXCEPT !.pc = "exit"]
         /\ \A h \in Ghosts \ {g} : ghosts'[h] = ghosts[h]
<1> DEFINE r == [ghosts[g] EXCEPT !.pc = "exit"]
<1>1. ghosts[g] \in GhostType
  BY DEF BoardInv, BoardTypeOK
<1>2. r \in GhostType /\ r.pc = "exit" /\ r.todo = ghosts[g].todo
  BY <1>1 DEF GhostType
<1>3. r.todo = {}
  BY <1>2 DEF BoardInv, Turns
<1>4. Set(g, r)
  OBVIOUS
<1> HIDE DEF r
<1>5. /\ ghosts' \in [Ghosts -> GhostType] /\ Turns'
      /\ ghosts'[g] = r /\ \A h \in Ghosts \ {g} : ghosts'[h] = ghosts[h]
  BY <1>2, <1>3, <1>4, SetTurn
<1>6. BoardTypeOK'
  BY <1>5 DEF BoardInv, BoardTypeOK, cells, flags
<1>7. LocksReleased'
  BY <1>2, <1>5, LocksKept DEF cells, flags, BoardInv, LocksReleased
<1> QED
  BY <1>5, <1>6, <1>7 DEF BoardInv, r

\* The points after a PLAY.
LEMMA PlayPoints ==
  ASSUME BoardInv, NEW d \in Directions, Play(d)
  PROVE  /\ pac'.points \in Nat /\ pac'.points >= pac.points
         /\ ~pac.alive => UNCHANGED <<dots, pac, victory>>
<1>1. pac \in [pos : Cells, alive : BOOLEAN, points : Nat]
  BY DEF BoardInv, BoardTypeOK
<1>2. \/ pac' = pac \/ pac' = Killed
      \/ \E to \in Int : pac' = [pac EXCEPT !.pos = to,
                                   !.points = @ + (IF to \in dots THEN 1 ELSE 0)]
  <2>1. CASE pac.alive /\ Inside(pac.pos, d)
    <3>1. pac.pos + Step(d) \in Int
      BY <1>1, <2>1, StepStays, CellSplit
    <3> QED
      BY <2>1, <3>1 DEF Play, PacmanIsDead, PacmanStays, PacmanPortal, PacmanWall,
         PacmanMeetsGhost, PacmanWalks
  <2>2. CASE ~(pac.alive /\ Inside(pac.pos, d))
    BY <2>2 DEF Play, PacmanIsDead, PacmanStays
  <2> QED
    BY <2>1, <2>2
<1>3. pac'.points \in Nat /\ pac'.points >= pac.points
  <2>1. \A n \in Nat, e \in {0, 1} : n + e \in Nat /\ n + e >= n
    OBVIOUS
  <2>2. pac' = pac \/ pac' = Killed => pac'.points = pac.points
    BY <1>1 DEF Killed
  <2>3. ASSUME NEW to \in Int,
               pac' = [pac EXCEPT !.pos = to, !.points = @ + (IF to \in dots THEN 1 ELSE 0)]
        PROVE  \E e \in {0, 1} : pac'.points = pac.points + e
    BY <1>1, <2>3
  <2>4. \E e \in {0, 1} : pac'.points = pac.points + e
    <3>1. pac' = pac \/ pac' = Killed => pac'.points = pac.points + 0
      BY <1>1, <2>2
    <3> QED
      BY <1>2, <2>3, <3>1
  <2>5. pac.points \in Nat
    BY <1>1
  <2> QED
    BY <2>1, <2>4, <2>5
<1>4. ~pac.alive => UNCHANGED <<dots, pac, victory>>
  BY DEF Play, PacmanIsDead, cells
<1> QED
  BY <1>3, <1>4
-----------------------------------------------------------------------------
(* The steps of the session.                                               *)

LEMMA StepInv ==
  ASSUME SessionInv, SessionStep PROVE SessionInv'
<1> USE LevelsAssumption
<1>1. BoardInv
  BY SessionBoard
<1>2. /\ current_level \in 0 .. Levels /\ client_points \in Nat /\ shutdown \in BOOLEAN
      /\ server_shutdown \in BOOLEAN /\ client \in {"on", "off"}
      /\ backlog \in 0 .. MaxBacklog /\ game_over \in BOOLEAN /\ victory \in BOOLEAN
      /\ client_points = pac.points
  BY DEF SessionInv, SessionTypeOK, BoardTypeOK
<1>3. UNCHANGED board => BoardInv' /\ pac' = pac /\ ghosts' = ghosts /\ victory' = victory
  BY <1>1, BoardSame
<1>4. CASE LoadsLevel
  <2>1. Fresh' /\ pac'.points = client_points
    BY <1>2, <1>4, LoadedFresh DEF LoadsLevel
  <2>2. BoardInv'
    BY <2>1, FreshNext
  <2>3. /\ pc' = "loop" /\ current_level < Levels
        /\ UNCHANGED <<game_over, current_level, client_points, shutdown, world>>
    BY <1>4 DEF LoadsLevel, Goto
  <2> QED
    BY <1>2, <2>1, <2>2, <2>3 DEF SessionInv, SessionTypeOK, BoardInv, NoGhostAfterFree, world
<1>5. CASE Returns
  BY <1>2, <1>3, <1>5 DEF Returns, Goto, SessionInv, SessionTypeOK, BoardInv,
     NoGhostAfterFree, world
<1>6. CASE TestsFlags
  BY <1>2, <1>3, <1>6 DEF TestsFlags, Goto, SessionInv, SessionTypeOK, BoardInv,
     NoGhostAfterFree, world
<1>7. CASE Sleeps \/ SendsFrame
  BY <1>2, <1>3, <1>7 DEF Sleeps, SendsFrame, Goto, SessionInv, SessionTypeOK, BoardInv,
     NoGhostAfterFree, world
<1>8. CASE ReadsNothing \/ ReadsPlay \/ ReadsEnd
  <2>1. /\ UNCHANGED <<board, current_level, client_points, shutdown, server_shutdown>>
        /\ pc = "read" /\ pc' \in {"loop", "play", "end"}
        /\ client' \in {"on", "off"} /\ backlog' \in 0 .. MaxBacklog
    BY <1>2, <1>8 DEF ReadsNothing, ReadsPlay, ReadsEnd, Goto, world
  <2> QED
    BY <1>2, <1>3, <2>1 DEF SessionInv, SessionTypeOK, BoardInv, NoGhostAfterFree
<1>9. CASE EndsGame
  <2>1. /\ UNCHANGED <<cells, pac, ghosts, victory, current_level, client_points,
                       shutdown, world>>
        /\ game_over' = TRUE /\ pc = "end" /\ pc' = "count"
    BY <1>9 DEF EndsGame, Goto
  <2>2. BoardInv'
    BY <1>1, <2>1 DEF cells, BoardInv, BoardTypeOK, Turns, LocksReleased
  <2> QED
    BY <1>2, <2>1, <2>2 DEF SessionInv, SessionTypeOK, BoardInv, NoGhostAfterFree, world
<1>10. CASE Plays
  <2>1. PICK d \in Directions : Play(d)
    BY <1>10 DEF Plays
  <2>2. BoardInv' /\ pac'.points \in Nat
    BY <1>1, <2>1, PlayInv, PlayPoints
  <2>3. /\ pc = "play" /\ pc' = "loop" /\ client_points' = pac'.points
        /\ UNCHANGED <<current_level, shutdown, world>>
    BY <1>10 DEF Plays, Goto
  <2> QED
    BY <1>2, <2>2, <2>3 DEF SessionInv, SessionTypeOK, BoardInv, NoGhostAfterFree, world
<1>11. CASE Counts
  <2>1. /\ pc = "count" /\ pc' = "stop" /\ current_level' \in 0 .. Levels
        /\ UNCHANGED <<board, client_points, shutdown, world>>
    <3>1. current_level < Levels
      BY <1>11 DEF Counts, Goto, SessionInv
    <3> QED
      BY <1>2, <1>11, <3>1 DEF Counts, Goto
  <2> QED
    BY <1>2, <1>3, <2>1 DEF SessionInv, SessionTypeOK, BoardInv, NoGhostAfterFree, world
<1>12. CASE StopsGhosts
  BY <1>2, <1>3, <1>12 DEF StopsGhosts, Goto, SessionInv, SessionTypeOK, BoardInv,
     NoGhostAfterFree, world
<1>13. CASE JoinsGhosts \/ Unloads
  BY <1>2, <1>3, <1>13 DEF JoinsGhosts, Unloads, Goto, SessionInv, SessionTypeOK, BoardInv,
     NoGhostAfterFree, world
<1> QED
  BY <1>4, <1>5, <1>6, <1>7, <1>8, <1>9, <1>10, <1>11, <1>12, <1>13 DEF SessionStep

\* The steps of the ghosts and of the world outside.
LEMMA OtherInv ==
  ASSUME SessionInv,
         \/ ServerStops \/ ClientLeaves \/ SessionOver \/ UNCHANGED svars
         \/ \E g \in Ghosts : GhostThread(g) \/ GhostExits(g)
  PROVE  SessionInv'
<1>1. BoardInv
  BY SessionBoard
<1>2. client_points = pac.points
  BY DEF SessionInv
<1>3. CASE ServerStops \/ ClientLeaves \/ SessionOver \/ UNCHANGED svars
  <2>1. UNCHANGED board => BoardInv'
    BY <1>1, BoardSame
  <2>2. UNCHANGED <<board, session>>
    BY <1>3 DEF ServerStops, ClientLeaves, SessionOver, svars
  <2>3. /\ server_shutdown' \in BOOLEAN /\ client' \in {"on", "off"}
        /\ backlog' \in 0 .. MaxBacklog
    BY <1>3 DEF ServerStops, ClientLeaves, SessionOver, svars, world, SessionInv,
       SessionTypeOK
  <2> QED
    BY <1>2, <2>1, <2>2, <2>3 DEF board, flags, session, SessionInv, SessionTypeOK,
       BoardInv, NoGhostAfterFree
<1>4. ASSUME NEW g \in Ghosts, GhostThread(g) PROVE SessionInv'
  <2>1. (GhostStarts(g) \/ GhostTurn(g)) /\ UNCHANGED <<session, world>>
    BY <1>4 DEF GhostThread
  <2>2. BoardInv' /\ pac'.points = pac.points /\ UNCHANGED flags
    BY <1>1, <2>1, GhostTurnInv, GhostLeaves
  <2>3. NoGhostAfterFree'
    BY <1>1, <2>1, GoneStays DEF SessionInv, NoGhostAfterFree, session
  <2> QED
    BY <1>2, <2>1, <2>2, <2>3 DEF SessionInv, SessionTypeOK, BoardInv, session, world, flags
<1>5. ASSUME NEW g \in Ghosts, GhostExits(g) PROVE SessionInv'
  <2>1. /\ ghosts[g].pc = "sleep" /\ Set(g, [ghosts[g] EXCEPT !.pc = "exit"])
        /\ UNCHANGED <<cells, pac, flags, session, world>>
    BY <1>5 DEF GhostExits
  <2>2. BoardInv'
    BY <1>1, <2>1, ExitInv
  <2>3. NoGhostAfterFree'
    BY <2>1 DEF SessionInv, NoGhostAfterFree, session
  <2> QED
    BY <1>2, <2>1, <2>2, <2>3 DEF SessionInv, SessionTypeOK, BoardInv, session, world, flags
<1> QED
  BY <1>3, <1>4, <1>5

LEMMA SessionInitInv == SessionInit => SessionInv
<1> SUFFICES ASSUME SessionInit PROVE SessionInv
  OBVIOUS
<1>1. BoardInv
  BY GoneFresh, FreshInv
<1>2. \A g \in Ghosts : ghosts[g].pc = "exit"
  <2>1. \A g \in Ghosts : ghosts[g] = [Asleep(GhostStart[g], FALSE) EXCEPT !.pc = "exit"]
    BY DEF SessionInit, Gone
  <2> QED
    BY <2>1 DEF Asleep
<1>3. pac.points = 0 /\ 0 \in 0 .. MaxBacklog /\ 0 \in 0 .. Levels
  BY LevelsAssumption DEF SessionInit
<1> QED
  BY <1>1, <1>2, <1>3 DEF SessionInit, SessionInv, SessionTypeOK, BoardInv, NoGhostAfterFree

LEMMA SessionNextInv == SessionInv /\ [SessionNext]_svars => SessionInv'
  BY StepInv, OtherInv DEF SessionNext

LEMMA SessionInvariant == SessionSpec => []SessionInv
  BY SessionInitInv, SessionNextInv, PTL DEF SessionSpec

\* The session's state stays typed, current_level among the levels.
THEOREM SessionTypeCorrect == SessionSpec => []SessionTypeOK
<1>1. SessionInv => SessionTypeOK
  BY DEF SessionInv
<1> QED
  BY <1>1, SessionInvariant, PTL

\* When the board is freed every ghost thread has left (NoGhostAfterFree).
THEOREM GhostsGoneTheorem == SessionSpec => []NoGhostAfterFree
<1>1. SessionInv => NoGhostAfterFree
  BY DEF SessionInv
<1> QED
  BY <1>1, SessionInvariant, PTL

\* Through every level and reload a ghost between two turns holds no mutex
\* (LocksReleased).
THEOREM SessionLocksTheorem == SessionSpec => []LocksReleased
<1>1. SessionInv => LocksReleased
  BY DEF SessionInv
<1> QED
  BY <1>1, SessionInvariant, PTL
-----------------------------------------------------------------------------
(* What a step may never do.                                               *)

\* Only a PLAY changes the points of the client.
LEMMA PointsKept ==
  ASSUME SessionInv, [SessionNext]_svars, ~Plays
  PROVE  client_points' = client_points
  BY DEF SessionNext, SessionStep, LoadsLevel, Returns, TestsFlags, Sleeps, SendsFrame,
     ReadsNothing, ReadsPlay, ReadsEnd, EndsGame, Counts, StopsGhosts, JoinsGhosts, Unloads,
     ServerStops, ClientLeaves, SessionOver, GhostThread, GhostExits, svars, session

LEMMA ScoreStep ==
  ASSUME SessionInv, SessionInv', [SessionNext]_svars
  PROVE  client_points' >= client_points /\ client_points' = pac'.points
<1>1. client_points \in Nat /\ client_points = pac.points /\ client_points' = pac'.points
  BY DEF SessionInv, SessionTypeOK
<1>2. CASE Plays
  <2>1. PICK d \in Directions : Play(d)
    BY <1>2 DEF Plays
  <2> QED
    BY <1>1, <2>1, PlayPoints, SessionBoard
<1>3. CASE ~Plays
  BY <1>1, <1>3, PointsKept
<1> QED
  BY <1>2, <1>3

\* No step lowers the points of a client, and after each they are the ones of
\* the pacman (ScoreKept).
THEOREM ScoreTheorem == SessionSpec => ScoreKept
<1>1. SessionInv /\ SessionInv' /\ [SessionNext]_svars =>
        [client_points' >= client_points
           /\ (pc' # "levels" => client_points' = pac'.points)]_svars
  BY ScoreStep
<1> QED
  BY <1>1, SessionInvariant, PTL DEF SessionSpec, ScoreKept

LEMMA DeadStep ==
  ASSUME SessionInv, [SessionNext]_svars, ~pac.alive, pc # "levels"
  PROVE  client_points' = client_points /\ dots' = dots /\ victory' = victory
<1>1. BoardInv /\ client_points = pac.points
  BY SessionBoard DEF SessionInv
<1>2. CASE Plays
  <2>1. PICK d \in Directions : Play(d)
    BY <1>2 DEF Plays
  <2>2. UNCHANGED <<dots, pac, victory>>
    BY <1>1, <2>1, PlayPoints
  <2>3. client_points' = pac'.points
    BY <1>2 DEF Plays
  <2> QED
    BY <1>1, <2>2, <2>3
<1>3. ASSUME NEW g \in Ghosts, GhostThread(g)
      PROVE  client_points' = client_points /\ dots' = dots /\ victory' = victory
  BY <1>1, <1>3, GhostLeaves DEF GhostThread, session, flags
<1>4. CASE ~Plays /\ ~\E g \in Ghosts : GhostThread(g)
  <2>1. UNCHANGED <<dots, victory>>
    BY <1>4 DEF SessionNext, SessionStep, LoadsLevel, Returns, TestsFlags, Sleeps, SendsFrame,
       ReadsNothing, ReadsPlay, ReadsEnd, EndsGame, Counts, StopsGhosts, JoinsGhosts, Unloads,
       ServerStops, ClientLeaves, SessionOver, GhostExits, svars, board, cells, flags, Goto
  <2> QED
    BY <1>4, <2>1, PointsKept
<1> QED
  BY <1>2, <1>3, <1>4

\* Once the pacman of a level is dead, no PLAY left in the FIFO and no ghost
\* gives it a point or a victory (DeadStaysDead).
THEOREM DeadTheorem == SessionSpec => DeadStaysDead
<1>1. SessionInv /\ [SessionNext]_svars =>
        [~pac.alive /\ pc # "levels"
           => /\ client_points' = client_points /\ dots' = dots
              /\ (victory' => victory)]_svars
  BY DeadStep
<1> QED
  BY <1>1, SessionInvariant, PTL DEF SessionSpec, DeadStaysDead
-----------------------------------------------------------------------------
(* Ghosts that do not charge.                                              *)

LEMMA ApartExits ==
  ASSUME ApartInv, NEW g \in Ghosts, GhostExits(g) PROVE ApartInv'
<1>1. /\ ghosts[g].pc = "sleep" /\ Set(g, [ghosts[g] EXCEPT !.pc = "exit"])
      /\ UNCHANGED <<cells, pac, flags>>
  BY DEF GhostExits
<1>2. /\ BoardInv' /\ ghosts'[g] = [ghosts[g] EXCEPT !.pc = "exit"]
      /\ \A h \in Ghosts \ {g} : ghosts'[h] = ghosts[h]
  BY <1>1, ExitInv DEF ApartInv
<1>3. ghosts[g] \in GhostType
  BY ApartTyped DEF ApartInv, BoardInv
<1>4. /\ ghosts'[g].pc = "exit" /\ ghosts'[g].pos = ghosts[g].pos
      /\ ghosts'[g].charged = ghosts[g].charged
  BY <1>2, <1>3 DEF GhostType
<1>5. /\ \A h \in Ghosts : ghosts'[h].pos = ghosts[h].pos
      /\ UNCHANGED <<content, lock, pac>>
  BY <1>1, <1>2, <1>4 DEF cells
<1>6. \A c \in Cells : ShownAt(c) => ShownAt(c)'
  BY <1>5 DEF ShownAt
<1>7. Shown' /\ WallsShown' /\ GhostsApart'
  BY <1>5, <1>6 DEF ApartInv, Shown, WallsShown, GhostsApart
<1>8. Held'
  <2>1. ASSUME NEW h \in Ghosts \ {g} PROVE HeldBy(h)'
    BY <1>2, <1>5, OtherHeld
  <2>2. ~ghosts[g].charged
    BY DEF ApartInv, Held, HeldBy
  <2>3. HeldBy(g)'
    BY <1>4, <2>2 DEF HeldBy
  <2> QED
    BY <2>1, <2>3 DEF Held
<1> QED
  BY <1>2, <1>7, <1>8 DEF ApartInv

\* A step that leaves the cells, the pacman and the ghosts alone.
LEMMA ApartSame ==
  ASSUME ApartInv, BoardInv', UNCHANGED <<cells, pac, ghosts>> PROVE ApartInv'
<1>1. UNCHANGED <<content, lock, pac, ghosts>>
  BY DEF cells
<1>2. \A g \in Ghosts : HeldBy(g) => HeldBy(g)'
  BY <1>1 DEF HeldBy
<1>3. \A c \in Cells : ShownAt(c) => ShownAt(c)'
  BY <1>1 DEF ShownAt
<1> QED
  BY <1>1, <1>2, <1>3 DEF ApartInv, Held, Shown, WallsShown, GhostsApart

LEMMA SessionApartStep ==
  ASSUME "C" \notin Orders
  PROVE  SessionInv /\ SessionInv' /\ ApartInv /\ [SessionNext]_svars => ApartInv'
<1> SUFFICES ASSUME SessionInv, SessionInv', ApartInv, [SessionNext]_svars
             PROVE  ApartInv'
  OBVIOUS
<1>1. BoardInv'
  BY DEF SessionInv, SessionTypeOK, BoardInv
<1>2. CASE LoadsLevel
  <2>1. client_points \in Nat /\ game_over' \in BOOLEAN
    BY DEF SessionInv, SessionTypeOK, BoardTypeOK
  <2>2. Fresh'
    BY <1>2, <2>1, LoadedFresh DEF LoadsLevel
  <2> QED
    BY <2>2, FreshNext
<1>3. CASE Plays
  <2>1. ~victory
    BY <1>3 DEF Plays, Goto, SessionInv
  <2> QED
    BY <1>3, <2>1, ApartPlay DEF Plays
<1>4. CASE \E g \in Ghosts : GhostThread(g)
  BY <1>4, ApartGhost DEF GhostThread
<1>5. CASE \E g \in Ghosts : GhostExits(g)
  BY <1>5, ApartExits
<1>6. CASE \/ Returns \/ TestsFlags \/ Sleeps \/ SendsFrame \/ ReadsNothing \/ ReadsPlay
           \/ ReadsEnd \/ EndsGame \/ Counts \/ StopsGhosts \/ JoinsGhosts \/ Unloads
           \/ ServerStops \/ ClientLeaves \/ SessionOver \/ UNCHANGED svars
  <2>1. UNCHANGED <<cells, pac, ghosts>>
    BY <1>6 DEF Returns, TestsFlags, Sleeps, SendsFrame, ReadsNothing, ReadsPlay, ReadsEnd,
       EndsGame, Counts, StopsGhosts, JoinsGhosts, Unloads, ServerStops, ClientLeaves,
       SessionOver, svars, board
  <2> QED
    BY <1>1, <2>1, ApartSame
<1> QED
  BY <1>2, <1>3, <1>4, <1>5, <1>6 DEF SessionNext, SessionStep

LEMMA SessionApart == ASSUME "C" \notin Orders PROVE SessionSpec => []ApartInv
  BY SessionInvariant, GoneFresh, FreshApart, SessionApartStep, PTL DEF SessionSpec

\* Through every level and reload no two ghosts that do not charge are on one
\* cell (GhostsApart).
THEOREM SessionApartTheorem ==
  ASSUME "C" \notin Orders PROVE SessionSpec => []GhostsApart
<1>1. ApartInv => GhostsApart
  BY DEF ApartInv
<1> QED
  BY <1>1, SessionApart, PTL

\* What a client is sent is where everybody is, whenever no ghost charges
\* (BoardTruthful).
THEOREM SessionTruthTheorem ==
  ASSUME "C" \notin Orders PROVE SessionSpec => []BoardTruthful
  BY ApartTruthful, SessionApart, PTL
-----------------------------------------------------------------------------
(* Mutexes by ascending index, through loading, stopping and unloading.    *)

LEMMA SessionAscends ==
  SessionInv /\ Ascending /\ [SessionNext]_svars => Ascending'
<1> SUFFICES ASSUME SessionInv, Ascending, [SessionNext]_svars PROVE Ascending'
  OBVIOUS
<1>1. BoardInv
  BY SessionBoard
<1>2. CASE LoadsLevel
  <2>1. client_points \in Nat /\ game_over' \in BOOLEAN
    BY <1>2 DEF SessionInv, SessionTypeOK, BoardTypeOK, LoadsLevel
  <2>2. Fresh'
    BY <1>2, <2>1, LoadedFresh DEF LoadsLevel
  <2>3. (Fresh => Ascending)'
    BY FreshAscends, PTL
  <2> QED
    BY <2>2, <2>3
<1>3. CASE Plays
  BY <1>1, <1>3, PlayAscends DEF Plays
<1>4. CASE \E g \in Ghosts : GhostThread(g)
  BY <1>1, <1>4, GhostAscends DEF GhostThread
<1>5. ASSUME NEW g \in Ghosts, GhostExits(g) PROVE Ascending'
  <2>1. /\ ghosts[g].pc = "sleep" /\ Set(g, [ghosts[g] EXCEPT !.pc = "exit"])
        /\ lock' = lock
    BY <1>5 DEF GhostExits, cells
  <2>2. \A h \in Ghosts \ {g} : ghosts'[h] = ghosts[h]
    BY <1>1, <2>1, OthersWait
  <2>3. \A c \in Cells : lock'[c] # g
    BY <1>1, <2>1 DEF BoardInv, LocksReleased
  <2> QED
    BY <2>1, <2>2, <2>3, AscendingKept
<1>6. CASE \/ Returns \/ TestsFlags \/ Sleeps \/ SendsFrame \/ ReadsNothing \/ ReadsPlay
           \/ ReadsEnd \/ EndsGame \/ Counts \/ StopsGhosts \/ JoinsGhosts \/ Unloads
           \/ ServerStops \/ ClientLeaves \/ SessionOver \/ UNCHANGED svars
  <2>1. UNCHANGED <<lock, ghosts>>
    BY <1>6 DEF Returns, TestsFlags, Sleeps, SendsFrame, ReadsNothing, ReadsPlay, ReadsEnd,
       EndsGame, Counts, StopsGhosts, JoinsGhosts, Unloads, ServerStops, ClientLeaves,
       SessionOver, svars, board, cells
  <2> QED
    BY <2>1 DEF Ascending
<1> QED
  BY <1>2, <1>3, <1>4, <1>5, <1>6 DEF SessionNext, SessionStep

\* Whenever a session waits for state_lock, or for its ghosts to leave, before
\* a victory, a ghost in the middle of its turn has the mutex it asks for
\* (SomebodyMoves).
THEOREM SessionCircleTheorem == SessionSpec => []SomebodyMoves
<1>1. SessionInit => Ascending
  BY GoneFresh, FreshAscends
<1>2. SessionInv /\ Ascending => SomebodyMoves
  BY SessionBoard, AscendingMoves
<1> QED
  BY <1>1, <1>2, SessionAscends, SessionInvariant, PTL DEF SessionSpec
=============================================================================
