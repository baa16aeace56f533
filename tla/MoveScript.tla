------------------------------ MODULE MoveScript ------------------------------
(***************************************************************************)
(* The place of a ghost or a pacman in its list of moves.  move_ghost and  *)
(* move_pacman begin with it, in the server and in the standalone game     *)
(* alike: a turn is spent waiting, or takes the order the cursor is on.    *)
(***************************************************************************)
EXTENDS Integers, Sequences

Directions == {"W", "S", "A", "D"}

\* A script is [passo, moves, steps], a move [command, turns], steps the orders
\* its owner knows; a cursor is [waiting, current, left], where left is the
\* turns_left of every move.
\* current_move only grows and is used modulo n_moves: kept modulo n_moves.
Start(s, waiting) ==
  [waiting |-> waiting, current |-> 0,
   left |-> [k \in 1 .. Len(s.moves) |-> s.moves[k].turns]]

Here(c)      == c.current + 1
Move(s, c)   == s.moves[Here(c)]
Onward(s, c) == [c EXCEPT !.current = (@ + 1) % Len(s.moves)]

WaitsForever(s, c) ==                \* slip: turns_left is not set again
  IF c.left[Here(c)] <= 1 THEN Onward(s, c)
  ELSE [c EXCEPT !.left[Here(c)] = @ - 1]

Waits(s, c) ==                                        \* T, one of its turns
  IF c.left[Here(c)] = 1
  THEN [Onward(s, c) EXCEPT !.left[Here(c)] = Move(s, c).turns]
  ELSE [c EXCEPT !.left[Here(c)] = @ - 1]

\* An order that its owner does not know is never passed.
Takes(s, c) ==
  IF Move(s, c).command = "T" THEN Waits(s, c)
  ELSE IF Move(s, c).command \in s.steps THEN Onward(s, c)
  ELSE c

TickLate(s, c) ==                    \* slip: passo counts from the next turn
  IF c.waiting > 0 THEN [c EXCEPT !.waiting = @ - 1]
  ELSE [Takes(s, c) EXCEPT !.waiting = s.passo + 1]

\* One turn, and what it comes to.
Tick(s, c) ==
  IF c.waiting > 0 THEN [c EXCEPT !.waiting = @ - 1]
  ELSE [Takes(s, c) EXCEPT !.waiting = s.passo]
Issues(s, c) == IF c.waiting > 0 THEN "wait" ELSE Move(s, c).command

\* What a cursor stands for in the Timetable of its script: the order whose
\* time it is, and the turn of it.  Turns waited after an order are its own.
TimeOf(s, c) ==
  LET n     == Len(s.moves)
      last  == ((c.current + n - 1) % n) + 1
      begun == Move(s, c).turns - c.left[Here(c)]
      turns(k) == (IF s.moves[k].command = "T" THEN s.moves[k].turns ELSE 1)
                    * (1 + s.passo) IN
  IF c.waiting = 0 \/ begun > 0 THEN <<Here(c), begun * (1 + s.passo) - c.waiting>>
  ELSE <<last, turns(last) - c.waiting>>
=============================================================================
