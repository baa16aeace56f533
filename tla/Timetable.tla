------------------------------ MODULE Timetable ------------------------------
(***************************************************************************)
(* What a file of moves promises: its orders come in the order in which    *)
(* they are written, over and over; T n stands for n turns of waiting; and *)
(* passo turns pass after each of these before the next.                   *)
(***************************************************************************)
EXTENDS Integers, Sequences

CONSTANTS Moves,     \* the orders of the file: a sequence of [command, turns]
          Passo,     \* the turns to wait between two of them
          First      \* the order and the turn of it at which the game begins

VARIABLES order,     \* the order whose time it is
          turn,      \* the next one of its turns, counted from 0
          due        \* what that turn does

Turns(n)   == (IF Moves[n].command = "T" THEN Moves[n].turns ELSE 1) * (1 + Passo)
Does(n, k) == IF k % (1 + Passo) = 0 THEN Moves[n].command ELSE "wait"

Init == order = First[1] /\ turn = First[2] /\ due = Does(order, turn)
Next == /\ IF turn + 1 < Turns(order)
           THEN turn' = turn + 1 /\ order' = order
           ELSE turn' = 0 /\ order' = (order % Len(Moves)) + 1
        /\ due' = Does(order', turn')
Step == Next \/ UNCHANGED <<order, turn, due>>
Spec == Init /\ [][Step]_<<order, turn, due>>
=============================================================================
