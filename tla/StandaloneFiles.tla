--------------------------- MODULE StandaloneFiles ---------------------------
(***************************************************************************)
(* How the standalone game reads a level and its files of moves: each one  *)
(* is split into lines, and one pass takes them in the order DIM, TEMPO,   *)
(* PAC or MON, grid, and PASSO, POS, moves.                                *)
(*                                                                         *)
(* A line is [is, args]: its first word, or "row" for one of the grid,     *)
(* "comment" for one that begins with #, "blank" for an empty one,         *)
(* "MON_CR" for a MON line with the end of DOS; and what follows that word. *)
(* A file that ends with a newline has an empty last line.                 *)
(***************************************************************************)
EXTENDS Integers, Sequences, SequencesExt

Line(is, args) == [is |-> is, args |-> args]
Comment == Line("comment", <<>>)
Blank   == Line("blank", <<>>)

\* One line of a level.
FeedData(s, l) ==
  CASE s.expect = "DIM"   -> [s EXCEPT !.h = l.args[1], !.w = l.args[2],
                                       !.expect = "TEMPO"]
    [] s.expect = "TEMPO" -> [s EXCEPT !.expect = "PAC_OR_MON"]
    [] s.expect = "PAC_OR_MON" ->
         IF l.is = "PAC" THEN [s EXCEPT !.pac = l.args[1]]
         ELSE IF l.is \notin {"MON", "MON_CR"} THEN s
         ELSE [s EXCEPT !.mons = l.args, !.mon = l.is, !.expect = "BOARD"]
    [] s.expect = "BOARD" ->
         [s EXCEPT !.rows = Append(@, IF l.is = "row" THEN l.args ELSE <<>>)]

Feed(s, l) == IF l.is = "comment" THEN s ELSE FeedData(s, l)

NoLevel == [expect |-> "DIM", h |-> 0, w |-> 0, pac |-> "none", mons |-> <<>>,
            mon |-> "none", rows |-> <<>>]
process_file(text) ==
  LET after[n \in 0 .. Len(text)] ==
        IF n = 0 THEN NoLevel ELSE Feed(after[n - 1], text[n])
  IN  after[Len(text)]

\* A MON line that a tab or a return follows (from a file with CRLF ends) is
\* never left by the loop over its names.
Hangs(f) == f.mon = "MON_CR"

\* process_board returns NULL unless the first rows are all of these; strncpy
\* fills a short row with zeros.  A cell is <<x, y>>.
Grid(f)   == (0 .. f.w - 1) \X (0 .. f.h - 1)
Read(f, c) == f.rows[c[2] + 1][c[1] + 1]
Known(f)  == \A y \in 1 .. f.h : /\ Len(f.rows[y]) >= f.w
                                 /\ \A x \in 1 .. f.w :
                                      f.rows[y][x] \in {"X", "o", "@"}

\* One line of a file of moves.
FeedMoves(s, l) ==
  CASE s.expect = "PASSO" -> [s EXCEPT !.passo = l.args[1], !.expect = "POS"]
    [] s.expect = "POS"   -> [s EXCEPT !.pos = <<l.args[2], l.args[1]>>,
                                       !.expect = "MOVES"]
    [] s.expect = "MOVES" ->
         IF l.is = "blank" THEN s
         ELSE [s EXCEPT !.moves = Append(@, [command |-> l.is, turns |->
                 IF l.args = <<>> THEN 1 ELSE l.args[1]])]

FeedUncounted(s, l) ==           \* slip: the number after an order is ignored
  CASE l.is = "comment" -> s
    [] l.is = "T" -> FeedMoves(s, Line("T", <<>>))
    [] OTHER -> FeedMoves(s, l)

FeedEntity(s, l) == IF l.is = "comment" THEN s ELSE FeedMoves(s, l)

NoFile == [expect |-> "PASSO", passo |-> 0, pos |-> <<0, 0>>, moves |-> <<>>]
load_entity_file(text) ==
  LET after[n \in 0 .. Len(text)] ==
        IF n = 0 THEN NoFile ELSE FeedEntity(after[n - 1], text[n])
  IN  after[Len(text)]
=============================================================================
