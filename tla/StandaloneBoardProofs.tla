------------------------- MODULE StandaloneBoardProofs -------------------------
(***************************************************************************)
(* Proofs about StandaloneBoard, for all level files and files of moves    *)
(* that FilesAssumption describes, however they are laid out.              *)
(***************************************************************************)
EXTENDS StandaloneBoard, MoveScriptProofs, FiniteSetTheorems

(* Reading a file: what one pass makes of its lines is known as soon as it *)
(* is known for each line what the lines up to it amount to.               *)

LEMMA EntityPass ==
  ASSUME NEW text, Len(text) \in Nat, NEW g,
         g = [n \in 0 .. Len(text) |-> g[n]], g[0] = NoFile,
         \A n \in 1 .. Len(text) : g[n] = FeedEntity(g[n - 1], text[n])
  PROVE  load_entity_file(text) = g[Len(text)]
<1> DEFINE Reads(f) == f = [n \in 0 .. Len(text) |->
             IF n = 0 THEN NoFile ELSE FeedEntity(f[n - 1], text[n])]
           it  == CHOOSE f : Reads(f)
           bad == {n \in 0 .. Len(text) : it[n] # g[n]}
<1>1. Reads(g)
  OBVIOUS
<1>2. Reads(it)
  BY <1>1
<1>3. load_entity_file(text) = it[Len(text)]
  BY DEF load_entity_file
<1> HIDE DEF it
<1>4. bad = {}
  <2> SUFFICES ASSUME bad # {} PROVE FALSE
    OBVIOUS
  <2>0. bad \in SUBSET Nat
    OBVIOUS
  <2>1. PICK n \in bad : \A k \in bad : n <= k
    <3> HIDE DEF bad
    <3> QED
      BY <2>0, HasLeast
  <2>2. n # 0 /\ n \in 1 .. Len(text)
    BY <1>2
  <2>3. n - 1 \in 0 .. Len(text) /\ ~ (n <= n - 1)
    BY <2>2
  <2>4. it[n - 1] = g[n - 1]
    BY <2>1, <2>3
  <2> QED
    BY <1>2, <2>2, <2>4
<1> QED
  BY <1>3, <1>4

LEMMA AppendNext ==
  ASSUME NEW m \in Nat, NEW f, f = [i \in 1 .. m + 1 |-> f[i]]
  PROVE  Append([i \in 1 .. m |-> f[i]], f[m + 1]) = f
<1> DEFINE S == {f[i] : i \in 1 .. m + 1}
           s == [i \in 1 .. m |-> f[i]]
           t == Append(s, f[m + 1])
<1>1. s \in [1 .. m -> S] /\ f[m + 1] \in S /\ f \in [1 .. m + 1 -> S]
  OBVIOUS
<1>2. \A i \in 1 .. m : s[i] = f[i]
  OBVIOUS
<1> HIDE DEF s, S
<1>3. s \in Seq(S) /\ Len(s) = m /\ f \in Seq(S) /\ Len(f) = m + 1
  BY <1>1, IsSeq
<1>4. /\ t \in Seq(S) /\ Len(t) = m + 1 /\ t[m + 1] = f[m + 1]
      /\ \A i \in 1 .. m : t[i] = f[i]
  BY <1>1, <1>2, <1>3, AppendProperties
<1>5. \A i \in 1 .. Len(t) : t[i] = f[i]
  BY <1>4
<1> HIDE DEF t
<1>6. t = f
  BY <1>3, <1>4, <1>5, SeqEqual
<1> QED
  BY <1>6 DEF t, s

\* The layout of a file adds a comment before one of its lines, and may add an
\* empty line at the end: nothing else.
LayoutType == layout \in [comment : Nat, newline : BOOLEAN]

LEMMA LinesType ==
  ASSUME NEW text, IsSequence(text), LayoutType
  PROVE  /\ Len(text) \in Nat /\ DOMAIN text = 1 .. Len(text)
         /\ Len(Lines(text)) \in Nat
         /\ Len(Lines(text)) = Len(text) \/ Len(Lines(text)) = Len(text) + 1
         /\ \A l \in 1 .. Len(text) : Lines(text)[l] = text[l]
         /\ \A l \in Len(text) + 1 .. Len(Lines(text)) : Lines(text)[l] = Blank
<1> DEFINE S == ToSet(text) \cup {Blank}
<1>1. Blank \in S
  OBVIOUS
<1>2. text \in Seq(S)
  BY SeqMonotonic DEF IsSequence
<1> HIDE DEF S
<1>3. /\ Len(text) \in Nat /\ DOMAIN text = 1 .. Len(text)
      /\ Len(Append(text, Blank)) = Len(text) + 1
      /\ Append(text, Blank)[Len(text) + 1] = Blank
      /\ \A l \in 1 .. Len(text) : Append(text, Blank)[l] = text[l]
  BY <1>1, <1>2, AppendProperties, LenProperties
<1>4. \/ Len(Lines(text)) = Len(text) /\ Lines(text) = text
      \/ /\ Len(Lines(text)) = Len(text) + 1 /\ Lines(text)[Len(text) + 1] = Blank
         /\ \A l \in 1 .. Len(text) : Lines(text)[l] = text[l]
  BY <1>3 DEF Lines
<1>5. \A l \in 1 .. Len(text) : Lines(text)[l] = text[l]
  BY <1>4
<1>6. ASSUME NEW l \in Len(text) + 1 .. Len(Lines(text)) PROVE Lines(text)[l] = Blank
  <2>1. l = Len(text) + 1 /\ Lines(text) # text
    BY <1>3, <1>4
  <2> QED
    BY <1>4, <2>1
<1>7. /\ Len(Lines(text)) = Len(text) \/ Len(Lines(text)) = Len(text) + 1
      /\ Len(Lines(text)) \in Nat
  BY <1>3, <1>4
<1> QED
  BY <1>3, <1>5, <1>6, <1>7

\* How many lines of the file itself have been read after n of its layout.
ReadOf(text, n) == IF n < CommentAt(text) THEN n ELSE n - 1

LEMMA LaidOutLines ==
  ASSUME NEW text, IsSequence(text), LayoutType
  PROVE  /\ Len(LaidOut(text)) = Len(Lines(text)) + 1 /\ Len(Lines(text)) \in Nat
         /\ ReadOf(text, 0) = 0
         /\ ReadOf(text, Len(LaidOut(text))) = Len(Lines(text))
         /\ \A n \in 0 .. Len(LaidOut(text)) : ReadOf(text, n) \in 0 .. Len(Lines(text))
         /\ \A n \in 1 .. Len(LaidOut(text)) :
              \/ /\ LaidOut(text)[n] = Comment
                 /\ ReadOf(text, n) = ReadOf(text, n - 1)
              \/ /\ LaidOut(text)[n] = Lines(text)[ReadOf(text, n)]
                 /\ ReadOf(text, n) = ReadOf(text, n - 1) + 1
<1> DEFINE m == Len(Lines(text))
           k == CommentAt(text)
<1>1. m \in Nat
  BY LinesType
<1>2. k \in 1 .. m + 1
  BY <1>1 DEF CommentAt, LayoutType
<1> HIDE DEF m, k
<1>3. LaidOut(text) = [n \in 1 .. m + 1 |->
        CASE n < k -> Lines(text)[n] [] n = k -> Comment [] n > k -> Lines(text)[n - 1]]
  BY DEF LaidOut, m, k
<1>4. Len(LaidOut(text)) = m + 1
  BY <1>1, <1>3
<1>5. \A n : ReadOf(text, n) = IF n < k THEN n ELSE n - 1
  BY DEF ReadOf, k
<1>6. ASSUME NEW n \in 1 .. m + 1
      PROVE  \/ /\ LaidOut(text)[n] = Comment
                /\ ReadOf(text, n) = ReadOf(text, n - 1)
             \/ /\ LaidOut(text)[n] = Lines(text)[ReadOf(text, n)]
                /\ ReadOf(text, n) = ReadOf(text, n - 1) + 1
  <2>1. CASE n < k
    BY <1>1, <1>2, <1>3, <1>5, <2>1
  <2>2. CASE n = k
    BY <1>1, <1>2, <1>3, <1>5, <2>2
  <2>3. CASE n > k
    BY <1>1, <1>2, <1>3, <1>5, <2>3
  <2> QED
    BY <1>2, <2>1, <2>2, <2>3
<1> QED
  BY <1>1, <1>2, <1>4, <1>5, <1>6 DEF m
-----------------------------------------------------------------------------
(* A file of moves.                                                        *)

OrderOf(l) == [command |-> l.is, turns |-> IF l.args = <<>> THEN 1 ELSE l.args[1]]
OrdersTo(text, n) == [k \in 1 .. n |-> OrderOf(text[k + 2])]
EntityForm(text) == /\ IsSequence(text) /\ Len(text) >= 2
                    /\ \A l \in DOMAIN text : text[l].is \notin {"comment", "blank"}

\* What has been read when the moves are next, and n of them have been read;
\* and what the first j lines amount to.
PosState(text) == [expect |-> "POS", passo |-> text[1].args[1], pos |-> <<0, 0>>,
                   moves |-> <<>>]
MovesState(text, n) == [expect |-> "MOVES", passo |-> text[1].args[1],
                        pos |-> <<text[2].args[2], text[2].args[1]>>,
                        moves |-> OrdersTo(text, n)]
EntityAfter(text, j) ==
  IF j = 0 THEN NoFile ELSE IF j = 1 THEN PosState(text)
  ELSE IF j <= Len(text) THEN MovesState(text, j - 2)
  ELSE MovesState(text, Len(text) - 2)

LEMMA EntityPasso ==
  ASSUME NEW text PROVE FeedMoves(NoFile, text[1]) = PosState(text)
  BY DEF FeedMoves, NoFile, PosState

LEMMA EntityPos ==
  ASSUME NEW text PROVE FeedMoves(PosState(text), text[2]) = MovesState(text, 0)
<1>1. OrdersTo(text, 0) = <<>>
  BY DEF OrdersTo
<1> QED
  BY <1>1 DEF FeedMoves, PosState, MovesState

LEMMA EntityMove ==
  ASSUME NEW text, NEW n \in Nat, text[n + 3].is # "blank"
  PROVE  FeedMoves(MovesState(text, n), text[n + 3]) = MovesState(text, n + 1)
<1> DEFINE f == OrdersTo(text, n + 1)
           l == text[n + 3]
           m == n + 1
<1>0. m \in Nat /\ m + 2 = n + 3 /\ m \in 1 .. m /\ \A i \in 1 .. n : i \in 1 .. m
  OBVIOUS
<1> HIDE DEF m
<1>1. f = [i \in 1 .. n + 1 |-> f[i]] /\ f[n + 1] = OrderOf(l)
  <2>1. f = [i \in 1 .. m |-> OrderOf(text[i + 2])]
    BY DEF OrdersTo, m
  <2>2. f[m] = OrderOf(text[m + 2])
    BY <1>0, <2>1
  <2> QED
    BY <1>0, <2>1, <2>2 DEF m
<1>2. OrdersTo(text, n) = [i \in 1 .. n |-> f[i]]
  BY DEF OrdersTo
<1> HIDE DEF f
<1>3. Append(OrdersTo(text, n), OrderOf(l)) = f
  BY <1>1, <1>2, AppendNext
<1>4. FeedMoves(MovesState(text, n), l)
        = [MovesState(text, n) EXCEPT !.moves = Append(@, OrderOf(l))]
  <2>1. MovesState(text, n).expect = "MOVES"
    BY DEF MovesState
  <2> QED
    BY <2>1 DEF FeedMoves, OrderOf
<1>5. [MovesState(text, n) EXCEPT !.moves = Append(@, OrderOf(l))]
        = [MovesState(text, n) EXCEPT !.moves = f]
  BY <1>3 DEF MovesState
<1>6. [MovesState(text, n) EXCEPT !.moves = f] = MovesState(text, n + 1)
  <2>1. f = OrdersTo(text, n + 1)
    BY DEF f
  <2>2. \A k, h : h = OrdersTo(text, k)
                => [MovesState(text, n) EXCEPT !.moves = h] = MovesState(text, k)
    BY DEF MovesState
  <2> QED
    BY <2>1, <2>2
<1> QED
  BY <1>4, <1>5, <1>6

LEMMA EntityLine ==
  ASSUME NEW text, EntityForm(text), NEW len \in Nat, Len(text) = len,
         NEW m \in Nat, m = len \/ m = len + 1, NEW lines,
         \A l \in 1 .. len : lines[l] = text[l],
         \A l \in len + 1 .. m : lines[l] = Blank,
         NEW j \in 1 .. m
  PROVE  FeedEntity(EntityAfter(text, j - 1), lines[j]) = EntityAfter(text, j)
<1>1. len >= 2 /\ \A l \in 1 .. len : text[l].is # "comment" /\ text[l].is # "blank"
  <2>1. len >= 2 /\ DOMAIN text = 1 .. len
    BY LenProperties DEF EntityForm, IsSequence
  <2> QED
    BY <2>1 DEF EntityForm
<1>2. CASE j <= len
  <2>1. j \in 1 .. len
    BY <1>2
  <2>2. lines[j] = text[j] /\ text[j].is # "comment" /\ text[j].is # "blank"
    BY <1>1, <2>1
  <2>3. FeedEntity(EntityAfter(text, j - 1), lines[j])
          = FeedMoves(EntityAfter(text, j - 1), text[j])
    BY <2>2 DEF FeedEntity
  <2>4. CASE j = 1
    <3>1. EntityAfter(text, 0) = NoFile /\ EntityAfter(text, 1) = PosState(text)
      BY DEF EntityAfter
    <3> QED
      BY <2>3, <2>4, <3>1, EntityPasso
  <2>5. CASE j = 2
    <3>1. EntityAfter(text, 1) = PosState(text) /\ EntityAfter(text, 2) = MovesState(text, 0)
      BY <1>1 DEF EntityAfter
    <3> QED
      BY <2>3, <2>5, <3>1, EntityPos
  <2>6. CASE j > 2
    <3>1. j - 3 \in Nat /\ (j - 3) + 3 = j /\ (j - 3) + 1 = j - 2
      BY <2>6
    <3>2. /\ EntityAfter(text, j - 1) = MovesState(text, j - 3)
          /\ EntityAfter(text, j) = MovesState(text, j - 2)
      BY <1>2, <2>6 DEF EntityAfter
    <3>3. FeedMoves(MovesState(text, j - 3), text[j]) = MovesState(text, j - 2)
      BY <2>2, <3>1, EntityMove
    <3> QED
      BY <2>3, <3>2, <3>3
  <2> QED
    BY <2>4, <2>5, <2>6
<1>3. CASE j > len
  <2>1. j = len + 1 /\ j \in len + 1 .. m
    BY <1>3
  <2>2. /\ EntityAfter(text, j - 1) = MovesState(text, len - 2)
        /\ EntityAfter(text, j) = MovesState(text, len - 2)
    BY <1>1, <2>1 DEF EntityAfter
  <2>3. lines[j] = Blank
    BY <2>1
  <2>4. FeedEntity(MovesState(text, len - 2), Blank) = MovesState(text, len - 2)
    BY DEF FeedEntity, FeedMoves, MovesState, Blank, Line
  <2> QED
    BY <2>2, <2>3, <2>4
<1> QED
  BY <1>2, <1>3

\* load_entity_file reads passo, the place and the moves as they are written,
\* wherever the comment is and whether the file ends with a newline.
LEMMA EntityRead ==
  ASSUME NEW text, EntityForm(text), LayoutType
  PROVE  load_entity_file(LaidOut(text)) = MovesState(text, Len(text) - 2)
<1> DEFINE L == LaidOut(text)
           N == Len(L)
           m == Len(Lines(text))
           r(n) == ReadOf(text, n)
           g == [n \in 0 .. N |-> EntityAfter(text, r(n))]
<1>1. IsSequence(text)
  BY DEF EntityForm
<1>2. /\ N = m + 1 /\ m \in Nat /\ r(0) = 0 /\ r(N) = m
      /\ \A n \in 0 .. N : r(n) \in 0 .. m
      /\ \A n \in 1 .. N :
           \/ L[n] = Comment /\ r(n) = r(n - 1)
           \/ L[n] = Lines(text)[r(n)] /\ r(n) = r(n - 1) + 1
  <2>1. N = m + 1 /\ m \in Nat /\ r(0) = 0 /\ r(N) = m
    BY <1>1, LaidOutLines
  <2>2. \A n \in 0 .. N : r(n) \in 0 .. m
    BY <1>1, LaidOutLines
  <2>3. \A n \in 1 .. N :
          \/ L[n] = Comment /\ r(n) = r(n - 1)
          \/ L[n] = Lines(text)[r(n)] /\ r(n) = r(n - 1) + 1
    BY <1>1, LaidOutLines
  <2> QED
    BY <2>1, <2>2, <2>3
<1>3. /\ Len(text) \in Nat /\ Len(text) >= 2 /\ (m = Len(text) \/ m = Len(text) + 1)
      /\ \A l \in 1 .. Len(text) : Lines(text)[l] = text[l]
      /\ \A l \in Len(text) + 1 .. m : Lines(text)[l] = Blank
  BY LinesType DEF EntityForm
<1> HIDE DEF L, N, m, r
<1>4. \A s : FeedEntity(s, Comment) = s
  BY DEF FeedEntity, Comment, Line
<1>5. ASSUME NEW n \in 1 .. N PROVE g[n] = FeedEntity(g[n - 1], L[n])
  <2>1. n \in 0 .. N /\ n - 1 \in 0 .. N
    BY <1>2
  <2>2. g[n] = EntityAfter(text, r(n)) /\ g[n - 1] = EntityAfter(text, r(n - 1))
    BY <2>1
  <2>3. CASE L[n] = Comment /\ r(n) = r(n - 1)
    BY <1>4, <2>2, <2>3
  <2>4. CASE L[n] = Lines(text)[r(n)] /\ r(n) = r(n - 1) + 1
    <3>1. r(n) \in 1 .. m /\ r(n) - 1 = r(n - 1)
      BY <1>2, <2>1, <2>4
    <3>2. FeedEntity(EntityAfter(text, r(n) - 1), Lines(text)[r(n)])
            = EntityAfter(text, r(n))
      BY <1>2, <1>3, <3>1, EntityLine
    <3> QED
      BY <2>2, <2>4, <3>1, <3>2
  <2> QED
    BY <1>2, <2>3, <2>4
<1>6. g[0] = NoFile /\ g = [n \in 0 .. N |-> g[n]] /\ g[N] = EntityAfter(text, m)
  <2>1. 0 \in 0 .. N /\ N \in 0 .. N
    BY <1>2
  <2>2. g[0] = EntityAfter(text, r(0)) /\ g[N] = EntityAfter(text, r(N))
    BY <2>1
  <2>3. EntityAfter(text, 0) = NoFile
    BY DEF EntityAfter
  <2> QED
    BY <1>2, <2>2, <2>3
<1> HIDE DEF g
<1>7. load_entity_file(L) = g[N]
  <2>1. Len(L) = N /\ N \in Nat
    BY <1>2 DEF N
  <2> QED
    BY <1>5, <1>6, <2>1, EntityPass
<1>8. EntityAfter(text, m) = MovesState(text, Len(text) - 2)
  BY <1>3 DEF EntityAfter
<1> QED
  BY <1>6, <1>7, <1>8 DEF L
-----------------------------------------------------------------------------
(* A level file.                                                           *)

LEMMA LevelPass ==
  ASSUME NEW text, Len(text) \in Nat, NEW g,
         g = [n \in 0 .. Len(text) |-> g[n]], g[0] = NoLevel,
         \A n \in 1 .. Len(text) : g[n] = Feed(g[n - 1], text[n])
  PROVE  process_file(text) = g[Len(text)]
<1> DEFINE Reads(f) == f = [n \in 0 .. Len(text) |->
             IF n = 0 THEN NoLevel ELSE Feed(f[n - 1], text[n])]
           it  == CHOOSE f : Reads(f)
           bad == {n \in 0 .. Len(text) : it[n] # g[n]}
<1>1. Reads(g)
  OBVIOUS
<1>2. Reads(it)
  BY <1>1
<1>3. process_file(text) = it[Len(text)]
  BY DEF process_file
<1> HIDE DEF it
<1>4. bad = {}
  <2> SUFFICES ASSUME bad # {} PROVE FALSE
    OBVIOUS
  <2>0. bad \in SUBSET Nat
    OBVIOUS
  <2>1. PICK n \in bad : \A k \in bad : n <= k
    <3> HIDE DEF bad
    <3> QED
      BY <2>0, HasLeast
  <2>2. n # 0 /\ n \in 1 .. Len(text)
    BY <1>2
  <2>3. n - 1 \in 0 .. Len(text) /\ ~ (n <= n - 1)
    BY <2>2
  <2>4. it[n - 1] = g[n - 1]
    BY <2>1, <2>3
  <2> QED
    BY <1>2, <2>2, <2>4
<1> QED
  BY <1>3, <1>4

LevelForm(text) ==
  /\ IsSequence(text) /\ \A l \in DOMAIN text : text[l].is # "comment"
  /\ text[MonLine(text)].is \in {"MON", "MON_CR"} /\ Len(text) >= MonLine(text)

\* The name in the PAC line, and what is made of a line of the grid.
PacOf(text) == IF MonLine(text) = 4 /\ text[3].is = "PAC" THEN text[3].args[1] ELSE "none"
RowOf(l) == IF l.is = "row" THEN l.args ELSE <<>>
RowsAfter(lines, n, k) == [y \in 1 .. k |-> RowOf(lines[n + y])]

\* What has been read when the line after DIM, TEMPO, PAC, or MON and k rows is
\* next; and what the first j lines amount to.
DimState(text) ==
  [expect |-> "TEMPO", h |-> text[1].args[1], w |-> text[1].args[2], pac |-> "none",
   mons |-> <<>>, mon |-> "none", rows |-> <<>>]
TempoState(text) == [DimState(text) EXCEPT !.expect = "PAC_OR_MON"]
PacState(text) ==
  [expect |-> "PAC_OR_MON", h |-> text[1].args[1], w |-> text[1].args[2],
   pac |-> PacOf(text), mons |-> <<>>, mon |-> "none", rows |-> <<>>]
BoardState(text, rows) ==
  [expect |-> "BOARD", h |-> text[1].args[1], w |-> text[1].args[2], pac |-> PacOf(text),
   mons |-> text[MonLine(text)].args, mon |-> text[MonLine(text)].is, rows |-> rows]
RowState(text, lines, k) == BoardState(text, RowsAfter(lines, MonLine(text), k))
LevelAfter(text, lines, j) ==
  IF j = 0 THEN NoLevel ELSE IF j = 1 THEN DimState(text)
  ELSE IF j = 2 THEN TempoState(text) ELSE IF j < MonLine(text) THEN PacState(text)
  ELSE RowState(text, lines, j - MonLine(text))

LEMMA LevelDim ==
  ASSUME NEW text PROVE FeedData(NoLevel, text[1]) = DimState(text)
  BY DEF FeedData, NoLevel, DimState

LEMMA LevelTempo ==
  ASSUME NEW text PROVE FeedData(DimState(text), text[2]) = TempoState(text)
  BY DEF FeedData, DimState, TempoState

LEMMA NoPac ==
  ASSUME NEW text, PacOf(text) = "none" PROVE TempoState(text) = PacState(text)
<1> DEFINE no == PacOf(text)
<1>1. TempoState(text) =
        [expect |-> "PAC_OR_MON", h |-> text[1].args[1], w |-> text[1].args[2],
         pac |-> "none", mons |-> <<>>, mon |-> "none", rows |-> <<>>]
  BY DEF TempoState, DimState
<1> QED
  BY <1>1 DEF PacState

LEMMA LevelPac ==
  ASSUME NEW text, MonLine(text) = 4
  PROVE  FeedData(TempoState(text), text[3]) = PacState(text)
<1>1. text[3].is # "MON" /\ text[3].is # "MON_CR"
  BY DEF MonLine
<1>2. CASE text[3].is = "PAC"
  <2>1. PacOf(text) = text[3].args[1]
    BY <1>2 DEF PacOf
  <2> QED
    BY <1>2, <2>1 DEF FeedData, DimState, TempoState, PacState
<1>3. CASE text[3].is # "PAC"
  <2>1. PacOf(text) = "none"
    BY <1>3 DEF PacOf
  <2>2. FeedData(TempoState(text), text[3]) = TempoState(text)
    <3>1. TempoState(text).expect = "PAC_OR_MON"
      BY DEF TempoState, DimState
    <3> QED
      BY <1>1, <1>3, <3>1 DEF FeedData
  <2> QED
    BY <2>1, <2>2, NoPac
<1> QED
  BY <1>2, <1>3

LEMMA NoRows ==
  ASSUME NEW lines, NEW n PROVE RowsAfter(lines, n, 0) = <<>>
  BY DEF RowsAfter

LEMMA LevelMon ==
  ASSUME NEW text, NEW n, n = MonLine(text), text[n].is \in {"MON", "MON_CR"}, NEW lines,
         NEW s, \/ n = 3 /\ s = TempoState(text)
                \/ n = 4 /\ s = PacState(text)
  PROVE  FeedData(s, text[n]) = RowState(text, lines, 0)
<1>2. s = PacState(text)
  BY NoPac DEF PacOf
<1>3. RowState(text, lines, 0) = BoardState(text, <<>>)
  BY NoRows DEF RowState
<1>4. FeedData(s, text[n])
        = [s EXCEPT !.mons = text[n].args, !.mon = text[n].is, !.expect = "BOARD"]
  <2>1. s.expect = "PAC_OR_MON"
    BY <1>2 DEF PacState, TempoState, DimState
  <2> QED
    BY <2>1 DEF FeedData
<1>5. [s EXCEPT !.mons = text[n].args, !.mon = text[n].is, !.expect = "BOARD"]
        = BoardState(text, <<>>)
  <2> DEFINE a == "PAC_OR_MON"
             b == "none"
             c == "BOARD"
             e == <<>>
             h == text[1].args[1]
             w == text[1].args[2]
             p == PacOf(text)
             x == text[n].args
             y == text[n].is
             R(i, j, k) == [expect |-> i, h |-> h, w |-> w, pac |-> p, mons |-> j,
                            mon |-> k, rows |-> e]
  <2>1. s = R(a, e, b)
    BY <1>2 DEF PacState
  <2>2. BoardState(text, <<>>) = R(c, x, y)
    BY DEF BoardState
  <2> HIDE DEF a, b, c, e, h, w, p, x, y
  <2>3. [R(a, e, b) EXCEPT !.mons = x] = R(a, x, b)
    OBVIOUS
  <2>4. [R(a, x, b) EXCEPT !.mon = y] = R(a, x, y)
    OBVIOUS
  <2>5. [R(a, x, y) EXCEPT !.expect = c] = R(c, x, y)
    OBVIOUS
  <2>6. \A r : [r EXCEPT !.mons = x, !.mon = y, !.expect = c]
                = [[[r EXCEPT !.mons = x] EXCEPT !.mon = y] EXCEPT !.expect = c]
    OBVIOUS
  <2> HIDE DEF R
  <2>7. [s EXCEPT !.mons = x, !.mon = y, !.expect = c] = BoardState(text, <<>>)
    BY <2>1, <2>2, <2>3, <2>4, <2>5, <2>6
  <2> QED
    BY <2>7 DEF x, y, c
<1> QED
  BY <1>3, <1>4, <1>5

LEMMA LevelRow ==
  ASSUME NEW text, NEW lines, NEW k \in Nat
  PROVE  FeedData(RowState(text, lines, k), lines[MonLine(text) + (k + 1)])
           = RowState(text, lines, k + 1)
<1> DEFINE m == k + 1
           n == MonLine(text)
           f == RowsAfter(lines, n, m)
           row == RowOf(lines[n + m])
<1>1. m \in 1 .. m /\ \A i \in 1 .. k : i \in 1 .. m
  OBVIOUS
<1> HIDE DEF m, n
<1>2. f = [i \in 1 .. m |-> f[i]] /\ f[m] = row
  BY <1>1 DEF RowsAfter
<1>3. RowsAfter(lines, n, k) = [i \in 1 .. k |-> f[i]]
  BY <1>1 DEF RowsAfter
<1> HIDE DEF f
<1>4. Append(RowsAfter(lines, n, k), row) = f
  BY <1>2, <1>3, AppendNext DEF m
<1> HIDE DEF row
<1>5. \A rows : FeedData(BoardState(text, rows), lines[n + m])
                  = BoardState(text, Append(rows, row))
  <2> TAKE rows
  <2>1. FeedData(BoardState(text, rows), lines[n + m])
          = [BoardState(text, rows) EXCEPT !.rows = Append(@, row)]
    <3>1. BoardState(text, rows).expect = "BOARD"
      BY DEF BoardState
    <3> QED
      BY <3>1 DEF FeedData, RowOf, row
  <2> QED
    BY <2>1 DEF BoardState
<1>6. /\ RowState(text, lines, k) = BoardState(text, RowsAfter(lines, n, k))
      /\ RowState(text, lines, m) = BoardState(text, f)
  BY DEF RowState, f, n
<1> QED
  BY <1>4, <1>5, <1>6 DEF m, n

LEMMA LevelLine ==
  ASSUME NEW text, LevelForm(text), NEW len \in Nat, Len(text) = len,
         NEW m \in Nat, m = len \/ m = len + 1, NEW lines,
         \A l \in 1 .. len : lines[l] = text[l],
         \A l \in len + 1 .. m : lines[l] = Blank,
         NEW j \in 1 .. m
  PROVE  Feed(LevelAfter(text, lines, j - 1), lines[j]) = LevelAfter(text, lines, j)
<1> DEFINE n == MonLine(text)
<1>0. n \in {3, 4}
  BY DEF MonLine
<1>1. len >= n /\ \A l \in 1 .. len : text[l].is # "comment"
  <2>1. len >= n /\ DOMAIN text = 1 .. len
    BY LenProperties DEF LevelForm, IsSequence
  <2> QED
    BY <2>1 DEF LevelForm
<1>2. Feed(LevelAfter(text, lines, j - 1), lines[j])
        = FeedData(LevelAfter(text, lines, j - 1), lines[j])
  <2>1. lines[j].is # "comment"
    <3>1. CASE j <= len
      <4>1. j \in 1 .. len
        BY <3>1
      <4> QED
        BY <1>1, <4>1
    <3>2. CASE j > len
      <4>1. j \in len + 1 .. m
        BY <3>2
      <4>2. Blank.is # "comment"
        BY DEF Blank, Line
      <4> QED
        BY <4>1, <4>2
    <3> QED
      BY <3>1, <3>2
  <2> QED
    BY <2>1 DEF Feed
<1>3. CASE j <= n
  <2>0. j \in 1 .. len /\ j \in {1, 2, 3, 4}
    BY <1>0, <1>1, <1>3
  <2>1. lines[j] = text[j]
    BY <2>0
  <2>2. CASE j = 1
    <3>1. LevelAfter(text, lines, 0) = NoLevel /\ LevelAfter(text, lines, 1) = DimState(text)
      BY DEF LevelAfter
    <3> QED
      BY <1>2, <2>1, <2>2, <3>1, LevelDim
  <2>3. CASE j = 2
    <3>1. /\ LevelAfter(text, lines, 1) = DimState(text)
          /\ LevelAfter(text, lines, 2) = TempoState(text)
      BY DEF LevelAfter
    <3> QED
      BY <1>2, <2>1, <2>3, <3>1, LevelTempo
  <2>4. CASE j = 3 /\ n = 4
    <3>1. /\ LevelAfter(text, lines, 2) = TempoState(text)
          /\ LevelAfter(text, lines, 3) = PacState(text)
      BY <2>4 DEF LevelAfter
    <3> QED
      BY <1>2, <2>1, <2>4, <3>1, LevelPac
  <2>5. CASE j = n
    <3> DEFINE s == LevelAfter(text, lines, j - 1)
    <3>1. \/ n = 3 /\ s = TempoState(text)
          \/ n = 4 /\ s = PacState(text)
      BY <1>0, <2>5 DEF LevelAfter
    <3>2. LevelAfter(text, lines, j) = RowState(text, lines, 0)
      BY <1>0, <2>5 DEF LevelAfter
    <3>3. text[n].is \in {"MON", "MON_CR"} /\ n = MonLine(text)
      BY DEF LevelForm
    <3> HIDE DEF s, n
    <3>4. FeedData(s, text[n]) = RowState(text, lines, 0)
      BY <3>1, <3>3, LevelMon
    <3> QED
      BY <1>2, <2>1, <2>5, <3>2, <3>4 DEF s
  <2> QED
    BY <1>0, <1>3, <2>0, <2>2, <2>3, <2>4, <2>5
<1>4. CASE j > n
  <2> DEFINE k == j - 1 - n
  <2>1. k \in Nat /\ n + (k + 1) = j /\ j - n = k + 1
    BY <1>0, <1>4
  <2>2. /\ LevelAfter(text, lines, j - 1) = RowState(text, lines, k)
        /\ LevelAfter(text, lines, j) = RowState(text, lines, k + 1)
    BY <1>0, <1>4, <2>1 DEF LevelAfter
  <2> HIDE DEF k
  <2>3. FeedData(RowState(text, lines, k), lines[n + (k + 1)]) = RowState(text, lines, k + 1)
    BY <2>1, LevelRow
  <2> QED
    BY <1>2, <2>1, <2>2, <2>3
<1> QED
  BY <1>0, <1>3, <1>4

\* process_file reads the board's size, the names and the rows as they are
\* written, wherever the comment is and whether the file ends with a newline.
LEMMA LevelRead ==
  ASSUME NEW text, LevelForm(text), LayoutType
  PROVE  process_file(LaidOut(text))
           = RowState(text, Lines(text), Len(Lines(text)) - MonLine(text))
<1> DEFINE L == LaidOut(text)
           N == Len(L)
           lines == Lines(text)
           m == Len(lines)
           r(n) == ReadOf(text, n)
           g == [n \in 0 .. N |-> LevelAfter(text, lines, r(n))]
<1>1. IsSequence(text)
  BY DEF LevelForm
<1>2. /\ N = m + 1 /\ m \in Nat /\ r(0) = 0 /\ r(N) = m
      /\ \A n \in 0 .. N : r(n) \in 0 .. m
      /\ \A n \in 1 .. N :
           \/ L[n] = Comment /\ r(n) = r(n - 1)
           \/ L[n] = lines[r(n)] /\ r(n) = r(n - 1) + 1
  <2>1. N = m + 1 /\ m \in Nat /\ r(0) = 0 /\ r(N) = m
    BY <1>1, LaidOutLines
  <2>2. \A n \in 0 .. N : r(n) \in 0 .. m
    BY <1>1, LaidOutLines
  <2>3. \A n \in 1 .. N :
          \/ L[n] = Comment /\ r(n) = r(n - 1)
          \/ L[n] = lines[r(n)] /\ r(n) = r(n - 1) + 1
    BY <1>1, LaidOutLines
  <2> QED
    BY <2>1, <2>2, <2>3
<1>3. /\ Len(text) \in Nat /\ Len(text) >= MonLine(text)
      /\ m = Len(text) \/ m = Len(text) + 1
      /\ \A l \in 1 .. Len(text) : lines[l] = text[l]
      /\ \A l \in Len(text) + 1 .. m : lines[l] = Blank
  BY LinesType DEF LevelForm
<1> HIDE DEF L, N, m, r, lines
<1>4. \A s : Feed(s, Comment) = s
  BY DEF Feed, Comment, Line
<1>5. ASSUME NEW n \in 1 .. N PROVE g[n] = Feed(g[n - 1], L[n])
  <2>1. n \in 0 .. N /\ n - 1 \in 0 .. N
    BY <1>2
  <2>2. /\ g[n] = LevelAfter(text, lines, r(n))
        /\ g[n - 1] = LevelAfter(text, lines, r(n - 1))
    BY <2>1
  <2>3. CASE L[n] = Comment /\ r(n) = r(n - 1)
    BY <1>4, <2>2, <2>3
  <2>4. CASE L[n] = lines[r(n)] /\ r(n) = r(n - 1) + 1
    <3>1. r(n) \in 1 .. m /\ r(n) - 1 = r(n - 1)
      BY <1>2, <2>1, <2>4
    <3>2. Feed(LevelAfter(text, lines, r(n) - 1), lines[r(n)])
            = LevelAfter(text, lines, r(n))
      BY <1>2, <1>3, <3>1, LevelLine
    <3> QED
      BY <2>2, <2>4, <3>1, <3>2
  <2> QED
    BY <1>2, <2>3, <2>4
<1>6. g[0] = NoLevel /\ g = [n \in 0 .. N |-> g[n]] /\ g[N] = LevelAfter(text, lines, m)
  <2>1. 0 \in 0 .. N /\ N \in 0 .. N
    BY <1>2
  <2>2. g[0] = LevelAfter(text, lines, r(0)) /\ g[N] = LevelAfter(text, lines, r(N))
    BY <2>1
  <2>3. LevelAfter(text, lines, 0) = NoLevel
    BY DEF LevelAfter
  <2> QED
    BY <1>2, <2>2, <2>3
<1> HIDE DEF g
<1>7. process_file(L) = g[N]
  <2>1. Len(L) = N /\ N \in Nat
    BY <1>2 DEF N
  <2> QED
    BY <1>5, <1>6, <2>1, LevelPass
<1>8. LevelAfter(text, lines, m) = RowState(text, lines, m - MonLine(text))
  <2>1. MonLine(text) \in {3, 4}
    BY DEF MonLine
  <2> QED
    BY <1>3, <2>1 DEF LevelAfter
<1> QED
  BY <1>6, <1>7, <1>8 DEF L, lines, m
-----------------------------------------------------------------------------
(* The load: which level is read, and what the program makes of it.        *)

Chosen == level \in DOMAIN LevelTexts /\ LayoutType

LEMMA ChosenStays == Spec => []Chosen
<1>1. Init => Chosen
  <2> SUFFICES ASSUME Init PROVE Chosen
    OBVIOUS
  <2>1. level \in DOMAIN LevelTexts /\ IsSequence(LevelTexts[level])
    BY FilesAssumption DEF Init
  <2>2. Len(LevelTexts[level]) \in Nat
    BY <2>1, LenProperties DEF IsSequence
  <2> QED
    BY <2>1, <2>2 DEF Init, Chosen, LayoutType
<1>2. Chosen /\ [Next]_vars => Chosen'
  <2> SUFFICES ASSUME Chosen, [Next]_vars PROVE Chosen'
    OBVIOUS
  <2>1. level' = level /\ (layout' = layout \/ layout' = Plain)
    BY DEF Next, vars, Loads, LoadIsLost, PacmanStep, PacmanTests, NoKey, PacmanTurn,
           GhostStep, GhostTests, GhostDivides, GhostTurn
  <2>2. Plain \in [comment : Nat, newline : BOOLEAN]
    BY DEF Plain
  <2> QED
    BY <2>1, <2>2 DEF Chosen, LayoutType
<1> QED
  BY <1>1, <1>2, PTL DEF Spec

\* What FilesAssumption says of the level that is read and of a file of moves.
LEMMA LevelOf ==
  ASSUME Chosen
  PROVE  /\ LevelForm(Text) /\ Len(Text) \in Nat /\ DOMAIN Text = 1 .. Len(Text)
         /\ Dim[1] \in Nat /\ Dim[2] \in Nat /\ MonLine(Text) \in {3, 4}
         /\ Len(Text) >= MonLine(Text) + Dim[1]
         /\ IsSequence(Names) /\ Names = Text[MonLine(Text)].args
<1> DEFINE k == level
<1>1. k \in DOMAIN LevelTexts /\ Text = LevelTexts[k]
  BY DEF Chosen, Text
<1>2. /\ IsSequence(Text) /\ \A l \in DOMAIN Text : Text[l].is # "comment"
      /\ \A l \in 1 .. 2 : Text[1].args[l] \in 2 .. 40
      /\ Text[MonLine(Text)].is \in {"MON", "MON_CR"}
      /\ Len(Text) >= MonLine(Text) + Text[1].args[1]
      /\ IsSequence(Text[MonLine(Text)].args)
  BY <1>1, FilesAssumption
<1>3. Len(Text) \in Nat /\ DOMAIN Text = 1 .. Len(Text)
  BY <1>2, LenProperties DEF IsSequence
<1>4. MonLine(Text) \in {3, 4}
  BY DEF MonLine
<1>5. Dim[1] \in Nat /\ Dim[2] \in Nat
  <2>1. \A d : d \in 2 .. 40 => d \in Nat
    OBVIOUS
  <2>2. Dim[1] \in 2 .. 40 /\ Dim[2] \in 2 .. 40
    BY <1>2 DEF Dim
  <2> QED
    BY <2>1, <2>2
<1>6. Names = Text[MonLine(Text)].args
  BY <1>1 DEF Names, NamesIn
<1>7. Len(Text) >= MonLine(Text) + Dim[1]
  BY <1>2 DEF Dim
<1>8. Len(Text) >= MonLine(Text)
  <2>1. \A i, j, k1 \in Nat : i >= j + k1 => i >= j
    OBVIOUS
  <2>2. Dim[1] \in Nat /\ MonLine(Text) \in Nat
    BY <1>4, <1>5
  <2> QED
    BY <1>3, <1>7, <2>1, <2>2
<1> QED
  BY <1>2, <1>3, <1>4, <1>5, <1>6, <1>7, <1>8 DEF LevelForm

LEMMA EntityOf ==
  ASSUME NEW e \in DOMAIN EntityTexts
  PROVE  EntityForm(EntityTexts[e]) /\ Len(EntityTexts[e]) \in Nat
  BY FilesAssumption, LenProperties DEF EntityForm, IsSequence

\* The level as process_file has it: size, names and the rows of the grid.
LEMMA LevelLoaded ==
  ASSUME Chosen, NEW f, f = process_file(LaidOut(Text))
  PROVE  /\ f.h = Dim[1] /\ f.w = Dim[2] /\ f.mons = Names /\ f.pac = PacFile
         /\ f.mon = Text[MonLine(Text)].is /\ Grid(f) = Field
         /\ \A y \in 1 .. Dim[1] : f.rows[y] = RowOf(Text[MonLine(Text) + y])
<1> DEFINE n == MonLine(Text)
           lines == Lines(Text)
           m == Len(lines)
           k == m - n
           rows == RowsAfter(lines, n, k)
<1>1. f = BoardState(Text, rows)
  BY LevelOf, LevelRead DEF RowState, Chosen
<1>2. /\ m \in Nat /\ m >= Len(Text) /\ \A l \in 1 .. Len(Text) : lines[l] = Text[l]
  BY LevelOf, LinesType DEF LevelForm, Chosen
<1> HIDE DEF lines, m
<1>3. /\ n \in {3, 4} /\ Len(Text) \in Nat /\ Len(Text) >= n + Dim[1] /\ Dim[1] \in Nat
  BY LevelOf
<1> HIDE DEF n
<1>4. ASSUME NEW y \in 1 .. Dim[1] PROVE rows[y] = RowOf(Text[n + y])
  <2>1. y \in 1 .. k /\ n + y \in 1 .. Len(Text)
    <3> DEFINE d == Dim[1]
               t == Len(Text)
    <3>1. n \in Nat /\ d \in Nat /\ t \in Nat /\ y \in 1 .. d
      BY <1>3
    <3>2. t >= n + d /\ m >= t
      BY <1>2, <1>3
    <3> HIDE DEF d, t
    <3> QED
      BY <1>2, <3>1, <3>2 DEF t
  <2>2. rows[y] = RowOf(lines[n + y])
    BY <2>1 DEF RowsAfter
  <2> QED
    BY <1>2, <2>1, <2>2
<1> HIDE DEF rows
<1>5. /\ f.h = Dim[1] /\ f.w = Dim[2] /\ f.pac = PacOf(Text) /\ f.mons = Text[n].args
      /\ f.mon = Text[n].is /\ f.rows = rows
  BY <1>1 DEF BoardState, Dim, n
<1>6. PacOf(Text) = PacFile
  BY DEF PacOf, PacFile
<1>7. Grid(f) = Field
  BY <1>5 DEF Grid, Field
<1>8. Names = Text[n].args
  BY LevelOf DEF n
<1> QED
  BY <1>4, <1>5, <1>6, <1>7, <1>8 DEF n

\* A file of moves as load_entity_file has it.
LEMMA EntityLoaded ==
  ASSUME LayoutType, NEW e \in DOMAIN EntityTexts
  PROVE  /\ Entity(e).pos = PosOf(e) /\ Entity(e).moves = OrdersOf[e]
         /\ Entity(e).passo = PassoOf(e)
<1> DEFINE text == EntityTexts[e]
           n == Len(text) - 2
<1>1. Entity(e) = MovesState(text, n)
  BY EntityOf, EntityRead DEF Entity
<1>2. OrdersOf[e] = OrdersTo(text, n)
  BY DEF OrdersOf, OrdersTo, OrderOf
<1> QED
  BY <1>1, <1>2 DEF MovesState, PosOf, PassoOf

\* What of the level is known when it is sound.
LEMMA SoundLoaded ==
  ASSUME Chosen, Sound, NEW f, f = process_file(LaidOut(Text))
  PROVE  /\ ~Hangs(f) /\ Known(f)
         /\ \A c \in Field : Read(f, c) = Rows[c[2] + 1][c[1] + 1]
         /\ PacmanOf(f).pos = PacmanAt
         /\ \A g \in DOMAIN Names : /\ GhostsOf(f)[g].pos = PosOf(Names[g])
                                    /\ GhostsOf(f)[g].script.moves = OrdersOf[Names[g]]
<1> DEFINE n == MonLine(Text)
<1>1. /\ f.h = Dim[1] /\ f.w = Dim[2] /\ f.mons = Names /\ f.pac = PacFile
      /\ f.mon = Text[n].is /\ Grid(f) = Field
      /\ \A y \in 1 .. Dim[1] : f.rows[y] = RowOf(Text[n + y])
  BY LevelLoaded
<1>2. /\ Text[n].is = "MON"
      /\ \A y \in 1 .. Dim[1] : /\ Text[n + y].is = "row"
                                /\ Len(Rows[y]) >= Dim[2]
                                /\ \A x \in 1 .. Dim[2] : Rows[y][x] \in {"X", "o", "@"}
  BY DEF Sound
<1>3. \A y \in 1 .. Dim[1] : f.rows[y] = Rows[y]
  <2> TAKE y \in 1 .. Dim[1]
  <2>1. Rows[y] = Text[n + y].args
    BY DEF Rows, RowsIn, Text, Dim, Chosen
  <2> QED
    BY <1>1, <1>2, <2>1 DEF RowOf
<1> HIDE DEF n
<1>4. ~Hangs(f)
  BY <1>1, <1>2 DEF Hangs
<1>5. Known(f)
  BY <1>1, <1>2, <1>3 DEF Known
<1>6. ASSUME NEW c \in Field PROVE Read(f, c) = Rows[c[2] + 1][c[1] + 1]
  <2>1. c[2] + 1 \in 1 .. Dim[1]
    <3> DEFINE d == Dim[1]
    <3>1. d \in Nat
      BY LevelOf
    <3>2. c[2] \in 0 .. d - 1
      BY DEF Field
    <3> HIDE DEF d
    <3> QED
      BY <3>1, <3>2 DEF d
  <2> QED
    BY <1>3, <2>1 DEF Read
<1>7. PacmanOf(f).pos = PacmanAt
  <2>1. CASE PacFile = "none"
    BY <1>1, <2>1 DEF PacmanOf, PacmanAt, NoFile
  <2>2. CASE PacFile # "none"
    <3>1. PacFile \in DOMAIN EntityTexts
      BY <2>2 DEF Sound
    <3>2. Entity(PacFile).pos = PosOf(PacFile)
      BY <3>1, EntityLoaded DEF Chosen
    <3> QED
      BY <1>1, <2>2, <3>2 DEF PacmanOf, PacmanAt
  <2> QED
    BY <2>1, <2>2
<1>8. ASSUME NEW g \in DOMAIN Names
      PROVE  /\ GhostsOf(f)[g].pos = PosOf(Names[g])
             /\ GhostsOf(f)[g].script.moves = OrdersOf[Names[g]]
  <2>1. Names[g] \in DOMAIN EntityTexts
    BY DEF Sound
  <2>2. Entity(Names[g]).pos = PosOf(Names[g]) /\ Entity(Names[g]).moves = OrdersOf[Names[g]]
    BY <2>1, EntityLoaded DEF Chosen
  <2>3. GhostsOf(f)[g].pos = Entity(Names[g]).pos
    BY <1>1 DEF GhostsOf
  <2>4. GhostsOf(f)[g].script.moves = Entity(Names[g]).moves
    BY <1>1 DEF GhostsOf, GhostScript, Script
  <2> QED
    BY <2>2, <2>3, <2>4
<1> QED
  BY <1>4, <1>5, <1>6, <1>7, <1>8

\* The step that loads a level.
LoadsFrom(f) ==
  /\ f = process_file(LaidOut(Text)) /\ pc = "load" /\ ~Hangs(f) /\ Known(f)
  /\ pc' = "play" /\ pac' = PacmanOf(f) /\ ghosts' = GhostsOf(f)
  /\ \E junk \in Junk : Cleared(f, junk)
  /\ content' = [c \in Grid(f) |->
       CASE c = pac'.pos -> "P"
         [] c # pac'.pos /\ \E g \in DOMAIN f.mons : ghosts'[g].pos = c -> "M"
         [] OTHER -> IF Read(f, c) = "X" THEN "W" ELSE " "]
  /\ thread' = [t \in {0} \cup DOMAIN f.mons |-> "test"] /\ level' = level /\ result' = result

LEMMA LoadStep ==
  ASSUME Next, pc = "load"
  PROVE  \/ \E f : LoadsFrom(f)
         \/ LoadIsLost
<1>1. CASE Loads
  <2> DEFINE f == process_file(LaidOut(LevelTexts[level]))
  <2>1. LoadsFrom(f)
    BY <1>1 DEF Loads, LoadsFrom, Text
  <2> QED
    BY <2>1
<1>2. ASSUME PacmanStep \/ \E g \in Players : GhostStep(g) PROVE FALSE
  BY <1>2 DEF PacmanStep, PacmanTests, NoKey, PacmanTurn,
              GhostStep, GhostTests, GhostDivides, GhostTurn, Goto
<1> QED
  BY <1>1, <1>2 DEF Next

\* The letters of a level that has just been loaded.
LEMMA LoadedContent ==
  ASSUME NEW f, LoadsFrom(f), NEW c \in Grid(f)
  PROVE  /\ c = pac'.pos => content'[c] = "P"
         /\ c # pac'.pos /\ (\E g \in DOMAIN f.mons : ghosts'[g].pos = c)
              => content'[c] = "M"
         /\ c # pac'.pos /\ ~(\E g \in DOMAIN f.mons : ghosts'[g].pos = c)
              => content'[c] = IF Read(f, c) = "X" THEN "W" ELSE " "
<1> DEFINE here == \E g \in DOMAIN f.mons : ghosts'[g].pos = c
           word == IF Read(f, c) = "X" THEN "W" ELSE " "
<1>1. content'[c] = CASE c = pac'.pos -> "P" [] c # pac'.pos /\ here -> "M"
                      [] OTHER -> word
  BY DEF LoadsFrom
<1> HIDE DEF here, word
<1>2. /\ c = pac'.pos => content'[c] = "P"
      /\ c # pac'.pos /\ here => content'[c] = "M"
      /\ c # pac'.pos /\ ~here => content'[c] = word
  BY <1>1
<1> QED
  BY <1>2 DEF here, word

\* process_file and load_level: whatever the level says, its comments and its
\* last newline, a sound level is loaded as it is written.
THEOREM LoadTheorem == Spec => LoadedAsWritten
<1> DEFINE Written ==
      /\ pc' = "play"
      /\ {c \in DOMAIN content' : content'[c] = "W"} = CellsOf("X") \ (Starts \cup {PacmanAt})
      /\ CellsOf("o") \subseteq dots' /\ CellsOf("@") \subseteq portals'
      /\ pac'.pos = PacmanAt /\ DOMAIN ghosts' = DOMAIN Names
      /\ \A g \in DOMAIN Names : /\ ghosts'[g].pos = PosOf(Names[g])
                                 /\ ghosts'[g].script.moves = OrdersOf[Names[g]]
<1>1. ASSUME Chosen, Sound, pc = "load", Next PROVE Written
  <2>1. PICK f : LoadsFrom(f)
    <3>1. ASSUME LoadIsLost PROVE FALSE
      BY <1>1, <3>1, SoundLoaded DEF LoadIsLost, Text
    <3> QED
      BY <1>1, <3>1, LoadStep
  <2>2. f = process_file(LaidOut(Text))
    BY <2>1 DEF LoadsFrom
  <2>3. f.mons = Names /\ Grid(f) = Field
    BY <1>1, <2>2, LevelLoaded
  <2>4. /\ \A c \in Field : Read(f, c) = Rows[c[2] + 1][c[1] + 1]
        /\ PacmanOf(f).pos = PacmanAt
        /\ \A g \in DOMAIN Names : /\ GhostsOf(f)[g].pos = PosOf(Names[g])
                                   /\ GhostsOf(f)[g].script.moves = OrdersOf[Names[g]]
    BY <1>1, <2>2, SoundLoaded
  <2>5. /\ pc' = "play" /\ pac' = PacmanOf(f) /\ ghosts' = GhostsOf(f)
        /\ DOMAIN content' = Field
    BY <2>1, <2>3 DEF LoadsFrom
  <2>6. DOMAIN ghosts' = DOMAIN Names
    BY <2>3, <2>5 DEF GhostsOf
  <2>7. \A g \in DOMAIN Names : /\ ghosts'[g].pos = PosOf(Names[g])
                                /\ ghosts'[g].script.moves = OrdersOf[Names[g]]
    BY <2>4, <2>5
  <2>8. CellsOf("o") \subseteq dots' /\ CellsOf("@") \subseteq portals'
    <3>1. PICK junk : Cleared(f, junk)
      BY <2>1 DEF LoadsFrom
    <3> QED
      BY <2>3, <2>4, <3>1 DEF Cleared, CellsOf
  <2>9. pac'.pos = PacmanAt
    BY <2>4, <2>5
  <2>10. {c \in DOMAIN content' : content'[c] = "W"}
           = CellsOf("X") \ (Starts \cup {PacmanAt})
    <3>1. \A c \in Field : (\E g \in DOMAIN f.mons : ghosts'[g].pos = c) <=> c \in Starts
      BY <2>3, <2>7 DEF Starts
    <3>2. \A c \in Field : /\ c = PacmanAt => content'[c] = "P"
                           /\ c # PacmanAt /\ c \in Starts => content'[c] = "M"
                           /\ c # PacmanAt /\ c \notin Starts
                                => content'[c] = IF Read(f, c) = "X" THEN "W" ELSE " "
      BY <2>1, <2>3, <2>9, <3>1, LoadedContent
    <3>3. \A c \in Field : c \in CellsOf("X") <=> Read(f, c) = "X"
      BY <2>4 DEF CellsOf
    <3>4. CellsOf("X") \subseteq Field
      BY DEF CellsOf
    <3>5. \A c \in Field : content'[c] = "W"
                        <=> c \in CellsOf("X") \ (Starts \cup {PacmanAt})
      BY <3>2, <3>3
    <3> QED
      BY <2>5, <3>4, <3>5
  <2> QED
    BY <2>5, <2>6, <2>7, <2>8, <2>9, <2>10
<1>2. Chosen /\ [Next]_vars => [pc = "load" /\ Sound => Written]_vars
  BY <1>1
<1> QED
  BY <1>2, ChosenStays, PTL DEF Spec, LoadedAsWritten

-----------------------------------------------------------------------------
(* A level that is played: letters, dots and records of the players.       *)

Letters      == {" ", "W", "P", "M"}
PacmanFields == {"pos", "alive", "points", "script", "cursor"}
GhostFields  == {"pos", "charged", "script", "cursor"}

PlayType ==
  pc = "play" =>
    /\ content \in [Field -> Letters] /\ dots \in SUBSET Field
    /\ DOMAIN pac = PacmanFields /\ pac.points \in Nat /\ pac.alive \in BOOLEAN
    /\ DOMAIN ghosts = DOMAIN Names /\ 0 \in DOMAIN thread
    /\ \A g \in DOMAIN ghosts : DOMAIN ghosts[g] = GhostFields

\* The level ends once, and pacman_thread with it.
Ended == result = "CONTINUE" \/ (pc # "load" /\ 0 \in DOMAIN thread /\ thread[0] = "done")

PlayInv == Chosen /\ PlayType /\ Ended

LEMMA SameLevel ==
  ASSUME level' = level
  PROVE  /\ Field' = Field /\ Names' = Names /\ Text' = Text /\ Rows' = Rows
         /\ Sound' = Sound /\ WellPlaced' = WellPlaced /\ Starts' = Starts
         /\ PacmanAt' = PacmanAt /\ CellsOf("X")' = CellsOf("X")
  BY DEF Field, Names, Text, Rows, Dim, Sound, WellPlaced, Starts, PacmanAt, PosOf,
         PacFile, CellsOf

LEMMA LoadType == ASSUME Chosen, NEW f, LoadsFrom(f) PROVE PlayType'
<1>1. /\ level' = level /\ f = process_file(LaidOut(Text)) /\ pac' = PacmanOf(f)
      /\ ghosts' = GhostsOf(f) /\ DOMAIN content' = Grid(f)
      /\ content' = [c \in DOMAIN content' |-> content'[c]]
  BY DEF LoadsFrom
<1>2. Grid(f) = Field /\ f.mons = Names /\ Field' = Field /\ Names' = Names
  BY <1>1, LevelLoaded, SameLevel
<1>3. content' \in [Field -> Letters]
  <2>1. \A c \in Grid(f) : content'[c] \in Letters
    BY LoadedContent DEF Letters
  <2> QED
    BY <1>1, <1>2, <2>1
<1>4. dots' \in SUBSET Field
  BY <1>2 DEF LoadsFrom, Cleared
<1>5. DOMAIN pac' = PacmanFields /\ pac'.points \in Nat /\ pac'.alive \in BOOLEAN
  BY <1>1 DEF PacmanOf, PacmanFields
<1>6. DOMAIN ghosts' = DOMAIN Names
  BY <1>1, <1>2 DEF GhostsOf
<1>7. \A g \in DOMAIN ghosts' : DOMAIN ghosts'[g] = GhostFields
  BY <1>1 DEF GhostsOf, GhostFields
<1> QED
  BY <1>2, <1>3, <1>4, <1>5, <1>6, <1>7 DEF PlayType, LoadsFrom

\* What a turn of the pacman may do to his record, his cell and the dots.
TickedType(p) == /\ DOMAIN p = PacmanFields /\ p.points = pac.points
                 /\ p.alive = pac.alive /\ p.pos = pac.pos
LEMMA TickedIs ==
  ASSUME DOMAIN pac = PacmanFields PROVE TickedType(Ticked)
  BY DEF Ticked, TickedType, PacmanFields

LEMMA EatsType ==
  ASSUME NEW to, DOMAIN pac = PacmanFields, Eats(to)
  PROVE  /\ dots' = dots \ {to} /\ DOMAIN pac' = PacmanFields
         /\ pac'.points = pac.points + (IF to \in dots THEN 1 ELSE 0)
         /\ pac'.alive = pac.alive /\ pac'.pos = to
<1> DEFINE p == Ticked
           n == IF to \in dots THEN 1 ELSE 0
<1>1. TickedType(p)
  BY TickedIs
<1>2. dots' = dots \ {to} /\ pac' = [p EXCEPT !.pos = to, !.points = @ + n]
  BY DEF Eats
<1> HIDE DEF p, n
<1>3. \A x, y : /\ DOMAIN [p EXCEPT !.pos = x, !.points = y] = PacmanFields
                /\ [p EXCEPT !.pos = x, !.points = y].points = y
                /\ [p EXCEPT !.pos = x, !.points = y].pos = x
                /\ [p EXCEPT !.pos = x, !.points = y].alive = p.alive
  BY <1>1 DEF TickedType, PacmanFields
<1> QED
  BY <1>1, <1>2, <1>3 DEF TickedType, n

LEMMA DiesType ==
  ASSUME DOMAIN pac = PacmanFields, pac' = [Ticked EXCEPT !.alive = FALSE]
  PROVE  /\ DOMAIN pac' = PacmanFields /\ pac'.points = pac.points
         /\ pac'.alive = FALSE /\ pac'.pos = pac.pos
<1> DEFINE p == Ticked
<1>1. TickedType(p) /\ pac' = [p EXCEPT !.alive = FALSE]
  BY TickedIs
<1> HIDE DEF p
<1> QED
  BY <1>1 DEF TickedType, PacmanFields

LEMMA PlaceType ==
  ASSUME NEW g, NEW to, DOMAIN pac = PacmanFields, pac.alive \in BOOLEAN, GhostPlace(g, to)
  PROVE  /\ DOMAIN pac' = PacmanFields /\ pac'.points = pac.points /\ pac'.pos = pac.pos
         /\ pac'.alive \in BOOLEAN
         /\ pac'.alive <=> pac.alive /\ ~(content[to] = "P" /\ pac.pos = to)
  BY DEF GhostPlace, PacmanFields

\* What a turn of a ghost does: it stays, or it goes where there is room.
Walks(g, o, to) ==
  /\ IF HasRoom(g, o)
     THEN /\ o \in Directions /\ GhostPlace(g, to)
          /\ to = IF ghosts[g].charged THEN ChargeStop(ghosts[g].pos, o)
                  ELSE Ahead(ghosts[g].pos, o, 1)
     ELSE to = ghosts[g].pos /\ content' = content /\ pac' = pac
  /\ DOMAIN ghosts' = DOMAIN ghosts /\ ghosts'[g].pos = to
  /\ DOMAIN ghosts'[g] = GhostFields /\ ghosts'[g].script = ghosts[g].script
  /\ ghosts'[g].cursor = Tick(ghosts[g].script, ghosts[g].cursor)
  /\ \A h \in DOMAIN ghosts \ {g} : ghosts'[h] = ghosts[h]

LEMMA GhostWalks ==
  ASSUME NEW g \in DOMAIN ghosts, DOMAIN ghosts[g] = GhostFields, GhostTurn(g)
  PROVE  /\ \E o, to : Walks(g, o, to)
         /\ pc = "play" /\ thread[g] = "act" /\ thread' = [thread EXCEPT ![g] = "test"]
         /\ pc' = pc /\ level' = level /\ dots' = dots /\ portals' = portals
         /\ result' = result /\ layout' = layout
<1> DEFINE me == ghosts[g]
           order == Issues(me.script, me.cursor)
           stop(o) == IF ~HasRoom(g, o) THEN me.pos
                      ELSE IF me.charged THEN ChargeStop(me.pos, o)
                      ELSE Ahead(me.pos, o, 1)
<1>1. PICK o \in IF order = "R" THEN Directions ELSE {order} :
        /\ ghosts' = [ghosts EXCEPT ![g].pos = stop(o),
             ![g].cursor  = Tick(me.script, @),
             ![g].charged = IF o \in Directions THEN FALSE ELSE @ \/ o = "C"]
        /\ IF HasRoom(g, o) THEN GhostPlace(g, stop(o)) ELSE UNCHANGED <<content, pac>>
  BY DEF GhostTurn
<1> DEFINE to == stop(o)
           tick == Tick(me.script, ghosts[g].cursor)
           hot == IF o \in Directions THEN FALSE ELSE ghosts[g].charged \/ o = "C"
<1>2. ghosts' = [ghosts EXCEPT ![g].pos = to, ![g].cursor = tick, ![g].charged = hot]
  BY <1>1
<1> HIDE DEF tick, hot
<1>3. \A x : [ghosts EXCEPT ![g].pos = x, ![g].cursor = tick, ![g].charged = hot]
             = [[[ghosts EXCEPT ![g].pos = x] EXCEPT ![g].cursor = tick]
                  EXCEPT ![g].charged = hot]
  OBVIOUS
<1>4. /\ DOMAIN ghosts' = DOMAIN ghosts /\ ghosts'[g].pos = to
      /\ DOMAIN ghosts'[g] = GhostFields /\ ghosts'[g].script = ghosts[g].script
      /\ ghosts'[g].cursor = tick
      /\ \A h \in DOMAIN ghosts \ {g} : ghosts'[h] = ghosts[h]
  <2> HIDE DEF to
  <2>1. PICK x : x = to
    OBVIOUS
  <2>2. ghosts' = [[[ghosts EXCEPT ![g].pos = x] EXCEPT ![g].cursor = tick]
                     EXCEPT ![g].charged = hot]
    BY <1>2, <1>3, <2>1
  <2> QED
    BY <2>1, <2>2 DEF GhostFields
<1>5. HasRoom(g, o) => o \in Directions
  BY DEF HasRoom
<1>6. Walks(g, o, to)
  BY <1>1, <1>4, <1>5 DEF Walks, tick
<1> QED
  BY <1>6 DEF GhostTurn, Goto

\* What a turn of the pacman does.
PacmanGoes(o, r, c) ==
  /\ PacmanMove(o, r) /\ result' = ResultOf(c, r) /\ r \in {"valid", "portal", "dead"}
  /\ pc = "play" /\ thread[0] = "act"
  /\ thread' = [thread EXCEPT ![0] = IF result' = "CONTINUE" THEN "test" ELSE "done"]
  /\ pc' = pc /\ level' = level /\ portals' = portals /\ ghosts' = ghosts
  /\ layout' = layout

LEMMA PacmanIs == ASSUME PacmanTurn PROVE \E o, r, c : PacmanGoes(o, r, c)
  BY DEF PacmanTurn, PacmanGoes, Goto

\* The letters and records a move leaves are of the right kind.
LEMMA PacmanType ==
  ASSUME PlayInv, NEW o, NEW r, NEW c, PacmanGoes(o, r, c)
  PROVE  /\ content' \in [Field -> Letters] /\ dots' \in SUBSET Field
         /\ DOMAIN pac' = PacmanFields /\ pac'.points \in Nat /\ pac'.alive \in BOOLEAN
         /\ \/ dots' = dots /\ pac'.points = pac.points
            \/ \E to : /\ dots' = dots \ {to}
                       /\ pac'.points = pac.points + (IF to \in dots THEN 1 ELSE 0)
<1> DEFINE Goal ==
         /\ content' \in [Field -> Letters] /\ dots' \in SUBSET Field
         /\ DOMAIN pac' = PacmanFields /\ pac'.points \in Nat /\ pac'.alive \in BOOLEAN
         /\ \/ dots' = dots /\ pac'.points = pac.points
            \/ \E to : /\ dots' = dots \ {to}
                       /\ pac'.points = pac.points + (IF to \in dots THEN 1 ELSE 0)
<1>1. /\ content \in [Field -> Letters] /\ dots \in SUBSET Field
      /\ DOMAIN pac = PacmanFields /\ pac.points \in Nat /\ pac.alive \in BOOLEAN
      /\ PacmanMove(o, r)
  BY DEF PlayInv, PlayType, PacmanGoes
<1>2. CASE UNCHANGED <<content, dots, pac>>
  BY <1>1, <1>2
<1>3. TickedType(Ticked)
  BY <1>1, TickedIs
<1>4. CASE Stays
  BY <1>1, <1>3, <1>4 DEF Stays, TickedType
<1>5. ASSUME NEW to, Arrives(to) PROVE content' \in [Field -> Letters]
  BY <1>1, <1>5 DEF Arrives, Letters
<1>6. ASSUME NEW to, Arrives(to), pac' = Ticked, UNCHANGED dots PROVE Goal
  BY <1>1, <1>3, <1>5, <1>6 DEF TickedType
<1>7. ASSUME NEW to, Arrives(to), Eats(to) PROVE Goal
  <2>1. /\ dots' = dots \ {to} /\ DOMAIN pac' = PacmanFields
        /\ pac'.points = pac.points + (IF to \in dots THEN 1 ELSE 0)
        /\ pac'.alive = pac.alive
    BY <1>1, <1>7, EatsType
  <2>2. pac'.points \in Nat
    BY <1>1, <2>1
  <2> QED
    BY <1>1, <1>5, <1>7, <2>1, <2>2
<1>8. ASSUME content' = [content EXCEPT ![pac.pos] = " "], UNCHANGED dots,
             pac' = [Ticked EXCEPT !.alive = FALSE]
      PROVE  Goal
  <2>1. content' \in [Field -> Letters]
    BY <1>1, <1>8 DEF Letters
  <2> QED
    BY <1>1, <1>8, <2>1, DiesType
<1>9. ASSUME NEW d, PacmanMoves(d, r) PROVE Goal
  BY <1>4, <1>6, <1>7, <1>8, <1>9 DEF PacmanMoves
<1> QED
  BY <1>1, <1>2, <1>4, <1>9 DEF PacmanMove

LEMMA GhostType ==
  ASSUME PlayInv, NEW g \in Players, GhostTurn(g)
  PROVE  /\ content' \in [Field -> Letters] /\ dots' = dots /\ portals' = portals
         /\ DOMAIN pac' = PacmanFields /\ pac'.points = pac.points
         /\ pac'.pos = pac.pos /\ pac'.alive \in BOOLEAN
         /\ DOMAIN ghosts' = DOMAIN ghosts
         /\ \A h \in DOMAIN ghosts' : DOMAIN ghosts'[h] = GhostFields
<1>1. /\ content \in [Field -> Letters] /\ DOMAIN pac = PacmanFields
      /\ pac.alive \in BOOLEAN /\ \A h \in DOMAIN ghosts : DOMAIN ghosts[h] = GhostFields
      /\ g \in DOMAIN ghosts
  BY DEF PlayInv, PlayType, GhostTurn, Goto, Players
<1>2. PICK o, to : Walks(g, o, to)
  BY <1>1, GhostWalks
<1>3. dots' = dots /\ portals' = portals
  BY <1>1, GhostWalks
<1>4. /\ DOMAIN ghosts' = DOMAIN ghosts
      /\ \A h \in DOMAIN ghosts' : DOMAIN ghosts'[h] = GhostFields
  BY <1>1, <1>2 DEF Walks
<1>5. CASE HasRoom(g, o)
  <2>1. GhostPlace(g, to)
    BY <1>2, <1>5 DEF Walks
  <2>2. content' \in [Field -> Letters]
    BY <1>1, <2>1 DEF GhostPlace, Letters
  <2> QED
    BY <1>1, <1>3, <1>4, <2>1, <2>2, PlaceType
<1>6. CASE ~HasRoom(g, o)
  <2>1. content' = content /\ pac' = pac
    BY <1>2, <1>6 DEF Walks
  <2> QED
    BY <1>1, <1>3, <1>4, <2>1
<1> QED
  BY <1>5, <1>6

\* Ghosts are numbered from 1: 0 is the pacman's thread.
LEMMA Numbered == ASSUME PlayInv, pc = "play", NEW g \in Players PROVE g # 0
<1>1. IsSequence(Names) /\ g \in DOMAIN Names
  BY LevelOf DEF PlayInv, PlayType, Players
<1> QED
  BY <1>1, LenProperties DEF IsSequence

LEMMA PlayInvStep == ASSUME PlayInv, [Next]_vars PROVE PlayType' /\ Ended'
<1>1. Chosen
  BY DEF PlayInv
<1>2. ASSUME NEW f, LoadsFrom(f) PROVE PlayType' /\ Ended'
  <2>1. PlayType'
    BY <1>1, <1>2, LoadType
  <2>2. result' = result /\ result = "CONTINUE"
    BY <1>2 DEF LoadsFrom, PlayInv, Ended
  <2> QED
    BY <2>1, <2>2 DEF Ended
<1>3. CASE LoadIsLost
  <2>1. pc = "load" /\ pc' # "play" /\ result' = result /\ result = "CONTINUE"
    BY <1>3 DEF LoadIsLost, PlayInv, Ended
  <2> QED
    BY <2>1 DEF PlayType, Ended
<1>4. ASSUME UNCHANGED <<level, board, result>>, pc = "play",
             pc' = "play" \/ pc' = "crashed", NEW t \in {0} \cup Players, NEW w,
             thread[t] # "done", thread' = [thread EXCEPT ![t] = w] \/ thread' = thread
      PROVE  PlayType' /\ Ended'
  <2>1. Field' = Field /\ Names' = Names
    BY <1>4, SameLevel
  <2>2. PlayType'
    BY <1>4, <2>1 DEF PlayInv, PlayType, board
  <2>3. CASE result = "CONTINUE"
    BY <1>4, <2>2, <2>3 DEF Ended, board
  <2>4. CASE result # "CONTINUE"
    <3>1. 0 \in DOMAIN thread /\ thread[0] = "done"
      BY <2>4 DEF PlayInv, Ended
    <3>2. t # 0
      BY <1>4, <3>1
    <3> QED
      BY <1>4, <2>2, <3>1, <3>2 DEF Ended, board
  <2> QED
    BY <2>2, <2>3, <2>4
<1>5. ASSUME PacmanTests \/ NoKey PROVE PlayType' /\ Ended'
  <2>1. \E w : thread' = [thread EXCEPT ![0] = w]
    BY <1>5 DEF PacmanTests, NoKey, Goto
  <2>2. /\ UNCHANGED <<level, board, result>> /\ pc = "play" /\ pc' = "play"
        /\ thread[0] # "done"
    BY <1>5 DEF PacmanTests, NoKey, Goto
  <2> QED
    BY <1>4, <2>1, <2>2
<1>6. ASSUME NEW g \in Players, GhostTests(g) \/ GhostDivides(g) PROVE PlayType' /\ Ended'
  <2>1. (\E w : thread' = [thread EXCEPT ![g] = w]) \/ thread' = thread
    BY <1>6 DEF GhostTests, GhostDivides, Goto
  <2>2. /\ UNCHANGED <<level, board, result>> /\ pc = "play"
        /\ pc' = "play" \/ pc' = "crashed"
        /\ thread[g] # "done"
    BY <1>6 DEF GhostTests, GhostDivides, Goto
  <2> QED
    BY <1>4, <2>1, <2>2
<1>7. ASSUME NEW g \in Players, GhostTurn(g) PROVE PlayType' /\ Ended'
  <2>1. /\ content' \in [Field -> Letters] /\ dots' = dots
        /\ DOMAIN pac' = PacmanFields /\ pac'.points = pac.points
        /\ pac'.alive \in BOOLEAN /\ DOMAIN ghosts' = DOMAIN ghosts
        /\ \A h \in DOMAIN ghosts' : DOMAIN ghosts'[h] = GhostFields
    BY <1>7, GhostType
  <2>2. /\ pc = "play" /\ pc' = pc /\ level' = level /\ result' = result
        /\ thread' = [thread EXCEPT ![g] = "test"]
    BY <1>7 DEF GhostTurn, Goto
  <2>3. Field' = Field /\ Names' = Names
    BY <2>2, SameLevel
  <2>4. PlayType'
    BY <2>1, <2>2, <2>3 DEF PlayType, PlayInv
  <2>5. g # 0
    BY <1>7, <2>2, Numbered
  <2> QED
    BY <2>2, <2>4, <2>5 DEF Ended, PlayInv
<1>8. ASSUME PacmanTurn PROVE PlayType' /\ Ended'
  <2>1. PICK o, r, c : PacmanGoes(o, r, c)
    BY <1>8, PacmanIs
  <2>2. /\ content' \in [Field -> Letters] /\ dots' \in SUBSET Field
        /\ DOMAIN pac' = PacmanFields /\ pac'.points \in Nat /\ pac'.alive \in BOOLEAN
    BY <2>1, PacmanType
  <2>3. /\ pc = "play" /\ pc' = pc /\ level' = level /\ ghosts' = ghosts
        /\ thread' = [thread EXCEPT ![0] = IF result' = "CONTINUE" THEN "test" ELSE "done"]
        /\ thread[0] = "act"
    BY <2>1 DEF PacmanGoes
  <2>4. Field' = Field /\ Names' = Names
    BY <2>3, SameLevel
  <2>5. PlayType'
    BY <2>2, <2>3, <2>4 DEF PlayType, PlayInv
  <2>6. Ended'
    BY <2>3 DEF Ended, PlayInv, PlayType
  <2> QED
    BY <2>5, <2>6
<1>9. CASE UNCHANGED vars
  <2>1. Field' = Field /\ Names' = Names
    BY <1>9, SameLevel DEF vars
  <2> QED
    BY <1>9, <2>1 DEF vars, board, PlayInv, PlayType, Ended
<1>10. CASE Next
  BY <1>2, <1>3, <1>5, <1>6, <1>7, <1>8, <1>10, LoadStep
     DEF Next, Loads, PacmanStep, GhostStep
<1> QED
  BY <1>9, <1>10

LEMMA PlayInvariant == Spec => []PlayInv
<1>1. Init => PlayType /\ Ended
  BY DEF Init, PlayType, Ended
<1>2. PlayInv /\ [Next]_vars => PlayType' /\ Ended'
  BY PlayInvStep
<1>3. Chosen /\ PlayType /\ Ended <=> PlayInv
  BY DEF PlayInv
<1> QED
  BY <1>1, <1>2, <1>3, ChosenStays, PTL DEF Spec

-----------------------------------------------------------------------------
(* Points, and the end of the level.                                       *)

LEMMA FieldFinite == ASSUME Chosen PROVE IsFiniteSet(Field)
<1>1. Dim[1] \in Nat /\ Dim[2] \in Nat
  BY LevelOf
<1>2. IsFiniteSet(0 .. Dim[1] - 1) /\ IsFiniteSet(0 .. Dim[2] - 1)
  <2>1. \A d \in Nat : IsFiniteSet(0 .. d - 1)
    <3> TAKE d \in Nat
    <3> QED
      BY FS_Interval
  <2> QED
    BY <1>1, <2>1
<1> QED
  BY <1>2, FS_Product DEF Field

\* move_pacman: a dot that disappears becomes a point, and nothing else does.
THEOREM PointsTheorem == Spec => PointsAreDots
<1>1. ASSUME PlayInv, pc = "play", Next
      PROVE  pac.points + Cardinality(dots) = pac'.points + Cardinality(dots')
  <2>1. /\ IsFiniteSet(dots) /\ Cardinality(dots) \in Nat /\ pac.points \in Nat
    BY <1>1, FieldFinite, FS_Subset, FS_CardinalityType DEF PlayInv, PlayType
  <2>2. ASSUME dots' = dots, pac'.points = pac.points
        PROVE  pac.points + Cardinality(dots) = pac'.points + Cardinality(dots')
    BY <2>2
  <2>3. CASE PacmanTurn
    <3>1. PICK o, r, c : PacmanGoes(o, r, c)
      BY <2>3, PacmanIs
    <3>2. \/ dots' = dots /\ pac'.points = pac.points
          \/ \E to : /\ dots' = dots \ {to}
                     /\ pac'.points = pac.points + (IF to \in dots THEN 1 ELSE 0)
      BY <1>1, <3>1, PacmanType
    <3>3. ASSUME NEW to, dots' = dots \ {to},
                 pac'.points = pac.points + (IF to \in dots THEN 1 ELSE 0)
          PROVE  pac.points + Cardinality(dots) = pac'.points + Cardinality(dots')
      <4>1. Cardinality(dots')
              = IF to \in dots THEN Cardinality(dots) - 1 ELSE Cardinality(dots)
        BY <2>1, <3>3, FS_RemoveElement
      <4> QED
        BY <2>1, <3>3, <4>1
    <3> QED
      BY <2>2, <3>2, <3>3
  <2>4. ASSUME NEW g \in Players, GhostTurn(g)
        PROVE  pac.points + Cardinality(dots) = pac'.points + Cardinality(dots')
    BY <1>1, <2>2, <2>4, GhostType
  <2>5. CASE UNCHANGED board
    BY <2>2, <2>5 DEF board
  <2>6. ~Loads /\ ~LoadIsLost
    BY <1>1 DEF Loads, LoadIsLost
  <2>7. ASSUME PacmanTests \/ NoKey \/ \E g \in Players : GhostTests(g) \/ GhostDivides(g)
        PROVE  UNCHANGED board
    BY <2>7 DEF PacmanTests, NoKey, GhostTests, GhostDivides
  <2> QED
    BY <1>1, <2>3, <2>4, <2>5, <2>6, <2>7 DEF Next, PacmanStep, GhostStep
<1>2. PlayInv /\ [Next]_vars
        => [pc = "play" => pac.points + Cardinality(dots)
                             = pac'.points + Cardinality(dots')]_vars
  BY <1>1
<1> QED
  BY <1>2, PlayInvariant, PTL DEF Spec, PointsAreDots

\* pacman_thread and move_pacman: a pacman that was killed between the test of
\* alive and the move does not win.
THEOREM DeadTheorem == Spec => DeadNeverWins
<1>1. ASSUME Next, ~pac.alive, result = "CONTINUE" PROVE result' # "NEXT"
  <2>1. CASE PacmanTurn
    <3>1. PICK o, r, c : PacmanGoes(o, r, c)
      BY <2>1, PacmanIs
    <3>2. r = "dead"
      BY <1>1, <3>1 DEF PacmanGoes, PacmanMove
    <3> QED
      BY <3>1, <3>2 DEF PacmanGoes, ResultOf
  <2>2. ASSUME Loads \/ LoadIsLost \/ PacmanTests \/ NoKey \/ \E g \in Players : GhostStep(g)
        PROVE  result' = result
    BY <2>2 DEF Loads, LoadIsLost, PacmanTests, NoKey, GhostStep, GhostTests, GhostDivides,
                GhostTurn
  <2> QED
    BY <1>1, <2>1, <2>2 DEF Next, PacmanStep
<1>2. [Next]_vars => [~pac.alive /\ result = "CONTINUE" => result' # "NEXT"]_vars
  BY <1>1
<1> QED
  BY <1>2, PTL DEF Spec, DeadNeverWins

-----------------------------------------------------------------------------
(* What the board shows.                                                   *)

LEMMA AheadStays ==
  ASSUME Chosen, NEW c \in Field, NEW d \in Directions, NEW k \in Nat,
         Ahead(c, d, k) \in Field, NEW j \in 0 .. k
  PROVE  Ahead(c, d, j) \in Field /\ Ahead(c, d, 0) = c
<1> DEFINE w == Dim[2]
           h == Dim[1]
<1>1. w \in Nat /\ h \in Nat
  BY LevelOf
<1>2. Field = (0 .. w - 1) \X (0 .. h - 1)
  BY DEF Field
<1> HIDE DEF w, h
<1>3. PICK x \in 0 .. w - 1, y \in 0 .. h - 1 : c = <<x, y>>
  BY <1>2
<1>4. x \in Nat /\ y \in Nat /\ x < w /\ y < h
  BY <1>1
<1>5. \A a, b : <<a, b>> \in Field <=> a \in 0 .. w - 1 /\ b \in 0 .. h - 1
  BY <1>2
<1>6. CASE d = "W"
  <2>1. \A i : Ahead(c, d, i) = <<x, y - i>>
    BY <1>3, <1>6 DEF Ahead
  <2> QED
    BY <1>1, <1>3, <1>4, <1>5, <2>1
<1>7. CASE d = "S"
  <2>1. \A i : Ahead(c, d, i) = <<x, y + i>>
    BY <1>3, <1>7 DEF Ahead
  <2> QED
    BY <1>1, <1>3, <1>4, <1>5, <2>1
<1>8. CASE d = "A"
  <2>1. \A i : Ahead(c, d, i) = <<x - i, y>>
    BY <1>3, <1>8 DEF Ahead
  <2> QED
    BY <1>1, <1>3, <1>4, <1>5, <2>1
<1>9. CASE d = "D"
  <2>1. \A i : Ahead(c, d, i) = <<x + i, y>>
    BY <1>3, <1>9 DEF Ahead
  <2> QED
    BY <1>1, <1>3, <1>4, <1>5, <2>1
<1> QED
  BY <1>6, <1>7, <1>8, <1>9 DEF Directions

\* A charge with room ahead stops on the board, in its own cell, in a free one
\* or in the pacman's.
LEMMA StopFree ==
  ASSUME Chosen, content \in [Field -> Letters], NEW c \in Field, NEW d \in Directions,
         Ahead(c, d, 1) \in Field
  PROVE  /\ ChargeStop(c, d) \in Field
         /\ ChargeStop(c, d) = c \/ content[ChargeStop(c, d)] \in {" ", "P"}
<1> DEFINE n == Cardinality(Cells)
           reach == {k \in 1 .. n : Ahead(c, d, k) \in Cells}
           barred == {k \in reach : content[Ahead(c, d, k)] # " "}
           at(k) == Ahead(c, d, k)
           m == Cardinality(reach)
           b == Min(barred)
<1>0. Cells = Field
  BY DEF Cells
<1>1. ChargeStop(c, d) = IF barred = {} THEN at(m)
                         ELSE at(IF content[at(b)] = "P" THEN b ELSE b - 1)
  BY DEF ChargeStop
<1>2. n \in Nat /\ n >= 1
  <2>1. IsFiniteSet(Field) /\ IsFiniteSet({c}) /\ {c} \in SUBSET Field
    BY FieldFinite, FS_Singleton
  <2>2. Cardinality({c}) = 1 /\ Cardinality({c}) <= Cardinality(Field)
    BY <2>1, FS_Singleton, FS_Subset
  <2>3. Cardinality(Field) \in Nat
    BY <2>1, FS_CardinalityType
  <2> QED
    BY <1>0, <2>2, <2>3
<1> HIDE DEF n
<1>3. reach \in SUBSET (1 .. n) /\ 1 \in reach
  BY <1>0, <1>2
<1>4. \A k \in reach : at(k) \in Field /\ k \in Nat /\ k >= 1 /\ k <= n
  BY <1>0, <1>2
<1>5. ASSUME NEW k \in reach, NEW j \in 1 .. k PROVE j \in reach
  <2>1. k \in Nat /\ j \in 0 .. k /\ j \in 1 .. n
    BY <1>2, <1>3
  <2>2. at(j) \in Field
    BY <1>4, <2>1, AheadStays
  <2> QED
    BY <1>0, <2>1, <2>2
<1>6. at(0) = c
  <2>1. 1 \in Nat /\ 0 \in 0 .. 1
    OBVIOUS
  <2> QED
    BY <2>1, AheadStays
<1>7. ASSUME NEW k \in reach PROVE content[at(k)] \in Letters /\ (k \notin barred => content[at(k)] = " ")
  BY <1>4
<1>8. barred \subseteq reach /\ \A k \in barred : content[at(k)] # " "
  OBVIOUS
<1> HIDE DEF at, reach, barred
<1>9. CASE barred = {}
  <2>1. PICK t \in reach : \A k \in reach : k <= t
    <3>1. reach \in SUBSET (0 .. n)
      BY <1>2, <1>3
    <3> QED
      BY <1>2, <1>3, <3>1, HasGreatest
  <2>2. reach = 1 .. t /\ t \in Nat /\ t >= 1
    <3>1. t \in Nat /\ t >= 1
      BY <1>4, <2>1
    <3>2. \A k \in reach : k \in 1 .. t
      BY <1>4, <2>1, <3>1
    <3>3. \A k \in 1 .. t : k \in reach
      BY <1>5, <2>1
    <3> QED
      BY <3>1, <3>2, <3>3
  <2>3. m = t
    <3>1. Cardinality(1 .. t) = t
      BY <2>2, FS_Interval
    <3> QED
      BY <2>2, <3>1
  <2>4. ChargeStop(c, d) = at(m) /\ m \in reach
    BY <1>1, <1>9, <2>1, <2>3
  <2>5. at(m) \in Field /\ content[at(m)] = " "
    BY <1>4, <1>7, <1>9, <2>4
  <2> QED
    BY <2>4, <2>5
<1>10. CASE barred # {}
  <2>1. barred \in SUBSET Nat
    BY <1>4, <1>8
  <2>2. b \in barred /\ \A k \in barred : b <= k
    BY <1>10, <2>1, HasLeast DEF Min
  <2>3. b \in reach /\ b \in Nat /\ b >= 1
    BY <1>4, <1>8, <2>2
  <2> HIDE DEF b
  <2>4. CASE content[at(b)] = "P"
    BY <1>1, <1>4, <1>10, <2>3, <2>4
  <2>5. CASE content[at(b)] # "P"
    <3>1. ChargeStop(c, d) = at(b - 1)
      BY <1>1, <1>10, <2>5
    <3>2. CASE b = 1
      <4>1. b - 1 = 0
        BY <3>2
      <4> QED
        BY <1>6, <3>1, <4>1
    <3>3. CASE b # 1
      <4>1. b - 1 \in 1 .. b /\ ~(b <= b - 1)
        BY <2>3, <3>3
      <4>2. b - 1 \in reach /\ b - 1 \notin barred
        BY <1>5, <2>2, <2>3, <4>1
      <4> QED
        BY <1>4, <1>7, <3>1, <4>2
    <3> QED
      BY <3>2, <3>3
  <2> QED
    BY <2>4, <2>5
<1> QED
  BY <1>9, <1>10

WallsShown  == \A c \in Field : content[c] = "W" <=> c \in CellsOf("X")
PacmanShown == /\ \A c \in Field : content[c] = "P" <=> pac.alive /\ c = pac.pos
               /\ pac.alive => pac.pos \in Field
GhostsShown == /\ \A g \in Players : ghosts[g].pos \in Field /\ content[ghosts[g].pos] = "M"
               /\ \A c \in Field : content[c] = "M" => \E g \in Players : ghosts[g].pos = c
               /\ \A g, h \in Players : ghosts[g].pos = ghosts[h].pos => g = h
AllShown    == WallsShown /\ PacmanShown /\ GhostsShown
Shown       == pc = "play" /\ Sound /\ WellPlaced /\ result # "NEXT" => AllShown

\* Ghosts that are put in as many places as there are ghosts are apart.
LEMMA StartsApart ==
  ASSUME Chosen, WellPlaced, NEW g \in DOMAIN Names, NEW h \in DOMAIN Names,
         PosOf(Names[g]) = PosOf(Names[h])
  PROVE  g = h
<1> DEFINE n == Len(Names)
           S == 1 .. n
           place == [k \in S |-> PosOf(Names[k])]
<1>1. n \in Nat /\ DOMAIN Names = S
  BY LevelOf, LenProperties DEF IsSequence
<1>2. IsFiniteSet(S) /\ Cardinality(S) = n
  <2>1. n \in Nat
    BY <1>1
  <2> HIDE DEF n
  <2> QED
    BY <2>1, FS_Interval
<1>3. place \in Surjection(S, Starts)
  <2>1. Starts = {place[k] : k \in S}
    BY <1>1 DEF Starts
  <2> QED
    BY <2>1 DEF Surjection
<1>4. Cardinality(Starts) = n
  BY DEF WellPlaced
<1>5. place \in Injection(S, Starts)
  BY <1>2, <1>3, <1>4, FS_Surjection
<1> QED
  BY <1>1, <1>5 DEF Injection, IsInjective

LEMMA LoadShown ==
  ASSUME Chosen, Sound, WellPlaced, NEW f, LoadsFrom(f) PROVE AllShown'
<1>1. f = process_file(LaidOut(Text)) /\ level' = level
  BY DEF LoadsFrom
<1>2. f.mons = Names /\ Grid(f) = Field
  BY <1>1, LevelLoaded
<1>3. /\ \A c \in Field : Read(f, c) = Rows[c[2] + 1][c[1] + 1]
      /\ PacmanOf(f).pos = PacmanAt
      /\ \A g \in DOMAIN Names : GhostsOf(f)[g].pos = PosOf(Names[g])
  BY <1>1, SoundLoaded
<1>4. /\ pac' = PacmanOf(f) /\ ghosts' = GhostsOf(f)
      /\ pac'.pos = PacmanAt /\ pac'.alive = TRUE
      /\ DOMAIN ghosts' = DOMAIN Names
      /\ \A g \in DOMAIN Names : ghosts'[g].pos = PosOf(Names[g])
  BY <1>2, <1>3 DEF LoadsFrom, PacmanOf, GhostsOf
<1>5. \A c \in Field : (\E g \in DOMAIN f.mons : ghosts'[g].pos = c) <=> c \in Starts
  BY <1>2, <1>4 DEF Starts
<1>6. \A c \in Field : /\ c = PacmanAt => content'[c] = "P"
                       /\ c # PacmanAt /\ c \in Starts => content'[c] = "M"
                       /\ c # PacmanAt /\ c \notin Starts
                            => content'[c] = IF Read(f, c) = "X" THEN "W" ELSE " "
  BY <1>2, <1>4, <1>5, LoadedContent
<1>7. \A c \in Field : c \in CellsOf("X") <=> Read(f, c) = "X"
  BY <1>3 DEF CellsOf
<1>8. /\ PacmanAt \in Field /\ PacmanAt \notin Starts /\ Starts \subseteq Field
      /\ \A c \in Starts \cup {PacmanAt} : c \notin CellsOf("X")
  BY DEF WellPlaced, CellsOf
<1>9. Field' = Field /\ Names' = Names /\ CellsOf("X")' = CellsOf("X")
  BY <1>1, SameLevel
<1>10. WallsShown'
  <2>1. \A c \in Field : content'[c] = "W" <=> c \in CellsOf("X")
    BY <1>6, <1>7, <1>8
  <2> QED
    BY <1>9, <2>1 DEF WallsShown
<1>11. PacmanShown'
  <2>1. \A c \in Field : content'[c] = "P" <=> c = PacmanAt
    BY <1>6, <1>8
  <2> QED
    BY <1>4, <1>8, <1>9, <2>1 DEF PacmanShown
<1>12. GhostsShown'
  <2>1. \A g \in DOMAIN Names : PosOf(Names[g]) \in Starts
    BY DEF Starts
  <2>2. \A c \in Starts : c \in Field /\ content'[c] = "M"
    BY <1>6, <1>8
  <2>3. \A c \in Field : content'[c] = "M" => c \in Starts
    BY <1>6
  <2>4. \A c \in Starts : \E g \in DOMAIN Names : PosOf(Names[g]) = c
    BY DEF Starts
  <2>5. \A g, h \in DOMAIN Names : PosOf(Names[g]) = PosOf(Names[h]) => g = h
    BY StartsApart
  <2> QED
    BY <1>4, <1>9, <2>1, <2>2, <2>3, <2>4, <2>5 DEF GhostsShown, Players
<1> QED
  BY <1>10, <1>11, <1>12 DEF AllShown

LEMMA PacmanShows ==
  ASSUME PlayInv, AllShown, NEW o, NEW r, NEW c, PacmanGoes(o, r, c), result' # "NEXT"
  PROVE  AllShown'
<1>1. /\ content \in [Field -> Letters] /\ DOMAIN pac = PacmanFields
      /\ pac.alive \in BOOLEAN /\ PacmanMove(o, r)
  BY DEF PlayInv, PlayType, PacmanGoes
<1>2. Field' = Field /\ CellsOf("X")' = CellsOf("X") /\ ghosts' = ghosts
  BY SameLevel DEF PacmanGoes
<1>3. r # "portal"
  BY DEF PacmanGoes, ResultOf
<1>4. TickedType(Ticked)
  BY <1>1, TickedIs
<1>5. ASSUME content' = content, pac'.pos = pac.pos, pac'.alive = pac.alive PROVE AllShown'
  BY <1>2, <1>5 DEF AllShown, WallsShown, PacmanShown, GhostsShown, Players
<1>6. CASE Stays
  BY <1>4, <1>5, <1>6 DEF Stays, TickedType
<1>7. CASE UNCHANGED <<content, dots, pac>>
  BY <1>5, <1>7
<1>8. ASSUME content' = [content EXCEPT ![pac.pos] = " "],
             pac' = [Ticked EXCEPT !.alive = FALSE], pac.alive
      PROVE  AllShown'
  <2>1. pac'.alive = FALSE
    BY <1>1, <1>8, DiesType
  <2>2. pac.pos \in Field /\ content[pac.pos] = "P"
    BY <1>8 DEF AllShown, PacmanShown
  <2>3. \A k \in Field : content'[k] = IF k = pac.pos THEN " " ELSE content[k]
    BY <1>1, <1>8
  <2>4. \A k \in Field : /\ content'[k] = "W" <=> content[k] = "W"
                         /\ content'[k] = "M" <=> content[k] = "M"
                         /\ content'[k] # "P"
    BY <2>2, <2>3 DEF AllShown, PacmanShown
  <2> QED
    BY <1>2, <2>1, <2>4 DEF AllShown, WallsShown, PacmanShown, GhostsShown, Players
<1>9. ASSUME NEW to \in Field, content[to] \notin {"W", "M"}, Arrives(to), Eats(to), pac.alive
      PROVE  AllShown'
  <2>1. pac'.alive = pac.alive /\ pac'.pos = to
    BY <1>1, <1>9, EatsType
  <2>2. pac.pos \in Field /\ content[pac.pos] = "P"
    BY <1>9 DEF AllShown, PacmanShown
  <2>3. \A k \in Field : content'[k] = IF k = to THEN "P"
                                       ELSE IF k = pac.pos THEN " " ELSE content[k]
    BY <1>1, <1>9 DEF Arrives
  <2>4. \A k \in Field : /\ content'[k] = "W" <=> content[k] = "W"
                         /\ content'[k] = "M" <=> content[k] = "M"
                         /\ content'[k] = "P" <=> k = to
    BY <1>9, <2>2, <2>3 DEF AllShown, PacmanShown
  <2> QED
    BY <1>2, <1>9, <2>1, <2>4 DEF AllShown, WallsShown, PacmanShown, GhostsShown, Players
<1>10. ASSUME NEW d, PacmanMoves(d, r), pac.alive PROVE AllShown'
  <2>1. Cells = Field
    BY <1>1 DEF Cells
  <2> QED
    BY <1>3, <1>6, <1>8, <1>9, <1>10, <2>1 DEF PacmanMoves
<1> QED
  BY <1>1, <1>6, <1>7, <1>10 DEF PacmanMove

LEMMA GhostShows ==
  ASSUME PlayInv, AllShown, NEW g \in Players, GhostTurn(g) PROVE AllShown'
<1>1. /\ content \in [Field -> Letters] /\ DOMAIN pac = PacmanFields
      /\ pac.alive \in BOOLEAN /\ DOMAIN ghosts[g] = GhostFields /\ g \in DOMAIN ghosts
      /\ Chosen
  BY DEF PlayInv, PlayType, GhostTurn, Goto, Players
<1>2. Field' = Field /\ CellsOf("X")' = CellsOf("X")
  BY SameLevel DEF GhostTurn
<1>3. PICK o, to : Walks(g, o, to)
  BY <1>1, GhostWalks
<1> DEFINE from == ghosts[g].pos
<1>4. from \in Field /\ content[from] = "M"
  BY DEF AllShown, GhostsShown
<1>5. /\ Players' = Players /\ ghosts'[g].pos = to
      /\ \A h \in Players \ {g} : ghosts'[h] = ghosts[h]
  BY <1>3 DEF Walks, Players
<1>6. CASE ~HasRoom(g, o)
  <2>1. content' = content /\ pac' = pac /\ to = from
    BY <1>3, <1>6 DEF Walks
  <2>2. \A h \in Players : ghosts'[h].pos = ghosts[h].pos
    BY <1>5, <2>1
  <2> QED
    BY <1>2, <1>5, <2>1, <2>2 DEF AllShown, WallsShown, PacmanShown, GhostsShown
<1>7. CASE HasRoom(g, o)
  <2>1. /\ GhostPlace(g, to) /\ o \in Directions
        /\ to = IF ghosts[g].charged THEN ChargeStop(from, o) ELSE Ahead(from, o, 1)
    BY <1>3, <1>7 DEF Walks
  <2>2. to \in Field /\ (to = from \/ content[to] \in {" ", "P"})
    <3>1. Ahead(from, o, 1) \in Field
      BY <1>1, <1>7 DEF HasRoom, Cells
    <3>2. CASE ghosts[g].charged
      BY <1>1, <1>4, <2>1, <3>1, <3>2, StopFree
    <3>3. CASE ~ghosts[g].charged
      <4>1. content[Ahead(from, o, 1)] \notin {"W", "M"}
        BY <1>7, <3>3 DEF HasRoom
      <4>2. content[Ahead(from, o, 1)] \in {" ", "P"}
        BY <1>1, <3>1, <4>1 DEF Letters
      <4> QED
        BY <2>1, <3>1, <3>3, <4>2
    <3> QED
      BY <3>2, <3>3
  <2>3. /\ pac'.pos = pac.pos /\ pac'.alive \in BOOLEAN
        /\ pac'.alive <=> pac.alive /\ ~(content[to] = "P" /\ pac.pos = to)
    BY <1>1, <2>1, PlaceType
  <2> HIDE DEF from
  <2>4. \A k \in Field : content'[k] = IF k = to THEN "M"
                                       ELSE IF k = from THEN " " ELSE content[k]
    BY <1>1, <2>1 DEF GhostPlace, from
  <2>5. WallsShown'
    <3>1. \A k \in Field : content'[k] = "W" <=> content[k] = "W"
      BY <1>4, <2>2, <2>4
    <3> QED
      BY <1>2, <3>1 DEF AllShown, WallsShown
  <2>6. PacmanShown'
    <3>1. \A k \in Field : content'[k] = "P" <=> content[k] = "P" /\ k # to
      BY <1>4, <2>2, <2>4
    <3> QED
      BY <1>2, <2>2, <2>3, <3>1 DEF AllShown, PacmanShown
  <2>7. GhostsShown'
    <3>1. \A h \in Players \ {g} : /\ ghosts[h].pos # from /\ ghosts[h].pos # to
                                   /\ ghosts[h].pos \in Field /\ content[ghosts[h].pos] = "M"
      <4> TAKE h \in Players \ {g}
      <4>1. ghosts[h].pos \in Field /\ content[ghosts[h].pos] = "M"
        BY DEF AllShown, GhostsShown
      <4>2. ghosts[h].pos # from
        BY DEF AllShown, GhostsShown, from
      <4>3. ghosts[h].pos # to
        BY <2>2, <4>1, <4>2
      <4> QED
        BY <4>1, <4>2, <4>3
    <3>2. \A h \in Players : ghosts'[h].pos \in Field /\ content'[ghosts'[h].pos] = "M"
      <4> TAKE h \in Players
      <4>1. CASE h = g
        BY <1>5, <2>2, <2>4, <4>1
      <4>2. CASE h # g
        <5>1. ghosts'[h] = ghosts[h]
          BY <1>5, <4>2
        <5>2. /\ ghosts[h].pos # from /\ ghosts[h].pos # to
              /\ ghosts[h].pos \in Field /\ content[ghosts[h].pos] = "M"
          BY <3>1, <4>2
        <5> QED
          BY <2>4, <5>1, <5>2
      <4> QED
        BY <4>1, <4>2
    <3>3. \A k \in Field : content'[k] = "M" => \E h \in Players : ghosts'[h].pos = k
      <4>1. ASSUME NEW k \in Field, content'[k] = "M", k # to
            PROVE  \E h \in Players : ghosts'[h].pos = k
        <5>1. content[k] = "M" /\ k # from
          BY <2>4, <4>1
        <5>2. PICK h \in Players : ghosts[h].pos = k
          BY <5>1 DEF AllShown, GhostsShown
        <5> QED
          BY <1>5, <5>1, <5>2 DEF from
      <4> QED
        BY <1>5, <4>1
    <3>4. \A h, i \in Players : ghosts'[h].pos = ghosts'[i].pos => h = i
      <4>1. \A h, i \in Players : ghosts[h].pos = ghosts[i].pos => h = i
        BY DEF AllShown, GhostsShown
      <4> QED
        BY <1>5, <3>1, <4>1
    <3> QED
      BY <1>2, <1>5, <3>2, <3>3, <3>4 DEF GhostsShown
  <2> QED
    BY <2>5, <2>6, <2>7 DEF AllShown
<1> QED
  BY <1>6, <1>7

LEMMA ShownStep == ASSUME PlayInv, Shown, [Next]_vars PROVE Shown'
<1> SUFFICES ASSUME pc' = "play", Sound', WellPlaced', result' # "NEXT" PROVE AllShown'
  BY DEF Shown
<1>1. level' = level
  BY DEF Next, vars, Loads, LoadIsLost, PacmanStep, PacmanTests, NoKey, PacmanTurn,
         GhostStep, GhostTests, GhostDivides, GhostTurn
<1>2. /\ Sound /\ WellPlaced /\ Field' = Field /\ CellsOf("X")' = CellsOf("X")
  BY <1>1, SameLevel
<1>3. ASSUME UNCHANGED board, pc = "play", result' = result PROVE AllShown'
  <2>1. AllShown
    BY <1>2, <1>3 DEF Shown
  <2> QED
    BY <1>2, <1>3, <2>1 DEF board, AllShown, WallsShown, PacmanShown, GhostsShown, Players
<1>4. ASSUME NEW f, LoadsFrom(f) PROVE AllShown'
  BY <1>2, <1>4, LoadShown DEF PlayInv
<1>5. ~LoadIsLost
  BY DEF LoadIsLost
<1>6. ASSUME PacmanTests \/ NoKey \/ \E g \in Players : GhostTests(g) \/ GhostDivides(g)
      PROVE  AllShown'
  BY <1>3, <1>6 DEF PacmanTests, NoKey, GhostTests, GhostDivides, Goto
<1>7. ASSUME PacmanTurn PROVE AllShown'
  <2>1. PICK o, r, c : PacmanGoes(o, r, c)
    BY <1>7, PacmanIs
  <2>2. pc = "play" /\ result = "CONTINUE"
    BY <2>1 DEF PacmanGoes, PlayInv, Ended
  <2>3. AllShown
    BY <1>2, <2>2 DEF Shown
  <2> QED
    BY <2>1, <2>3, PacmanShows
<1>8. ASSUME NEW g \in Players, GhostTurn(g) PROVE AllShown'
  <2>1. pc = "play" /\ result' = result
    BY <1>8 DEF GhostTurn, Goto
  <2>2. AllShown
    BY <1>2, <2>1 DEF Shown
  <2> QED
    BY <1>8, <2>2, GhostShows
<1>9. CASE UNCHANGED vars
  <2>1. UNCHANGED board /\ pc = "play" /\ result' = result
    BY <1>9 DEF vars
  <2> QED
    BY <1>3, <2>1
<1>10. CASE Next
  BY <1>4, <1>5, <1>6, <1>7, <1>8, <1>10, LoadStep
     DEF Next, Loads, PacmanStep, GhostStep
<1> QED
  BY <1>9, <1>10

\* Players that stand apart are as many as the places they stand in.
LEMMA PlacesCount ==
  ASSUME PlayInv, pc = "play", GhostsShown
  PROVE  Cardinality({ghosts[g].pos : g \in Players}) = Cardinality(Players)
<1> DEFINE n == Len(Names)
           T == {ghosts[g].pos : g \in Players}
           place == [g \in Players |-> ghosts[g].pos]
<1>1. n \in Nat /\ Players = 1 .. n
  BY LevelOf, LenProperties DEF IsSequence, PlayInv, PlayType, Players
<1>2. IsFiniteSet(Players)
  BY <1>1, FS_Interval
<1>3. place \in Surjection(Players, T)
  BY DEF Surjection
<1>4. place \in Injection(Players, T)
  BY DEF Injection, IsInjective, GhostsShown
<1> QED
  BY <1>2, <1>3, <1>4, FS_Surjection

\* move_pacman, move_ghost and move_ghost_charged: on a sound level whose
\* players start apart, the letters on the board are the walls, the ghosts and
\* the living pacman, however the charges, captures and turns fall.
THEOREM ShowsTheorem == Spec => []BoardShows
<1>1. Init => Shown
  BY DEF Init, Shown
<1>2. PlayInv /\ Shown /\ [Next]_vars => Shown'
  BY ShownStep
<1>3. PlayInv /\ Shown => BoardShows
  <2> SUFFICES ASSUME PlayInv, Shown, pc = "play", Sound, WellPlaced, result # "NEXT"
               PROVE  /\ {c \in Cells : content[c] = "W"} = CellsOf("X")
                      /\ {c \in Cells : content[c] = "P"}
                           = IF pac.alive THEN {pac.pos} ELSE {}
                      /\ {c \in Cells : content[c] = "M"} = {ghosts[g].pos : g \in Players}
                      /\ Cardinality({ghosts[g].pos : g \in Players})
                           = Cardinality(Players)
    BY DEF BoardShows
  <2>1. WallsShown /\ PacmanShown /\ GhostsShown
    BY DEF Shown, AllShown
  <2>2. Cells = Field /\ CellsOf("X") \subseteq Field
    BY DEF Cells, PlayInv, PlayType, CellsOf
  <2>3. {c \in Cells : content[c] = "W"} = CellsOf("X")
    BY <2>1, <2>2 DEF WallsShown
  <2>4. {c \in Cells : content[c] = "P"} = IF pac.alive THEN {pac.pos} ELSE {}
    <3>1. CASE pac.alive
      BY <2>1, <2>2, <3>1 DEF PacmanShown
    <3>2. CASE ~pac.alive
      BY <2>1, <2>2, <3>2 DEF PacmanShown
    <3> QED
      BY <3>1, <3>2
  <2>5. {c \in Cells : content[c] = "M"} = {ghosts[g].pos : g \in Players}
    BY <2>1, <2>2 DEF GhostsShown
  <2> QED
    BY <2>1, <2>3, <2>4, <2>5, PlacesCount
<1> QED
  BY <1>1, <1>2, <1>3, PlayInvariant, PTL DEF Spec

-----------------------------------------------------------------------------
(* The refinement of Timetable: every ghost keeps the timetable of its     *)
(* file.                                                                   *)

\* A ghost whose file is Timetable's to speak of plays that file's orders.
Keeps(e, s, c) == /\ s.moves = OrdersOf[e] /\ s.passo = PassoOf(e)
                  /\ s.steps = Directions \cup {"R", "C"} /\ CursorOK(s, c)
OrdersKept ==
  /\ pc = "load" => Players = {}
  /\ pc = "play" => \A g \in Players :
       Names[g] \in Monsters => Keeps(Names[g], ghosts[g].script, ghosts[g].cursor)

LEMMA MonsterScript ==
  ASSUME NEW e \in Monsters, NEW s, s.moves = OrdersOf[e], s.passo = PassoOf(e),
         s.steps = Directions \cup {"R", "C"}
  PROVE  ScriptOK(s)
<1> DEFINE text == EntityTexts[e]
           o == OrdersOf[e]
           n == Len(text) - 2
<1>1. e \in DOMAIN EntityTexts /\ IsSequence(text) /\ Len(text) >= 2
  BY FilesAssumption DEF Monsters
<1>2. n \in Nat
  BY <1>1, LenProperties DEF IsSequence
<1>3. DOMAIN o = 1 .. n
  BY <1>1 DEF OrdersOf
<1> HIDE DEF n
<1>4. Len(o) = n
  <2>1. o = [k \in 1 .. n |-> o[k]]
    BY <1>1 DEF OrdersOf, n
  <2> HIDE DEF o
  <2> QED
    BY <1>2, <2>1
<1>5. /\ o # <<>> /\ PassoOf(e) \in Nat
      /\ \A k \in DOMAIN o : /\ o[k].command \in Directions \cup {"R", "C", "T"}
                             /\ o[k].turns \in Nat \ {0}
  BY DEF Monsters
<1>6. n # 0
  <2>1. o = [k \in 1 .. n |-> o[k]]
    BY <1>1 DEF OrdersOf, n
  <2> HIDE DEF o
  <2> QED
    BY <1>2, <1>5, <2>1
<1> HIDE DEF o
<1> QED
  BY <1>2, <1>3, <1>4, <1>5, <1>6 DEF ScriptOK, o

\* A turn of the ghost is the next turn of the timetable of its file.
LEMMA TableTurn ==
  ASSUME NEW e \in Monsters, Plays(e), Plays(e)', NEW s, NEW c, Keeps(e, s, c),
         GhostOf(e).script = s, GhostOf(e).cursor = c,
         GhostOf(e)'.script = s, GhostOf(e)'.cursor = Tick(s, c)
  PROVE  Table(e)!Step
<1>1. ScriptOK(s) /\ CursorOK(s, c) /\ s.moves = OrdersOf[e] /\ s.passo = PassoOf(e)
  BY MonsterScript DEF Keeps
<1> DEFINE t == Tick(s, c)
           a == TimeOf(s, c)
           z == TimeOf(s, t)
<1>2. IF a[2] + 1 < Span(s, a[1]) * (1 + s.passo)
      THEN z[2] = a[2] + 1 /\ z[1] = a[1]
      ELSE z[2] = 0 /\ z[1] = (a[1] % Len(s.moves)) + 1
  BY <1>1, TurnTaken
<1>3. CursorOK(s, t)
  BY <1>1, CursorKept
<1>4. Issues(s, t) = IF z[2] % (1 + s.passo) = 0 THEN s.moves[z[1]].command ELSE "wait"
  BY <1>1, <1>3, DueIs
<1>5. Time(e) = a /\ Time(e)' = z
  BY DEF Time
<1> HIDE DEF t, a, z
<1>6. (IF Plays(e) THEN Issues(GhostOf(e).script, GhostOf(e).cursor)
       ELSE OrdersOf[e][1].command)' = Issues(s, t)
  BY DEF t
<1>7. Span(s, a[1]) * (1 + s.passo) = Table(e)!Turns(a[1])
  BY <1>1 DEF Span, Table!Turns
<1>8. Issues(s, t) = Table(e)!Does(z[1], z[2])
  BY <1>1, <1>4 DEF Table!Does
<1>9. Table(e)!Next
  BY <1>1, <1>2, <1>5, <1>6, <1>7, <1>8 DEF Table!Next
<1> QED
  BY <1>9 DEF Table!Step

\* A game that has not begun, or has just begun, is at the first turn.
LEMMA TableBegins ==
  ASSUME NEW e \in Monsters
  PROVE  /\ ~Plays(e) => Table(e)!Init
         /\ ~Plays(e) /\ ~Plays(e)' => Table(e)!Step
         /\ ~Plays(e) /\ Plays(e)' /\ Keeps(e, GhostOf(e)'.script, GhostOf(e)'.cursor)
              /\ GhostOf(e)'.cursor = Start(GhostOf(e)'.script, 0) => Table(e)!Step
<1> DEFINE P == 1 + PassoOf(e)
<1>1. ASSUME ~Plays(e) PROVE Table(e)!Init
  <2>1. P \in Nat \ {0}
    BY DEF Monsters
  <2>2. 0 = P * 0 + 0 /\ 0 \in 0 .. P - 1 /\ 0 \in Int
    <3> HIDE DEF P
    <3> QED
      BY <2>1
  <2>3. 0 % P = 0
    <3> HIDE DEF P
    <3> QED
      BY <2>1, <2>2, RemainderUnique
  <2>4. Time(e)[1] = 1 /\ Time(e)[2] = 0
    BY <1>1 DEF Time
  <2>5. Table(e)!Does(1, 0) = OrdersOf[e][1].command
    BY <2>3 DEF Table!Does
  <2> QED
    BY <1>1, <2>4, <2>5 DEF Table!Init
<1>2. ASSUME ~Plays(e), ~Plays(e)' PROVE Table(e)!Step
  <2>1. Time(e)' = Time(e)
    BY <1>2 DEF Time
  <2> QED
    BY <1>2, <2>1 DEF Table!Step
<1>3. ASSUME ~Plays(e), Plays(e)', Keeps(e, GhostOf(e)'.script, GhostOf(e)'.cursor),
             GhostOf(e)'.cursor = Start(GhostOf(e)'.script, 0)
      PROVE  Table(e)!Step
  <2> DEFINE s == GhostOf(e)'.script
             c == GhostOf(e)'.cursor
  <2>1. ScriptOK(s) /\ s.moves = OrdersOf[e]
    BY <1>3, MonsterScript DEF Keeps
  <2>2. TimeOf(s, c)[1] = 1 /\ TimeOf(s, c)[2] = 0 /\ Issues(s, c) = OrdersOf[e][1].command
    BY <1>3, <2>1, Starting
  <2>3. Time(e)[1] = 1 /\ Time(e)[2] = 0
    BY <1>3 DEF Time
  <2>4. Time(e)' = TimeOf(s, c)
    BY <1>3 DEF Time
  <2> QED
    BY <1>3, <2>2, <2>3, <2>4 DEF Table!Step
<1> QED
  BY <1>1, <1>2, <1>3

Who(e) == CHOOSE g \in Players : Names[g] = e
LEMMA WhoIs == ASSUME NEW e, Plays(e)
               PROVE  Who(e) \in Players /\ Names[Who(e)] = e /\ GhostOf(e) = ghosts[Who(e)]
  BY DEF Who, Plays, GhostOf

AllStep == \A e \in Monsters : Table(e)!Step

LEMMA LoadBegins ==
  ASSUME Chosen, OrdersKept, NEW f, LoadsFrom(f) PROVE OrdersKept' /\ AllStep
<1>1. f = process_file(LaidOut(Text)) /\ level' = level /\ pc = "load" /\ pc' = "play"
  BY DEF LoadsFrom
<1>2. f.mons = Names /\ Names' = Names /\ Players = {}
  BY <1>1, LevelLoaded, SameLevel DEF OrdersKept
<1>3. /\ Players' = DOMAIN Names
      /\ \A g \in DOMAIN Names :
           LET s == GhostScript(Entity(Names[g])) IN
           ghosts'[g].script = s /\ ghosts'[g].cursor = Start(s, 0)
  BY <1>2 DEF LoadsFrom, GhostsOf, Players
<1>4. ASSUME NEW g \in Players', Names[g] \in Monsters
      PROVE  /\ Keeps(Names[g], ghosts'[g].script, ghosts'[g].cursor)
             /\ ghosts'[g].cursor = Start(ghosts'[g].script, 0)
  <2> DEFINE e == Names[g]
             s == ghosts'[g].script
             c == ghosts'[g].cursor
  <2>1. e \in DOMAIN EntityTexts
    BY <1>4 DEF Monsters
  <2>2. Entity(e).moves = OrdersOf[e] /\ Entity(e).passo = PassoOf(e)
    BY <2>1, EntityLoaded DEF Chosen
  <2>3. s = GhostScript(Entity(e)) /\ c = Start(s, 0)
    BY <1>3, <1>4
  <2>4. /\ s.moves = OrdersOf[e] /\ s.passo = PassoOf(e)
        /\ s.steps = Directions \cup {"R", "C"}
    BY <2>2, <2>3 DEF GhostScript, Script
  <2> HIDE DEF s, c
  <2>5. ScriptOK(s)
    BY <1>4, <2>4, MonsterScript
  <2>6. CursorOK(s, c)
    BY <2>3, <2>5, Starting
  <2> QED
    BY <2>3, <2>4, <2>6 DEF Keeps, s, c
<1>5. OrdersKept'
  BY <1>1, <1>2, <1>4 DEF OrdersKept, Monsters
<1>6. ASSUME NEW e \in Monsters PROVE Table(e)!Step
  <2>1. ~Plays(e)
    BY <1>2 DEF Plays
  <2>2. CASE Plays(e)'
    <3>1. /\ Who(e)' \in Players' /\ Names[Who(e)'] = e
          /\ GhostOf(e)' = ghosts'[Who(e)']
      BY <1>2, <2>2 DEF Who, Plays, GhostOf
    <3>2. /\ Keeps(e, GhostOf(e)'.script, GhostOf(e)'.cursor)
          /\ GhostOf(e)'.cursor = Start(GhostOf(e)'.script, 0)
      BY <1>4, <1>6, <3>1
    <3> QED
      BY <2>1, <2>2, <3>2, TableBegins
  <2> QED
    BY <2>1, <2>2, TableBegins
<1> QED
  BY <1>5, <1>6 DEF AllStep

LEMMA TurnKeeps ==
  ASSUME PlayInv, OrdersKept, NEW g \in Players, GhostTurn(g)
  PROVE  OrdersKept' /\ AllStep
<1>1. pc = "play" /\ pc' = "play" /\ level' = level /\ DOMAIN ghosts[g] = GhostFields
  BY DEF GhostTurn, Goto, PlayInv, PlayType, Players
<1>2. PICK o, to : Walks(g, o, to)
  BY <1>1, GhostWalks DEF Players
<1>3. /\ Players' = Players /\ Names' = Names /\ ghosts'[g].script = ghosts[g].script
      /\ ghosts'[g].cursor = Tick(ghosts[g].script, ghosts[g].cursor)
      /\ \A h \in Players : h # g => ghosts'[h] = ghosts[h]
  BY <1>1, <1>2, SameLevel DEF Walks, Players
<1>4. \A h \in Players : Names[h] \in Monsters
        => Keeps(Names[h], ghosts[h].script, ghosts[h].cursor)
  BY <1>1 DEF OrdersKept
<1>5. ASSUME Names[g] \in Monsters
      PROVE  Keeps(Names[g], ghosts'[g].script, ghosts'[g].cursor)
  <2> DEFINE e == Names[g]
             s == ghosts[g].script
             c == ghosts[g].cursor
  <2>1. /\ s.moves = OrdersOf[e] /\ s.passo = PassoOf(e) /\ CursorOK(s, c)
        /\ s.steps = Directions \cup {"R", "C"}
    BY <1>4, <1>5 DEF Keeps
  <2>2. ScriptOK(s)
    BY <1>5, <2>1, MonsterScript
  <2>3. CursorOK(s, Tick(s, c))
    BY <2>1, <2>2, CursorKept
  <2> QED
    BY <1>3, <2>1, <2>3 DEF Keeps
<1>6. OrdersKept'
  <2>1. \A h \in Players : Names[h] \in Monsters
          => Keeps(Names[h], ghosts'[h].script, ghosts'[h].cursor)
    BY <1>3, <1>4, <1>5
  <2> QED
    BY <1>1, <1>3, <2>1 DEF OrdersKept, Monsters
<1>7. ASSUME NEW e \in Monsters PROVE Table(e)!Step
  <2>1. CASE ~Plays(e)
    <3>1. ~Plays(e)'
      BY <1>3, <2>1 DEF Plays
    <3> QED
      BY <2>1, <3>1, TableBegins
  <2>2. CASE Plays(e)
    <3> DEFINE w == Who(e)
    <3>1. Plays(e)' /\ w \in Players /\ Names[w] = e /\ GhostOf(e) = ghosts[w]
      BY <1>3, <2>2, WhoIs DEF Plays
    <3>2. GhostOf(e)' = ghosts'[w]
      BY <1>3 DEF GhostOf, Who
    <3> HIDE DEF w
    <3>3. CASE w = g
      <4>1. Keeps(e, ghosts[g].script, ghosts[g].cursor)
        BY <1>4, <1>7, <3>1, <3>3
      <4> QED
        BY <1>3, <2>2, <3>1, <3>2, <3>3, <4>1, TableTurn
    <3>4. CASE w # g
      <4>1. GhostOf(e)' = GhostOf(e)
        BY <1>3, <3>1, <3>2, <3>4
      <4>2. Time(e)' = Time(e)
        BY <2>2, <3>1, <4>1 DEF Time
      <4> QED
        BY <2>2, <3>1, <4>1, <4>2 DEF Table!Step
    <3> QED
      BY <3>3, <3>4
  <2> QED
    BY <2>1, <2>2
<1> QED
  BY <1>6, <1>7 DEF AllStep

\* ghost_thread and move_ghost: every ghost keeps the timetable of its file,
\* whatever the other ghosts, the pacman and his result do in between: of all
\* the files of moves there may be, with any passo and any T.
THEOREM OrdersTheorem == Spec => OrdersInTurn
<1>1. Init => OrdersKept /\ \A e \in Monsters : Table(e)!Init
  <2> SUFFICES ASSUME Init PROVE OrdersKept /\ \A e \in Monsters : Table(e)!Init
    OBVIOUS
  <2>1. Players = {} /\ pc = "load"
    BY DEF Init, Players
  <2>2. \A e \in Monsters : ~Plays(e)
    BY <2>1 DEF Plays
  <2> QED
    BY <2>1, <2>2, TableBegins DEF OrdersKept
<1>2. PlayInv /\ OrdersKept /\ [Next]_vars => OrdersKept' /\ [AllStep]_ghosts
  <2> SUFFICES ASSUME PlayInv, OrdersKept, [Next]_vars PROVE OrdersKept' /\ [AllStep]_ghosts
    OBVIOUS
  <2>1. ASSUME ghosts' = ghosts, level' = level, pc' # "play" \/ pc = "play",
               pc' # "load" \/ pc = "load"
        PROVE  OrdersKept' /\ [AllStep]_ghosts
    <3>1. Players' = Players /\ Names' = Names
      BY <2>1, SameLevel DEF Players
    <3> QED
      BY <2>1, <3>1 DEF OrdersKept, Monsters
  <2>2. CASE UNCHANGED vars
    BY <2>1, <2>2 DEF vars, board
  <2>3. ASSUME NEW f, LoadsFrom(f) PROVE OrdersKept' /\ [AllStep]_ghosts
    BY <2>3, LoadBegins DEF PlayInv
  <2>4. CASE LoadIsLost
    BY <2>1, <2>4 DEF LoadIsLost, board
  <2>5. CASE PacmanStep
    BY <2>1, <2>5 DEF PacmanStep, PacmanTests, NoKey, PacmanTurn, Goto, board
  <2>6. ASSUME NEW g \in Players, GhostStep(g) PROVE OrdersKept' /\ [AllStep]_ghosts
    <3>1. CASE GhostTests(g)
      BY <2>1, <3>1 DEF GhostTests, Goto, board
    <3>2. CASE GhostDivides(g)
      BY <2>1, <3>2 DEF GhostDivides, board
    <3>3. CASE GhostTurn(g)
      BY <2>6, <3>3, TurnKeeps
    <3> QED
      BY <2>6, <3>1, <3>2, <3>3 DEF GhostStep
  <2>7. CASE Loads
    <3>1. pc = "load" /\ Next
      BY <2>7 DEF Loads, Next
    <3> QED
      BY <2>3, <2>4, <3>1, LoadStep
  <2> QED
    BY <2>2, <2>4, <2>5, <2>6, <2>7 DEF Next
<1>3. [AllStep]_ghosts <=> [\A e \in Monsters : Table(e)!Step]_ghosts
  BY DEF AllStep
<1> QED
  BY <1>1, <1>2, <1>3, PlayInvariant, PTL DEF Spec, OrdersInTurn

=============================================================================
