--------------------------- MODULE LevelFilesProofs ---------------------------
(***************************************************************************)
(* Proofs about LevelFiles, for all level files and files of moves, in any *)
(* order, with a comment anywhere.                                         *)
(***************************************************************************)
EXTENDS LevelFiles, MoveScriptProofs

\* All the lines that a reader can have in hand.
AllLines == {Comment, Nothing} \cup UNION {Range(t) : t \in Range(Levels) \cup Range(Files)}

LEMMA LinesOK ==
  /\ \A l \in AllLines : LineOK(l)
  /\ \A text \in Range(Levels) \cup Range(Files) : text \in Seq(AllLines)
<1>1. LineOK(Comment) /\ LineOK(Nothing)
  <2>1. <<>> \in Seq(Range(<<>>))
    BY EmptySeq
  <2> QED
    BY <2>1 DEF LineOK, Comment, Nothing, Line, IsSequence
<1>2. ASSUME NEW text \in Range(Levels) \cup Range(Files)
      PROVE  text \in Seq(AllLines) /\ \A l \in Range(text) : LineOK(l)
  <2>1. text \in Seq(Range(text)) /\ \A l \in Range(text) : LineOK(l)
    BY FilesAssumption DEF IsSequence
  <2>2. Range(text) \subseteq AllLines
    BY DEF AllLines
  <2> QED
    BY <2>1, <2>2, SeqMonotonic
<1> QED
  BY <1>1, <1>2 DEF AllLines

LEMMA NumbersOK == MaxMoves \in Nat \ {0} /\ MaxGhosts \in Nat \ {0, 1} /\ MaxLevels \in Nat \ {0}
  BY Zenon, FilesAssumption

LEMMA SequenceIs ==
  ASSUME NEW s, IsSequence(s)
  PROVE  Len(s) \in Nat /\ DOMAIN s = 1 .. Len(s) /\ \A k \in 1 .. Len(s) : s[k] \in Range(s)
<1>1. Len(s) \in Nat /\ DOMAIN s = 1 .. Len(s)
  BY LenProperties DEF IsSequence
<1> QED
  BY <1>1 DEF Range

\* Part of a sequence is one.
LEMMA PartIs ==
  ASSUME NEW s, IsSequence(s), NEW n \in 0 .. Len(s)
  PROVE  /\ IsSequence(SubSeq(s, 1, n)) /\ Len(SubSeq(s, 1, n)) = n
         /\ \A k \in 1 .. n : SubSeq(s, 1, n)[k] = s[k]
<1> DEFINE t == SubSeq(s, 1, n)
<1>1. Len(s) \in Nat /\ n \in Nat /\ \A k \in 1 .. n : s[k] \in Range(s)
  BY SequenceIs
<1>2. Len(t) = n /\ t \in Seq(Range(s)) /\ \A k \in 1 .. n : t[k] = s[k]
  BY <1>1, SubSeqProperties
<1> HIDE DEF t
<1>3. t \in [1 .. n -> Range(t)]
  BY <1>2, LenProperties DEF Range
<1>4. IsSequence(t)
  BY <1>1, <1>3, IsSeq DEF IsSequence
<1> QED
  BY <1>2, <1>4 DEF t
-----------------------------------------------------------------------------
(* Types.                                                                  *)

ReaderType == [rest : Seq(AllLines), command : AllLines, read : {0, 1}, cut : BOOLEAN]
MoveType   == [command : Letters(0) \cup Letters(1) \cup {"T"}, turns : Nat \ {0}]
PlayerOK(p) ==
  /\ DOMAIN p = {"pos", "passo", "waiting", "moves", "cursor"}
  /\ p.moves \in Seq(MoveType) /\ Len(p.moves) <= MaxMoves
Field == (0 .. board.w - 1) \X (0 .. board.h - 1)

TypesOK ==
  /\ FilesTypeOK
  /\ filenames \in Seq(DOMAIN Levels) /\ comment \in Nat
  /\ reader \in ReaderType
  /\ DOMAIN board = {"w", "h", "pac", "mons"} /\ board.w \in Nat /\ board.h \in Nat
  /\ IsSequence(board.mons)
  /\ pc = "grid" => Cells = Field
  /\ pc \in {"grid", "entity", "head", "moves", "play"} => DOMAIN players = 0 .. Len(board.mons)
  /\ \A p \in DOMAIN players : PlayerOK(players[p])
  /\ pc = "entity" => who \in 0 .. Len(board.mons) + 1
  /\ pc \in {"head", "moves"} => who \in 0 .. Len(board.mons)

LEMMA ReadType ==
  ASSUME NEW r \in ReaderType
  PROVE  read_line(r) \in ReaderType
<1>1. Nothing \in AllLines
  BY DEF AllLines
<1>2. CASE r.rest = <<>>
  BY <1>1, <1>2 DEF read_line, ReaderType
<1>3. CASE r.rest # <<>>
  <2>1. Head(r.rest) \in AllLines /\ Tail(r.rest) \in Seq(AllLines)
    BY <1>3, HeadTailProperties DEF ReaderType
  <2> QED
    BY <1>3, <2>1 DEF read_line, ReaderType
<1> QED
  BY <1>2, <1>3

\* Where the comment of a text is put: after that many lines.
CommentAfter(text) == IF comment <= Len(text) THEN comment ELSE 0
LineAt(text, k, j) == IF j <= k THEN text[j] ELSE IF j = k + 1 THEN Comment ELSE text[j - 1]

LEMMA OpenedIs ==
  ASSUME comment \in Nat, NEW text \in Seq(AllLines), NEW k, k = CommentAfter(text)
  PROVE  /\ k \in 0 .. Len(text) /\ Len(text) \in Nat
         /\ Opened(text) \in ReaderType
         /\ Len(Opened(text).rest) = Len(text) + 1
         /\ \A j \in 1 .. Len(text) + 1 : Opened(text).rest[j] = LineAt(text, k, j)
<1> DEFINE n == Len(text)
           a == SubSeq(text, 1, k)
           b == SubSeq(text, k + 1, n)
           c == <<Comment>>
<1>1. n \in Nat /\ text \in [1 .. n -> AllLines]
  BY LenProperties
<1> HIDE DEF n
<1>2. k \in 0 .. n
  BY <1>1 DEF CommentAfter, n
<1>3. c \in Seq(AllLines) /\ Len(c) = 1 /\ c[1] = Comment
  <2>1. c \in [1 .. 1 -> AllLines]
    BY DEF AllLines
  <2> QED
    BY <2>1, IsSeq
<1>4. a \in Seq(AllLines) /\ Len(a) = k /\ \A j \in 1 .. k : a[j] = text[j]
  <2>1. 1 \in Int /\ k \in Int /\ \A j \in 1 .. k : text[j] \in AllLines
    BY <1>1, <1>2
  <2>2. /\ SubSeq(text, 1, k) \in Seq(AllLines)
        /\ Len(SubSeq(text, 1, k)) = IF 1 <= k THEN k - 1 + 1 ELSE 0
        /\ \A j \in 1 .. k - 1 + 1 : SubSeq(text, 1, k)[j] = text[1 + j - 1]
    BY <2>1, SubSeqProperties
  <2> QED
    BY <1>2, <2>2
<1>5. b \in Seq(AllLines) /\ Len(b) = n - k /\ \A j \in 1 .. n - k : b[j] = text[k + j]
  <2> DEFINE m == k + 1
             t == SubSeq(text, m, n)
  <2>1. m \in Int /\ n \in Int /\ \A j \in m .. n : text[j] \in AllLines
    BY <1>1, <1>2
  <2>2. m = k + 1
    OBVIOUS
  <2> HIDE DEF m
  <2>3. /\ t \in Seq(AllLines) /\ Len(t) = IF m <= n THEN n - m + 1 ELSE 0
        /\ \A j \in 1 .. n - m + 1 : t[j] = text[m + j - 1]
    BY <2>1, SubSeqProperties
  <2> HIDE DEF t
  <2>4. n - m + 1 = n - k /\ \A j \in 1 .. n - k : m + j - 1 = k + j
    <3>1. n \in Nat /\ k \in Nat
      BY <1>1, <1>2
    <3> QED
      BY <2>2, <3>1
  <2>6. Len(t) = n - k
    <3>1. n \in Nat /\ k \in Nat /\ k <= n
      BY <1>1, <1>2
    <3>2. Len(t) = IF m <= n THEN n - m + 1 ELSE 0
      BY <2>3
    <3> QED
      BY <2>2, <3>1, <3>2
  <2>5. \A j \in 1 .. n - k : t[j] = text[k + j]
    BY <2>3, <2>4
  <2> QED
    BY <2>2, <2>3, <2>5, <2>6 DEF t
<1> HIDE DEF a, b, c
<1> DEFINE ac == a \o c
           all == ac \o b
<1>6. /\ ac \in Seq(AllLines) /\ Len(ac) = k + 1
      /\ \A j \in 1 .. k : ac[j] = text[j]
      /\ ac[k + 1] = Comment
  <2>1. /\ ac \in Seq(AllLines) /\ Len(ac) = Len(a) + Len(c)
        /\ \A j \in 1 .. Len(a) + Len(c) : ac[j] = IF j <= Len(a) THEN a[j] ELSE c[j - Len(a)]
    BY <1>3, <1>4, ConcatProperties
  <2> QED
    BY <1>2, <1>3, <1>4, <2>1
<1> HIDE DEF ac
<1>7. /\ all \in Seq(AllLines) /\ Len(all) = n + 1
      /\ \A j \in 1 .. n + 1 : all[j] = IF j <= k + 1 THEN ac[j] ELSE b[j - (k + 1)]
  <2>1. /\ all \in Seq(AllLines) /\ Len(all) = Len(ac) + Len(b)
        /\ \A j \in 1 .. Len(ac) + Len(b) :
             all[j] = IF j <= Len(ac) THEN ac[j] ELSE b[j - Len(ac)]
    BY <1>5, <1>6, ConcatProperties
  <2> HIDE DEF all
  <2>2. Len(ac) = k + 1 /\ Len(b) = n - k /\ k + 1 + (n - k) = n + 1
    BY <1>1, <1>2, <1>5, <1>6
  <2> QED
    BY <2>1, <2>2
<1> HIDE DEF all
<1>8. ASSUME NEW j \in 1 .. n + 1 PROVE all[j] = LineAt(text, k, j)
  <2>1. CASE j <= k
    <3>1. j \in 1 .. k /\ j <= k + 1
      BY <1>1, <1>2, <2>1
    <3> QED
      BY <1>6, <1>7, <2>1, <3>1 DEF LineAt
  <2>2. CASE j = k + 1
    <3>1. ~(j <= k) /\ j <= k + 1
      BY <1>2, <2>2
    <3> QED
      BY <1>6, <1>7, <2>2, <3>1 DEF LineAt
  <2>3. CASE j > k + 1
    <3>1. ~(j <= k) /\ j # k + 1 /\ ~(j <= k + 1) /\ j - (k + 1) \in 1 .. n - k
          /\ k + (j - (k + 1)) = j - 1
      BY <1>1, <1>2, <2>3
    <3> QED
      BY <1>5, <1>7, <3>1 DEF LineAt
  <2> QED
    BY <1>1, <1>2, <2>1, <2>2, <2>3
<1>9. Opened(text) = [rest |-> all, command |-> Nothing, read |-> 1, cut |-> FALSE]
  BY DEF Opened, CommentAfter, all, ac, a, b, c, n
<1>10. Opened(text) \in ReaderType
  BY <1>7, <1>9 DEF ReaderType, AllLines
<1> QED
  BY <1>1, <1>2, <1>7, <1>8, <1>9, <1>10 DEF n

LEMMA ArgsType ==
  ASSUME TypesOK
  PROVE  /\ reader.command \in AllLines /\ IsSequence(Args) /\ Len(Args) \in Nat
         /\ Word = "DIM" => \A k \in 1 .. Len(Args) : Args[k] \in Nat
         /\ Word \in {"PASSO", "POS", "T"} => \A k \in 1 .. Len(Args) : Args[k] \in Int
         /\ Args # <<>> => 1 <= Len(Args)
<1>1. reader.command \in AllLines
  BY DEF TypesOK, ReaderType
<1>2. IsSequence(Args) /\ LineOK(reader.command)
  BY <1>1, LinesOK DEF LineOK, Args
<1>3. Len(Args) \in Nat /\ \A k \in 1 .. Len(Args) : Args[k] \in Range(Args)
  BY <1>2, SequenceIs
<1>4. Args # <<>> => 1 <= Len(Args)
  BY <1>2, EmptySeq DEF IsSequence
<1> QED
  BY <1>1, <1>2, <1>3, <1>4 DEF LineOK, Word, Args
LEMMA TextsAre ==
  ASSUME TypesOK
  PROVE  /\ level \in DOMAIN filenames => Levels[filenames[level]] \in Range(Levels)
         /\ \A e \in DOMAIN Files : Files[e] \in Range(Files)
<1>1. \A k \in DOMAIN filenames : filenames[k] \in DOMAIN Levels
  BY LenProperties DEF TypesOK
<1> QED
  BY <1>1 DEF Range

\* A reader of a file that has just been opened is one.
LEMMA FirstLine ==
  ASSUME TypesOK, NEW text \in Range(Levels) \cup Range(Files)
  PROVE  read_line(Opened(text)) \in ReaderType
<1>1. text \in Seq(AllLines) /\ comment \in Nat
  BY LinesOK DEF TypesOK
<1>2. Opened(text) \in ReaderType
  BY <1>1, OpenedIs
<1> QED
  BY <1>2, ReadType

\* What is kept of a line of moves.
LEMMA KeptType ==
  ASSUME TypesOK
  PROVE  Kept \in Seq(MoveType) /\ Len(Kept) \in 0 .. 1
<1>1. \A m \in MoveType : <<m>> \in Seq(MoveType) /\ Len(<<m>>) = 1
  OBVIOUS
<1>2. <<>> \in Seq(MoveType) /\ Len(<<>>) = 0
  BY EmptySeq
<1>3. Letters(who) \subseteq Letters(0) \cup Letters(1)
  BY DEF Letters
<1>4. CASE Word \in Letters(who)
  <2>1. [command |-> Word, turns |-> 1] \in MoveType
    BY <1>3, <1>4 DEF MoveType
  <2>2. Word # "T"
    BY <1>4 DEF Letters
  <2>3. Kept = <<[command |-> Word, turns |-> 1]>>
    BY <1>4, <2>2 DEF Kept
  <2> QED
    BY <1>1, <2>1, <2>3
<1>5. CASE ~(Word \in Letters(who)) /\ Word = "T" /\ ~reader.cut /\ Args # <<>> /\ Args[1] > 0
  <2>1. Args[1] \in Int
    BY <1>5, ArgsType
  <2>2. [command |-> "T", turns |-> Args[1]] \in MoveType
    BY <1>5, <2>1 DEF MoveType
  <2>3. Kept = <<[command |-> "T", turns |-> Args[1]]>>
    BY <1>5 DEF Kept
  <2> QED
    BY <1>1, <2>2, <2>3
<1>6. CASE ~(Word \in Letters(who)) /\ ~(Word = "T" /\ ~reader.cut /\ Args # <<>> /\ Args[1] > 0)
  <2>1. Kept = <<>>
    BY <1>6 DEF Kept
  <2> QED
    BY <1>2, <2>1
<1> QED
  BY <1>4, <1>5, <1>6

LEMMA NamesType ==
  ASSUME TypesOK
  PROVE  IsSequence(NamesKept(Args)) /\ Len(NamesKept(Args)) < MaxGhosts
<1> DEFINE n == IF Len(Args) < MaxGhosts - 1 THEN Len(Args) ELSE MaxGhosts - 1
<1>1. n \in 0 .. Len(Args) /\ n < MaxGhosts /\ IsSequence(Args)
  <2>1. Len(Args) \in Nat /\ IsSequence(Args)
    BY ArgsType
  <2> QED
    BY <2>1, NumbersOK
<1> HIDE DEF n
<1>2. IsSequence(SubSeq(Args, 1, n)) /\ Len(SubSeq(Args, 1, n)) = n
  BY <1>1, PartIs
<1>3. NamesKept(Args) = SubSeq(Args, 1, n)
  BY DEF NamesKept, n
<1> QED
  BY <1>1, <1>2, <1>3

LEMMA InitTypes == Init => TypesOK
<1> SUFFICES ASSUME Init PROVE TypesOK
  OBVIOUS
<1>1. NoFile \in ReaderType
  BY EmptySeq DEF NoFile, ReaderType, AllLines
<1>2. IsSequence(<<>>) /\ Len(<<>>) = 0
  BY EmptySeq DEF IsSequence
<1>3. filenames \in Seq(DOMAIN Levels) /\ level \in DOMAIN filenames
  <2>1. PICK n \in 1 .. MaxLevels : filenames \in [1 .. n -> DOMAIN Levels]
    BY DEF Init, scan_level_directory
  <2>2. n \in Nat /\ 1 \in 1 .. n
    BY <2>1, NumbersOK
  <2>3. filenames \in Seq(DOMAIN Levels) /\ DOMAIN filenames = 1 .. n
    BY <2>1, <2>2, IsSeq
  <2>4. level = 1
    BY DEF Init
  <2> QED
    BY <2>2, <2>3, <2>4
<1>4. comment \in Nat
  <2>1. PICK text \in Range(Levels) : comment \in 0 .. Len(text)
    BY DEF Init
  <2>2. Len(text) \in Nat
    BY SequenceIs, FilesAssumption
  <2> QED
    BY <2>1, <2>2
<1>5. content \in [Cells -> {"nul", " ", "W", "P", "M"}]
  <2>1. content = <<>>
    BY DEF Init
  <2> QED
    BY <2>1 DEF Cells
<1>6. 0 < MaxGhosts
  BY NumbersOK
<1>7. DOMAIN players = {}
  <2>1. players = <<>>
    BY DEF Init
  <2> QED
    BY <2>1
<1>8. /\ pc = "level" /\ reader = NoFile /\ dots = {} /\ portals = {}
      /\ board = [w |-> 0, h |-> 0, pac |-> "", mons |-> <<>>]
  BY DEF Init
<1>9. reader.read = 0
  BY <1>8 DEF NoFile
<1> QED
  BY <1>1, <1>2, <1>3, <1>4, <1>5, <1>6, <1>7, <1>8, <1>9 DEF TypesOK, FilesTypeOK
\* One row of the grid stays on the grid.
LEMMA RowType ==
  ASSUME TypesOK, GridLine
  PROVE  /\ content' \in [Cells -> {"nul", " ", "W", "P", "M"}]
         /\ dots' \subseteq Cells /\ portals' \subseteq Cells
<1>1. /\ Cells = Field /\ row \in 0 .. board.h /\ RowLeft /\ board.w \in Nat /\ board.h \in Nat
      /\ dots \subseteq Cells /\ portals \subseteq Cells
      /\ content \in [Cells -> {"nul", " ", "W", "P", "M"}]
  BY DEF TypesOK, FilesTypeOK, GridLine
<1>2. row \in 0 .. board.h - 1
  <2>1. row \in 0 .. board.h /\ row < board.h /\ board.h \in Nat
    BY <1>1 DEF RowLeft
  <2> QED
    BY <2>1
<1> DEFINE here(junk, letter) ==
             {<<x, row>> : x \in {i \in 0 .. board.w - 1 : Letter(i, junk) = letter}}
<1>3. PICK junk \in [RowBeyond -> {"X", "o", "@"}] :
        /\ content' = [c \in Cells |-> IF c[2] # row THEN content[c]
                         ELSE IF c \in here(junk, "X") THEN "W" ELSE " "]
        /\ dots' = dots \cup here(junk, "o") /\ portals' = portals \cup here(junk, "@")
  BY DEF GridLine
<1>4. \A letter : here(junk, letter) \subseteq Cells
  BY <1>1, <1>2 DEF Field
<1> HIDE DEF here
<1> QED
  BY <1>1, <1>3, <1>4

\* Nobody else is touched by what changes one of the players.
LEMMA PlayersKept ==
  ASSUME TypesOK, NEW p \in DOMAIN players, NEW q, PlayerOK(q), NEW all,
         all = [players EXCEPT ![p] = q]
  PROVE  DOMAIN all = DOMAIN players /\ \A i \in DOMAIN all : PlayerOK(all[i])
  BY DEF TypesOK

LEMMA TypesKept == TypesOK /\ [Next]_vars => TypesOK'
<1> SUFFICES ASSUME TypesOK, [Next]_vars PROVE TypesOK'
  OBVIOUS
<1>n. Len(board.mons) \in Nat /\ 0 \in 0 .. Len(board.mons) + 1 /\ 1 \in 0 .. Len(board.mons) + 1
  <2>1. Len(board.mons) \in Nat
    BY SequenceIs DEF TypesOK
  <2> QED
    BY <2>1
<1>0. read_line(reader) \in ReaderType
  BY ReadType DEF TypesOK, FilesTypeOK
<1>i. \A r \in ReaderType : r.read \in {0, 1}
  BY DEF ReaderType
<1>1. CASE OpenLevel
  <2>1. reader' \in ReaderType
    BY <1>1, TextsAre, FirstLine DEF OpenLevel, TypesOK, FilesTypeOK
  <2>2. /\ DOMAIN board' = {"w", "h", "pac", "mons"}
        /\ board'.w = board.w /\ board'.h = board.h /\ board'.mons = board.mons
    BY <1>1 DEF OpenLevel, TypesOK, FilesTypeOK
  <2> QED
    BY <1>1, <1>i, <2>1, <2>2 DEF OpenLevel, Cells, grid, TypesOK, FilesTypeOK
<1>2. CASE HeaderLine
  <2>1. /\ DOMAIN board' = {"w", "h", "pac", "mons"} /\ board'.w \in Nat /\ board'.h \in Nat
        /\ IsSequence(board'.mons) /\ Len(board'.mons) < MaxGhosts
    <3>1. CASE Word = "DIM" /\ Len(Args) > 1
      <4>1. Args[1] \in Nat /\ Args[2] \in Nat
        <5>1. Len(Args) \in Nat /\ \A k \in 1 .. Len(Args) : Args[k] \in Nat
          BY <3>1, ArgsType
        <5> QED
          BY <3>1, <5>1
      <4>2. board' = [board EXCEPT !.w = Args[1], !.h = Args[2]]
        BY <1>2, <3>1 DEF HeaderLine
      <4> QED
        BY <4>1, <4>2 DEF TypesOK, FilesTypeOK
    <3>2. CASE Word = "MON"
      <4>1. board' = [board EXCEPT !.mons = NamesKept(Args)]
        BY <1>2, <3>2 DEF HeaderLine
      <4> QED
        BY <4>1, NamesType DEF TypesOK, FilesTypeOK
    <3>3. CASE Word = "PAC" /\ Args # <<>>
      <4>1. board' = [board EXCEPT !.pac = Args[1]]
        BY <1>2, <3>3 DEF HeaderLine
      <4> QED
        BY <4>1 DEF TypesOK, FilesTypeOK
    <3>4. CASE Word # "MON" /\ ~(Word = "DIM" /\ Len(Args) > 1) /\ ~(Word = "PAC" /\ Args # <<>>)
      <4>1. board' = board
        BY <1>2, <3>4 DEF HeaderLine
      <4> QED
        BY <4>1 DEF TypesOK, FilesTypeOK
    <3> QED
      BY <3>1, <3>2, <3>3, <3>4
  <2>2. /\ reader' \in ReaderType /\ pc = "header"
        /\ UNCHANGED <<pc, filenames, level, comment, content, dots, portals, row, who, players>>
    BY <1>0, <1>2 DEF HeaderLine, grid
  <2> QED
    BY <1>i, <2>1, <2>2 DEF Cells, TypesOK, FilesTypeOK
<1>3. CASE HeaderEnds
  <2>1. content' = [c \in Field |-> "nul"] /\ DOMAIN players' = 0 .. Len(board.mons)
    BY <1>3 DEF HeaderEnds, Field
  <2>2. \A p \in DOMAIN players' : PlayerOK(players'[p])
    <3>0. 0 <= MaxMoves
      BY NumbersOK
    <3>1. <<>> \in Seq(MoveType) /\ Len(<<>>) = 0 /\ 0 <= MaxMoves
      BY <3>0, EmptySeq
    <3>2. DOMAIN Nobody = {"pos", "passo", "waiting", "moves", "cursor"} /\ Nobody.moves = <<>>
      BY DEF Nobody
    <3>3. PlayerOK(Nobody)
      BY <3>1, <3>2 DEF PlayerOK
    <3> QED
      BY <1>3, <3>3 DEF HeaderEnds
  <2>3. /\ pc' = "grid" /\ dots' = {} /\ portals' = {} /\ row' = 0
        /\ UNCHANGED <<filenames, level, comment, reader, board, who>>
    BY <1>3 DEF HeaderEnds
  <2>4. Field' = Field
    BY <2>3 DEF Field
  <2>5. row' \in 0 .. board'.h
    <3>1. board.h \in Nat /\ board'.h = board.h /\ row' = 0
      BY <2>3 DEF TypesOK
    <3> QED
      BY <3>1
  <2> QED
    BY <2>1, <2>2, <2>3, <2>4, <2>5 DEF Cells, PlayerOK, TypesOK, FilesTypeOK
<1>4. CASE NoDimensions
  BY <1>4 DEF NoDimensions, grid, Cells, TypesOK, FilesTypeOK
<1>5. CASE GridLine
  <2>1. Cells' = Cells
    BY <1>5 DEF GridLine, Cells
  <2>2. /\ row \in 0 .. board.h /\ row < board.h /\ board.h \in Nat
        /\ row' = row + 1 /\ board' = board
    BY <1>5 DEF GridLine, RowLeft, TypesOK, FilesTypeOK
  <2>3. row' \in 0 .. board'.h
    BY <2>2
  <2>4. /\ reader' \in ReaderType /\ pc = "grid" /\ Field' = Field
        /\ UNCHANGED <<pc, filenames, level, comment, board, who, players>>
    BY <1>0, <1>5 DEF GridLine, Field
  <2> QED
    BY <1>5, <1>i, <2>1, <2>3, <2>4, RowType DEF TypesOK, FilesTypeOK
<1>6. CASE GridEnds
  <2>1. /\ pc = "grid" /\ pc' = "entity" /\ who' = 0
        /\ UNCHANGED <<filenames, level, comment, reader, board, grid, players>>
    BY <1>6 DEF GridEnds
  <2> QED
    BY <1>n, <2>1 DEF grid, Cells, TypesOK, FilesTypeOK
<1>7. CASE PacmanByDefault
  <2>1. /\ pc = "entity" /\ who' = 1
        /\ UNCHANGED <<pc, filenames, level, comment, reader, board, dots, portals, row>>
    BY <1>7 DEF PacmanByDefault
  <2>2. 1 \in 0 .. Len(board.mons) + 1 /\ 0 \in DOMAIN players
    <3>1. 0 \in 0 .. Len(board.mons)
      BY <1>n
    <3> QED
      BY <1>n, <2>1, <3>1 DEF TypesOK
  <2>3. /\ content' \in [Cells -> {"nul", " ", "W", "P", "M"}]
        /\ DOMAIN players' = DOMAIN players /\ \A p \in DOMAIN players' : PlayerOK(players'[p])
    <3>1. CASE Free = {}
      BY <1>7, <3>1 DEF PacmanByDefault, TypesOK, FilesTypeOK
    <3>2. CASE Free # {}
      <4>1. PICK first : /\ content' = [content EXCEPT ![first] = "P"]
                         /\ players' = [players EXCEPT ![0].pos = first]
        BY <1>7, <3>2 DEF PacmanByDefault
      <4> DEFINE q == [players[0] EXCEPT !.pos = first]
      <4>2. PlayerOK(q)
        BY <2>2 DEF PlayerOK
      <4>3. players' = [players EXCEPT ![0] = q]
        BY <4>1
      <4> HIDE DEF q
      <4>4. DOMAIN players' = DOMAIN players /\ \A p \in DOMAIN players' : PlayerOK(players'[p])
        BY <2>2, <4>2, <4>3, PlayersKept
      <4>5. content' \in [Cells -> {"nul", " ", "W", "P", "M"}]
        BY <4>1 DEF TypesOK, FilesTypeOK
      <4> QED
        BY <4>4, <4>5
    <3> QED
      BY <3>1, <3>2
  <2>4. Cells' = Cells
    BY <2>3 DEF Cells
  <2>5. \A p \in DOMAIN players' : Len(players'[p].moves) <= MaxMoves
    BY <2>3 DEF PlayerOK
  <2> QED
    BY <2>1, <2>2, <2>3, <2>4, <2>5 DEF TypesOK, FilesTypeOK
<1>8. CASE OpenEntity
  <2>1. Files[NameOf(who)] \in Range(Files)
    BY <1>8, TextsAre DEF OpenEntity
  <2>2. reader' \in ReaderType
    BY <1>8, <2>1, FirstLine DEF OpenEntity
  <2>3. who \in DOMAIN players /\ who' \in 0 .. Len(board.mons)
    BY <1>8 DEF OpenEntity, Opens, TypesOK, FilesTypeOK
  <2> QED
    BY <1>8, <1>i, <2>2, <2>3 DEF OpenEntity, grid, Cells, TypesOK, FilesTypeOK
<1>9. CASE EntityFails
  <2>1. who' \in 0 .. Len(board.mons) + 1
    <3>1. Len(board.mons) + 1 \in 0 .. Len(board.mons) + 1
      BY <1>n
    <3> QED
      BY <1>n, <1>9, <3>1 DEF EntityFails
  <2> QED
    BY <1>9, <2>1 DEF EntityFails, grid, Cells, TypesOK, FilesTypeOK
<1>10. CASE HeadLine
  <2>1. who \in DOMAIN players
    BY <1>10 DEF HeadLine, TypesOK, FilesTypeOK
  <2>2. DOMAIN players' = DOMAIN players /\ \A p \in DOMAIN players' : PlayerOK(players'[p])
    <3>1. CASE Word = "PASSO" /\ Args # <<>>
      <4> DEFINE q == [players[who] EXCEPT !.passo = Args[1], !.waiting = Args[1]]
      <4>1. players' = [players EXCEPT ![who].passo = Args[1], ![who].waiting = Args[1]]
        BY <1>10, <3>1 DEF HeadLine, Placed
      <4>2. PlayerOK(q)
        BY <2>1 DEF PlayerOK, TypesOK, FilesTypeOK
      <4>3. players' = [players EXCEPT ![who] = q]
        BY <4>1
      <4> HIDE DEF q
      <4> QED
        BY <2>1, <4>2, <4>3, PlayersKept
    <3>2. CASE Placed
      <4> DEFINE q == [players[who] EXCEPT !.pos = Place]
      <4>1. players' = [players EXCEPT ![who].pos = Place]
        BY <1>10, <3>2 DEF HeadLine, Placed
      <4>2. PlayerOK(q)
        BY <2>1 DEF PlayerOK, TypesOK, FilesTypeOK
      <4>3. players' = [players EXCEPT ![who] = q]
        BY <4>1
      <4> HIDE DEF q
      <4> QED
        BY <2>1, <4>2, <4>3, PlayersKept
    <3>3. CASE ~(Word = "PASSO" /\ Args # <<>>) /\ ~Placed
      BY <1>10, <3>3 DEF HeadLine, TypesOK, FilesTypeOK
    <3> QED
      BY <3>1, <3>2, <3>3
  <2>3. content' \in [Cells -> {"nul", " ", "W", "P", "M"}]
    <3>1. \/ content' = content \/ content' = [content EXCEPT ![Place] = "P"]
          \/ content' = [content EXCEPT ![Place] = "M"]
      BY <1>10 DEF HeadLine
    <3> QED
      BY <3>1 DEF TypesOK, FilesTypeOK
  <2>4. Cells' = Cells
    BY <2>3 DEF Cells
  <2>6. \A p \in DOMAIN players' : Len(players'[p].moves) <= MaxMoves
    BY <2>2 DEF PlayerOK
  <2>5. /\ reader' \in ReaderType /\ pc = "head"
        /\ UNCHANGED <<pc, filenames, level, comment, board, dots, portals, row, who>>
    BY <1>0, <1>10 DEF HeadLine
  <2> QED
    BY <1>i, <2>2, <2>3, <2>4, <2>5, <2>6 DEF TypesOK, FilesTypeOK
<1>11. CASE HeadEnds
  <2>1. reader' \in ReaderType
    BY <1>11 DEF HeadEnds, ReaderType, TypesOK, FilesTypeOK
  <2> QED
    BY <1>11, <1>i, <2>1 DEF HeadEnds, grid, Cells, TypesOK, FilesTypeOK
<1>12. CASE MovesLine
  <2>1. /\ who \in DOMAIN players /\ Len(players[who].moves) < MaxMoves
        /\ players' = [players EXCEPT ![who].moves = @ \o Kept]
    BY <1>12 DEF MovesLine, Room, TypesOK, FilesTypeOK
  <2> DEFINE q == [players[who] EXCEPT !.moves = @ \o Kept]
             a == players[who].moves
  <2>2. a \in Seq(MoveType) /\ DOMAIN players[who] = {"pos", "passo", "waiting", "moves", "cursor"}
    BY <2>1 DEF PlayerOK, TypesOK, FilesTypeOK
  <2>3. Kept \in Seq(MoveType) /\ Len(Kept) \in 0 .. 1
    BY KeptType
  <2> HIDE DEF a
  <2>4. a \o Kept \in Seq(MoveType) /\ Len(a \o Kept) = Len(a) + Len(Kept) /\ Len(a) \in Nat
    BY <2>2, <2>3, ConcatProperties, LenProperties
  <2>5. Len(a \o Kept) <= MaxMoves
    <3>1. Len(a) < MaxMoves
      BY <2>1 DEF a
    <3>2. Len(Kept) \in 0 .. 1 /\ Len(a \o Kept) = Len(a) + Len(Kept) /\ Len(a) \in Nat
      BY <2>3, <2>4
    <3>3. \A x \in Nat, y \in 0 .. 1 : x < MaxMoves => x + y <= MaxMoves
      BY NumbersOK
    <3> QED
      BY Zenon, <3>1, <3>2, <3>3
  <2>6. PlayerOK(q)
    BY <2>2, <2>4, <2>5 DEF PlayerOK, a
  <2>7. players' = [players EXCEPT ![who] = q]
    BY <2>1
  <2> HIDE DEF q
  <2>8. DOMAIN players' = DOMAIN players /\ \A p \in DOMAIN players' : PlayerOK(players'[p])
    BY <2>1, <2>6, <2>7, PlayersKept
  <2>9. \A p \in DOMAIN players' : Len(players'[p].moves) <= MaxMoves
    BY <2>8 DEF PlayerOK
  <2> QED
    BY <1>0, <1>12, <1>i, <2>8, <2>9 DEF MovesLine, grid, Cells, TypesOK, FilesTypeOK
<1>13. CASE MovesEnd
  <2>1. who' \in 0 .. Len(board.mons) + 1
    <3>1. who \in 0 .. Len(board.mons) /\ who' = who + 1
      BY <1>13 DEF MovesEnd, TypesOK
    <3> QED
      BY <1>n, <3>1
  <2> QED
    BY <1>13, <2>1 DEF MovesEnd, grid, Cells, TypesOK, FilesTypeOK
<1>14. CASE Ready
  <2>1. \A p \in DOMAIN players : PlayerOK([players[p] EXCEPT !.cursor =
                                             Start(Script(p), players[p].waiting)])
    BY DEF PlayerOK, TypesOK, FilesTypeOK
  <2>2. /\ pc = "entity" /\ pc' = "play"
        /\ UNCHANGED <<filenames, level, comment, reader, board, content, dots, portals, row, who>>
    BY <1>14 DEF Ready, grid
  <2>3. DOMAIN players' = DOMAIN players /\ \A p \in DOMAIN players' : PlayerOK(players'[p])
    BY <1>14, <2>1 DEF Ready
  <2>4. \A p \in DOMAIN players' : Len(players'[p].moves) <= MaxMoves
    BY <2>3 DEF PlayerOK
  <2> QED
    BY <2>2, <2>3, <2>4 DEF Cells, TypesOK, FilesTypeOK
<1>15. ASSUME NEW g \in Ghosts, GhostTurn(g) PROVE TypesOK'
  <2> DEFINE q == [players[g] EXCEPT !.cursor = Tick(Script(g), @)]
  <2>1. g \in DOMAIN players /\ players' = [players EXCEPT ![g] = q]
    BY <1>15 DEF GhostTurn, Ghosts
  <2>2. PlayerOK(q)
    BY <2>1 DEF PlayerOK, TypesOK, FilesTypeOK
  <2> HIDE DEF q
  <2>3. DOMAIN players' = DOMAIN players /\ \A p \in DOMAIN players' : PlayerOK(players'[p])
    BY <2>1, <2>2, PlayersKept
  <2>4. \A p \in DOMAIN players' : Len(players'[p].moves) <= MaxMoves
    BY <2>3 DEF PlayerOK
  <2> QED
    BY <1>15, <2>3, <2>4 DEF GhostTurn, grid, Cells, TypesOK, FilesTypeOK
<1>16. ASSUME NEW g \in Ghosts, GhostDivides(g) PROVE TypesOK'
  BY <1>16 DEF GhostDivides, grid, Cells, TypesOK, FilesTypeOK
<1>17. CASE unload_level
  <2>1. /\ pc' = "level" /\ content' = <<>> /\ dots' = {} /\ portals' = {} /\ players' = <<>>
        /\ UNCHANGED <<filenames, comment, reader, board>>
    BY <1>17 DEF unload_level
  <2>2. level' \in DOMAIN filenames'
    <3>1. DOMAIN filenames = 1 .. Len(filenames) /\ Len(filenames) \in Nat
      BY LenProperties
    <3>2. level' = level + 1 /\ level < Len(filenames) /\ level \in DOMAIN filenames
      BY <1>17 DEF unload_level, TypesOK, FilesTypeOK
    <3>3. level + 1 \in 1 .. Len(filenames)
      BY <3>1, <3>2
    <3> QED
      BY <2>1, <3>1, <3>2, <3>3
  <2>3. content' \in [Cells' -> {"nul", " ", "W", "P", "M"}]
    <3>1. content' = <<>>
      BY <2>1
    <3> QED
      BY <3>1 DEF Cells
  <2>4. DOMAIN players' = {}
    <3>1. players' = <<>>
      BY <2>1
    <3> QED
      BY <3>1
  <2> QED
    BY <2>1, <2>2, <2>3, <2>4 DEF TypesOK, FilesTypeOK
<1>18. CASE UNCHANGED vars
  BY <1>18 DEF vars, grid, Cells, Field, TypesOK, FilesTypeOK
<1> QED
  BY <1>1, <1>2, <1>3, <1>4, <1>5, <1>6, <1>7, <1>8, <1>9, <1>10, <1>11, <1>12, <1>13,
     <1>14, <1>15, <1>16, <1>17, <1>18 DEF Next, Reads

\* Theorem: whatever the level files and the files of moves hold, in whatever
\* order the levels come and wherever the comment is, reading and playing them
\* stores no name, row or move past the end of its array (parser.c).
THEOREM FilesTypeTheorem == Spec => []FilesTypeOK
<1>1. TypesOK => FilesTypeOK
  BY DEF TypesOK
<1> QED
  BY <1>1, InitTypes, TypesKept, PTL DEF Spec
-----------------------------------------------------------------------------
(* What is read of a file, line by line.                                   *)

\* A reader that has read i lines of a file opened with the comment after k of
\* its own, and one with line i in hand; after the last line there is nothing.
Ahead(text, k, i, r) ==
  /\ Len(r.rest) = Len(text) + 1 - i
  /\ \A j \in 1 .. Len(text) + 1 - i : r.rest[j] = LineAt(text, k, i + j)
InHand(text, k, i, r) ==
  IF i <= Len(text) + 1
  THEN /\ Ahead(text, k, i, r) /\ r.command = LineAt(text, k, i)
       /\ r.read = IF r.command.is = "" THEN 0 ELSE 1
  ELSE r.rest = <<>> /\ r.command = Nothing /\ r.read = 0

\* The level that is loaded.
Text  == Levels[Now]
Kth   == CommentAfter(Text)
First == FirstRow(Text)
It    == Of[Now]
Plane == (0 .. It.dim[1] - 1) \X (0 .. It.dim[2] - 1)
Shown(k, c)  == Of[k].rows[c[2] + 1][c[1] + 1]
Ground(k, c) == IF Shown(k, c) = "X" THEN "W" ELSE " "
FirstOf(p, free) == p \in free /\ \A c \in free : p[2] < c[2] \/ (p[2] = c[2] /\ p[1] <= c[1])

\* What the lines of the header that have been read have left.
LeftBy(of, is, b) ==
  /\ is = "DIM" => b.w = of.dim[1] /\ b.h = of.dim[2]
  /\ is = "MON" => b.mons = of.mons
  /\ is = "PAC" /\ of.pac # <<>> => b.pac = of.pac[1]
HeaderRead ==
  \E i \in 1 .. First + 1 :
    /\ InHand(Text, Kth, i, reader)
    /\ \A j \in 1 .. i - 1 : LeftBy(It, LineAt(Text, Kth, j).is, board)
    /\ It.pac = <<>> => board.pac = ""
BoardRead ==
  /\ board.w = It.dim[1] /\ board.h = It.dim[2] /\ board.mons = It.mons
  /\ board.pac = IF It.pac = <<>> THEN "" ELSE It.pac[1]

\* The rows that have been read.
RowsRead ==
  /\ BoardRead /\ InHand(Text, Kth, First + 1 + row, reader) /\ row \in 0 .. It.dim[2] /\ Cells = Plane
  /\ \A c \in Plane : c[2] < row => content[c] = Ground(Now, c)
  /\ dots = {c \in CellsOf(Now, {"o"}) : c[2] < row}
  /\ portals = {c \in CellsOf(Now, {"@"}) : c[2] < row}
  /\ \A p \in 0 .. Len(It.mons) : players[p] = Nobody

\* The players of P have been placed, and nobody else.
WellPlaced(k, p, ps, cs) ==
  IF p > 0 THEN ps[p].pos = PosOf(Of[k].mons[p]) /\ cs[ps[p].pos] = "M"
  ELSE IF Of[k].pac # <<>> THEN ps[p].pos = PosOf(Of[k].pac[1])
  ELSE FirstOf(ps[p].pos, CellsOf(k, {"o", "@"}))
Places(k, P, ps, cs) ==
  /\ \A c \in CellsOf(k, {"X", "o", "@"}) :
       IF \E p \in P : ps[p].pos = c THEN cs[c] \in {"P", "M"} ELSE cs[c] = Ground(k, c)
  /\ \A p \in P : WellPlaced(k, p, ps, cs)
FieldRead ==
  /\ BoardRead /\ Cells = Plane
  /\ dots = CellsOf(Now, {"o"}) /\ portals = CellsOf(Now, {"@"})

\* The files of the ghosts before w have been read, those after it have not.
Paced(q, e) == q.passo = PassoOf(e) /\ q.waiting = PassoOf(e)
Settled(k, w, ps) ==
  /\ \A g \in 1 .. w - 1 : ps[g].moves = Orders[Of[k].mons[g]] /\ Paced(ps[g], Of[k].mons[g])
  /\ \A p \in 0 .. Len(Of[k].mons) : p > w => ps[p] = Nobody
Entities ==
  /\ FieldRead /\ Settled(Now, who, players) /\ Places(Now, 0 .. who - 1, players, content)
  /\ who <= Len(It.mons) => players[who] = Nobody

\* The first two lines of a file of moves and the comment.
Says(e, k, i, is) == \E j \in 1 .. i - 1 : LineAt(Files[e], k, j).is = is
PlacedBy(w, e, k, i) == (0 .. w - 1) \cup IF Says(e, k, i, "POS") THEN {w} ELSE {}
FileOf == NameOf(who)
KthOf  == CommentAfter(Files[FileOf])
HeadRead ==
  /\ FieldRead /\ Settled(Now, who, players) /\ players[who].moves = <<>> /\ Opens(who)
  /\ \E i \in 1 .. 4 :
       /\ InHand(Files[FileOf], KthOf, i, reader)
       /\ Places(Now, PlacedBy(who, FileOf, KthOf, i), players, content)
       /\ Says(FileOf, KthOf, i, "PASSO") => Paced(players[who], FileOf)

\* The orders after them.
Taken(e, k, q, r) ==
  LET m == Len(q.moves) IN
  /\ Paced(q, e) /\ m <= Len(Orders[e]) /\ InHand(Files[e], k, 4 + m, r)
  /\ \A j \in 1 .. m : q.moves[j] = Orders[e][j]
  /\ r.cut => m = 0
Within(e, k, r) == \E i \in 4 .. Len(Files[e]) + 2 : InHand(Files[e], k, i, r)
MovesRead ==
  /\ FieldRead /\ Settled(Now, who, players) /\ Opens(who)
  /\ Within(FileOf, KthOf, reader)
  /\ Places(Now, 0 .. who, players, content)
  /\ who > 0 => Taken(FileOf, KthOf, players[who], reader)
InPlay ==
  /\ BoardRead
  /\ \A g \in 1 .. Len(It.mons) :
       /\ players[g].moves = Orders[It.mons[g]] /\ players[g].passo = PassoOf(It.mons[g])
       /\ CursorOK(Script(g), players[g].cursor)
LevelRead ==
  Sound(Now) => /\ pc = "header" => HeaderRead
                /\ pc = "grid"   => RowsRead
                /\ pc = "entity" => Entities
                /\ pc = "head"   => HeadRead
                /\ pc = "moves"  => MovesRead
                /\ pc = "play"   => InPlay
-----------------------------------------------------------------------------
LEMMA LineRead ==
  ASSUME NEW text, NEW k, Len(text) \in Nat, NEW r \in ReaderType,
         NEW i \in 0 .. Len(text) + 1, Ahead(text, k, i, r)
  PROVE  InHand(text, k, i + 1, read_line(r))
<1> DEFINE n == Len(text) + 1
           t == read_line(r)
<1>1. /\ n \in Nat /\ i \in 0 .. n /\ Len(r.rest) = n - i
      /\ \A j \in 1 .. n - i : r.rest[j] = LineAt(text, k, i + j)
  BY DEF Ahead
<1>2. r.rest \in Seq(AllLines) /\ DOMAIN r = {"rest", "command", "read", "cut"}
  BY DEF ReaderType
<1>n. n = Len(text) + 1
  OBVIOUS
<1> HIDE DEF n
<1>3. CASE i = n
  <2>1. Len(r.rest) = 0
    BY <1>1, <1>3
  <2>2. r.rest = <<>>
    BY <1>2, <2>1, EmptySeq
  <2>3. t.rest = <<>> /\ t.command = Nothing /\ t.read = 0
    BY <1>2, <2>2 DEF read_line
  <2>4. ~(i + 1 <= n)
    BY <1>1, <1>3
  <2> QED
    BY <2>3, <2>4 DEF InHand, n
<1>4. CASE i # n
  <2>1. n - i \in Nat /\ n - i > 0 /\ i + 1 <= n
    BY <1>1, <1>4
  <2>2. r.rest # <<>>
    BY <1>1, <1>2, <2>1, EmptySeq
  <2>3. t.rest = Tail(r.rest) /\ t.command = Head(r.rest)
        /\ t.read = IF Head(r.rest).is = "" THEN 0 ELSE 1
    BY <2>2 DEF read_line
  <2>4. Head(r.rest) = r.rest[1]
    BY <1>2, <2>2
  <2>5. /\ Len(Tail(r.rest)) = Len(r.rest) - 1
        /\ \A j \in 1 .. Len(Tail(r.rest)) : Tail(r.rest)[j] = r.rest[j + 1]
    BY <1>2, <2>2, HeadTailProperties
  <2> HIDE DEF t
  <2>6. t.command = LineAt(text, k, i + 1)
    <3>1. 1 \in 1 .. n - i
      BY <2>1
    <3> QED
      BY <1>1, <2>3, <2>4, <3>1
  <2> DEFINE m == n - (i + 1)
  <2>7. m = n - (i + 1) /\ \A j \in 1 .. m : j + 1 \in 1 .. n - i /\ i + (j + 1) = i + 1 + j
    BY <1>1, <2>1
  <2> HIDE DEF m
  <2>8. Len(t.rest) = m
    <3>1. Len(t.rest) = n - i - 1
      BY <1>1, <2>3, <2>5
    <3> QED
      BY <1>1, <2>7, <3>1
  <2>9. \A j \in 1 .. m : t.rest[j] = LineAt(text, k, i + 1 + j)
    BY <1>1, <2>3, <2>5, <2>7, <2>8
  <2>10. Ahead(text, k, i + 1, t)
    BY <2>7, <2>8, <2>9 DEF Ahead, n
  <2> QED
    BY <2>1, <2>3, <2>6, <2>10 DEF InHand, n, t
<1> QED
  BY <1>3, <1>4

\* The next line, and the first one of a file that is opened.
LEMMA NextRead ==
  ASSUME NEW text, NEW k, Len(text) \in Nat, NEW r \in ReaderType,
         NEW i \in 1 .. Len(text) + 1, InHand(text, k, i, r)
  PROVE  InHand(text, k, i + 1, read_line(r))
<1>1. i \in 0 .. Len(text) + 1 /\ i <= Len(text) + 1
  OBVIOUS
<1>2. Ahead(text, k, i, r)
  BY <1>1 DEF InHand
<1> QED
  BY <1>1, <1>2, LineRead

LEMMA FirstRead ==
  ASSUME comment \in Nat, NEW text \in Seq(AllLines)
  PROVE  InHand(text, CommentAfter(text), 1, read_line(Opened(text)))
<1> DEFINE k == CommentAfter(text)
           r == Opened(text)
<1>1. /\ Len(text) \in Nat /\ r \in ReaderType /\ Len(r.rest) = Len(text) + 1
      /\ \A j \in 1 .. Len(text) + 1 : r.rest[j] = LineAt(text, k, j)
  BY OpenedIs
<1> HIDE DEF k, r
<1>2. Len(text) + 1 - 0 = Len(text) + 1 /\ 0 \in 0 .. Len(text) + 1 /\ 0 + 1 = 1
      /\ \A j \in 1 .. Len(text) + 1 : 0 + j = j
  BY <1>1
<1>3. Ahead(text, k, 0, r)
  BY <1>1, <1>2 DEF Ahead
<1>4. InHand(text, k, 0 + 1, read_line(r))
  BY <1>1, <1>2, <1>3, LineRead
<1> QED
  BY <1>2, <1>4 DEF k, r
-----------------------------------------------------------------------------
(* A complete level.                                                       *)

LEMMA NowType ==
  ASSUME TypesOK
  PROVE  /\ Now \in DOMAIN Levels /\ Text \in Range(Levels) /\ Text \in Seq(AllLines)
         /\ Len(Text) \in Nat /\ DOMAIN Text = 1 .. Len(Text)
         /\ \A l \in 1 .. Len(Text) : Text[l] \in AllLines /\ LineOK(Text[l])
         /\ \A l \in 1 .. Len(Text) : Text[l].is \in Keywords \cup {"row", "#", "blank", ""}
<1>1. Now \in DOMAIN Levels
  <2>1. filenames \in Seq(DOMAIN Levels) /\ level \in DOMAIN filenames
    BY DEF TypesOK, FilesTypeOK
  <2> QED
    BY <2>1, LenProperties DEF Now
<1>2. Text \in Range(Levels)
  BY <1>1 DEF Text, Range
<1>3. Text \in Seq(AllLines) /\ \A l \in AllLines : LineOK(l)
  BY <1>2, LinesOK
<1>4. Text \in [1 .. Len(Text) -> AllLines] /\ Len(Text) \in Nat
  BY <1>3, LenProperties
<1>5. \A l \in DOMAIN Text : Text[l].is \in Keywords \cup {"row", "#", "blank", ""}
  BY <1>2, FilesAssumption
<1> QED
  BY <1>1, <1>2, <1>3, <1>4, <1>5

\* Where the rows of a text begin, or the text ends.
LEMMA FirstRowIs ==
  ASSUME NEW text, Len(text) \in Nat, DOMAIN text = 1 .. Len(text)
  PROVE  /\ FirstRow(text) \in 1 .. Len(text) + 1
         /\ \A l \in 1 .. Len(text) : text[l].is = "row" => FirstRow(text) <= l
         /\ FirstRow(text) <= Len(text) => text[FirstRow(text)].is = "row"
<1> DEFINE n == Len(text)
           rows == LinesOf(text, "row")
           S == rows \cup {n + 1}
           f == Min(S)
<1>1. n \in Nat /\ \A l : l \in rows <=> l \in 1 .. n /\ text[l].is = "row"
  BY DEF LinesOf
<1> HIDE DEF n, rows
<1>2. S \in SUBSET Nat /\ S # {} /\ S \subseteq 1 .. n + 1
  BY <1>1
<1>3. f \in S /\ \A x \in S : f <= x
  BY <1>2, HasLeast DEF Min
<1>4. FirstRow(text) = f
  BY DEF FirstRow, n, rows
<1> HIDE DEF f
<1>5. f <= n => f \in rows
  BY <1>1, <1>3
<1> QED
  BY <1>1, <1>2, <1>3, <1>4, <1>5 DEF n

LEMMA SoundText ==
  ASSUME TypesOK, Sound(Now)
  PROVE  /\ First \in 1 .. Len(Text) + 1 /\ Kth \in 0 .. First - 1
         /\ \A l \in 1 .. Len(Text) : Text[l].is = "row" <=> l >= First
         /\ \A l \in 1 .. Len(Text) : l < First => Text[l].is \in Keywords \cup {"#", "blank"}
         /\ \A l \in 1 .. Len(Text) : Text[l].is \in {"DIM", "PAC", "MON"}
              => Text[l].args = ArgsOf(Text, Text[l].is)
<1> DEFINE n == Len(Text)
<1>1. n \in Nat /\ DOMAIN Text = 1 .. n
      /\ \A l \in 1 .. n : Text[l].is \in Keywords \cup {"row", "#", "blank", ""}
  BY NowType
<1>2. /\ Clear(Text, First - 1)
      /\ \A l \in 1 .. n : /\ Text[l].is # "" /\ (l > First => Text[l].is = "row")
                           /\ Text[l].is \in {"DIM", "PAC", "MON"}
                                => Text[l].args = ArgsOf(Text, Text[l].is)
  BY <1>1 DEF Sound, Text, First
<1>3. /\ First \in 1 .. n + 1
      /\ \A l \in 1 .. n : Text[l].is = "row" => First <= l
      /\ First <= n => Text[First].is = "row"
  BY <1>1, FirstRowIs DEF First
<1>f. n \in Nat /\ First \in Int /\ 1 <= First /\ First <= n + 1
  <2>1. n \in Nat /\ First \in 1 .. n + 1
    BY <1>1, <1>3
  <2> QED
    BY <2>1
<1>4. Kth \in 0 .. First - 1
  <2>1. comment \in Nat /\ (comment <= First - 1 \/ comment > n)
    BY <1>2 DEF Clear, TypesOK
  <2>2. Kth = IF comment <= n THEN comment ELSE 0
    BY DEF Kth, CommentAfter
  <2> HIDE DEF n
  <2> QED
    BY <1>f, <2>1, <2>2
<1> HIDE DEF n
<1>5. ASSUME NEW l \in 1 .. n PROVE Text[l].is = "row" <=> l >= First
  <2>0. l \in Int /\ 1 <= l /\ l <= n
    BY <1>f
  <2>1. (l = First \/ l > First \/ l < First) /\ (l > First => l >= First)
        /\ (l = First => l >= First) /\ (l < First => ~(l >= First) /\ ~(First <= l))
        /\ (l = First => First <= n)
    BY <1>f, <2>0
  <2>2. l > First => Text[l].is = "row" /\ l >= First
    BY <1>2, <2>1
  <2>3. l = First => Text[l].is = "row" /\ l >= First
    BY <1>3, <2>1
  <2>4. l < First => Text[l].is # "row" /\ ~(l >= First)
    BY <1>3, <2>1
  <2> QED
    BY <2>1, <2>2, <2>3, <2>4
<1>6. ASSUME NEW l \in 1 .. n, l < First PROVE Text[l].is \in Keywords \cup {"#", "blank"}
  <2>0. ~(l >= First)
    <3>1. l \in Int
      BY <1>f
    <3> QED
      BY <1>f, <1>6, <3>1
  <2>1. Text[l].is # "row" /\ Text[l].is # ""
    BY <1>2, <1>5, <2>0
  <2> QED
    BY <1>1, <2>1
<1> QED
  BY <1>2, <1>3, <1>4, <1>5, <1>6 DEF n

\* The arguments that are asked for by name are those of a line of the text.
LEMMA ArgsAre ==
  ASSUME TypesOK, NEW is, ArgsOf(Text, is) # <<>>
  PROVE  \E l \in 1 .. Len(Text) : Text[l].is = is /\ Text[l].args = ArgsOf(Text, is)
<1> DEFINE S == LinesOf(Text, is)
<1>1. S \in SUBSET Nat /\ \A l \in S : l \in 1 .. Len(Text) /\ Text[l].is = is
  <2>1. DOMAIN Text = 1 .. Len(Text) /\ Len(Text) \in Nat
    BY NowType
  <2>2. \A l \in S : l \in 1 .. Len(Text) /\ Text[l].is = is
    BY <2>1 DEF LinesOf
  <2> HIDE DEF S
  <2> QED
    BY <2>1, <2>2
<1>2. S # {} /\ ArgsOf(Text, is) = Text[Min(S)].args
  BY DEF ArgsOf
<1> HIDE DEF S
<1>3. Min(S) \in S
  BY <1>1, <1>2, HasLeast DEF Min
<1> QED
  BY <1>1, <1>2, <1>3

LEMMA ItIs ==
  ASSUME TypesOK
  PROVE  /\ It.dim = ArgsOf(Text, "DIM") /\ It.mons = ArgsOf(Text, "MON")
         /\ It.pac = ArgsOf(Text, "PAC")
         /\ It.rows = [y \in 1 .. Len(Text) + 1 - First |-> Text[First + y - 1].args]
  BY NowType DEF It, Of, Text, First

LEMMA ArgsSequence ==
  ASSUME TypesOK, NEW is
  PROVE  IsSequence(ArgsOf(Text, is))
<1>1. CASE ArgsOf(Text, is) = <<>>
  BY <1>1, EmptySeq DEF IsSequence
<1>2. CASE ArgsOf(Text, is) # <<>>
  <2>1. PICK l \in 1 .. Len(Text) : Text[l].args = ArgsOf(Text, is)
    BY <1>2, ArgsAre
  <2>2. LineOK(Text[l])
    BY NowType
  <2> QED
    BY <2>1, <2>2 DEF LineOK
<1> QED
  BY <1>1, <1>2

LEMMA SoundSize ==
  ASSUME TypesOK, Sound(Now)
  PROVE  /\ It.dim[1] \in Nat \ {0} /\ It.dim[2] \in Nat \ {0} /\ It.dim # <<>>
         /\ IsSequence(It.mons) /\ Len(It.mons) \in 1 .. MaxGhosts - 1
         /\ DOMAIN It.mons = 1 .. Len(It.mons) /\ IsSequence(It.pac)
         /\ \A g \in 1 .. Len(It.mons) : It.mons[g] \in Range(It.mons)
         /\ It.pac # <<>> => It.pac[1] \in Range(It.pac)
         /\ \A e \in Range(It.mons) \cup Range(It.pac) :
              e \in Sings /\ Clear(Files[e], 2) /\ PosOf(e) \in Plane
<1>1. /\ Len(It.dim) > 1 /\ Len(It.mons) \in 1 .. MaxGhosts - 1
      /\ \A e \in Range(It.mons) \cup Range(It.pac) :
           e \in Sings /\ Clear(Files[e], 2) /\ PosOf(e) \in CellsOf(Now, {"X", "o", "@"})
  BY DEF Sound, It
<1>2. IsSequence(It.dim) /\ IsSequence(It.mons) /\ IsSequence(It.pac)
  BY ItIs, ArgsSequence
<1>3. It.dim # <<>>
  <2>1. It.dim = <<>> => Len(It.dim) = 0
    BY EmptySeq
  <2> QED
    BY <1>1, <2>1
<1>4. PICK l \in 1 .. Len(Text) : Text[l].is = "DIM" /\ Text[l].args = It.dim
  BY <1>3, ItIs, ArgsAre
<1>5. Len(It.dim) \in Nat /\ \A k \in 1 .. Len(It.dim) : It.dim[k] \in Nat
  <2>1. Range(It.dim) \subseteq Nat
    BY <1>4, NowType DEF LineOK
  <2> QED
    BY <1>2, <2>1, SequenceIs
<1>6. It.dim[1] \in Nat /\ It.dim[2] \in Nat
  <2>1. 1 \in 1 .. Len(It.dim) /\ 2 \in 1 .. Len(It.dim)
    BY <1>1, <1>5
  <2> QED
    BY <1>5, <2>1
<1>7. /\ DOMAIN It.mons = 1 .. Len(It.mons)
      /\ \A g \in 1 .. Len(It.mons) : It.mons[g] \in Range(It.mons)
  BY <1>2, SequenceIs
<1>8. It.pac # <<>> => It.pac[1] \in Range(It.pac)
  <2>1. It.pac # <<>> => 1 \in 1 .. Len(It.pac)
    <3>1. It.pac # <<>> => Len(It.pac) # 0
      BY <1>2, EmptySeq DEF IsSequence
    <3>2. Len(It.pac) \in Nat
      BY <1>2, SequenceIs
    <3> QED
      BY <3>1, <3>2
  <2> QED
    BY <1>2, <2>1, SequenceIs
<1>9. \A c \in CellsOf(Now, {"X", "o", "@"}) : c \in Plane
  BY DEF CellsOf, Plane, It
<1>10. It.dim[1] # 0 /\ It.dim[2] # 0
  <2>1. It.mons[1] \in Range(It.mons)
    <3>1. 1 \in 1 .. Len(It.mons)
      BY <1>1, NumbersOK
    <3> QED
      BY <1>7, <3>1
  <2>2. PosOf(It.mons[1]) \in Plane
    BY <1>1, <1>9, <2>1
  <2> QED
    BY <1>6, <2>2 DEF Plane
<1> QED
  BY <1>1, <1>2, <1>3, <1>6, <1>7, <1>8, <1>9, <1>10

\* The rows of the grid are the lines of the text after its first one.
LEMMA SoundRows ==
  ASSUME TypesOK, Sound(Now)
  PROVE  /\ First + It.dim[2] <= Len(Text) + 1
         /\ \A y \in 1 .. It.dim[2] :
              /\ Text[First + y - 1].is = "row" /\ It.rows[y] = Text[First + y - 1].args
              /\ It.dim[1] <= Len(It.rows[y])
              /\ \A x \in 1 .. It.dim[1] : It.rows[y][x] \in {"X", "o", "@"}
<1> DEFINE n == Len(Text)
           m == n + 1 - First
           W == It.dim[1]
           H == It.dim[2]
<1>1. /\ n \in Nat /\ First \in 1 .. n + 1 /\ W \in Nat /\ H \in Nat
      /\ \A l \in 1 .. n : Text[l].is = "row" <=> l >= First
      /\ \A l \in 1 .. n : LineOK(Text[l])
  BY NowType, SoundText, SoundSize
<1>2. It.rows = [y \in 1 .. m |-> Text[First + y - 1].args]
  BY ItIs
<1>3. Len(It.rows) >= H /\ \A y \in 1 .. H : Len(It.rows[y]) >= W
  BY DEF Sound, It
<1>m. m = n + 1 - First
  OBVIOUS
<1> HIDE DEF n, m, W, H
<1>4. m \in Nat
  BY <1>1, <1>m
<1>5. Len(It.rows) = m
  <2>1. It.rows \in [1 .. m -> Range(It.rows)]
    BY <1>2 DEF Range
  <2> QED
    BY <1>4, <2>1, IsSeq
<1>6. H <= m
  BY <1>1, <1>3, <1>4, <1>5
<1>7. First + H <= n + 1
  BY <1>1, <1>6, <1>m
<1>8. ASSUME NEW y \in 1 .. H
      PROVE  /\ Text[First + y - 1].is = "row" /\ It.rows[y] = Text[First + y - 1].args
             /\ W <= Len(It.rows[y])
             /\ \A x \in 1 .. W : It.rows[y][x] \in {"X", "o", "@"}
  <2> DEFINE l == First + y - 1
  <2>1. l \in 1 .. n /\ l >= First /\ y \in 1 .. m
    BY <1>1, <1>6, <1>7, <1>m
  <2>2. It.rows[y] = Text[l].args
    BY <1>2, <2>1
  <2> HIDE DEF l
  <2>3. Text[l].is = "row" /\ LineOK(Text[l])
    BY <1>1, <2>1
  <2>4. IsSequence(It.rows[y]) /\ Range(It.rows[y]) \subseteq {"X", "o", "@"}
    BY <2>2, <2>3 DEF LineOK
  <2>5. Len(It.rows[y]) \in Nat /\ \A x \in 1 .. Len(It.rows[y]) : It.rows[y][x] \in {"X", "o", "@"}
    BY <2>4, SequenceIs
  <2>6. W <= Len(It.rows[y])
    BY <1>1, <1>3, <2>5
  <2>7. \A x \in 1 .. W : x \in 1 .. Len(It.rows[y])
    BY <1>1, <2>5, <2>6
  <2> QED
    BY <2>2, <2>3, <2>5, <2>6, <2>7 DEF l
<1> QED
  BY <1>7, <1>8 DEF n, W, H

LEMMA SoundNumbers ==
  ASSUME TypesOK, Sound(Now)
  PROVE  /\ Len(Text) \in Nat /\ First \in Nat /\ 1 <= First /\ Kth \in Nat /\ Kth < First
         /\ It.dim[1] \in Nat /\ 1 <= It.dim[1] /\ It.dim[2] \in Nat /\ 1 <= It.dim[2]
         /\ First + It.dim[2] <= Len(Text) + 1
<1>1. Len(Text) \in Nat /\ It.dim[1] \in Nat \ {0} /\ It.dim[2] \in Nat \ {0}
      /\ First + It.dim[2] <= Len(Text) + 1
  BY NowType, SoundSize, SoundRows
<1>2. First \in 1 .. Len(Text) + 1 /\ Kth \in 0 .. First - 1
  BY SoundText
<1> DEFINE a == It.dim[1]
           b == It.dim[2]
           n == Len(Text)
<1> HIDE DEF a, b, n
<1> QED
  BY <1>1, <1>2 DEF a, b, n

\* With its comment, a complete level has First lines and then the rows.
LEMMA LevelLines ==
  ASSUME TypesOK, Sound(Now)
  PROVE  /\ \A j \in 1 .. First :
              LET line == LineAt(Text, Kth, j) IN
              /\ line.is \in Keywords \cup {"#", "blank"}
              /\ line.is = "DIM" => line.args = It.dim
              /\ line.is = "MON" => line.args = It.mons
              /\ line.is = "PAC" => line.args = It.pac
         /\ \A l \in 1 .. First - 1 : \E j \in 1 .. First : LineAt(Text, Kth, j) = Text[l]
         /\ \A y \in 1 .. It.dim[2] :
              /\ LineAt(Text, Kth, First + y).is = "row"
              /\ LineAt(Text, Kth, First + y).args = It.rows[y]
<1> DEFINE n == Len(Text)
           at(j) == LineAt(Text, Kth, j)
           OK(line) == /\ line.is \in Keywords \cup {"#", "blank"}
                       /\ line.is = "DIM" => line.args = It.dim
                       /\ line.is = "MON" => line.args = It.mons
                       /\ line.is = "PAC" => line.args = It.pac
<1>1. n \in Nat /\ First \in 1 .. n + 1 /\ Kth \in 0 .. First - 1
  BY NowType, SoundText
<1>2. \A l \in 1 .. n : /\ l < First => Text[l].is \in Keywords \cup {"#", "blank"}
                        /\ Text[l].is \in {"DIM", "PAC", "MON"} => Text[l].args = ArgsOf(Text, Text[l].is)
  BY SoundText
<1>3. It.dim = ArgsOf(Text, "DIM") /\ It.mons = ArgsOf(Text, "MON") /\ It.pac = ArgsOf(Text, "PAC")
  BY ItIs
<1>n. n = Len(Text)
  OBVIOUS
<1> HIDE DEF n
<1>4. \A l \in 1 .. First - 1 : l \in 1 .. n /\ l < First
  BY <1>1
<1>5. \A l \in 1 .. First - 1 : OK(Text[l])
  BY <1>2, <1>3, <1>4
<1>6. OK(Comment)
  BY DEF Comment, Line
<1> HIDE DEF OK
<1>7. ASSUME NEW j \in 1 .. First PROVE OK(at(j))
  <2>1. CASE j <= Kth
    <3>1. j \in 1 .. First - 1
      BY <1>1, <2>1
    <3> QED
      BY <1>5, <2>1, <3>1 DEF LineAt
  <2>2. CASE j = Kth + 1
    <3>1. ~(j <= Kth)
      BY <1>1, <2>2
    <3> QED
      BY <1>6, <2>2, <3>1 DEF LineAt
  <2>3. CASE ~(j <= Kth) /\ j # Kth + 1
    <3>1. j - 1 \in 1 .. First - 1
      BY <1>1, <2>3
    <3> QED
      BY <1>5, <2>3, <3>1 DEF LineAt
  <2> QED
    BY <2>1, <2>2, <2>3
<1>8. ASSUME NEW l \in 1 .. First - 1 PROVE \E j \in 1 .. First : at(j) = Text[l]
  <2>1. CASE l <= Kth
    <3>1. l \in 1 .. First /\ at(l) = Text[l]
      BY <1>1, <2>1 DEF LineAt
    <3> QED
      BY <3>1
  <2>2. CASE ~(l <= Kth)
    <3>1. l + 1 \in 1 .. First /\ ~(l + 1 <= Kth) /\ l + 1 # Kth + 1 /\ l + 1 - 1 = l
      BY <1>1, <2>2
    <3>2. at(l + 1) = Text[l]
      BY <3>1 DEF LineAt
    <3> QED
      BY <3>1, <3>2
  <2> QED
    BY <2>1, <2>2
<1>9. ASSUME NEW y \in 1 .. It.dim[2] PROVE at(First + y) = Text[First + y - 1]
  <2> DEFINE j == First + y
  <2>1. j \in Int /\ ~(j <= Kth) /\ j # Kth + 1 /\ j - 1 = First + y - 1
    <3>1. y \in Nat /\ y >= 1
      BY SoundNumbers
    <3> QED
      BY <1>1, <3>1
  <2> HIDE DEF j
  <2>2. LineAt(Text, Kth, j) = Text[j - 1]
    BY <2>1 DEF LineAt
  <2> QED
    BY <2>1, <2>2 DEF j
<1>10. \A y \in 1 .. It.dim[2] : at(First + y).is = "row" /\ at(First + y).args = It.rows[y]
  BY <1>9, SoundRows
<1> HIDE DEF at
<1> QED
  BY <1>7, <1>8, <1>10 DEF OK, at

\* All of it is that of the same level until the level is left.
LEMMA SameLevel ==
  ASSUME UNCHANGED <<filenames, level, comment>>
  PROVE  /\ Now' = Now /\ Text' = Text /\ Kth' = Kth /\ First' = First /\ It' = It
         /\ Plane' = Plane /\ (Sound(Now)' <=> Sound(Now))
         /\ \A text : CommentAfter(text)' = CommentAfter(text)
<1>1. Now' = Now
  BY DEF Now
<1>2. Text' = Text /\ It' = It
  BY <1>1 DEF Text, It
<1>3. First' = First /\ Plane' = Plane
  BY <1>2 DEF First, Plane
<1>4. \A text : CommentAfter(text)' = CommentAfter(text)
  BY DEF CommentAfter
<1>5. Kth' = Kth
  BY <1>2 DEF Kth, CommentAfter
<1>6. Sound(Now)' <=> Sound(Now)
  BY <1>1 DEF Sound, Clear
<1> QED
  BY <1>1, <1>2, <1>3, <1>4, <1>5, <1>6

LEMMA OpenStep ==
  ASSUME TypesOK, OpenLevel, Sound(Now) PROVE HeaderRead'
<1>1. /\ UNCHANGED <<filenames, level, comment>> /\ board' = [board EXCEPT !.pac = ""]
      /\ reader' = read_line(Opened(Text))
  BY DEF OpenLevel, Text, Now
<1>2. Text' = Text /\ Kth' = Kth /\ First' = First /\ It' = It
  BY <1>1, SameLevel
<1>3. InHand(Text, Kth, 1, read_line(Opened(Text)))
  BY NowType, FirstRead DEF TypesOK, Kth
<1>4. InHand(Text, Kth, 1, reader)'
  BY <1>1, <1>2, <1>3
<1>5. 1 \in 1 .. First + 1 /\ 1 .. 1 - 1 = {}
  BY SoundNumbers
<1>6. board'.pac = ""
  BY <1>1 DEF TypesOK
<1> QED
  BY <1>2, <1>4, <1>5, <1>6 DEF HeaderRead

\* The line in hand, while the header is read.
LEMMA HeaderHas ==
  ASSUME TypesOK, Sound(Now), NEW i \in 1 .. First + 1, InHand(Text, Kth, i, reader)
  PROVE  /\ reader.command = LineAt(Text, Kth, i) /\ More
         /\ i = First + 1 <=> Word = "row"
         /\ i <= First <=> Word \in Keywords \cup {"#", "blank"}
<1>2. i <= Len(Text) + 1 /\ (i <= First \/ i = First + 1) /\ ~(First + 1 <= First)
      /\ 1 \in 1 .. It.dim[2]
  BY SoundNumbers
<1>3. /\ reader.command = LineAt(Text, Kth, i)
      /\ reader.read = IF reader.command.is = "" THEN 0 ELSE 1
  BY <1>2 DEF InHand
<1>4. i <= First => Word \in Keywords \cup {"#", "blank"}
  <2>1. i <= First => i \in 1 .. First
    BY SoundNumbers
  <2> QED
    BY <1>3, <2>1, LevelLines DEF Word
<1>5. i = First + 1 => Word = "row"
  <2>1. LineAt(Text, Kth, First + 1).is = "row"
    BY <1>2, LevelLines
  <2> QED
    BY <1>3, <2>1 DEF Word
<1>6. Word # "row" \/ Word \notin Keywords \cup {"#", "blank"}
  BY DEF Keywords
<1>7. Word # ""
  BY <1>2, <1>4, <1>5 DEF Keywords
<1>8. More
  <2>1. reader.read = 1
    BY <1>3, <1>7 DEF Word
  <2> QED
    BY <2>1 DEF More
<1> QED
  BY <1>2, <1>3, <1>4, <1>5, <1>6, <1>8

LEMMA HeaderStep ==
  ASSUME TypesOK, HeaderLine, Sound(Now), HeaderRead PROVE HeaderRead'
<1>1. /\ UNCHANGED <<filenames, level, comment>> /\ Word \in Keywords \cup {"#", "blank"}
      /\ reader' = read_line(reader)
  BY DEF HeaderLine, Skipped
<1>2. Text' = Text /\ Kth' = Kth /\ First' = First /\ It' = It
  BY <1>1, SameLevel
<1> DEFINE is(j) == LineAt(Text, Kth, j).is
           Done(j, b) == LeftBy(It, is(j), b)
<1>3. PICK i \in 1 .. First + 1 : /\ InHand(Text, Kth, i, reader)
                                  /\ \A j \in 1 .. i - 1 : Done(j, board)
                                  /\ It.pac = <<>> => board.pac = ""
  BY DEF HeaderRead, is
<1>4. reader.command = LineAt(Text, Kth, i) /\ i <= First
  BY <1>1, <1>3, HeaderHas
<1>5. /\ Word = is(i)
      /\ Word = "DIM" => Args = It.dim /\ Len(Args) > 1
      /\ Word = "MON" => Args = It.mons
      /\ Word = "PAC" => Args = It.pac
  <2>1. i \in 1 .. First
    BY <1>4, SoundNumbers
  <2>2. Len(It.dim) > 1
    BY DEF Sound, It
  <2> QED
    BY <1>4, <2>1, <2>2, LevelLines DEF Word, Args
<1>6. NamesKept(It.mons) = It.mons
  <2> DEFINE n == Len(It.mons)
             m == IF n < MaxGhosts - 1 THEN n ELSE MaxGhosts - 1
  <2>1. It.mons \in Seq(Range(It.mons)) /\ n \in 1 .. MaxGhosts - 1
    BY SoundSize DEF IsSequence
  <2>2. m = n
    <3> HIDE DEF n
    <3> QED
      BY <2>1, NumbersOK
  <2>3. SubSeq(It.mons, 1, Len(It.mons)) = It.mons
    BY <2>1, SubSeqFull
  <2> QED
    BY <2>2, <2>3 DEF NamesKept
<1>7. DOMAIN board = {"w", "h", "pac", "mons"}
  BY DEF TypesOK
<1> HIDE DEF is
<1>8. Done(i, board') /\ (It.pac = <<>> => board'.pac = "")
      /\ \A j \in 1 .. i - 1 : Done(j, board')
  <2>1. CASE Word = "DIM"
    <3>1. board' = [board EXCEPT !.w = It.dim[1], !.h = It.dim[2]]
      BY <1>5, <2>1 DEF HeaderLine
    <3>2. /\ board'.w = It.dim[1] /\ board'.h = It.dim[2] /\ board'.mons = board.mons
          /\ board'.pac = board.pac
      BY <1>7, <3>1
    <3> QED
      BY <1>3, <1>5, <2>1, <3>2 DEF LeftBy
  <2>2. CASE Word = "MON"
    <3>1. board' = [board EXCEPT !.mons = It.mons]
      BY <1>5, <1>6, <2>2 DEF HeaderLine
    <3>2. /\ board'.w = board.w /\ board'.h = board.h /\ board'.mons = It.mons
          /\ board'.pac = board.pac
      BY <1>7, <3>1
    <3> QED
      BY <1>3, <1>5, <2>2, <3>2 DEF LeftBy
  <2>3. CASE Word = "PAC" /\ It.pac # <<>>
    <3>1. board' = [board EXCEPT !.pac = It.pac[1]]
      BY <1>5, <2>3 DEF HeaderLine
    <3>2. /\ board'.w = board.w /\ board'.h = board.h /\ board'.mons = board.mons
          /\ board'.pac = It.pac[1]
      BY <1>7, <3>1
    <3> QED
      BY <1>3, <1>5, <2>3, <3>2 DEF LeftBy
  <2>4. CASE Word \notin {"DIM", "MON"} /\ ~(Word = "PAC" /\ It.pac # <<>>)
    <3>1. board' = board
      BY <1>5, <2>4 DEF HeaderLine
    <3> QED
      BY <1>3, <1>5, <2>4, <3>1 DEF LeftBy
  <2> QED
    BY <2>1, <2>2, <2>3, <2>4
<1> HIDE DEF Done
<1>9. i + 1 \in 1 .. First + 1 /\ i \in 1 .. Len(Text) + 1 /\ Len(Text) \in Nat
      /\ \A j \in 1 .. i + 1 - 1 : j = i \/ j \in 1 .. i - 1
  <2>1. Len(Text) \in Nat /\ First \in Nat /\ 1 <= First /\ First <= Len(Text) + 1
    BY SoundNumbers
  <2> QED
    BY <1>4, <2>1
<1>10. InHand(Text, Kth, i + 1, reader)'
  <2>1. reader \in ReaderType
    BY DEF TypesOK
  <2>2. InHand(Text, Kth, i + 1, read_line(reader))
    BY <1>3, <1>9, <2>1, NextRead
  <2> QED
    BY <1>1, <1>2, <2>2
<1>11. \A j \in 1 .. i + 1 - 1 : Done(j, board')
  BY <1>8, <1>9
<1> QED
  <2>1. \A j \in 1 .. i + 1 - 1 : LeftBy(It, LineAt(Text, Kth, j).is, board')
    BY <1>11 DEF Done, is
  <2> DEFINE m == i + 1
  <2>2. /\ m \in 1 .. First + 1 /\ InHand(Text, Kth, m, reader')
        /\ \A j \in 1 .. m - 1 : LeftBy(It, LineAt(Text, Kth, j).is, board')
    BY <1>2, <1>9, <1>10, <2>1
  <2> HIDE DEF m
  <2> QED
    BY <1>2, <1>8, <2>2 DEF HeaderRead

\* What is asked for by name has been read when the header has been read.
LEMMA HeaderNames ==
  ASSUME TypesOK, Sound(Now), NEW is, is # "row", ArgsOf(Text, is) # <<>>
  PROVE  \E j \in 1 .. First : LineAt(Text, Kth, j).is = is
<1>1. PICK l \in 1 .. Len(Text) : Text[l].is = is
  BY ArgsAre
<1>2. ~(l >= First)
  BY <1>1, SoundText
<1>3. l \in 1 .. First - 1
  BY <1>2, SoundNumbers
<1>4. PICK j \in 1 .. First : LineAt(Text, Kth, j) = Text[l]
  BY <1>3, LevelLines
<1> QED
  BY <1>1, <1>4

LEMMA HeaderOver ==
  ASSUME TypesOK, Sound(Now), HeaderRead, ~Skipped, ~(More /\ Word \in Keywords)
  PROVE  BoardRead /\ InHand(Text, Kth, First + 1, reader)
<1>1. PICK i \in 1 .. First + 1 :
        /\ InHand(Text, Kth, i, reader)
        /\ \A j \in 1 .. i - 1 : LeftBy(It, LineAt(Text, Kth, j).is, board)
        /\ It.pac = <<>> => board.pac = ""
  BY DEF HeaderRead
<1>2. ~(i <= First)
  <2>1. More /\ (i <= First <=> Word \in Keywords \cup {"#", "blank"})
    BY <1>1, HeaderHas
  <2> QED
    BY <2>1 DEF Skipped
<1>3. i = First + 1
  BY <1>2, SoundNumbers
<1>4. \A j \in 1 .. First : LeftBy(It, LineAt(Text, Kth, j).is, board)
  <2>1. i - 1 = First
    BY <1>3, SoundNumbers
  <2> QED
    BY <1>1, <2>1
<1>5. It.dim # <<>> /\ It.mons # <<>>
  <2>1. It.dim # <<>> /\ Len(It.mons) \in 1 .. MaxGhosts - 1
    BY SoundSize
  <2>2. Len(It.mons) # 0
    BY <2>1, NumbersOK
  <2> QED
    BY <2>1, <2>2, EmptySeq
<1>6. It.dim = ArgsOf(Text, "DIM") /\ It.mons = ArgsOf(Text, "MON") /\ It.pac = ArgsOf(Text, "PAC")
  BY ItIs
<1>7. board.w = It.dim[1] /\ board.h = It.dim[2]
  <2>1. PICK j \in 1 .. First : LineAt(Text, Kth, j).is = "DIM"
    BY <1>5, <1>6, HeaderNames
  <2>2. LeftBy(It, "DIM", board)
    BY <1>4, <2>1
  <2> QED
    BY <2>2 DEF LeftBy
<1>8. board.mons = It.mons
  <2>1. PICK j \in 1 .. First : LineAt(Text, Kth, j).is = "MON"
    BY <1>5, <1>6, HeaderNames
  <2>2. LeftBy(It, "MON", board)
    BY <1>4, <2>1
  <2> QED
    BY <2>2 DEF LeftBy
<1>9. It.pac # <<>> => board.pac = It.pac[1]
  <2> SUFFICES ASSUME It.pac # <<>> PROVE board.pac = It.pac[1]
    OBVIOUS
  <2>1. PICK j \in 1 .. First : LineAt(Text, Kth, j).is = "PAC"
    BY <1>6, HeaderNames
  <2>2. LeftBy(It, "PAC", board)
    BY <1>4, <2>1
  <2> QED
    BY <2>2 DEF LeftBy
<1> QED
  BY <1>1, <1>3, <1>7, <1>8, <1>9 DEF BoardRead

LEMMA GridBegins ==
  ASSUME TypesOK, HeaderEnds, Sound(Now), HeaderRead PROVE RowsRead'
<1>1. BoardRead /\ InHand(Text, Kth, First + 1, reader)
  BY HeaderOver DEF HeaderEnds
<1>2. /\ UNCHANGED <<filenames, level, comment, reader, board>>
      /\ content' = [c \in (0 .. board.w - 1) \X (0 .. board.h - 1) |-> "nul"]
      /\ dots' = {} /\ portals' = {} /\ row' = 0
      /\ players' = [p \in 0 .. Len(board.mons) |-> Nobody]
  BY DEF HeaderEnds
<1>3. Now' = Now /\ Text' = Text /\ Kth' = Kth /\ First' = First /\ It' = It /\ Plane' = Plane
  BY <1>2, SameLevel
<1>4. BoardRead'
  BY <1>1, <1>2, <1>3 DEF BoardRead
<1>5. Cells' = Plane'
  BY <1>1, <1>2, <1>3 DEF Cells, Plane, BoardRead
<1>6. \A c \in Plane : ~(c[2] < 0)
  BY SoundNumbers DEF Plane
<1>7. CellsOf(Now, {"o"}) \subseteq Plane /\ CellsOf(Now, {"@"}) \subseteq Plane
  BY DEF CellsOf, Plane, It
<1>8. First + 1 + 0 = First + 1 /\ 0 \in 0 .. It.dim[2]
  BY SoundNumbers
<1>9. InHand(Text', Kth', First' + 1 + row', reader')
  BY <1>1, <1>2, <1>3, <1>8
<1>10. \A p \in 0 .. Len(It'.mons) : players'[p] = Nobody
  BY <1>1, <1>2, <1>3 DEF BoardRead
<1>11. \A c \in Plane' : ~(c[2] < row')
  BY <1>2, <1>3, <1>6
<1>12. /\ dots' = {c \in CellsOf(Now', {"o"}) : c[2] < row'}
       /\ portals' = {c \in CellsOf(Now', {"@"}) : c[2] < row'}
  BY <1>2, <1>3, <1>7, <1>11
<1>13. row' \in 0 .. It'.dim[2]
  BY <1>2, <1>3, <1>8
<1> QED
  BY <1>4, <1>5, <1>9, <1>10, <1>11, <1>12, <1>13 DEF RowsRead

LEMMA PlaneIs ==
  ASSUME TypesOK, Sound(Now)
  PROVE  /\ \A letters : CellsOf(Now, letters) = {c \in Plane : Shown(Now, c) \in letters}
         /\ \A c \in Plane : /\ c[1] \in 0 .. It.dim[1] - 1 /\ c[2] \in 0 .. It.dim[2] - 1
                             /\ c = <<c[1], c[2]>> /\ Shown(Now, c) \in {"X", "o", "@"}
<1>1. \A letters : CellsOf(Now, letters) = {c \in Plane : Shown(Now, c) \in letters}
  BY DEF CellsOf, Plane, Shown, It
<1>2. ASSUME NEW c \in Plane
      PROVE  /\ c[1] \in 0 .. It.dim[1] - 1 /\ c[2] \in 0 .. It.dim[2] - 1
             /\ c = <<c[1], c[2]>> /\ Shown(Now, c) \in {"X", "o", "@"}
  <2>1. c[1] \in 0 .. It.dim[1] - 1 /\ c[2] \in 0 .. It.dim[2] - 1 /\ c = <<c[1], c[2]>>
    BY DEF Plane
  <2>2. c[1] + 1 \in 1 .. It.dim[1] /\ c[2] + 1 \in 1 .. It.dim[2]
    <3>1. \A n \in Nat : \A x \in 0 .. n - 1 : x + 1 \in 1 .. n
      OBVIOUS
    <3>2. It.dim[1] \in Nat /\ It.dim[2] \in Nat
      BY SoundNumbers
    <3> QED
      BY <2>1, <3>1, <3>2
  <2>3. It.rows[c[2] + 1][c[1] + 1] \in {"X", "o", "@"}
    BY <2>2, SoundRows
  <2> QED
    BY <2>1, <2>3 DEF Shown, It
<1> QED
  BY <1>1, <1>2

\* The line in hand, while the grid is read.
LEMMA GridHas ==
  ASSUME TypesOK, Sound(Now), RowsRead, row < It.dim[2]
  PROVE  /\ Word = "row" /\ More /\ Args = It.rows[row + 1] /\ row + 1 \in 1 .. It.dim[2]
         /\ It.dim[1] <= Len(Args) /\ First + 1 + row \in 1 .. Len(Text) + 1
<1>1. InHand(Text, Kth, First + 1 + row, reader) /\ row \in 0 .. It.dim[2]
  BY DEF RowsRead
<1> DEFINE y == row + 1
           i == First + 1 + row
<1>2. y \in 1 .. It.dim[2] /\ i = First + y /\ i \in 1 .. Len(Text) + 1 /\ i <= Len(Text) + 1
  <2> DEFINE n == Len(Text)
             m == It.dim[2]
  <2>1. n \in Nat /\ First \in Nat /\ 1 <= First /\ m \in Nat /\ First + m <= n + 1
    BY SoundNumbers
  <2>2. row \in Nat /\ row < m
    BY <1>1, <2>1
  <2> HIDE DEF n, m
  <2> QED
    BY <2>1, <2>2 DEF n, m
<1> HIDE DEF i, y
<1>3. /\ reader.command = LineAt(Text, Kth, First + y)
      /\ reader.read = IF reader.command.is = "" THEN 0 ELSE 1
  BY <1>1, <1>2 DEF InHand, i
<1>4. Word = "row" /\ Args = It.rows[y]
  BY <1>2, <1>3, LevelLines DEF Word, Args
<1>5. reader.read = 1
  BY <1>3, <1>4 DEF Word
<1>6. It.dim[1] <= Len(It.rows[y])
  BY <1>2, SoundRows
<1> QED
  BY <1>2, <1>4, <1>5, <1>6 DEF More, i, y

LEMMA GridStep ==
  ASSUME TypesOK, GridLine, Sound(Now), RowsRead PROVE RowsRead'
<1>1. /\ UNCHANGED <<filenames, level, comment, board, players>>
      /\ row' = row + 1 /\ reader' = read_line(reader) /\ RowLeft
  BY DEF GridLine
<1>2. Now' = Now /\ Text' = Text /\ Kth' = Kth /\ First' = First /\ It' = It /\ Plane' = Plane
  BY <1>1, SameLevel
<1>3. /\ BoardRead /\ InHand(Text, Kth, First + 1 + row, reader) /\ row \in 0 .. It.dim[2]
      /\ Cells = Plane /\ \A c \in Plane : c[2] < row => content[c] = Ground(Now, c)
      /\ dots = {c \in CellsOf(Now, {"o"}) : c[2] < row}
      /\ portals = {c \in CellsOf(Now, {"@"}) : c[2] < row}
      /\ \A p \in 0 .. Len(It.mons) : players[p] = Nobody
  BY DEF RowsRead
<1>4. row < It.dim[2]
  BY <1>1, <1>3 DEF RowLeft, BoardRead
<1>5. /\ Word = "row" /\ More /\ Args = It.rows[row + 1] /\ row + 1 \in 1 .. It.dim[2]
      /\ It.dim[1] <= Len(Args) /\ First + 1 + row \in 1 .. Len(Text) + 1
  BY <1>3, <1>4, GridHas
<1>6. row \in Nat /\ It.dim[1] \in Nat /\ Len(Args) \in Nat /\ First \in Nat /\ Len(Text) \in Nat
  BY <1>3, ArgsType, SoundNumbers
<1> DEFINE here(junk, letter) ==
             {<<x, row>> : x \in {i \in 0 .. board.w - 1 : Letter(i, junk) = letter}}
<1>7. PICK junk \in [RowBeyond -> {"X", "o", "@"}] :
        /\ content' = [c \in Cells |-> IF c[2] # row THEN content[c]
                         ELSE IF c \in here(junk, "X") THEN "W" ELSE " "]
        /\ dots' = dots \cup here(junk, "o") /\ portals' = portals \cup here(junk, "@")
  BY DEF GridLine
<1>8. \A x \in 0 .. It.dim[1] - 1 : Letter(x, junk) = Args[x + 1]
  <2>1. \A x \in 0 .. It.dim[1] - 1 : x < Len(Args)
    BY <1>5, <1>6
  <2> QED
    BY <2>1 DEF Letter
<1>9. ASSUME NEW c, NEW letter
      PROVE  c \in here(junk, letter) <=> c \in Plane /\ c[2] = row /\ Shown(Now, c) = letter
  <2>1. ASSUME c \in here(junk, letter)
        PROVE  c \in Plane /\ c[2] = row /\ Shown(Now, c) = letter
    <3>1. PICK x \in 0 .. It.dim[1] - 1 : c = <<x, row>> /\ Letter(x, junk) = letter
      BY <1>3, <2>1 DEF BoardRead
    <3>2. row \in 0 .. It.dim[2] - 1
      BY <1>4, <1>6, SoundNumbers
    <3>3. c \in Plane /\ c[1] = x /\ c[2] = row
      BY <3>1, <3>2 DEF Plane
    <3>4. Shown(Now, c) = Args[x + 1]
      BY <1>5, <3>3 DEF Shown, It
    <3> QED
      BY <1>8, <3>1, <3>3, <3>4
  <2>2. ASSUME c \in Plane, c[2] = row, Shown(Now, c) = letter
        PROVE  c \in here(junk, letter)
    <3>1. c[1] \in 0 .. It.dim[1] - 1 /\ c = <<c[1], row>>
      BY <2>2, PlaneIs
    <3>2. Shown(Now, c) = Args[c[1] + 1]
      BY <1>5, <2>2 DEF Shown, It
    <3>3. Letter(c[1], junk) = letter /\ c[1] \in 0 .. board.w - 1
      BY <1>3, <1>8, <2>2, <3>1, <3>2 DEF BoardRead
    <3> QED
      BY <3>1, <3>3
  <2> QED
    BY <2>1, <2>2
<1> HIDE DEF here
<1>10. \A c \in Plane : c[2] \in Int /\ (c[2] < row + 1 <=> c[2] < row \/ c[2] = row)
                        /\ (c[2] = row => ~(c[2] < row))
  BY <1>6, PlaneIs
<1>11. \A c \in Plane : c[2] < row + 1 => content'[c] = Ground(Now, c)
  BY <1>3, <1>7, <1>9, <1>10 DEF Ground
<1>12. ASSUME NEW letter
       PROVE  {c \in CellsOf(Now, {letter}) : c[2] < row + 1}
                = {c \in CellsOf(Now, {letter}) : c[2] < row} \cup here(junk, letter)
  <2>1. \A c : c \in CellsOf(Now, {letter}) <=> c \in Plane /\ Shown(Now, c) = letter
    BY PlaneIs
  <2> QED
    BY <1>9, <1>10, <2>1
<1>13. /\ dots' = {c \in CellsOf(Now, {"o"}) : c[2] < row + 1}
       /\ portals' = {c \in CellsOf(Now, {"@"}) : c[2] < row + 1}
  BY <1>3, <1>7, <1>12
<1>14. InHand(Text, Kth, First + 1 + row + 1, reader')
  <2>1. reader \in ReaderType
    BY DEF TypesOK
  <2> QED
    BY <1>1, <1>3, <1>5, <1>6, <2>1, NextRead
<1>15. First + 1 + row + 1 = First + 1 + (row + 1) /\ row + 1 \in 0 .. It.dim[2]
  BY <1>5, <1>6
<1>16. Cells' = Plane /\ BoardRead'
  BY <1>1, <1>2, <1>3, <1>7 DEF Cells, BoardRead
<1>17. InHand(Text, Kth, First + 1 + row', reader')
  BY <1>1, <1>14, <1>15
<1> QED
  BY <1>1, <1>2, <1>3, <1>11, <1>13, <1>15, <1>16, <1>17 DEF RowsRead

\* The next player's turn to be read comes when all the rows have been read.
LEMMA GridOver ==
  ASSUME TypesOK, GridEnds, Sound(Now), RowsRead PROVE Entities'
<1>1. /\ UNCHANGED <<filenames, level, comment, board, content, dots, portals, players>>
      /\ who' = 0 /\ (~More \/ (Word # "#" /\ ~RowLeft))
  BY DEF GridEnds, grid
<1>2. Now' = Now /\ It' = It /\ Plane' = Plane
  BY <1>1, SameLevel
<1>3. /\ BoardRead /\ row \in 0 .. It.dim[2]
      /\ Cells = Plane /\ \A c \in Plane : c[2] < row => content[c] = Ground(Now, c)
      /\ dots = {c \in CellsOf(Now, {"o"}) : c[2] < row}
      /\ portals = {c \in CellsOf(Now, {"@"}) : c[2] < row}
      /\ \A p \in 0 .. Len(It.mons) : players[p] = Nobody
  BY DEF RowsRead
<1>4. ~(row < It.dim[2])
  <2>1. row < It.dim[2] => Word = "row" /\ More
    BY GridHas
  <2> QED
    BY <1>1, <1>3, <2>1 DEF RowLeft, BoardRead
<1>5. \A c \in Plane : c[2] < row
  <2>1. row = It.dim[2] /\ It.dim[2] \in Nat
    BY <1>3, <1>4, SoundNumbers
  <2>2. \A n \in Nat : \A x \in 0 .. n - 1 : x < n
    OBVIOUS
  <2> QED
    BY <2>1, <2>2, PlaneIs
<1>6. \A letters : CellsOf(Now, letters) \subseteq Plane
  BY PlaneIs
<1>7. FieldRead'
  <2>1. dots' = CellsOf(Now, {"o"}) /\ portals' = CellsOf(Now, {"@"})
    BY <1>1, <1>3, <1>5, <1>6
  <2> QED
    BY <1>1, <1>2, <1>3, <2>1 DEF FieldRead, BoardRead, Cells
<1>8. 0 .. 0 - 1 = {} /\ 1 .. 0 - 1 = {} /\ 0 \in 0 .. Len(It.mons)
  <2>1. Len(It.mons) \in Nat
    BY SoundSize, NumbersOK
  <2> QED
    BY <2>1
<1>9. Places(Now, {}, players, content)
  <2>1. \A c \in CellsOf(Now, {"X", "o", "@"}) : content[c] = Ground(Now, c)
    BY <1>3, <1>5, <1>6
  <2> QED
    BY <2>1 DEF Places
<1>10. Settled(Now, 0, players)
  BY <1>3, <1>8 DEF Settled, It
<1>11. Places(Now', 0 .. who' - 1, players', content') /\ Settled(Now', who', players')
  BY <1>1, <1>2, <1>8, <1>9, <1>10
<1>12. players'[who'] = Nobody
  BY <1>1, <1>3, <1>8
<1> QED
  BY <1>7, <1>11, <1>12 DEF Entities

\* A file of orders, with its comment in front of them.
LEMMA FileIs ==
  ASSUME NEW e \in Sings
  PROVE  /\ e \in DOMAIN Files /\ Files[e] \in Range(Files) /\ Files[e] \in Seq(AllLines)
         /\ Len(Files[e]) \in Nat /\ DOMAIN Files[e] = 1 .. Len(Files[e])
         /\ Len(Orders[e]) \in 1 .. MaxMoves /\ Len(Files[e]) = Len(Orders[e]) + 2
         /\ Orders[e] = [m \in 1 .. Len(Orders[e]) |->
              [command |-> Files[e][m + 2].is,
               turns |-> IF Files[e][m + 2].is = "T" THEN Files[e][m + 2].args[1] ELSE 1]]
         /\ Files[e][1].is = "PASSO" /\ Files[e][1].args # <<>> /\ PassoOf(e) \in Nat
         /\ Files[e][2].is = "POS" /\ Len(Files[e][2].args) > 1
         /\ \A m \in 1 .. Len(Orders[e]) :
              \/ Files[e][m + 2].is \in Directions \cup {"R", "C"}
              \/ /\ Files[e][m + 2].is = "T" /\ Files[e][m + 2].args # <<>>
                 /\ Files[e][m + 2].args[1] \in Nat \ {0}
         /\ Files[e][3].is # "T"
<1> DEFINE text == Files[e]
           n == Len(text)
           L == n - 2
<1>1. /\ e \in DOMAIN Files /\ L \in 1 .. MaxMoves /\ text[3].is # "T"
      /\ text[1].is = "PASSO" /\ text[1].args # <<>> /\ text[1].args[1] >= 0
      /\ text[2].is = "POS" /\ Len(text[2].args) > 1
      /\ \A l \in 3 .. n : \/ text[l].is \in Directions \cup {"R", "C"}
                           \/ text[l].is = "T" /\ text[l].args # <<>> /\ text[l].args[1] > 0
  BY DEF Sings
<1>2. text \in Range(Files)
  BY <1>1 DEF Range
<1>3. IsSequence(text) /\ \A l \in AllLines : LineOK(l)
  BY <1>2, LinesOK, FilesAssumption
<1>4. text \in Seq(AllLines)
  BY <1>2, LinesOK
<1>5. n \in Nat /\ text \in [1 .. n -> AllLines]
  BY <1>4, LenProperties
<1>l. L = n - 2
  OBVIOUS
<1> HIDE DEF L
<1>6. L \in Nat /\ L \in 1 .. MaxMoves /\ n = L + 2
      /\ \A m \in 1 .. L : m + 2 \in 3 .. n /\ m + 2 \in 1 .. n
      /\ 1 \in 1 .. n
  <2>1. L \in 1 .. MaxMoves /\ MaxMoves \in Nat
    BY <1>1, NumbersOK
  <2>2. n \in Nat
    BY <1>5
  <2> HIDE DEF n
  <2> QED
    BY <1>l, <2>1, <2>2
<1>7. Orders[e] = [m \in 1 .. L |->
        [command |-> text[m + 2].is, turns |-> IF text[m + 2].is = "T" THEN text[m + 2].args[1] ELSE 1]]
  BY <1>1, <1>l DEF Orders
<1>8. Len(Orders[e]) = L
  <2>1. Orders[e] \in [1 .. L -> Range(Orders[e])]
    BY <1>7 DEF Range
  <2> QED
    BY <1>6, <2>1, IsSeq
<1>9. \A l \in 1 .. n : LineOK(text[l])
  BY <1>3, <1>5
<1>10. ASSUME NEW l \in 1 .. n, text[l].is \in {"PASSO", "T"}, text[l].args # <<>>
       PROVE  text[l].args[1] \in Int
  <2>1. IsSequence(text[l].args) /\ Range(text[l].args) \subseteq Int
    BY <1>9, <1>10 DEF LineOK
  <2>2. Len(text[l].args) # 0
    BY <1>10, <2>1, EmptySeq DEF IsSequence
  <2>3. Len(text[l].args) \in Nat /\ \A k \in 1 .. Len(text[l].args) : text[l].args[k] \in Int
    BY <2>1, SequenceIs
  <2>4. 1 \in 1 .. Len(text[l].args)
    BY <2>2, <2>3
  <2> QED
    BY <2>3, <2>4
<1>11. PassoOf(e) \in Nat
  <2>1. text[1].args[1] \in Int
    BY <1>1, <1>6, <1>10
  <2> QED
    BY <1>1, <2>1 DEF PassoOf
<1>12. ASSUME NEW m \in 1 .. L
       PROVE  \/ text[m + 2].is \in Directions \cup {"R", "C"}
              \/ /\ text[m + 2].is = "T" /\ text[m + 2].args # <<>>
                 /\ text[m + 2].args[1] \in Nat \ {0}
  <2> DEFINE l == m + 2
  <2>1. l \in 3 .. n /\ l \in 1 .. n
    BY <1>6
  <2> HIDE DEF l
  <2>2. \/ text[l].is \in Directions \cup {"R", "C"}
        \/ text[l].is = "T" /\ text[l].args # <<>> /\ text[l].args[1] > 0
    BY <1>1, <2>1
  <2>3. text[l].is = "T" /\ text[l].args # <<>> => text[l].args[1] \in Int
    BY <1>10, <2>1
  <2>4. \A x \in Int : x > 0 => x \in Nat \ {0}
    OBVIOUS
  <2> QED
    BY <2>2, <2>3, <2>4 DEF l
<1> HIDE DEF text, n
<1> QED
  BY <1>1, <1>2, <1>4, <1>5, <1>6, <1>7, <1>8, <1>11, <1>12 DEF text, n

LEMMA OrdersLen == ASSUME NEW e \in Sings PROVE Len(Orders[e]) \in Nat \ {0}
<1> DEFINE L == Len(Orders[e])
<1>1. L \in 1 .. MaxMoves /\ MaxMoves \in Nat
  BY FileIs, NumbersOK
<1> HIDE DEF L
<1>2. L \in Nat \ {0}
  BY <1>1
<1> QED
  BY <1>2 DEF L

LEMMA FileLines ==
  ASSUME comment \in Nat, NEW e \in Sings, Clear(Files[e], 2),
         NEW k, k = CommentAfter(Files[e])
  PROVE  /\ k \in 0 .. 2
         /\ \A j \in 1 .. 3 :
              LET line == LineAt(Files[e], k, j) IN
              /\ line.is \in {"#", "PASSO", "POS"}
              /\ line.is = "PASSO" => line = Files[e][1]
              /\ line.is = "POS" => line = Files[e][2]
         /\ \E j \in 1 .. 3 : LineAt(Files[e], k, j).is = "PASSO"
         /\ \E j \in 1 .. 3 : LineAt(Files[e], k, j).is = "POS"
         /\ \A i, j \in 1 .. 3 :
              LineAt(Files[e], k, i).is = "POS" /\ LineAt(Files[e], k, j).is = "POS" => i = j
         /\ \A m \in 1 .. Len(Orders[e]) : LineAt(Files[e], k, 3 + m) = Files[e][m + 2]
<1> DEFINE text == Files[e]
           at(j) == LineAt(text, k, j)
           L == Len(Orders[e])
<1>1. /\ text[1].is = "PASSO" /\ text[2].is = "POS" /\ L \in Nat /\ L >= 1 /\ Len(text) = L + 2
  <2>1. L \in 1 .. MaxMoves /\ MaxMoves \in Nat
    BY FileIs, NumbersOK
  <2>2. L \in Nat /\ L >= 1
    <3> HIDE DEF L
    <3> QED
      BY <2>1
  <2> QED
    BY <2>2, FileIs
<1>2. k \in 0 .. 2
  <2>1. k = IF comment <= Len(text) THEN comment ELSE 0
    BY DEF CommentAfter
  <2>2. comment <= 2 \/ comment > Len(text)
    BY DEF Clear
  <2>3. Len(text) \in Nat
    BY FileIs
  <2> DEFINE n == Len(text)
  <2> HIDE DEF n
  <2>4. n \in Nat /\ k = (IF comment <= n THEN comment ELSE 0) /\ (comment <= 2 \/ comment > n)
    BY <2>1, <2>2, <2>3 DEF n
  <2> QED
    BY <2>4
<1>3. Comment.is = "#"
  BY DEF Comment, Line
<1> HIDE DEF text, L
<1>4. \/ at(1) = Comment /\ at(2) = text[1] /\ at(3) = text[2]
      \/ at(1) = text[1] /\ at(2) = Comment /\ at(3) = text[2]
      \/ at(1) = text[1] /\ at(2) = text[2] /\ at(3) = Comment
  <2>1. CASE k = 0
    BY <2>1 DEF LineAt
  <2>2. CASE k = 1
    BY <2>2 DEF LineAt
  <2>3. CASE k = 2
    BY <2>3 DEF LineAt
  <2> QED
    BY <1>2, <2>1, <2>2, <2>3
<1>5. \A m \in 1 .. L : at(3 + m) = text[m + 2]
  <2> TAKE m \in 1 .. L
  <2> DEFINE j == 3 + m
  <2>1. j \in Int /\ ~(j <= k) /\ j # k + 1 /\ j - 1 = m + 2
    BY <1>1, <1>2
  <2> HIDE DEF j
  <2>2. at(j) = text[j - 1]
    BY <2>1 DEF LineAt
  <2> QED
    BY <2>1, <2>2 DEF j
<1> HIDE DEF at
<1>6. \A j \in 1 .. 3 : j = 1 \/ j = 2 \/ j = 3
  OBVIOUS
<1>7. \A j \in 1 .. 3 : /\ at(j).is \in {"#", "PASSO", "POS"}
                        /\ at(j).is = "PASSO" => at(j) = text[1]
                        /\ at(j).is = "POS" => at(j) = text[2]
  BY <1>1, <1>3, <1>4, <1>6
<1>8. \E j \in 1 .. 3 : at(j).is = "PASSO"
  BY <1>1, <1>4
<1>9. \E j \in 1 .. 3 : at(j).is = "POS"
  BY <1>1, <1>4
<1>10. \A i, j \in 1 .. 3 : at(i).is = "POS" /\ at(j).is = "POS" => i = j
  BY <1>1, <1>3, <1>4, <1>6
<1> QED
  BY <1>2, <1>5, <1>7, <1>8, <1>9, <1>10 DEF at, text, L
-----------------------------------------------------------------------------
(* The players are placed, one after another.                              *)

LEMMA PlacesSame ==
  ASSUME NEW k, NEW P, NEW ps, NEW qs, NEW cs, Places(k, P, ps, cs),
         \A q \in P : qs[q].pos = ps[q].pos
  PROVE  Places(k, P, qs, cs)
<1>1. \A c : (\E p \in P : qs[p].pos = c) <=> (\E p \in P : ps[p].pos = c)
  OBVIOUS
<1>2. \A p \in P : WellPlaced(k, p, qs, cs)
  BY DEF Places, WellPlaced
<1> QED
  BY <1>1, <1>2 DEF Places

LEMMA Puts ==
  ASSUME NEW k, NEW P \in SUBSET Int, NEW p \in Int, p \notin P, p = 0 => P = {},
         NEW ps, NEW qs, NEW cs, NEW ds, NEW c \in DOMAIN cs, Places(k, P, ps, cs),
         DOMAIN cs = CellsOf(k, {"X", "o", "@"}),
         ds = [cs EXCEPT ![c] = IF p = 0 THEN "P" ELSE "M"],
         \A q \in P : qs[q].pos = ps[q].pos, qs[p].pos = c,
         IF p > 0 THEN c = PosOf(Of[k].mons[p])
         ELSE IF Of[k].pac # <<>> THEN c = PosOf(Of[k].pac[1])
         ELSE FirstOf(c, CellsOf(k, {"o", "@"}))
  PROVE  Places(k, P \cup {p}, qs, ds)
<1>1. Places(k, P, qs, cs)
  BY PlacesSame
<1>2. \A d \in DOMAIN cs : ds[d] = IF d = c THEN (IF p = 0 THEN "P" ELSE "M") ELSE cs[d]
  OBVIOUS
<1>3. ASSUME NEW d \in CellsOf(k, {"X", "o", "@"})
      PROVE  IF \E q \in P \cup {p} : qs[q].pos = d THEN ds[d] \in {"P", "M"}
             ELSE ds[d] = Ground(k, d)
  <2>1. CASE d = c
    BY <1>2, <2>1
  <2>2. CASE d # c
    <3>1. (\E q \in P \cup {p} : qs[q].pos = d) <=> (\E q \in P : qs[q].pos = d)
      BY <2>2
    <3>2. ds[d] = cs[d]
      BY <1>2, <2>2
    <3> QED
      BY <1>1, <3>1, <3>2 DEF Places
  <2> QED
    BY <2>1, <2>2
<1>4. WellPlaced(k, p, qs, ds)
  <2>1. p > 0 => p # 0
    OBVIOUS
  <2>2. p > 0 => ds[c] = "M"
    BY <1>2, <2>1
  <2> QED
    BY <2>2 DEF WellPlaced
<1>5. ASSUME NEW q \in P PROVE WellPlaced(k, q, qs, ds)
  <2>1. WellPlaced(k, q, qs, cs)
    BY <1>1 DEF Places
  <2>2. cs[qs[q].pos] = "M" => ds[qs[q].pos] = "M"
    <3>1. CASE qs[q].pos = c
      BY <1>2, <3>1
    <3>2. CASE qs[q].pos # c
      BY <3>2
    <3> QED
      BY <3>1, <3>2
  <2> QED
    BY <2>1, <2>2 DEF WellPlaced
<1> QED
  BY <1>3, <1>4, <1>5 DEF Places

LEMMA HasFirst ==
  ASSUME NEW free, free # {}, \A c \in free : c[1] \in Nat /\ c[2] \in Nat
  PROVE  \E p : FirstOf(p, free)
<1> DEFINE ys == {c[2] : c \in free}
<1>1. ys \in SUBSET Nat /\ ys # {}
  OBVIOUS
<1>2. PICK y \in ys : \A z \in ys : y <= z
  BY <1>1, HasLeast
<1> DEFINE xs == {c[1] : c \in {d \in free : d[2] = y}}
<1>3. xs \in SUBSET Nat /\ xs # {}
  BY <1>2
<1>4. PICK x \in xs : \A z \in xs : x <= z
  BY <1>3, HasLeast
<1>5. PICK p \in free : p[2] = y /\ p[1] = x
  BY <1>4
<1>6. ASSUME NEW c \in free PROVE p[2] < c[2] \/ (p[2] = c[2] /\ p[1] <= c[1])
  <2>1. c[2] \in Nat /\ p[2] \in Nat /\ p[2] <= c[2]
    BY <1>2, <1>5
  <2>2. c[2] = p[2] => p[1] <= c[1]
    BY <1>4, <1>5
  <2> QED
    BY <2>1, <2>2
<1> QED
  BY <1>5, <1>6 DEF FirstOf

\* Who is read, and from which file.
LEMMA OfWhom ==
  ASSUME TypesOK, Sound(Now), BoardRead, pc \in {"entity", "head", "moves"}
  PROVE  /\ Len(It.mons) \in Nat /\ who \in 0 .. Len(It.mons) + 1 /\ DOMAIN players = 0 .. Len(It.mons)
         /\ Opens(who) <=> who \in 0 .. Len(It.mons) /\ (who = 0 => It.pac # <<>>)
         /\ Opens(who) => /\ FileOf \in Sings /\ Clear(Files[FileOf], 2) /\ PosOf(FileOf) \in Plane
                          /\ IF who > 0 THEN FileOf = It.mons[who] ELSE FileOf = It.pac[1]
<1>1. Len(It.mons) \in Nat /\ board.mons = It.mons
  BY SoundSize, SequenceIs DEF BoardRead
<1>2. DOMAIN players = 0 .. Len(It.mons)
  BY <1>1 DEF TypesOK
<1>3. who \in 0 .. Len(It.mons) + 1
  <2> DEFINE m == Len(It.mons)
  <2>1. m \in Nat /\ (who \in 0 .. m + 1 \/ who \in 0 .. m)
    BY <1>1 DEF TypesOK
  <2> HIDE DEF m
  <2>2. who \in 0 .. m + 1
    BY <2>1
  <2> QED
    BY <2>2 DEF m
<1>4. board.pac # "" <=> It.pac # <<>>
  <2>1. It.pac # <<>> => It.pac[1] \in Sings
    BY SoundSize
  <2>2. "" \notin Sings
    BY FilesAssumption DEF Sings
  <2> QED
    BY <2>1, <2>2 DEF BoardRead
<1>5. Opens(who) <=> who \in 0 .. Len(It.mons) /\ (who = 0 => It.pac # <<>>)
  BY <1>2, <1>4 DEF Opens
<1>6. ASSUME Opens(who)
      PROVE  /\ FileOf \in Range(It.mons) \cup Range(It.pac)
             /\ IF who > 0 THEN FileOf = It.mons[who] ELSE FileOf = It.pac[1]
  <2>1. CASE who = 0
    <3>1. FileOf = It.pac[1] /\ It.pac # <<>>
      BY <1>5, <1>6, <2>1 DEF FileOf, NameOf, BoardRead
    <3> QED
      BY <2>1, <3>1, SoundSize
  <2>2. CASE who # 0
    <3>1. who \in 1 .. Len(It.mons) /\ who > 0
      BY <1>1, <1>5, <1>6, <2>2
    <3>2. FileOf = It.mons[who]
      BY <1>1, <2>2 DEF FileOf, NameOf
    <3> QED
      BY <3>1, <3>2, SoundSize
  <2> QED
    BY <2>1, <2>2
<1> QED
  BY <1>1, <1>2, <1>3, <1>5, <1>6, SoundSize

LEMMA DefaultStep ==
  ASSUME TypesOK, PacmanByDefault, Sound(Now), Entities PROVE Entities'
<1>1. /\ pc = "entity" /\ who = 0 /\ board.pac = "" /\ who' = 1
      /\ UNCHANGED <<filenames, level, comment, board, dots, portals>>
  BY DEF PacmanByDefault
<1>2. Now' = Now /\ It' = It /\ Plane' = Plane
  BY <1>1, SameLevel
<1>3. /\ BoardRead /\ Cells = Plane /\ dots = CellsOf(Now, {"o"}) /\ portals = CellsOf(Now, {"@"})
      /\ Settled(Now, 0, players) /\ Places(Now, 0 .. 0 - 1, players, content)
      /\ 0 <= Len(It.mons) => players[0] = Nobody
  BY <1>1 DEF Entities, FieldRead
<1>4. /\ Len(It.mons) \in Nat /\ DOMAIN players = 0 .. Len(It.mons) /\ It.pac = <<>>
      /\ 0 \in DOMAIN players
  <2>1. Len(It.mons) \in Nat /\ DOMAIN players = 0 .. Len(It.mons)
    BY <1>1, <1>3, OfWhom
  <2>2. ~Opens(who)
    BY <1>1 DEF Opens
  <2>0. 0 \in 0 .. Len(It.mons)
    BY <2>1
  <2>3. who \in 0 .. Len(It.mons)
    BY <1>1, <2>0
  <2> QED
    BY <1>1, <1>3, <2>1, <2>2, <2>3, OfWhom
<1>5. 0 .. 0 - 1 = {} /\ 0 .. 1 - 1 = {0} /\ 1 .. 1 - 1 = {}
  OBVIOUS
<1>6. \A letters : CellsOf(Now, letters) = {c \in Plane : Shown(Now, c) \in letters}
  BY PlaneIs
<1>7. CellsOf(Now, {"X", "o", "@"}) = Plane
  BY <1>6, PlaneIs
<1>8. Free = CellsOf(Now, {"o", "@"})
  <2>1. \A c \in Plane : content[c] = Ground(Now, c)
    BY <1>3, <1>5, <1>7 DEF Places
  <2>2. \A c \in Plane : content[c] = " " <=> Shown(Now, c) \in {"o", "@"}
    BY <2>1, PlaneIs DEF Ground
  <2> QED
    BY <1>3, <1>6, <2>2 DEF Free
<1>9. Free # {}
  BY <1>4, <1>8 DEF Sound, It
<1> DEFINE IsFirst(c) == \A d \in Free : c[2] < d[2] \/ (c[2] = d[2] /\ c[1] <= d[1])
           first == CHOOSE c \in Free : IsFirst(c)
<1>10. FirstOf(first, CellsOf(Now, {"o", "@"}))
  <2>1. \A c \in Plane : c[1] \in Nat /\ c[2] \in Nat
    <3>1. \A n \in Nat : \A x \in 0 .. n - 1 : x \in Nat
      OBVIOUS
    <3> QED
      BY <3>1, PlaneIs, SoundNumbers
  <2>2. \A c \in Free : c[1] \in Nat /\ c[2] \in Nat
    BY <1>6, <1>8, <2>1
  <2>3. \E c \in Free : IsFirst(c)
    BY <1>9, <2>2, HasFirst DEF FirstOf
  <2>4. first \in Free /\ IsFirst(first)
    BY <2>3
  <2> QED
    BY <1>8, <2>4 DEF FirstOf
<1>11. content' = [content EXCEPT ![first] = "P"] /\ players' = [players EXCEPT ![0].pos = first]
  BY <1>9 DEF PacmanByDefault
<1> HIDE DEF first, IsFirst
<1>12. first \in Plane
  BY <1>6, <1>10 DEF FirstOf
<1>13. players'[0].pos = first /\ \A p \in 0 .. Len(It.mons) : p # 0 => players'[p] = players[p]
  <2>1. DOMAIN players[0] = {"pos", "passo", "waiting", "moves", "cursor"}
    BY <1>4 DEF TypesOK, PlayerOK
  <2> QED
    BY <1>4, <1>11, <2>1
<1>14. Places(Now, {} \cup {0}, players', content')
  <2>1. DOMAIN content = CellsOf(Now, {"X", "o", "@"}) /\ first \in DOMAIN content
    BY <1>3, <1>7, <1>12 DEF Cells
  <2>2. Places(Now, {}, players, content) /\ Of[Now].pac = <<>>
    BY <1>3, <1>4, <1>5 DEF It
  <2>3. ~(0 > 0) /\ 0 \in Int /\ {} \in SUBSET Int
    OBVIOUS
  <2> QED
    BY <1>10, <1>11, <1>13, <2>1, <2>2, <2>3, Puts
<1>15. Settled(Now, 1, players') /\ (1 <= Len(It.mons) => players'[1] = Nobody)
  <2>1. \A p \in 0 .. Len(It.mons) : p > 0 => players'[p] = Nobody
    BY <1>3, <1>13 DEF Settled, It
  <2>2. \A p \in 0 .. Len(It.mons) : p > 1 => p > 0
    OBVIOUS
  <2>3. 1 <= Len(It.mons) => 1 \in 0 .. Len(It.mons) /\ 1 > 0
    BY <1>4
  <2> QED
    BY <1>5, <2>1, <2>2, <2>3 DEF Settled, It
<1>16. FieldRead'
  <2>1. Cells' = Cells
    BY <1>11 DEF Cells
  <2> QED
    BY <1>1, <1>2, <1>3, <2>1 DEF FieldRead, BoardRead
<1>17. Places(Now', 0 .. who' - 1, players', content') /\ Settled(Now', who', players')
  BY <1>1, <1>2, <1>5, <1>14, <1>15
<1> QED
  BY <1>1, <1>2, <1>15, <1>16, <1>17 DEF Entities

LEMMA EntityStep ==
  ASSUME TypesOK, OpenEntity, Sound(Now), Entities PROVE HeadRead'
<1>1. /\ pc = "entity" /\ Opens(who) /\ reader' = read_line(Opened(Files[FileOf]))
      /\ UNCHANGED <<filenames, level, comment, board, content, dots, portals, who, players>>
  BY DEF OpenEntity, FileOf, grid
<1>2. Now' = Now /\ It' = It /\ Plane' = Plane /\ \A text : CommentAfter(text)' = CommentAfter(text)
  BY <1>1, SameLevel
<1>3. /\ FieldRead /\ BoardRead /\ Settled(Now, who, players)
      /\ Places(Now, 0 .. who - 1, players, content)
      /\ who <= Len(It.mons) => players[who] = Nobody
  BY DEF Entities, FieldRead
<1>4. FileOf \in Sings /\ who \in 0 .. Len(It.mons) /\ Len(It.mons) \in Nat
  BY <1>1, <1>3, OfWhom
<1>5. FileOf' = FileOf /\ KthOf' = KthOf /\ Opens(who)'
  BY <1>1 DEF FileOf, KthOf, NameOf, Opens, CommentAfter
<1>6. InHand(Files[FileOf], KthOf, 1, reader')
  <2>1. Files[FileOf] \in Seq(AllLines) /\ comment \in Nat
    BY <1>4, FileIs DEF TypesOK
  <2> QED
    BY <1>1, <2>1, FirstRead DEF KthOf
<1>7. /\ PlacedBy(who, FileOf, KthOf, 1) = 0 .. who - 1
      /\ ~Says(FileOf, KthOf, 1, "PASSO")
  BY DEF PlacedBy, Says
<1>8. players'[who'].moves = <<>>
  <2>1. who <= Len(It.mons)
    BY <1>4
  <2> QED
    BY <1>1, <1>3, <2>1 DEF Nobody
<1>9. FieldRead'
  BY <1>1, <1>2, <1>3 DEF FieldRead, BoardRead, Cells
<1>10. 1 \in 1 .. 4 /\ Settled(Now', who', players')
       /\ InHand(Files[FileOf'], KthOf', 1, reader')
       /\ Places(Now', PlacedBy(who', FileOf', KthOf', 1), players', content')
       /\ ~Says(FileOf', KthOf', 1, "PASSO")
  BY <1>1, <1>2, <1>3, <1>5, <1>6, <1>7
<1> QED
  BY <1>5, <1>8, <1>9, <1>10 DEF HeadRead

LEMMA NoEntityFails ==
  ASSUME TypesOK, EntityFails, Sound(Now), Entities PROVE FALSE
<1>1. FileOf \in Sings
  BY OfWhom DEF EntityFails, Entities, FieldRead
<1> QED
  BY <1>1 DEF EntityFails, FileOf, Sings

\* The line in hand, while the head of a file is read.
LEMMA HeadHas ==
  ASSUME TypesOK, Sound(Now), BoardRead, pc = "head", Opens(who),
         NEW i \in 1 .. 4, InHand(Files[FileOf], KthOf, i, reader)
  PROVE  /\ reader.command = LineAt(Files[FileOf], KthOf, i) /\ More
         /\ i \in 1 .. Len(Files[FileOf]) + 1
         /\ i # 4 => /\ i \in 1 .. 3 /\ Word \in {"#", "PASSO", "POS"}
                     /\ Word = "PASSO" => reader.command = Files[FileOf][1]
                     /\ Word = "POS" => reader.command = Files[FileOf][2]
         /\ i = 4 => Word \in Directions \cup {"R", "C"}
<1> DEFINE e == FileOf
           n == Len(Files[e])
<1>1. e \in Sings /\ Clear(Files[e], 2) /\ comment \in Nat /\ KthOf = CommentAfter(Files[e])
  BY OfWhom DEF TypesOK, KthOf
<1> HIDE DEF e
<1>2. n \in Nat /\ 1 \in 1 .. Len(Orders[e]) /\ n + 1 >= 4
  <2>1. Len(Orders[e]) \in 1 .. MaxMoves /\ n = Len(Orders[e]) + 2 /\ MaxMoves \in Nat
    BY <1>1, FileIs, NumbersOK
  <2> DEFINE m == Len(Orders[e])
  <2> HIDE DEF m, n
  <2> QED
    BY <2>1 DEF m
<1>3. i <= n + 1 /\ i \in 1 .. n + 1 /\ (i # 4 => i \in 1 .. 3)
  BY <1>2
<1>4. /\ reader.command = LineAt(Files[e], KthOf, i)
      /\ reader.read = IF reader.command.is = "" THEN 0 ELSE 1
  BY <1>3 DEF InHand, e
<1>5. i # 4 => /\ i \in 1 .. 3 /\ Word \in {"#", "PASSO", "POS"}
               /\ Word = "PASSO" => reader.command = Files[e][1]
               /\ Word = "POS" => reader.command = Files[e][2]
  <2>1. \A j \in 1 .. 3 : /\ LineAt(Files[e], KthOf, j).is \in {"#", "PASSO", "POS"}
                          /\ LineAt(Files[e], KthOf, j).is = "PASSO"
                               => LineAt(Files[e], KthOf, j) = Files[e][1]
                          /\ LineAt(Files[e], KthOf, j).is = "POS"
                               => LineAt(Files[e], KthOf, j) = Files[e][2]
    BY <1>1, FileLines
  <2> QED
    BY <1>3, <1>4, <2>1 DEF Word
<1>6. i = 4 => Word \in Directions \cup {"R", "C"}
  <2>1. LineAt(Files[e], KthOf, 3 + 1) = Files[e][1 + 2]
    BY <1>1, <1>2, FileLines
  <2>2. Files[e][3].is \in Directions \cup {"R", "C"}
    <3>0. 1 + 2 = 3
      OBVIOUS
    <3>1. Files[e][3].is # "T"
      BY <1>1, FileIs
    <3>2. Files[e][1 + 2].is \in Directions \cup {"R", "C"} \/ Files[e][1 + 2].is = "T"
      BY <1>1, <1>2, FileIs
    <3> QED
      BY <3>0, <3>1, <3>2
  <2>3. 3 + 1 = 4 /\ 1 + 2 = 3
    OBVIOUS
  <2> QED
    BY <1>4, <2>1, <2>2, <2>3 DEF Word
<1>7. More
  <2>1. Word # ""
    BY <1>5, <1>6 DEF Directions
  <2>2. reader.read = 1
    BY <1>4, <2>1 DEF Word
  <2> QED
    BY <2>2 DEF More
<1> QED
  BY <1>3, <1>4, <1>5, <1>6, <1>7 DEF e

LEMMA SaysNext ==
  ASSUME NEW e, NEW k, NEW i \in Nat \ {0}, NEW is
  PROVE  Says(e, k, i + 1, is) <=> Says(e, k, i, is) \/ LineAt(Files[e], k, i).is = is
<1>1. \A j : j \in 1 .. i + 1 - 1 <=> j \in 1 .. i - 1 \/ j = i
  OBVIOUS
<1> QED
  BY <1>1 DEF Says

LEMMA HeadStep ==
  ASSUME TypesOK, HeadLine, Sound(Now), HeadRead PROVE HeadRead'
<1> DEFINE e == FileOf
           k == KthOf
           at(i) == LineAt(Files[e], k, i)
<1>1. /\ pc = "head" /\ reader' = read_line(reader)
      /\ UNCHANGED <<filenames, level, comment, board, dots, portals, who>>
      /\ Word \in {"#", "blank", "PASSO", "POS"}
  BY DEF HeadLine, Skipped
<1>2. Now' = Now /\ It' = It /\ Plane' = Plane /\ \A text : CommentAfter(text)' = CommentAfter(text)
  BY <1>1, SameLevel
<1>3. /\ FieldRead /\ BoardRead /\ Settled(Now, who, players) /\ players[who].moves = <<>>
      /\ Opens(who) /\ Cells = Plane
  BY DEF HeadRead, FieldRead
<1>4. PICK i \in 1 .. 4 : /\ InHand(Files[e], k, i, reader)
                          /\ Places(Now, PlacedBy(who, e, k, i), players, content)
                          /\ Says(e, k, i, "PASSO") => Paced(players[who], e)
  BY DEF HeadRead
<1>5. /\ e \in Sings /\ Clear(Files[e], 2) /\ comment \in Nat /\ k = CommentAfter(Files[e])
      /\ who \in 0 .. Len(It.mons) /\ DOMAIN players = 0 .. Len(It.mons) /\ Len(It.mons) \in Nat
      /\ PosOf(e) \in Plane
      /\ IF who > 0 THEN e = It.mons[who] ELSE It.pac # <<>> /\ e = It.pac[1]
  <2>1. who \in 0 .. Len(It.mons) => who \in Nat
    OBVIOUS
  <2> QED
    BY <1>1, <1>3, <2>1, OfWhom DEF TypesOK, KthOf
<1>6. /\ reader.command = at(i) /\ i \in 1 .. Len(Files[e]) + 1
      /\ i # 4 => /\ i \in 1 .. 3 /\ Word \in {"#", "PASSO", "POS"}
                  /\ Word = "PASSO" => reader.command = Files[e][1]
                  /\ Word = "POS" => reader.command = Files[e][2]
      /\ i = 4 => Word \in Directions \cup {"R", "C"}
  BY <1>1, <1>3, <1>4, HeadHas
<1>7. i # 4
  BY <1>1, <1>6 DEF Directions
<1>8. FileOf' = e /\ KthOf' = k /\ i + 1 \in 1 .. 4 /\ i \in Nat \ {0} /\ i \in 1 .. 3
  <2>1. FileOf' = e /\ KthOf' = k
    BY <1>1 DEF FileOf, KthOf, NameOf, CommentAfter
  <2>2. i \in 1 .. 3
    BY <1>6, <1>7
  <2> QED
    BY <2>1, <2>2
<1>9. InHand(Files[e], k, i + 1, reader')
  <2>1. reader \in ReaderType /\ Len(Files[e]) \in Nat
    BY <1>5, FileIs DEF TypesOK
  <2> QED
    BY <1>1, <1>4, <1>6, <2>1, NextRead
<1>10. Word = at(i).is /\ at(i) = reader.command
  BY <1>6 DEF Word
<1>11. /\ \A is : Says(e, k, i + 1, is) <=> Says(e, k, i, is) \/ Word = is
       /\ Word = "POS" => ~Says(e, k, i, "POS")
  <2>1. \A is : Says(e, k, i + 1, is) <=> Says(e, k, i, is) \/ Word = is
    BY <1>8, <1>10, SaysNext
  <2>2. ASSUME Word = "POS", Says(e, k, i, "POS") PROVE FALSE
    <3>1. PICK j \in 1 .. i - 1 : at(j).is = "POS"
      BY <2>2 DEF Says
    <3>2. j \in 1 .. 3 /\ j # i
      BY <1>8
    <3>3. \A a, b \in 1 .. 3 : at(a).is = "POS" /\ at(b).is = "POS" => a = b
      BY <1>5, FileLines
    <3> QED
      BY <1>8, <1>10, <2>2, <3>1, <3>2, <3>3
  <2> QED
    BY <2>1, <2>2
<1>12. DOMAIN players[who] = {"pos", "passo", "waiting", "moves", "cursor"}
  BY <1>5 DEF TypesOK, PlayerOK
<1>13. who \in DOMAIN players /\ \A j : PlacedBy(who, e, k, j) \subseteq DOMAIN players
  <2>1. \A n \in Nat : \A p \in 0 .. n : 0 .. p - 1 \subseteq 0 .. n
    OBVIOUS
  <2> QED
    BY <1>5, <2>1 DEF PlacedBy
<1> DEFINE Read == /\ \A p \in DOMAIN players : p # who => players'[p] = players[p]
                   /\ DOMAIN players' = DOMAIN players /\ DOMAIN content' = DOMAIN content
                   /\ players'[who].moves = <<>>
                   /\ Places(Now, PlacedBy(who, e, k, i + 1), players', content')
                   /\ Says(e, k, i + 1, "PASSO") => Paced(players'[who], e)
<1>14. ASSUME Word = "PASSO" PROVE Read
  <2>1. Args = Files[e][1].args /\ Args # <<>> /\ Args[1] = PassoOf(e)
    BY <1>5, <1>6, <1>7, <1>14, FileIs DEF Args, PassoOf
  <2>2. /\ players' = [players EXCEPT ![who].passo = Args[1], ![who].waiting = Args[1]]
        /\ content' = content
    BY <1>14, <2>1 DEF HeadLine, Placed
  <2>3. /\ Paced(players'[who], e) /\ players'[who].moves = players[who].moves
        /\ players'[who].pos = players[who].pos
        /\ DOMAIN players' = DOMAIN players
        /\ \A p \in DOMAIN players : p # who => players'[p] = players[p]
    BY <1>12, <1>13, <2>1, <2>2 DEF Paced
  <2>4. PlacedBy(who, e, k, i + 1) = PlacedBy(who, e, k, i)
    BY <1>11, <1>14 DEF PlacedBy
  <2>5. \A p \in PlacedBy(who, e, k, i) : players'[p].pos = players[p].pos
    BY <1>13, <2>3
  <2>6. Places(Now, PlacedBy(who, e, k, i + 1), players', content')
    BY <1>4, <2>2, <2>4, <2>5, PlacesSame
  <2> QED
    BY <1>3, <2>2, <2>3, <2>6
<1>15. ASSUME Word = "#" PROVE Read
  <2>1. players' = players /\ content' = content
    BY <1>15 DEF HeadLine, Placed
  <2>2. PlacedBy(who, e, k, i + 1) = PlacedBy(who, e, k, i)
    BY <1>11, <1>15 DEF PlacedBy
  <2>3. Says(e, k, i + 1, "PASSO") => Says(e, k, i, "PASSO")
    BY <1>11, <1>15
  <2> QED
    BY <1>3, <1>4, <2>1, <2>2, <2>3
<1>16. ASSUME Word = "POS" PROVE Read
  <2>1. Args = Files[e][2].args /\ Len(Args) > 1 /\ Place = PosOf(e) /\ Placed
    BY <1>5, <1>6, <1>7, <1>16, FileIs DEF Args, PosOf, Place, Placed
  <2> DEFINE c == PosOf(e)
             P == 0 .. who - 1
  <2>2. /\ players' = [players EXCEPT ![who].pos = c]
        /\ content' = [content EXCEPT ![c] = IF who = 0 THEN "P" ELSE "M"]
    BY <1>16, <2>1 DEF HeadLine
  <2>3. /\ players'[who].moves = players[who].moves /\ players'[who].pos = c
        /\ Paced(players[who], e) => Paced(players'[who], e)
        /\ DOMAIN players' = DOMAIN players
        /\ \A p \in DOMAIN players : p # who => players'[p] = players[p]
    BY <1>12, <1>13, <2>2 DEF Paced
  <2>4. PlacedBy(who, e, k, i) = P /\ PlacedBy(who, e, k, i + 1) = P \cup {who}
    BY <1>11, <1>16 DEF PlacedBy
  <2>5. who \in Nat /\ P \in SUBSET Int /\ who \notin P /\ (who = 0 => P = {})
        /\ (who > 0 \/ who = 0)
    <3>1. \A n \in Nat : \A p \in 0 .. n : p \in Nat
      OBVIOUS
    <3>2. who \in Nat
      BY <1>5, <3>1
    <3> QED
      BY <3>2
  <2>6. \A p \in P : players'[p].pos = players[p].pos
    BY <1>13, <2>3, <2>4, <2>5
  <2>7. DOMAIN content = CellsOf(Now, {"X", "o", "@"}) /\ c \in DOMAIN content
    <3>1. CellsOf(Now, {"X", "o", "@"}) = {d \in Plane : Shown(Now, d) \in {"X", "o", "@"}}
      BY PlaneIs
    <3>2. CellsOf(Now, {"X", "o", "@"}) = Plane
      BY <3>1, PlaneIs
    <3> QED
      BY <1>3, <1>5, <3>2 DEF Cells
  <2>8. IF who > 0 THEN c = PosOf(Of[Now].mons[who])
        ELSE IF Of[Now].pac # <<>> THEN c = PosOf(Of[Now].pac[1])
        ELSE FirstOf(c, CellsOf(Now, {"o", "@"}))
    BY <1>5 DEF It
  <2>9. Places(Now, P, players, content)
    BY <1>4, <2>4
  <2> HIDE DEF c, P
  <2>10. who \in Int
    BY <2>5
  <2>11. Places(Now, P \cup {who}, players', content')
    BY <2>2, <2>3, <2>5, <2>6, <2>7, <2>8, <2>9, <2>10, Puts
  <2>12. Says(e, k, i + 1, "PASSO") => Says(e, k, i, "PASSO")
    BY <1>11, <1>16
  <2> QED
    BY <1>3, <1>4, <2>2, <2>3, <2>4, <2>11, <2>12
<1>17. Read
  BY <1>6, <1>7, <1>14, <1>15, <1>16
<1>18. Settled(Now, who, players')
  <2>1. \A g \in 1 .. who - 1 : g \in DOMAIN players /\ g # who
    <3>1. \A n \in Nat : \A p \in 0 .. n : \A g \in 1 .. p - 1 : g \in 0 .. n /\ g # p
      OBVIOUS
    <3> QED
      BY <1>5, <3>1
  <2>2. \A p \in 0 .. Len(It.mons) : p > who => p \in DOMAIN players /\ p # who
    <3>1. \A n \in Nat : \A p, q \in 0 .. n : q > p => q # p
      OBVIOUS
    <3> QED
      BY <1>5, <3>1
  <2> QED
    BY <1>3, <1>17, <2>1, <2>2 DEF Settled, It
<1>19. FieldRead' /\ Opens(who)'
  BY <1>1, <1>2, <1>3, <1>17 DEF FieldRead, BoardRead, Cells, Opens
<1> HIDE DEF e, k
<1>20. /\ who' = who /\ Settled(Now', who', players') /\ players'[who'].moves = <<>>
       /\ InHand(Files[FileOf'], KthOf', i + 1, reader') /\ i + 1 \in 1 .. 4
       /\ Places(Now', PlacedBy(who', FileOf', KthOf', i + 1), players', content')
       /\ Says(FileOf', KthOf', i + 1, "PASSO") => Paced(players'[who'], FileOf')
  BY <1>1, <1>2, <1>8, <1>9, <1>17, <1>18
<1> QED
  BY <1>19, <1>20 DEF HeadRead

LEMMA HeadOver ==
  ASSUME TypesOK, HeadEnds, Sound(Now), HeadRead PROVE MovesRead'
<1> DEFINE e == FileOf
           k == KthOf
<1>1. /\ pc = "head" /\ reader' = [reader EXCEPT !.cut = TRUE]
      /\ UNCHANGED <<filenames, level, comment, board, content, dots, portals, who, players>>
      /\ ~Skipped /\ ~(More /\ Word \in {"PASSO", "POS"})
  BY DEF HeadEnds, grid
<1>2. Now' = Now /\ It' = It /\ Plane' = Plane /\ \A text : CommentAfter(text)' = CommentAfter(text)
  BY <1>1, SameLevel
<1>3. /\ FieldRead /\ BoardRead /\ Settled(Now, who, players) /\ players[who].moves = <<>>
      /\ Opens(who)
  BY DEF HeadRead, FieldRead
<1>4. PICK i \in 1 .. 4 : /\ InHand(Files[e], k, i, reader)
                          /\ Places(Now, PlacedBy(who, e, k, i), players, content)
                          /\ Says(e, k, i, "PASSO") => Paced(players[who], e)
  BY DEF HeadRead
<1>5. e \in Sings /\ Clear(Files[e], 2) /\ comment \in Nat /\ k = CommentAfter(Files[e])
      /\ who \in 0 .. Len(It.mons) /\ Len(It.mons) \in Nat
  BY <1>1, <1>3, OfWhom DEF TypesOK, KthOf
<1>6. i = 4
  <2>1. /\ More
        /\ i # 4 => Word \in {"#", "PASSO", "POS"}
    BY <1>1, <1>3, <1>4, HeadHas
  <2> QED
    BY <1>1, <2>1 DEF Skipped
<1>7. Says(e, k, 4, "PASSO") /\ Says(e, k, 4, "POS")
  <2>1. 4 - 1 = 3
    OBVIOUS
  <2> QED
    BY <1>5, <2>1, FileLines DEF Says
<1>8. PlacedBy(who, e, k, 4) = 0 .. who
  <2>1. \A n \in Nat : \A p \in 0 .. n : (0 .. p - 1) \cup {p} = 0 .. p
    OBVIOUS
  <2> QED
    BY <1>5, <1>7, <2>1 DEF PlacedBy
<1>9. Places(Now, 0 .. who, players, content) /\ Paced(players[who], e)
      /\ InHand(Files[e], k, 4, reader)
  BY <1>4, <1>6, <1>7, <1>8
<1>10. InHand(Files[e], k, 4, reader')
  <2>1. reader'.rest = reader.rest /\ reader'.command = reader.command
        /\ reader'.read = reader.read
    BY <1>1 DEF TypesOK, ReaderType
  <2> QED
    BY <1>9, <2>1 DEF InHand, Ahead
<1>11. Taken(e, k, players[who], reader')
  <2>1. Len(players[who].moves) = 0 /\ 4 + 0 = 4 /\ 1 .. 0 = {}
    BY <1>3
  <2>2. 0 <= Len(Orders[e])
    <3>1. Len(Orders[e]) \in 1 .. MaxMoves
      BY <1>5, FileIs
    <3> DEFINE m == Len(Orders[e])
    <3> HIDE DEF m
    <3>2. m \in 1 .. MaxMoves /\ MaxMoves \in Nat
      BY <3>1, NumbersOK DEF m
    <3> QED
      BY <3>2 DEF m
  <2> QED
    BY <1>9, <1>10, <2>1, <2>2 DEF Taken
<1>12. FileOf' = e /\ KthOf' = k /\ Opens(who)' /\ FieldRead'
  BY <1>1, <1>2, <1>3 DEF FileOf, KthOf, NameOf, CommentAfter, FieldRead, BoardRead, Cells, Opens
<1>w. Within(e, k, reader')
  <2>1. \A n \in Nat : 4 \in 4 .. n + 2 + 2
    OBVIOUS
  <2>2. Len(Files[e]) = Len(Orders[e]) + 2 /\ Len(Orders[e]) \in Nat
    BY <1>5, FileIs, OrdersLen
  <2>3. 4 \in 4 .. Len(Files[e]) + 2
    BY <2>1, <2>2
  <2> QED
    BY <1>10, <2>3 DEF Within
<1> HIDE DEF e, k
<1>13. /\ Within(FileOf', KthOf', reader')
       /\ Settled(Now', who', players') /\ Places(Now', 0 .. who', players', content')
       /\ who' > 0 => Taken(FileOf', KthOf', players'[who'], reader')
  BY <1>1, <1>2, <1>3, <1>9, <1>11, <1>12, <1>w
<1> QED
  BY <1>12, <1>13 DEF MovesRead

\* The line in hand after the head of a file is one of its orders.
LEMMA OrderInHand ==
  ASSUME TypesOK, NEW e \in Sings, Clear(Files[e], 2), NEW k, k = CommentAfter(Files[e]), More,
         NEW i \in 4 .. Len(Files[e]) + 2, InHand(Files[e], k, i, reader)
  PROVE  /\ i \in 1 .. Len(Files[e]) + 1 /\ i + 1 \in 4 .. Len(Files[e]) + 2
         /\ Word \in Directions \cup {"R", "C", "T"}
<1> DEFINE L == Len(Orders[e])
           n == Len(Files[e])
           m == i - 3
<1>1. L \in Nat /\ n = L + 2
  BY FileIs, OrdersLen
<1>2. i <= n + 1
  <2>1. ~(i <= n + 1) => reader.read = 0
    BY DEF InHand
  <2> QED
    BY <2>1 DEF More
<1>3. i \in 4 .. n + 2
  OBVIOUS
<1> HIDE DEF L, n
<1>4. /\ i \in 1 .. n + 1 /\ i + 1 \in 4 .. n + 2
      /\ m \in 1 .. L /\ 3 + m = i
  BY <1>1, <1>2, <1>3
<1> HIDE DEF m
<1>5. reader.command = LineAt(Files[e], k, i)
  BY <1>2, <1>4 DEF InHand, n
<1>6. LineAt(Files[e], k, 3 + m) = Files[e][m + 2]
  <2>1. comment \in Nat
    BY DEF TypesOK
  <2> QED
    BY <1>4, <2>1, FileLines DEF L
<1>7. Files[e][m + 2].is \in Directions \cup {"R", "C", "T"}
  BY <1>4, FileIs DEF L
<1> QED
  BY <1>4, <1>5, <1>6, <1>7 DEF Word, n

\* The line in hand, while the orders of a file are read: it is the next order.
LEMMA MovesHas ==
  ASSUME TypesOK, NEW e \in Sings, Clear(Files[e], 2), NEW k, k = CommentAfter(Files[e]),
         NEW q, q.moves \in Seq(MoveType), Taken(e, k, q, reader)
  PROVE  LET m == Len(q.moves) IN
         /\ m \in Nat
         /\ ~More => m = Len(Orders[e])
         /\ More => /\ m + 1 \in 1 .. Len(Orders[e]) /\ 4 + m \in 1 .. Len(Files[e]) + 1
                    /\ reader.command = Files[e][m + 3]
<1> DEFINE m == Len(q.moves)
           L == Len(Orders[e])
           n == Len(Files[e])
<1>1. m \in Nat /\ L \in Nat /\ n = L + 2 /\ m <= L
  <2>1. L \in 1 .. MaxMoves /\ MaxMoves \in Nat /\ n = L + 2
    BY FileIs, NumbersOK
  <2>2. m \in Nat /\ m <= L
    BY LenProperties DEF Taken
  <2> HIDE DEF L, m, n
  <2> QED
    BY <2>1, <2>2
<1>2. InHand(Files[e], k, 4 + m, reader)
  BY DEF Taken
<1> DEFINE i == 4 + m
<1>3. \/ m = L /\ ~(i <= n + 1)
      \/ m + 1 \in 1 .. L /\ i \in 1 .. n + 1 /\ i <= n + 1
  <2> HIDE DEF L, m, n
  <2> QED
    BY <1>1
<1>4. 3 + (m + 1) = i /\ (m + 1) + 2 = m + 3
  <2> HIDE DEF m
  <2> QED
    BY <1>1
<1>5. m + 1 \in 1 .. L => LineAt(Files[e], k, i) = Files[e][m + 3]
  <2>1. comment \in Nat
    BY DEF TypesOK
  <2>2. \A j \in 1 .. L : LineAt(Files[e], k, 3 + j) = Files[e][j + 2]
    BY <2>1, FileLines
  <2> QED
    BY <1>4, <2>2
<1> HIDE DEF m, i, L, n
<1>6. CASE m = L /\ ~(i <= n + 1)
  <2>1. reader.read = 0
    BY <1>2, <1>6 DEF InHand, i, n
  <2> QED
    BY <1>1, <1>6, <2>1 DEF More, m, L
<1>7. CASE m + 1 \in 1 .. L /\ i \in 1 .. n + 1 /\ i <= n + 1
  <2>1. /\ reader.command = LineAt(Files[e], k, i)
        /\ reader.read = IF reader.command.is = "" THEN 0 ELSE 1
    BY <1>2, <1>7 DEF InHand, i, n
  <2>2. reader.command = Files[e][m + 3]
    BY <1>5, <1>7, <2>1
  <2>3. \A j \in 1 .. L : Files[e][j + 2].is \in Directions \cup {"R", "C", "T"}
    BY FileIs DEF L
  <2>4. reader.command.is # ""
    BY <1>4, <1>7, <2>2, <2>3 DEF Directions
  <2>5. More
    <3>1. reader.read = 1
      BY <2>1, <2>4
    <3> QED
      BY <3>1 DEF More
  <2> QED
    BY <1>1, <1>7, <2>2, <2>5 DEF m, L, i, n
<1> QED
  BY <1>3, <1>6, <1>7

LEMMA Appended ==
  ASSUME NEW S, NEW s \in Seq(S), NEW x
  PROVE  LET t == s \o <<x>> IN
         /\ Len(t) = Len(s) + 1 /\ t[Len(s) + 1] = x
         /\ \A j \in 1 .. Len(s) : t[j] = s[j]
<1> DEFINE Z == S \cup {x}
           n == Len(s)
           t == s \o <<x>>
<1>1. s \in Seq(Z) /\ <<x>> \in Seq(Z) /\ Len(<<x>>) = 1 /\ n \in Nat
  <2>1. S \subseteq Z
    OBVIOUS
  <2>2. s \in Seq(Z)
    BY <2>1, SeqMonotonic
  <2>3. x \in Z
    OBVIOUS
  <2> HIDE DEF Z
  <2> QED
    BY <2>2, <2>3, LenProperties
<1> HIDE DEF Z
<1>2. /\ Len(t) = n + 1
      /\ \A j \in 1 .. n + 1 : t[j] = IF j <= n THEN s[j] ELSE <<x>>[j - n]
  BY <1>1, ConcatProperties
<1> HIDE DEF t, n
<1>3. n + 1 \in 1 .. n + 1 /\ ~(n + 1 <= n) /\ n + 1 - n = 1
      /\ \A j \in 1 .. n : j \in 1 .. n + 1 /\ j <= n
  BY <1>1
<1> QED
  BY <1>2, <1>3 DEF t, n

LEMMA MovesStep ==
  ASSUME TypesOK, MovesLine, Sound(Now), MovesRead PROVE MovesRead'
<1> DEFINE e == FileOf
           k == KthOf
           q == players[who]
           m == Len(q.moves)
<1>1. /\ pc = "moves" /\ More /\ reader' = read_line(reader)
      /\ players' = [players EXCEPT ![who].moves = @ \o Kept]
      /\ UNCHANGED <<filenames, level, comment, board, content, dots, portals, who>>
  BY DEF MovesLine, grid
<1>2. Now' = Now /\ It' = It /\ Plane' = Plane /\ \A text : CommentAfter(text)' = CommentAfter(text)
  BY <1>1, SameLevel
<1>3. /\ FieldRead /\ BoardRead /\ Settled(Now, who, players) /\ Opens(who)
      /\ Places(Now, 0 .. who, players, content)
      /\ who > 0 => Taken(e, k, q, reader)
  BY DEF MovesRead, FieldRead
<1>4. e \in Sings /\ Clear(Files[e], 2) /\ comment \in Nat /\ k = CommentAfter(Files[e])
      /\ who \in 0 .. Len(It.mons) /\ DOMAIN players = 0 .. Len(It.mons) /\ Len(It.mons) \in Nat
  BY <1>1, <1>3, OfWhom DEF TypesOK, KthOf
<1>5. who \in DOMAIN players /\ DOMAIN q = {"pos", "passo", "waiting", "moves", "cursor"}
      /\ q.moves \in Seq(MoveType)
  BY <1>4 DEF TypesOK, PlayerOK
<1> DEFINE z == players'[who]
<1>6. /\ DOMAIN players' = DOMAIN players /\ z.moves = q.moves \o Kept
      /\ z.pos = q.pos /\ z.passo = q.passo /\ z.waiting = q.waiting
      /\ \A p \in DOMAIN players : p # who => players'[p] = players[p]
  BY <1>1, <1>5
<1>7. FileOf' = e /\ KthOf' = k /\ Opens(who)' /\ FieldRead'
  BY <1>1, <1>2, <1>3, <1>6
     DEF FileOf, KthOf, NameOf, CommentAfter, FieldRead, BoardRead, Cells, Opens
<1>8. Settled(Now, who, players')
  <2>1. \A g \in 1 .. who - 1 : g \in DOMAIN players /\ g # who
    <3>1. \A n \in Nat : \A p \in 0 .. n : \A g \in 1 .. p - 1 : g \in 0 .. n /\ g # p
      OBVIOUS
    <3> QED
      BY <1>4, <3>1
  <2>2. \A p \in 0 .. Len(It.mons) : p > who => p \in DOMAIN players /\ p # who
    <3>1. \A n \in Nat : \A p, g \in 0 .. n : g > p => g # p
      OBVIOUS
    <3> QED
      BY <1>4, <3>1
  <2> QED
    BY <1>3, <1>6, <2>1, <2>2 DEF Settled, It
<1>9. Places(Now, 0 .. who, players', content)
  <2>1. \A p \in 0 .. who : p \in DOMAIN players
    <3>1. \A n \in Nat : \A p \in 0 .. n : 0 .. p \subseteq 0 .. n
      OBVIOUS
    <3> QED
      BY <1>4, <3>1
  <2>2. \A p \in 0 .. who : players'[p].pos = players[p].pos
    BY <1>6, <2>1
  <2> QED
    BY <1>3, <2>2, PlacesSame
<1>10. ASSUME who > 0 PROVE Taken(e, k, z, reader')
  <2>1. /\ m \in Nat /\ m + 1 \in 1 .. Len(Orders[e]) /\ 4 + m \in 1 .. Len(Files[e]) + 1
        /\ reader.command = Files[e][m + 3] /\ Taken(e, k, q, reader)
    BY <1>1, <1>3, <1>4, <1>5, <1>10, MovesHas
  <2> DEFINE line == Files[e][m + 3]
  <2>n. (m + 1) + 2 = m + 3 /\ 4 + m + 1 = 4 + (m + 1)
    <3> HIDE DEF m
    <3> QED
      BY <2>1
  <2>2. /\ Orders[e][m + 1] = [command |-> line.is,
                               turns |-> IF line.is = "T" THEN line.args[1] ELSE 1]
        /\ \/ line.is \in Directions \cup {"R", "C"}
           \/ line.is = "T" /\ line.args # <<>> /\ line.args[1] \in Nat \ {0}
        /\ Files[e][3].is # "T"
    <3> HIDE DEF m
    <3>1. /\ Orders[e] = [j \in 1 .. Len(Orders[e]) |->
              [command |-> Files[e][j + 2].is,
               turns |-> IF Files[e][j + 2].is = "T" THEN Files[e][j + 2].args[1] ELSE 1]]
          /\ \A j \in 1 .. Len(Orders[e]) :
              \/ Files[e][j + 2].is \in Directions \cup {"R", "C"}
              \/ /\ Files[e][j + 2].is = "T" /\ Files[e][j + 2].args # <<>>
                 /\ Files[e][j + 2].args[1] \in Nat \ {0}
          /\ Files[e][3].is # "T"
      BY <1>4, FileIs
    <3> QED
      BY <2>1, <2>n, <3>1
  <2>3. Word = line.is /\ Args = line.args
    BY <2>1 DEF Word, Args
  <2>4. Kept = <<Orders[e][m + 1]>>
    <3>1. who # 0
      BY <1>10
    <3>2. CASE line.is \in Directions \cup {"R", "C"}
      <4>1. Word \in Letters(who) /\ Word # "T"
        BY <2>3, <3>1, <3>2 DEF Letters, Directions
      <4> QED
        BY <2>2, <2>3, <4>1 DEF Kept
    <3>3. CASE line.is = "T" /\ line.args # <<>> /\ line.args[1] \in Nat \ {0}
      <4>1. Word = "T" /\ Args # <<>> /\ Args[1] > 0 /\ Args[1] = line.args[1]
        BY <2>3, <3>3
      <4>2. ~reader.cut
        <5>1. ASSUME reader.cut PROVE FALSE
          <6>1. m = 0
            BY <2>1, <5>1 DEF Taken
          <6>2. line = Files[e][3]
            <7> HIDE DEF m
            <7>1. m + 3 = 3
              BY <6>1
            <7> QED
              BY <7>1
          <6> QED
            BY <2>2, <3>3, <6>2
        <5> QED
          BY <5>1
      <4>3. Word \notin Letters(who)
        BY <4>1 DEF Letters
      <4>4. Kept = <<[command |-> "T", turns |-> Args[1]]>>
        BY <4>1, <4>2, <4>3 DEF Kept
      <4> QED
        BY <2>2, <3>3, <4>1, <4>4
    <3> QED
      BY <2>2, <3>2, <3>3
  <2>5. /\ Len(z.moves) = m + 1 /\ z.moves[m + 1] = Orders[e][m + 1]
        /\ \A j \in 1 .. m : z.moves[j] = q.moves[j]
    BY <1>5, <1>6, <2>4, Appended
  <2>6. reader \in ReaderType /\ Len(Files[e]) \in Nat
    BY <1>4, FileIs DEF TypesOK
  <2>7. InHand(Files[e], k, 4 + (m + 1), reader')
    <3>1. InHand(Files[e], k, 4 + m, reader)
      BY <2>1 DEF Taken
    <3>2. InHand(Files[e], k, 4 + m + 1, reader')
      BY <1>1, <2>1, <2>6, <3>1, NextRead
    <3> QED
      BY <2>n, <3>2
  <2>8. ~reader'.cut
    BY <1>1, <2>6 DEF read_line, ReaderType
  <2>9. \A j \in 1 .. m + 1 : z.moves[j] = Orders[e][j]
    <3>1. \A j \in 1 .. m + 1 : j \in 1 .. m \/ j = m + 1
      <4> HIDE DEF m
      <4> QED
        BY <2>1
    <3>2. \A j \in 1 .. m : q.moves[j] = Orders[e][j]
      BY <2>1 DEF Taken
    <3> QED
      BY <2>5, <3>1, <3>2
  <2>10. Paced(z, e)
    BY <1>6, <2>1 DEF Taken, Paced
  <2>11. m + 1 <= Len(Orders[e])
    <3> HIDE DEF m
    <3>1. \A n \in Nat, j \in Int : j \in 1 .. n => j <= n
      OBVIOUS
    <3>2. Len(Orders[e]) \in Nat
      <4>1. Len(Orders[e]) \in 1 .. MaxMoves
        BY <1>4, FileIs
      <4> QED
        BY <4>1
    <3> QED
      BY <2>1, <3>1, <3>2
  <2> HIDE DEF m, z, q, e, k
  <2> QED
    BY <2>5, <2>7, <2>8, <2>9, <2>10, <2>11 DEF Taken
<1>w. Within(e, k, reader')
  <2>1. PICK i \in 4 .. Len(Files[e]) + 2 : InHand(Files[e], k, i, reader)
    BY DEF MovesRead, Within
  <2>2. i \in 1 .. Len(Files[e]) + 1 /\ i + 1 \in 4 .. Len(Files[e]) + 2
    BY <1>1, <1>4, <2>1, OrderInHand
  <2>3. reader \in ReaderType /\ Len(Files[e]) \in Nat
    BY <1>4, FileIs DEF TypesOK
  <2>4. InHand(Files[e], k, i + 1, reader')
    BY <1>1, <2>1, <2>2, <2>3, NextRead
  <2> QED
    BY <2>2, <2>4 DEF Within
<1> HIDE DEF e, k
<1>11. /\ Within(FileOf', KthOf', reader')
       /\ Settled(Now', who', players') /\ Places(Now', 0 .. who', players', content')
       /\ who' > 0 => Taken(FileOf', KthOf', players'[who'], reader')
  BY <1>1, <1>2, <1>7, <1>8, <1>9, <1>10, <1>w
<1> QED
  BY <1>7, <1>11 DEF MovesRead

LEMMA MovesOver ==
  ASSUME TypesOK, MovesEnd, Sound(Now), MovesRead PROVE Entities'
<1> DEFINE e == FileOf
           k == KthOf
           q == players[who]
           m == Len(q.moves)
<1>1. /\ pc = "moves" /\ ~(More /\ Room(q.moves)) /\ who' = who + 1
      /\ UNCHANGED <<filenames, level, comment, reader, board, content, dots, portals, players>>
  BY DEF MovesEnd, grid
<1>2. Now' = Now /\ It' = It /\ Plane' = Plane
  BY <1>1, SameLevel
<1>3. /\ FieldRead /\ BoardRead /\ Settled(Now, who, players) /\ Opens(who)
      /\ Places(Now, 0 .. who, players, content)
      /\ who > 0 => Taken(e, k, q, reader)
  BY DEF MovesRead, FieldRead
<1>4. e \in Sings /\ Clear(Files[e], 2) /\ comment \in Nat /\ k = CommentAfter(Files[e])
      /\ who \in 0 .. Len(It.mons) /\ DOMAIN players = 0 .. Len(It.mons) /\ Len(It.mons) \in Nat
      /\ (who > 0 => e = It.mons[who])
  BY <1>1, <1>3, OfWhom DEF TypesOK, KthOf
<1>5. q.moves \in Seq(MoveType)
  <2>1. who \in DOMAIN players
    BY <1>4
  <2> QED
    BY <2>1 DEF TypesOK, PlayerOK
<1>6. ASSUME who > 0 PROVE q.moves = Orders[e] /\ Paced(q, e)
  <2>1. Taken(e, k, q, reader)
    BY <1>3, <1>6
  <2>2. /\ m \in Nat /\ ~More => m = Len(Orders[e])
        /\ More => m + 1 \in 1 .. Len(Orders[e])
    BY <1>4, <1>5, <2>1, MovesHas
  <2>3. ~More
    <3>1. SUFFICES ASSUME More PROVE FALSE
      OBVIOUS
    <3>2. m + 1 \in 1 .. Len(Orders[e]) /\ Len(Orders[e]) \in 1 .. MaxMoves /\ MaxMoves \in Nat
      BY <1>4, <2>2, <3>1, FileIs, NumbersOK
    <3>3. ~(m < MaxMoves)
      BY <1>1, <3>1 DEF Room
    <3> DEFINE L == Len(Orders[e])
    <3>4. m + 1 \in 1 .. L /\ L \in 1 .. MaxMoves
      BY <3>2
    <3>5. m \in Nat
      BY <2>2
    <3>6. MaxMoves \in Nat
      BY <3>2
    <3> HIDE DEF m, L
    <3> QED
      BY <3>3, <3>4, <3>5, <3>6
  <2>4. Len(q.moves) = Len(Orders[e])
    BY <2>2, <2>3
  <2>5. \A j \in 1 .. Len(Orders[e]) : q.moves[j] = Orders[e][j]
    BY <2>1, <2>4 DEF Taken
  <2>6. DOMAIN q.moves = 1 .. Len(Orders[e]) /\ q.moves = [j \in DOMAIN q.moves |-> q.moves[j]]
    <3>1. q.moves \in [1 .. m -> MoveType]
      BY <1>5, LenProperties
    <3> QED
      BY <2>4, <3>1
  <2>7. Orders[e] = [j \in 1 .. Len(Orders[e]) |-> Orders[e][j]]
    <3> DEFINE L == Len(Orders[e])
               f(j) == [command |-> Files[e][j + 2].is,
                        turns |-> IF Files[e][j + 2].is = "T" THEN Files[e][j + 2].args[1] ELSE 1]
    <3>1. Orders[e] = [j \in 1 .. L |-> f(j)]
      BY <1>4, FileIs
    <3> HIDE DEF L, f
    <3> QED
      BY <3>1 DEF L
  <2>8. q.moves = Orders[e]
    BY <2>5, <2>6, <2>7
  <2> QED
    BY <2>1, <2>8 DEF Taken
<1> DEFINE w == who + 1
<1>w. who' = w /\ w = who + 1 /\ 0 .. w - 1 = 0 .. who /\ who \in Nat
  <2>1. \A n \in Nat : \A p \in 0 .. n : p + 1 - 1 = p /\ p \in Nat
    OBVIOUS
  <2> QED
    BY <1>1, <1>4, <2>1
<1> HIDE DEF k, m, q, w
<1>7. Settled(Now, w, players)
  <2>1. \A g \in 1 .. who + 1 - 1 : g \in 1 .. who - 1 \/ (g = who /\ who > 0)
    <3>1. \A n \in Nat : \A p \in 0 .. n :
            \A g \in 1 .. p + 1 - 1 : g \in 1 .. p - 1 \/ (g = p /\ p > 0)
      OBVIOUS
    <3> QED
      BY <1>4, <3>1
  <2>2. \A p \in 0 .. Len(It.mons) : p > who + 1 => p > who
    <3>1. \A n \in Nat : \A p, g \in 0 .. n : g > p + 1 => g > p
      OBVIOUS
    <3> QED
      BY <1>4, <3>1
  <2>3. /\ \A g \in 1 .. who - 1 : players[g].moves = Orders[It.mons[g]] /\ Paced(players[g], It.mons[g])
        /\ \A p \in 0 .. Len(It.mons) : p > who => players[p] = Nobody
    BY <1>3 DEF Settled, It
  <2>4. who > 0 => players[who].moves = Orders[It.mons[who]] /\ Paced(players[who], It.mons[who])
    BY <1>4, <1>6 DEF q
  <2>5. \A g \in 1 .. w - 1 :
          players[g].moves = Orders[It.mons[g]] /\ Paced(players[g], It.mons[g])
    BY <1>w, <2>1, <2>3, <2>4
  <2>6. \A p \in 0 .. Len(It.mons) : p > w => players[p] = Nobody
    BY <1>w, <2>2, <2>3
  <2> QED
    BY <2>5, <2>6 DEF Settled, It
<1>8. w <= Len(It.mons) => players[w] = Nobody
  <2>1. \A n \in Nat : \A p \in 0 .. n : p + 1 <= n => p + 1 \in 0 .. n /\ p + 1 > p
    OBVIOUS
  <2>2. who + 1 <= Len(It.mons) => who + 1 \in 0 .. Len(It.mons) /\ who + 1 > who
    BY <1>4, <2>1
  <2> QED
    BY <1>3, <1>w, <2>2 DEF Settled, It
<1>9. Places(Now, 0 .. w - 1, players, content)
  BY <1>3, <1>w
<1>10. FieldRead'
  BY <1>1, <1>2, <1>3 DEF FieldRead, BoardRead, Cells
<1>11. /\ Settled(Now', who', players') /\ Places(Now', 0 .. who' - 1, players', content')
       /\ who' <= Len(It'.mons) => players'[who'] = Nobody
  BY <1>1, <1>2, <1>7, <1>8, <1>9, <1>w
<1> QED
  BY <1>10, <1>11 DEF Entities
-----------------------------------------------------------------------------
(* The level is played.                                                    *)

LEMMA FileScript ==
  ASSUME NEW e \in Sings, NEW s, s.moves = Orders[e], s.passo = PassoOf(e),
         s.steps = Directions \cup {"R", "C"}
  PROVE  ScriptOK(s)
<1> DEFINE L == Len(Orders[e])
           f(j) == [command |-> Files[e][j + 2].is,
                    turns |-> IF Files[e][j + 2].is = "T" THEN Files[e][j + 2].args[1] ELSE 1]
<1>1. /\ L \in 1 .. MaxMoves /\ Orders[e] = [j \in 1 .. L |-> f(j)] /\ PassoOf(e) \in Nat
      /\ \A j \in 1 .. L : \/ Files[e][j + 2].is \in Directions \cup {"R", "C"}
                           \/ /\ Files[e][j + 2].is = "T" /\ Files[e][j + 2].args # <<>>
                              /\ Files[e][j + 2].args[1] \in Nat \ {0}
  BY FileIs
<1>2. L \in Nat \ {0}
  <2>1. MaxMoves \in Nat
    BY NumbersOK
  <2> HIDE DEF L
  <2> QED
    BY <1>1, <2>1
<1>3. ASSUME NEW j \in 1 .. L
      PROVE  /\ Orders[e][j].turns \in Nat \ {0}
             /\ Orders[e][j].command = "T" \/ Orders[e][j].command \in Directions \cup {"R", "C"}
  <2>1. Orders[e][j] = f(j)
    BY <1>1
  <2>2. \/ Files[e][j + 2].is \in Directions \cup {"R", "C"} /\ Files[e][j + 2].is # "T"
        \/ /\ Files[e][j + 2].is = "T" /\ Files[e][j + 2].args[1] \in Nat \ {0}
    BY <1>1 DEF Directions
  <2> QED
    BY <2>1, <2>2
<1> HIDE DEF L
<1> QED
  BY <1>1, <1>2, <1>3 DEF ScriptOK, L

\* A ghost of a complete level, once it is read.
LEMMA ReadyIs ==
  ASSUME TypesOK, Ready, Sound(Now), Entities
  PROVE  /\ who = Len(It.mons) + 1
         /\ \A g \in 1 .. Len(It.mons) :
              /\ It.mons[g] \in Sings
              /\ players'[g].moves = Orders[It.mons[g]] /\ players'[g].pos = players[g].pos
              /\ players'[g].passo = PassoOf(It.mons[g])
              /\ players'[g].cursor = Start(Script(g)', PassoOf(It.mons[g]))
<1>1. /\ pc = "entity" /\ who \notin DOMAIN players
      /\ players' = [p \in DOMAIN players |->
           [players[p] EXCEPT !.cursor = Start(Script(p), players[p].waiting)]]
  BY DEF Ready
<1>2. /\ Len(It.mons) \in Nat /\ who \in 0 .. Len(It.mons) + 1 /\ DOMAIN players = 0 .. Len(It.mons)
  BY <1>1, OfWhom DEF Entities, FieldRead
<1>3. who = Len(It.mons) + 1
  <2> DEFINE n == Len(It.mons)
  <2>1. n \in Nat /\ who \in 0 .. n + 1 /\ who \notin 0 .. n
    BY <1>1, <1>2
  <2> HIDE DEF n
  <2>2. who = n + 1
    BY <2>1
  <2> QED
    BY <2>2 DEF n
<1>4. ASSUME NEW g \in 1 .. Len(It.mons)
      PROVE  /\ It.mons[g] \in Sings
             /\ players'[g].moves = Orders[It.mons[g]] /\ players'[g].pos = players[g].pos
             /\ players'[g].passo = PassoOf(It.mons[g])
             /\ players'[g].cursor = Start(Script(g)', PassoOf(It.mons[g]))
  <2> DEFINE e == It.mons[g]
             q == players[g]
             z == players'[g]
  <2>1. e \in Range(It.mons) /\ e \in Sings
    BY SoundSize
  <2>2. g \in 1 .. who - 1
    <3>1. \A n \in Nat : n + 1 - 1 = n
      OBVIOUS
    <3> QED
      BY <1>2, <1>3, <3>1
  <2>3. q.moves = Orders[e] /\ Paced(q, e)
    BY <2>2 DEF Entities, Settled, It
  <2>4. g \in DOMAIN players
    <3>1. \A n \in Nat : \A j \in 1 .. n : j \in 0 .. n
      OBVIOUS
    <3> QED
      BY <1>2, <3>1
  <2>5. DOMAIN q = {"pos", "passo", "waiting", "moves", "cursor"}
    BY <2>4 DEF TypesOK, PlayerOK
  <2>6. z = [q EXCEPT !.cursor = Start(Script(g), q.waiting)]
    BY <1>1, <2>4
  <2>7. z.moves = q.moves /\ z.passo = q.passo /\ z.pos = q.pos
        /\ z.cursor = Start(Script(g), q.waiting)
    BY <2>5, <2>6
  <2>8. Script(g)' = Script(g)
    BY <2>7 DEF Script
  <2> QED
    BY <2>1, <2>3, <2>7, <2>8 DEF Paced
<1> QED
  BY <1>3, <1>4

LEMMA ReadyStep ==
  ASSUME TypesOK, Ready, Sound(Now), Entities PROVE InPlay'
<1>1. UNCHANGED <<filenames, level, board>>
  BY DEF Ready
<1>2. Now' = Now /\ It' = It
  BY <1>1 DEF Now, It
<1>3. BoardRead'
  BY <1>1, <1>2 DEF Entities, FieldRead, BoardRead
<1>4. ASSUME NEW g \in 1 .. Len(It.mons)
      PROVE  /\ players'[g].moves = Orders[It.mons[g]] /\ players'[g].passo = PassoOf(It.mons[g])
             /\ CursorOK(Script(g)', players'[g].cursor)
  <2> DEFINE e == It.mons[g]
             s == Script(g)'
             c == players'[g].cursor
  <2>1. /\ e \in Sings /\ players'[g].moves = Orders[e] /\ players'[g].passo = PassoOf(e)
        /\ c = Start(s, PassoOf(e))
    BY ReadyIs
  <2>2. s.moves = Orders[e] /\ s.passo = PassoOf(e) /\ s.steps = Directions \cup {"R", "C"}
    BY <2>1 DEF Script
  <2> HIDE DEF s, c
  <2>3. ScriptOK(s)
    BY <2>1, <2>2, FileScript
  <2>4. PassoOf(e) \in 0 .. s.passo
    BY <2>2, <2>3 DEF ScriptOK
  <2>5. CursorOK(s, c)
    BY <2>1, <2>3, <2>4, StartsAt
  <2> QED
    BY <2>1, <2>5 DEF s, c
<1> QED
  BY <1>2, <1>3, <1>4 DEF InPlay

\* A turn moves one ghost's cursor, and nothing else.
LEMMA TurnIs ==
  ASSUME TypesOK, NEW g \in Ghosts, GhostTurn(g)
  PROVE  /\ UNCHANGED <<pc, filenames, level, board, DOMAIN players>> /\ pc = "play"
         /\ \A p \in DOMAIN players :
              /\ Script(p)' = Script(p) /\ players'[p].moves = players[p].moves
              /\ players'[p].passo = players[p].passo
              /\ players'[p].cursor = IF p = g THEN Tick(Script(g), players[g].cursor)
                                      ELSE players[p].cursor
<1>1. /\ players' = [players EXCEPT ![g].cursor = Tick(Script(g), @)] /\ g \in DOMAIN players
  BY DEF GhostTurn, Ghosts
<1>2. DOMAIN players' = DOMAIN players
  BY <1>1
<1>3. ASSUME NEW p \in DOMAIN players
      PROVE  /\ players'[p].moves = players[p].moves /\ players'[p].passo = players[p].passo
             /\ players'[p].cursor = IF p = g THEN Tick(Script(g), players[g].cursor)
                                     ELSE players[p].cursor
  <2>1. DOMAIN players[p] = {"pos", "passo", "waiting", "moves", "cursor"}
    BY DEF TypesOK, PlayerOK
  <2>2. CASE p = g
    <3>1. players'[g] = [players[g] EXCEPT !.cursor = Tick(Script(g), @)]
      BY <1>1
    <3> QED
      BY <2>1, <2>2, <3>1
  <2>3. CASE p # g
    BY <1>1, <2>3
  <2> QED
    BY <2>2, <2>3
<1> QED
  BY <1>2, <1>3 DEF GhostTurn, Script

LEMMA PlayStep ==
  ASSUME TypesOK, NEW h \in Ghosts, GhostTurn(h), Sound(Now), InPlay PROVE InPlay'
<1>1. /\ UNCHANGED <<filenames, level, board>> /\ pc = "play"
      /\ \A p \in DOMAIN players :
              /\ Script(p)' = Script(p) /\ players'[p].moves = players[p].moves
              /\ players'[p].passo = players[p].passo
              /\ players'[p].cursor = IF p = h THEN Tick(Script(h), players[h].cursor)
                                      ELSE players[p].cursor
  BY TurnIs
<1>2. Now' = Now /\ It' = It
  BY <1>1 DEF Now, It
<1>3. BoardRead'
  BY <1>1, <1>2 DEF InPlay, BoardRead
<1>4. ASSUME NEW g \in 1 .. Len(It.mons)
      PROVE  /\ players'[g].moves = Orders[It.mons[g]] /\ players'[g].passo = PassoOf(It.mons[g])
             /\ CursorOK(Script(g)', players'[g].cursor)
  <2> DEFINE e == It.mons[g]
             s == Script(g)
             c == players[g].cursor
  <2>1. players[g].moves = Orders[e] /\ players[g].passo = PassoOf(e) /\ CursorOK(s, c)
    BY DEF InPlay
  <2>2. e \in Sings
    <3>1. e \in Range(It.mons)
      BY SoundSize
    <3> QED
      BY <3>1, SoundSize
  <2>3. g \in DOMAIN players
    <3>1. DOMAIN players = 0 .. Len(It.mons)
      BY <1>1 DEF InPlay, BoardRead, TypesOK
    <3>2. Len(It.mons) \in Nat
      BY SoundSize, SequenceIs
    <3>3. \A n \in Nat : \A j \in 1 .. n : j \in 0 .. n
      OBVIOUS
    <3> QED
      BY <3>1, <3>2, <3>3
  <2>4. s.moves = Orders[e] /\ s.passo = PassoOf(e) /\ s.steps = Directions \cup {"R", "C"}
    BY <2>1 DEF Script
  <2>5. ScriptOK(s)
    BY <2>2, <2>4, FileScript
  <2>6. CursorOK(s, Tick(s, c))
    BY <2>1, <2>5, CursorKept
  <2> QED
    BY <1>1, <2>1, <2>3, <2>6
<1> QED
  BY <1>2, <1>3, <1>4 DEF InPlay
-----------------------------------------------------------------------------
(* While a complete level is read, and played, what has been read of it is *)
(* what its files say.                                                     *)

LEMMA NothingRead ==
  ASSUME UNCHANGED vars, LevelRead PROVE LevelRead'
<1>1. UNCHANGED <<pc, filenames, level, comment, reader, board, content, dots, portals, row, who, players>>
  BY DEF vars, grid
<1>2. /\ Now' = Now /\ Text' = Text /\ Kth' = Kth /\ First' = First /\ It' = It /\ Plane' = Plane
      /\ (Sound(Now)' <=> Sound(Now))
  BY <1>1, SameLevel
<1>3. FileOf' = FileOf /\ KthOf' = KthOf /\ Cells' = Cells /\ (Opens(who)' <=> Opens(who))
  BY <1>1 DEF FileOf, KthOf, NameOf, CommentAfter, Cells, Opens
<1>4. (BoardRead' <=> BoardRead) /\ (FieldRead' <=> FieldRead)
  BY <1>1, <1>2, <1>3 DEF BoardRead, FieldRead
<1>5. HeaderRead => HeaderRead'
  BY <1>1, <1>2 DEF HeaderRead
<1>6. RowsRead => RowsRead'
  BY <1>1, <1>2, <1>3, <1>4 DEF RowsRead
<1>7. Entities => Entities'
  BY <1>1, <1>2, <1>4 DEF Entities
<1>8. HeadRead => HeadRead'
  BY <1>1, <1>2, <1>3, <1>4 DEF HeadRead
<1>9. MovesRead => MovesRead'
  BY <1>1, <1>2, <1>3, <1>4 DEF MovesRead
<1>10. InPlay => InPlay'
  BY <1>1, <1>2, <1>4 DEF InPlay, Script
<1> QED
  BY <1>1, <1>2, <1>5, <1>6, <1>7, <1>8, <1>9, <1>10 DEF LevelRead

LEMMA LevelKept == TypesOK /\ LevelRead /\ [Next]_vars => LevelRead'
<1> SUFFICES ASSUME TypesOK, LevelRead, [Next]_vars PROVE LevelRead'
  OBVIOUS
<1>1. CASE UNCHANGED vars
  BY <1>1, NothingRead
<1>2. ASSUME pc' \notin {"header", "grid", "entity", "head", "moves", "play"} PROVE LevelRead'
  BY <1>2 DEF LevelRead
<1>3. ASSUME UNCHANGED <<filenames, level, comment>>, ~Sound(Now) PROVE LevelRead'
  <2>1. ~Sound(Now)'
    BY <1>3, SameLevel
  <2> QED
    BY <2>1 DEF LevelRead
<1>4. CASE Reads
  <2>1. UNCHANGED <<filenames, level, comment>>
    BY <1>4 DEF Reads, OpenLevel, HeaderLine, HeaderEnds, NoDimensions, GridLine, GridEnds,
                PacmanByDefault, OpenEntity, EntityFails, HeadLine, HeadEnds,
                MovesLine, MovesEnd, Ready
  <2>2. CASE ~Sound(Now)
    BY <1>3, <2>1, <2>2
  <2>3. CASE Sound(Now)
    <3>1. CASE OpenLevel
      <4>1. HeaderRead' /\ pc' = "header"
        BY <2>3, <3>1, OpenStep DEF OpenLevel
      <4> QED
        BY <4>1 DEF LevelRead
    <3>2. CASE HeaderLine
      <4>1. HeaderRead' /\ pc' = "header"
        BY <2>3, <3>2, HeaderStep DEF LevelRead, HeaderLine
      <4> QED
        BY <4>1 DEF LevelRead
    <3>3. CASE HeaderEnds
      <4>1. RowsRead' /\ pc' = "grid"
        BY <2>3, <3>3, GridBegins DEF LevelRead, HeaderEnds
      <4> QED
        BY <4>1 DEF LevelRead
    <3>4. CASE NoDimensions
      <4>1. pc' \in {"refused", "crashed"}
        BY <3>4 DEF NoDimensions
      <4> QED
        BY <1>2, <4>1
    <3>5. CASE GridLine
      <4>1. RowsRead' /\ pc' = "grid"
        BY <2>3, <3>5, GridStep DEF LevelRead, GridLine
      <4> QED
        BY <4>1 DEF LevelRead
    <3>6. CASE GridEnds
      <4>1. Entities' /\ pc' = "entity"
        BY <2>3, <3>6, GridOver DEF LevelRead, GridEnds
      <4> QED
        BY <4>1 DEF LevelRead
    <3>7. CASE PacmanByDefault
      <4>1. Entities' /\ pc' = "entity"
        BY <2>3, <3>7, DefaultStep DEF LevelRead, PacmanByDefault
      <4> QED
        BY <4>1 DEF LevelRead
    <3>8. CASE OpenEntity
      <4>1. HeadRead' /\ pc' = "head"
        BY <2>3, <3>8, EntityStep DEF LevelRead, OpenEntity
      <4> QED
        BY <4>1 DEF LevelRead
    <3>9. CASE EntityFails
      <4>1. Entities
        BY <2>3, <3>9 DEF LevelRead, EntityFails
      <4> QED
        BY <2>3, <3>9, <4>1, NoEntityFails
    <3>10. CASE HeadLine
      <4>1. HeadRead' /\ pc' = "head"
        BY <2>3, <3>10, HeadStep DEF LevelRead, HeadLine
      <4> QED
        BY <4>1 DEF LevelRead
    <3>11. CASE HeadEnds
      <4>1. MovesRead' /\ pc' = "moves"
        BY <2>3, <3>11, HeadOver DEF LevelRead, HeadEnds
      <4> QED
        BY <4>1 DEF LevelRead
    <3>12. CASE MovesLine
      <4>1. MovesRead' /\ pc' = "moves"
        BY <2>3, <3>12, MovesStep DEF LevelRead, MovesLine
      <4> QED
        BY <4>1 DEF LevelRead
    <3>13. CASE MovesEnd
      <4>1. Entities' /\ pc' = "entity"
        BY <2>3, <3>13, MovesOver DEF LevelRead, MovesEnd
      <4> QED
        BY <4>1 DEF LevelRead
    <3>14. CASE Ready
      <4>1. InPlay' /\ pc' = "play"
        BY <2>3, <3>14, ReadyStep DEF LevelRead, Ready
      <4> QED
        BY <4>1 DEF LevelRead
    <3> QED
      BY <1>4, <3>1, <3>2, <3>3, <3>4, <3>5, <3>6, <3>7, <3>8, <3>9, <3>10, <3>11, <3>12,
         <3>13, <3>14 DEF Reads
  <2> QED
    BY <2>2, <2>3
<1>5. CASE unload_level
  <2>1. pc' = "level"
    BY <1>5 DEF unload_level
  <2> QED
    BY <1>2, <2>1
<1>6. ASSUME NEW g \in Ghosts, GhostTurn(g) PROVE LevelRead'
  <2>1. UNCHANGED <<filenames, level, comment>> /\ pc = "play" /\ pc' = "play"
    BY <1>6 DEF GhostTurn
  <2>2. CASE ~Sound(Now)
    BY <1>3, <2>1, <2>2
  <2>3. CASE Sound(Now)
    <3>1. InPlay
      BY <2>1, <2>3 DEF LevelRead
    <3>2. InPlay'
      BY <1>6, <2>3, <3>1, PlayStep
    <3> QED
      BY <2>1, <3>2 DEF LevelRead
  <2> QED
    BY <2>2, <2>3
<1>7. ASSUME NEW g \in Ghosts, GhostDivides(g) PROVE LevelRead'
  <2>1. pc' = "crashed"
    BY <1>7 DEF GhostDivides
  <2> QED
    BY <1>2, <2>1
<1> QED
  BY <1>1, <1>4, <1>5, <1>6, <1>7 DEF Next

LEMMA LevelInvariant == Spec => [](TypesOK /\ LevelRead)
<1>1. Init => TypesOK /\ LevelRead
  <2>1. Init => LevelRead
    BY DEF Init, LevelRead
  <2> QED
    BY <2>1, InitTypes
<1>2. TypesOK /\ LevelRead /\ [Next]_vars => (TypesOK /\ LevelRead)'
  BY TypesKept, LevelKept
<1> QED
  BY <1>1, <1>2, PTL DEF Spec
-----------------------------------------------------------------------------
LEMMA ReadyWrites ==
  ASSUME TypesOK, Ready, Sound(Now), Entities PROVE Written'
<1>1. /\ UNCHANGED <<filenames, level, comment, board, content, dots, portals>>
      /\ players' = [p \in DOMAIN players |->
           [players[p] EXCEPT !.cursor = Start(Script(p), players[p].waiting)]]
  BY DEF Ready, grid
<1>2. Now' = Now
  BY <1>1 DEF Now
<1> DEFINE n == Len(It.mons)
           all == CellsOf(Now, {"X", "o", "@"})
           free == CellsOf(Now, {"o", "@"})
           walls == CellsOf(Now, {"X"})
           starts == {players'[p].pos : p \in DOMAIN players'}
<1>3. /\ who = n + 1 /\ \A g \in 1 .. n : players'[g].moves = Orders[It.mons[g]]
      /\ n \in Nat /\ DOMAIN players = 0 .. n /\ DOMAIN It.mons = 1 .. n
  <2>1. DOMAIN players = 0 .. n /\ n \in Nat
    BY OfWhom DEF Ready, Entities, FieldRead
  <2> QED
    BY <2>1, ReadyIs, SoundSize
<1>4. /\ Cells = Plane /\ dots = CellsOf(Now, {"o"}) /\ portals = CellsOf(Now, {"@"})
      /\ Places(Now, DOMAIN players, players, content)
  <2>1. 0 .. who - 1 = DOMAIN players
    <3>1. \A m \in Nat : m + 1 - 1 = m
      OBVIOUS
    <3> QED
      BY <1>3, <3>1
  <2> QED
    BY <2>1 DEF Entities, FieldRead
<1>5. DOMAIN players' = DOMAIN players
      /\ \A p \in DOMAIN players : players'[p].pos = players[p].pos
  <2>1. ASSUME NEW p \in DOMAIN players PROVE players'[p].pos = players[p].pos
    <3>1. DOMAIN players[p] = {"pos", "passo", "waiting", "moves", "cursor"}
      BY DEF TypesOK, PlayerOK
    <3> QED
      BY <1>1, <3>1
  <2> QED
    BY <1>1, <2>1
<1>6. /\ \A c \in all : IF \E p \in DOMAIN players : players[p].pos = c
                        THEN content[c] \in {"P", "M"} ELSE content[c] = Ground(Now, c)
      /\ \A p \in DOMAIN players : WellPlaced(Now, p, players, content)
  BY <1>4 DEF Places
<1>7. /\ all = Plane /\ free \cup walls = Plane /\ walls = {c \in Plane : Shown(Now, c) = "X"}
  <2>1. /\ all = {c \in Plane : Shown(Now, c) \in {"X", "o", "@"}}
        /\ free = {c \in Plane : Shown(Now, c) \in {"o", "@"}}
        /\ walls = {c \in Plane : Shown(Now, c) \in {"X"}}
    BY PlaneIs
  <2>2. \A c \in Plane : Shown(Now, c) \in {"X", "o", "@"}
    BY PlaneIs
  <2> HIDE DEF all, free, walls
  <2> QED
    BY <2>1, <2>2
<1>8. {c \in Cells : content[c] = "W"} = walls \ starts
  <2>1. \A c : c \in starts <=> \E p \in DOMAIN players : players[p].pos = c
    BY <1>5
  <2> HIDE DEF starts, all, walls
  <2>2. ASSUME NEW c \in Plane PROVE content[c] = "W" <=> c \in walls /\ c \notin starts
    BY <1>6, <1>7, <2>1 DEF Ground
  <2> QED
    BY <1>4, <1>7, <2>2
<1>9. ASSUME NEW g \in 1 .. n
      PROVE  players'[g].pos = PosOf(It.mons[g]) /\ content[PosOf(It.mons[g])] = "M"
  <2>1. \A m \in Nat : \A j \in 1 .. m : j \in 0 .. m /\ j > 0
    OBVIOUS
  <2>2. g \in DOMAIN players /\ g > 0
    BY <1>3, <2>1
  <2>3. WellPlaced(Now, g, players, content)
    BY <1>6, <2>2
  <2> QED
    BY <1>5, <2>2, <2>3 DEF WellPlaced, It
<1>10. IF It.pac # <<>> THEN players'[0].pos = PosOf(It.pac[1])
       ELSE FirstOf(players'[0].pos, free)
  <2>1. \A m \in Nat : 0 \in 0 .. m
    OBVIOUS
  <2>2. 0 \in DOMAIN players /\ ~(0 > 0)
    BY <1>3, <2>1
  <2>3. WellPlaced(Now, 0, players, content)
    BY <1>6, <2>2
  <2> QED
    BY <1>5, <2>2, <2>3 DEF WellPlaced, It
<1>11. Cells' = Plane /\ content' = content /\ dots' = dots /\ portals' = portals
  BY <1>1, <1>4 DEF Cells
<1>12. starts = {players[p].pos : p \in DOMAIN players}'
  OBVIOUS
<1>13. {c \in Cells : content[c] = "W"}' = {c \in Cells : content[c] = "W"}
  BY <1>4, <1>11
<1>14. /\ Cells' = CellsOf(Now', {"o", "@"}) \cup CellsOf(Now', {"X"})
       /\ {c \in Cells : content[c] = "W"}' = CellsOf(Now', {"X"}) \ {players[p].pos : p \in DOMAIN players}'
       /\ dots' = CellsOf(Now', {"o"}) /\ portals' = CellsOf(Now', {"@"})
  BY <1>2, <1>4, <1>7, <1>8, <1>11, <1>12, <1>13
<1>15. /\ DOMAIN players' = 0 .. Len(Of[Now'].mons)
       /\ \A g \in DOMAIN Of[Now'].mons : /\ players'[g].pos = PosOf(Of[Now'].mons[g])
                                          /\ players'[g].moves = Orders[Of[Now'].mons[g]]
                                          /\ content'[PosOf(Of[Now'].mons[g])] = "M"
  BY <1>2, <1>3, <1>5, <1>9, <1>11 DEF It
<1>16. IF Of[Now'].pac # <<>> THEN players'[0].pos = PosOf(Of[Now'].pac[1])
       ELSE FirstOf(players'[0].pos, CellsOf(Now', {"o", "@"}))
  BY <1>2, <1>10 DEF It
<1> HIDE DEF n, all, free, walls, starts
<1> QED
  BY <1>14, <1>15, <1>16 DEF Written, FirstOf

\* load_level: a complete level is played as its files have it, whatever the
\* level before it left on the board, of all the levels there may be.
THEOREM LevelTheorem == Spec => LevelAsWritten
<1>1. TypesOK /\ LevelRead /\ [Next]_vars
        => [pc' = "play" /\ pc # "play" /\ Sound(Now) => Written']_vars
  <2> SUFFICES ASSUME TypesOK, LevelRead, [Next]_vars, pc' = "play", pc # "play", Sound(Now)
               PROVE  Written'
    OBVIOUS
  <2>1. Ready
    BY DEF Next, Reads, OpenLevel, HeaderLine, HeaderEnds, NoDimensions, GridLine, GridEnds,
           PacmanByDefault, OpenEntity, EntityFails, HeadLine, HeadEnds, MovesLine, MovesEnd,
           unload_level, GhostTurn, GhostDivides, vars
  <2>2. Entities
    BY <2>1 DEF Ready, LevelRead
  <2> QED
    BY <2>1, <2>2, ReadyWrites
<1> QED
  BY <1>1, LevelInvariant, PTL DEF Spec, LevelAsWritten
-----------------------------------------------------------------------------
(* Every ghost of a complete level keeps the timetable of its file.        *)

LEMMA SpanIs ==
  ASSUME NEW e \in Sings, NEW s, s.moves = Orders[e], NEW j \in 1 .. Len(Orders[e])
  PROVE  Span(s, j) = Orders[e][j].turns
<1> DEFINE L == Len(Orders[e])
           f(i) == [command |-> Files[e][i + 2].is,
                    turns |-> IF Files[e][i + 2].is = "T" THEN Files[e][i + 2].args[1] ELSE 1]
<1>1. Orders[e] = [i \in 1 .. L |-> f(i)]
  BY FileIs
<1> HIDE DEF L
<1>2. Orders[e][j] = f(j)
  BY <1>1 DEF L
<1> QED
  BY <1>2 DEF Span

\* passo turns are waited before the first order.
LEMMA BeginIs ==
  ASSUME NEW e \in Sings, NEW s, s.moves = Orders[e], s.passo = PassoOf(e),
         s.steps = Directions \cup {"R", "C"}, NEW c, c = Start(s, PassoOf(e))
  PROVE  /\ CursorOK(s, c) /\ TimeOf(s, c) = Begin(e)
         /\ Issues(s, c) = IF PassoOf(e) > 0 THEN "wait" ELSE Orders[e][1].command
         /\ Issues(s, c) = Table(e)!Does(Begin(e)[1], Begin(e)[2])
<1>1. ScriptOK(s)
  BY FileScript
<1>2. PassoOf(e) \in 0 .. s.passo /\ PassoOf(e) \in Nat /\ Len(Orders[e]) \in Nat \ {0}
  BY <1>1 DEF ScriptOK
<1>3. /\ CursorOK(s, c)
      /\ PassoOf(e) = 0 => TimeOf(s, c) = <<1, 0>> /\ Issues(s, c) = Orders[e][1].command
      /\ PassoOf(e) # 0 =>
           /\ TimeOf(s, c) = <<Len(Orders[e]), Span(s, Len(Orders[e])) * (1 + PassoOf(e)) - PassoOf(e)>>
           /\ Issues(s, c) = "wait"
  BY <1>1, <1>2, StartsAt
<1>4. Span(s, Len(Orders[e])) = Orders[e][Len(Orders[e])].turns
  <2>1. \A n \in Nat \ {0} : n \in 1 .. n
    OBVIOUS
  <2> QED
    BY <1>2, <2>1, SpanIs
<1>5. TimeOf(s, c) = Begin(e)
  BY <1>3, <1>4 DEF Begin
<1>6. PassoOf(e) > 0 <=> PassoOf(e) # 0
  BY <1>2
<1>7. Issues(s, c) = IF PassoOf(e) > 0 THEN "wait" ELSE Orders[e][1].command
  BY <1>3, <1>6
<1>8. Issues(s, c) = Table(e)!Does(Begin(e)[1], Begin(e)[2])
  <2> DEFINE a == Begin(e)
  <2>1. a = TimeOf(s, c)
    BY <1>5
  <2> HIDE DEF a
  <2>2. Issues(s, c) = IF a[2] % (1 + s.passo) = 0 THEN s.moves[a[1]].command ELSE "wait"
    BY <1>1, <1>3, <2>1, DueIs
  <2>3. Issues(s, c) = Table(e)!Does(a[1], a[2])
    BY <2>2 DEF Table!Does
  <2> QED
    BY <2>3 DEF a
<1> QED
  BY <1>3, <1>5, <1>7, <1>8

\* The ghost of a file, and its script.
LEMMA GhostIs ==
  ASSUME TypesOK, LevelRead, NEW e \in Sings, Plays(e), NEW g, g = GhostOf(e)
  PROVE  /\ g \in Ghosts /\ board.mons[g] = e
         /\ Script(g).moves = Orders[e] /\ Script(g).passo = PassoOf(e)
         /\ Script(g).steps = Directions \cup {"R", "C"}
         /\ CursorOK(Script(g), players[g].cursor)
<1>1. g \in Ghosts /\ board.mons[g] = e /\ pc = "play" /\ Sound(Now)
  BY DEF Plays, GhostOf
<1>2. InPlay
  BY <1>1 DEF LevelRead
<1>3. g \in 1 .. Len(It.mons)
  <2>1. board.mons = It.mons /\ DOMAIN players = 0 .. Len(It.mons) /\ Len(It.mons) \in Nat
    BY <1>1, <1>2, SoundSize, SequenceIs DEF InPlay, BoardRead, TypesOK
  <2>2. \A n \in Nat : \A j \in 0 .. n : j # 0 => j \in 1 .. n
    OBVIOUS
  <2> QED
    BY <1>1, <2>1, <2>2 DEF Ghosts
<1>4. It.mons[g] = e
  BY <1>1, <1>2 DEF InPlay, BoardRead
<1> QED
  BY <1>1, <1>2, <1>3, <1>4 DEF InPlay, Script

LEMMA TableTurn ==
  ASSUME TypesOK, LevelRead, NEW e \in Sings, Plays(e), NEW h \in Ghosts, GhostTurn(h)
  PROVE  Table(e)!Step
<1>0. PICK g : g = GhostOf(e)
  OBVIOUS
<1> DEFINE s == Script(g)
           c == players[g].cursor
           t == players'[g].cursor
           a == TimeOf(s, c)
           z == TimeOf(s, t)
<1>1. /\ g \in Ghosts /\ s.moves = Orders[e] /\ s.passo = PassoOf(e)
      /\ s.steps = Directions \cup {"R", "C"} /\ CursorOK(s, c)
  BY <1>0, GhostIs
<1>2. /\ UNCHANGED <<pc, filenames, level, comment, board, DOMAIN players>>
      /\ Script(g)' = s /\ t = IF g = h THEN Tick(s, c) ELSE c
  BY <1>1, TurnIs DEF Ghosts, GhostTurn
<1>3. Ghosts' = Ghosts
  BY <1>2 DEF Ghosts
<1>4. Plays(e)' /\ GhostOf(e)' = g
  BY <1>0, <1>2, <1>3, SameLevel DEF Plays, GhostOf
<1>5. Time(e) = a /\ Time(e)' = z
  BY <1>0, <1>2, <1>4 DEF Time
<1>6. ScriptOK(s)
  BY <1>1, FileScript
<1> DEFINE due == IF Plays(e) THEN Issues(Script(GhostOf(e)), players[GhostOf(e)].cursor)
                  ELSE IF PassoOf(e) > 0 THEN "wait" ELSE Orders[e][1].command
<1>7. due = Issues(s, c) /\ due' = Issues(s, t)
  BY <1>0, <1>2, <1>4
<1> HIDE DEF s, c, t, a, z
<1>8. CASE g = h
  <2>1. t = Tick(s, c) /\ CursorOK(s, t)
    BY <1>1, <1>2, <1>6, <1>8, CursorKept
  <2>2. IF a[2] + 1 < Span(s, a[1]) * (1 + s.passo)
        THEN z[2] = a[2] + 1 /\ z[1] = a[1]
        ELSE z[2] = 0 /\ z[1] = (a[1] % Len(s.moves)) + 1
    BY <1>1, <1>6, <2>1, TurnTaken DEF a, z
  <2>3. Issues(s, t) = IF z[2] % (1 + s.passo) = 0 THEN s.moves[z[1]].command ELSE "wait"
    BY <1>6, <2>1, DueIs DEF z
  <2>4. Span(s, a[1]) * (1 + s.passo) = Table(e)!Turns(a[1])
    BY <1>1 DEF Span, Table!Turns
  <2>5. Issues(s, t) = Table(e)!Does(z[1], z[2])
    BY <1>1, <2>3 DEF Table!Does
  <2>6. Table(e)!Next
    BY <1>1, <1>5, <1>7, <2>2, <2>4, <2>5 DEF Table!Next
  <2> QED
    BY <2>6 DEF Table!Step
<1>9. CASE g # h
  <2>1. t = c
    BY <1>2, <1>9
  <2>2. z = a
    BY <2>1 DEF a, z
  <2> QED
    BY <1>5, <1>7, <2>1, <2>2 DEF Table!Step
<1> QED
  BY <1>8, <1>9

\* Whenever its level begins, and until it does.
LEMMA TableBegins ==
  ASSUME TypesOK, LevelRead, TypesOK', LevelRead', [Next]_vars, NEW e \in Sings,
         ~(Plays(e) /\ pc' = "play")
  PROVE  (Table(e)!Init)'
<1> DEFINE due == IF Plays(e) THEN Issues(Script(GhostOf(e)), players[GhostOf(e)].cursor)
                  ELSE IF PassoOf(e) > 0 THEN "wait" ELSE Orders[e][1].command
<1>1. CASE ~Plays(e)'
  <2> DEFINE s == [passo |-> PassoOf(e), moves |-> Orders[e], steps |-> Directions \cup {"R", "C"}]
             c == Start(s, PassoOf(e))
  <2>1. s.moves = Orders[e] /\ s.passo = PassoOf(e) /\ s.steps = Directions \cup {"R", "C"}
    OBVIOUS
  <2> HIDE DEF s
  <2>2. (IF PassoOf(e) > 0 THEN "wait" ELSE Orders[e][1].command)
          = Table(e)!Does(Begin(e)[1], Begin(e)[2])
    BY <2>1, BeginIs
  <2>3. Time(e)' = Begin(e)
    BY <1>1 DEF Time
  <2>4. due' = IF PassoOf(e) > 0 THEN "wait" ELSE Orders[e][1].command
    BY <1>1
  <2> QED
    BY <2>2, <2>3, <2>4 DEF Table!Init, Table!Does
<1>2. CASE Plays(e)'
  <2>1. pc' = "play" /\ Sound(Now)' /\ ~Plays(e)
    BY <1>2 DEF Plays
  <2>2. CASE pc = "play"
    <3>1. UNCHANGED <<pc, filenames, level, comment, board, DOMAIN players>>
      <4>1. CASE UNCHANGED vars
        BY <4>1 DEF vars
      <4>2. ASSUME NEW h \in Ghosts, GhostTurn(h)
            PROVE  UNCHANGED <<pc, filenames, level, comment, board, DOMAIN players>>
        BY <4>2, TurnIs DEF GhostTurn
      <4> QED
        BY <2>1, <2>2, <4>1, <4>2
           DEF Next, Reads, OpenLevel, HeaderLine, HeaderEnds, NoDimensions, GridLine, GridEnds,
               PacmanByDefault, OpenEntity, EntityFails, HeadLine, HeadEnds, MovesLine, MovesEnd,
               Ready, unload_level, GhostDivides
    <3>2. Ghosts' = Ghosts
      BY <3>1 DEF Ghosts
    <3>3. Plays(e)' <=> Plays(e)
      BY <3>1, <3>2, SameLevel DEF Plays
    <3> QED
      BY <1>2, <2>1, <3>3
  <2>3. CASE pc # "play"
    <3>1. Ready
      BY <2>1, <2>3
         DEF Next, Reads, OpenLevel, HeaderLine, HeaderEnds, NoDimensions, GridLine, GridEnds,
             PacmanByDefault, OpenEntity, EntityFails, HeadLine, HeadEnds, MovesLine, MovesEnd,
             unload_level, GhostTurn, GhostDivides, vars
    <3>2. UNCHANGED <<filenames, level, comment, board>> /\ pc = "entity"
      BY <3>1 DEF Ready
    <3>3. Sound(Now) /\ It' = It
      BY <2>1, <3>2, SameLevel
    <3>4. Entities
      BY <3>2, <3>3 DEF LevelRead
    <3>5. PICK g \in Ghosts' : g = GhostOf(e)' /\ board'.mons[g] = e
      BY <1>2 DEF Plays, GhostOf
    <3> DEFINE s == Script(g)'
               c == players'[g].cursor
    <3>6. g \in 1 .. Len(It.mons) /\ It.mons[g] = e
      <4>1. board'.mons = It.mons /\ DOMAIN players' = 0 .. Len(It.mons) /\ Len(It.mons) \in Nat
        <5>1. Len(It.mons) \in Nat /\ DOMAIN players = 0 .. Len(It.mons) /\ board.mons = It.mons
          BY <3>2, <3>3, <3>4, OfWhom DEF Entities, FieldRead, BoardRead
        <5> QED
          BY <3>1, <3>2, <5>1 DEF Ready
      <4>2. \A n \in Nat : \A j \in 0 .. n : j # 0 => j \in 1 .. n
        OBVIOUS
      <4> QED
        BY <3>5, <4>1, <4>2 DEF Ghosts
    <3>7. /\ players'[g].moves = Orders[e] /\ players'[g].passo = PassoOf(e)
          /\ c = Start(s, PassoOf(e))
      BY <3>1, <3>3, <3>4, <3>6, ReadyIs
    <3>8. s.moves = Orders[e] /\ s.passo = PassoOf(e) /\ s.steps = Directions \cup {"R", "C"}
      BY <3>7 DEF Script
    <3>9. Time(e)' = TimeOf(s, c) /\ due' = Issues(s, c)
      BY <1>2, <3>5 DEF Time
    <3> HIDE DEF s, c, due
    <3>10. TimeOf(s, c) = Begin(e) /\ Issues(s, c) = Table(e)!Does(Begin(e)[1], Begin(e)[2])
      BY <3>7, <3>8, BeginIs
    <3>11. Time(e)' = Begin(e) /\ due' = Table(e)!Does(Begin(e)[1], Begin(e)[2])
      BY <3>9, <3>10
    <3> QED
      BY <3>11 DEF Table!Init, Table!Does, due
  <2> QED
    BY <2>2, <2>3
<1> QED
  BY <1>1, <1>2

\* read_pacman, read_ghosts and move_ghost: every ghost of a complete level
\* keeps the timetable of its file, which begins passo turns before its first
\* order whenever a level begins, of all the files there may be.
THEOREM ServedTheorem == Spec => OrdersServed
<1> DEFINE Served == \A e \in Sings : IF Plays(e) /\ pc' = "play" THEN Table(e)!Step
                                      ELSE (Table(e)!Init)'
<1>1. TypesOK /\ LevelRead /\ [Next]_vars => [Served]_<<pc, players>>
  <2> SUFFICES ASSUME TypesOK, LevelRead, [Next]_vars, ~UNCHANGED <<pc, players>>,
                      NEW e \in Sings
               PROVE  IF Plays(e) /\ pc' = "play" THEN Table(e)!Step ELSE (Table(e)!Init)'
    OBVIOUS
  <2>1. CASE Plays(e) /\ pc' = "play"
    <3>1. pc = "play"
      BY <2>1 DEF Plays
    <3>2. PICK h \in Ghosts : GhostTurn(h)
      BY <2>1, <3>1
         DEF Next, Reads, OpenLevel, HeaderLine, HeaderEnds, NoDimensions, GridLine, GridEnds,
             PacmanByDefault, OpenEntity, EntityFails, HeadLine, HeadEnds, MovesLine, MovesEnd,
             Ready, unload_level, GhostDivides, vars
    <3> QED
      BY <2>1, <3>2, TableTurn
  <2>2. CASE ~(Plays(e) /\ pc' = "play")
    <3>1. TypesOK' /\ LevelRead'
      BY TypesKept, LevelKept
    <3> QED
      BY <2>2, <3>1, TableBegins
  <2> QED
    BY <2>1, <2>2
<1>2. [Served]_<<pc, players>>
        <=> [\A e \in Sings : IF Plays(e) /\ pc' = "play" THEN Table(e)!Step
                              ELSE Table(e)!Init']_<<pc, players>>
  OBVIOUS
<1> QED
  BY <1>1, <1>2, LevelInvariant, PTL DEF Spec, OrdersServed

\* The line in hand, while the grid is read or when all of it has been.
LEMMA RowInHand ==
  ASSUME TypesOK, Sound(Now), RowsRead, More PROVE Word = "row"
<1> DEFINE i == First + 1 + row
           l == First + row
           n == Len(Text)
           H == It.dim[2]
<1>1. InHand(Text, Kth, i, reader) /\ row \in 0 .. H
  BY DEF RowsRead
<1>2. n \in Nat /\ First \in Nat /\ 1 <= First /\ Kth \in Nat /\ Kth < First /\ H \in Nat /\ 1 <= H
  BY SoundNumbers
<1>3. i <= n + 1
  <2>1. ~(i <= n + 1) => reader.read = 0
    BY <1>1 DEF InHand
  <2> QED
    BY <2>1 DEF More
<1>4. CASE row < H
  BY <1>4, GridHas
<1>5. CASE ~(row < H)
  <2> HIDE DEF n, H
  <2>1. l \in 1 .. n /\ l > First /\ ~(i <= Kth) /\ i # Kth + 1 /\ i - 1 = l
    BY <1>1, <1>2, <1>3, <1>5
  <2> HIDE DEF i, l
  <2>2. reader.command = Text[l]
    BY <1>1, <1>3, <2>1 DEF InHand, LineAt, n
  <2>3. \A j \in DOMAIN Text : j > First => Text[j].is = "row"
    BY DEF Sound, Text, First
  <2>4. DOMAIN Text = 1 .. n
    BY NowType DEF n
  <2> QED
    BY <2>1, <2>2, <2>3, <2>4 DEF Word
<1> QED
  BY <1>4, <1>5

LEMMA ReadsOn ==
  ASSUME TypesOK, LevelRead, Sound(Now)
  PROVE  /\ pc = "grid" /\ More => Word # "#"
         /\ pc = "moves" /\ More => Word # "#"
         /\ ~NoDimensions /\ \A g \in Ghosts : ~GhostDivides(g)
<1>1. ASSUME pc = "grid", More PROVE Word # "#"
  <2>1. RowsRead
    BY <1>1 DEF LevelRead
  <2>2. Word = "row"
    BY <1>1, <2>1, RowInHand
  <2> QED
    BY <2>2
<1>2. ASSUME pc = "moves", More PROVE Word # "#"
  <2>1. MovesRead /\ BoardRead
    BY <1>2 DEF LevelRead, MovesRead, FieldRead
  <2>2. FileOf \in Sings /\ Clear(Files[FileOf], 2) /\ KthOf = CommentAfter(Files[FileOf])
    BY <1>2, <2>1, OfWhom DEF MovesRead, KthOf
  <2>3. PICK i \in 4 .. Len(Files[FileOf]) + 2 : InHand(Files[FileOf], KthOf, i, reader)
    BY <2>1 DEF MovesRead, Within
  <2>4. Word \in Directions \cup {"R", "C", "T"}
    BY <1>2, <2>2, <2>3, OrderInHand
  <2> QED
    BY <2>4 DEF Directions
<1>3. ASSUME NoDimensions PROVE FALSE
  <2>1. BoardRead
    BY <1>3, HeaderOver DEF NoDimensions, LevelRead
  <2>2. board.w # 0 /\ board.h # 0
    BY <2>1, SoundSize DEF BoardRead
  <2> QED
    BY <1>3, <2>2 DEF NoDimensions
<1>4. ASSUME NEW g \in Ghosts, GhostDivides(g) PROVE FALSE
  <2>1. pc = "play" /\ players[g].moves = <<>>
    BY <1>4 DEF GhostDivides
  <2>2. InPlay
    BY <2>1 DEF LevelRead
  <2>3. g \in 1 .. Len(It.mons)
    <3>1. board.mons = It.mons /\ DOMAIN players = 0 .. Len(It.mons) /\ Len(It.mons) \in Nat
      BY <2>1, <2>2, SoundSize, SequenceIs DEF InPlay, BoardRead, TypesOK
    <3>2. \A n \in Nat : \A j \in 0 .. n : j # 0 => j \in 1 .. n
      OBVIOUS
    <3> QED
      BY <3>1, <3>2 DEF Ghosts
  <2>4. It.mons[g] \in Sings /\ players[g].moves = Orders[It.mons[g]]
    <3>1. It.mons[g] \in Range(It.mons)
      BY <2>3, SoundSize
    <3> QED
      BY <2>2, <2>3, <3>1, SoundSize DEF InPlay
  <2>5. Len(Orders[It.mons[g]]) \in 1 .. MaxMoves /\ MaxMoves \in Nat
    BY <2>4, FileIs, NumbersOK
  <2>6. Len(<<>>) = 0 /\ \A n \in Nat : 0 \notin 1 .. n
    OBVIOUS
  <2> QED
    BY <2>1, <2>4, <2>5, <2>6
<1> QED
  BY <1>1, <1>2, <1>3, <1>4

\* load_level and move_ghost: a complete level is never refused, no ghost of it
\* ends the server, and no comment in it is read again and again: what is left
\* of SoundLevelsPlay is that its reader goes on.
THEOREM SurvivesTheorem == Spec => []Survives
<1> DEFINE Lives == Sound(Now) => pc \notin {"refused", "crashed"}
<1>1. Init => Lives
  BY DEF Init
<1>2. TypesOK /\ LevelRead /\ Lives /\ [Next]_vars => Lives'
  <2> SUFFICES ASSUME TypesOK, LevelRead, Lives, [Next]_vars, Sound(Now)', pc' \in {"refused", "crashed"}
               PROVE  FALSE
    OBVIOUS
  <2>1. /\ UNCHANGED <<filenames, level, comment>>
        /\ NoDimensions \/ (\E g \in Ghosts : GhostDivides(g)) \/ UNCHANGED pc
    BY DEF Next, Reads, OpenLevel, HeaderLine, HeaderEnds, NoDimensions, GridLine, GridEnds,
           PacmanByDefault, OpenEntity, EntityFails, HeadLine, HeadEnds, MovesLine, MovesEnd,
           Ready, unload_level, GhostTurn, GhostDivides, vars
  <2>2. Sound(Now)
    BY <2>1, SameLevel
  <2> QED
    BY <2>1, <2>2, ReadsOn
<1>3. TypesOK /\ LevelRead /\ Lives => Survives
  BY ReadsOn DEF Survives
<1> HIDE DEF Lives
<1> QED
  BY <1>1, <1>2, <1>3, LevelInvariant, PTL DEF Spec
=============================================================================
