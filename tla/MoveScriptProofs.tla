--------------------------- MODULE MoveScriptProofs ---------------------------
(***************************************************************************)
(* Lemmas on MoveScript: a turn moves the cursor of a list of moves as     *)
(* Timetable has it.  The proofs of both programs' files rest on them.     *)
(***************************************************************************)
EXTENDS MoveScript, SequenceTheorems, WellFoundedInduction, TLAPS

(* Numbers and sequences.                                                  *)

LEMMA ProductStep ==
  ASSUME NEW n \in Nat \ {0}, NEW p \in Int, NEW q \in Int, q >= p + 1
  PROVE  n * q >= n * p + n
<1> DEFINE d == q - p - 1
<1>1. d \in Nat /\ q = p + 1 + d
  OBVIOUS
<1> HIDE DEF d
<1>2. n * q = n * p + n + n * d
  BY <1>1
<1>3. n * d >= 0
  BY <1>1
<1> QED
  BY <1>1, <1>2, <1>3

LEMMA RemainderUnique ==
  ASSUME NEW n \in Nat \ {0}, NEW a \in Int, NEW q \in Int,
         NEW r \in 0 .. n - 1, a = n * q + r
  PROVE  a % n = r
<1> DEFINE p == a \div n
           s == a % n
<1>1. p \in Int /\ s \in 0 .. n - 1 /\ a = n * p + s
  OBVIOUS
<1>2. n * p \in Int /\ n * q \in Int
  BY <1>1
<1> HIDE DEF p, s
<1>3. CASE q >= p + 1
  BY <1>1, <1>2, <1>3, ProductStep
<1>4. CASE p >= q + 1
  BY <1>1, <1>2, <1>4, ProductStep
<1>5. CASE p = q
  BY <1>1, <1>2, <1>5 DEF s
<1> QED
  BY <1>1, <1>3, <1>4, <1>5

\* Reducing an index modulo the size commutes with moving it.
LEMMA RemainderAdd ==
  ASSUME NEW n \in Nat \ {0}, NEW a \in Int, NEW b \in Int
  PROVE  ((a % n) + b) % n = (a + b) % n
<1> DEFINE p == a \div n
           s == a % n
           q == (s + b) \div n
           t == (s + b) % n
<1>1. p \in Int /\ s \in 0 .. n - 1 /\ a = n * p + s
  OBVIOUS
<1>2. q \in Int /\ t \in 0 .. n - 1 /\ s + b = n * q + t
  BY <1>1
<1> HIDE DEF p, s, q, t
<1> DEFINE k == p + q
<1>3. k \in Int /\ a + b \in Int /\ a + b = n * k + t
  BY <1>1, <1>2
<1> HIDE DEF k
<1>4. (a + b) % n = t
  BY <1>2, <1>3, RemainderUnique
<1>5. t = ((a % n) + b) % n
  BY DEF s, t
<1> QED
  BY <1>4, <1>5

LEMMA HasLeast == ASSUME NEW S \in SUBSET Nat, S # {} PROVE \E x \in S : \A y \in S : x <= y
<1> DEFINE R == OpToRel(<, Nat)
<1>1. IsWellFoundedOn(R, Nat)
  BY NatLessThanWellFounded
<1>2. \A x, y \in Nat : y < x => <<y, x>> \in R
  BY DEF OpToRel
<1> HIDE DEF R
<1>3. PICK x \in S : \A y \in S : ~ (<<y, x>> \in R)
  BY <1>1, WFMin
<1>4. ASSUME NEW y \in S PROVE x <= y
  <2>1. x \in Nat /\ y \in Nat
    OBVIOUS
  <2>2. ~(y < x)
    BY <1>2, <1>3, <2>1
  <2> QED
    BY <2>1, <2>2
<1> QED
  BY <1>4

LEMMA HasGreatest ==
  ASSUME NEW n \in Nat, NEW S \in SUBSET (0 .. n), S # {}
  PROVE  \E x \in S : \A y \in S : y <= x
<1> DEFINE T == {n - x : x \in S}
<1>0. \A x \in S : n - x \in Nat
  OBVIOUS
<1>1. T \in SUBSET Nat /\ T # {}
  BY <1>0 DEF T
<1>2. PICK t \in T : \A u \in T : t <= u
  BY <1>1, HasLeast
<1>3. PICK x \in S : t = n - x
  BY DEF T
<1>4. \A y \in S : n - y \in T
  BY DEF T
<1>5. \A y \in S : y <= x
  BY <1>2, <1>3, <1>4
<1> QED
  BY <1>5

LEMMA IsSeq ==
  ASSUME NEW S, NEW m \in Nat, NEW f \in [1 .. m -> S]
  PROVE  f \in Seq(S) /\ Len(f) = m
<1>1. f \in UNION {[1 .. n -> S] : n \in Nat}
  OBVIOUS
<1>2. f \in Seq(S)
  BY <1>1, SeqDef
<1> QED
  BY <1>2, LenProperties
-----------------------------------------------------------------------------
(* The cursor.                                                             *)

\* A list every order of which its owner knows; where its cursor may be.
ScriptOK(s) ==
  /\ s.passo \in Nat /\ Len(s.moves) \in Nat \ {0}
  /\ \A k \in 1 .. Len(s.moves) : /\ s.moves[k].turns \in Nat \ {0}
                                  /\ \/ s.moves[k].command = "T"
                                     \/ s.moves[k].command \in s.steps
CursorOK(s, c) ==
  /\ DOMAIN c = {"waiting", "current", "left"} /\ DOMAIN c.left = 1 .. Len(s.moves)
  /\ c.waiting \in 0 .. s.passo /\ c.current \in 0 .. Len(s.moves) - 1
  /\ \A k \in 1 .. Len(s.moves) :
       k # Here(c) \/ s.moves[k].command # "T" => c.left[k] = s.moves[k].turns
  /\ c.left[Here(c)] \in 1 .. Move(s, c).turns

LEMMA HereType ==
  ASSUME NEW s, ScriptOK(s), NEW c, CursorOK(s, c)
  PROVE  /\ Here(c) \in 1 .. Len(s.moves) /\ Here(c) = c.current + 1
         /\ Move(s, c) = s.moves[Here(c)] /\ Move(s, c).turns \in Nat \ {0}
         /\ (c.current + 1) % Len(s.moves) \in 0 .. Len(s.moves) - 1
<1> DEFINE n == Len(s.moves)
<1>1. n \in Nat \ {0} /\ c.current \in 0 .. n - 1
  BY DEF ScriptOK, CursorOK
<1> HIDE DEF n
<1>2. c.current + 1 \in 1 .. n /\ (c.current + 1) % n \in 0 .. n - 1
  BY <1>1
<1>3. Here(c) \in 1 .. n /\ Here(c) = c.current + 1
  BY <1>2 DEF Here
<1>4. Move(s, c) = s.moves[Here(c)]
  BY DEF Move
<1> QED
  BY <1>2, <1>3, <1>4 DEF n, ScriptOK

\* The three things a turn can be: one more turn of waiting, one turn of a T
\* that goes on, or the last turn of an order.
WaitsOn(s, c, t) == /\ c.waiting > 0 /\ t.waiting = c.waiting - 1
                    /\ t.current = c.current /\ t.left = c.left
GoesOnWith(s, c, t) ==
  /\ c.waiting = 0 /\ Move(s, c).command = "T" /\ c.left[Here(c)] > 1
  /\ t.waiting = s.passo /\ t.current = c.current
  /\ t.left = [c.left EXCEPT ![Here(c)] = @ - 1]
Passes(s, c, t) ==
  /\ c.waiting = 0 /\ (Move(s, c).command # "T" \/ c.left[Here(c)] = 1)
  /\ t.waiting = s.passo /\ t.current = (c.current + 1) % Len(s.moves)
  /\ DOMAIN t.left = 1 .. Len(s.moves)
  /\ \A k \in 1 .. Len(s.moves) : t.left[k] = s.moves[k].turns

LEMMA TickIs ==
  ASSUME NEW s, ScriptOK(s), NEW c, CursorOK(s, c), NEW t, t = Tick(s, c)
  PROVE  /\ DOMAIN t = {"waiting", "current", "left"}
         /\ WaitsOn(s, c, t) \/ GoesOnWith(s, c, t) \/ Passes(s, c, t)
<1> DEFINE n == Len(s.moves)
           h == Here(c)
<1>1. /\ DOMAIN c = {"waiting", "current", "left"} /\ DOMAIN c.left = 1 .. n
      /\ c.waiting \in Nat
      /\ h \in 1 .. n /\ Move(s, c).turns \in Nat \ {0} /\ Move(s, c) = s.moves[h]
      /\ c.left[h] \in 1 .. Move(s, c).turns
      /\ \A k \in 1 .. n : k # h \/ s.moves[k].command # "T"
                             => c.left[k] = s.moves[k].turns
  <2>1. c.waiting \in Nat
    BY DEF CursorOK, ScriptOK
  <2> QED
    BY <2>1, HereType DEF CursorOK
<1>2. CASE c.waiting > 0
  <2>1. t = [c EXCEPT !.waiting = @ - 1]
    BY <1>2 DEF Tick
  <2> QED
    BY <1>1, <1>2, <2>1 DEF WaitsOn
<1>3. CASE ~(c.waiting > 0)
  <2>0. c.waiting = 0
    BY <1>1, <1>3
  <2>1. t = [Takes(s, c) EXCEPT !.waiting = s.passo]
    BY <1>3 DEF Tick
  <2>2. \A u : DOMAIN u = {"waiting", "current", "left"} /\ t = [u EXCEPT !.waiting = s.passo]
          => /\ DOMAIN t = {"waiting", "current", "left"} /\ t.waiting = s.passo
             /\ t.current = u.current /\ t.left = u.left
    OBVIOUS
  <2> DEFINE on == Onward(s, c)
  <2>3. /\ DOMAIN on = {"waiting", "current", "left"} /\ on.left = c.left
        /\ on.current = (c.current + 1) % n
    BY <1>1 DEF Onward
  <2> HIDE DEF on
  <2>4. CASE Move(s, c).command # "T"
    <3>1. Move(s, c).command \in s.steps
      BY <1>1, <2>4 DEF ScriptOK
    <3>2. Takes(s, c) = on
      BY <2>4, <3>1 DEF Takes, on
    <3>3. /\ DOMAIN t = {"waiting", "current", "left"} /\ t.waiting = s.passo
          /\ t.current = (c.current + 1) % n /\ t.left = c.left
      BY <2>1, <2>2, <2>3, <3>2
    <3>4. \A k \in 1 .. n : c.left[k] = s.moves[k].turns
      BY <1>1, <2>4
    <3> QED
      BY <1>1, <2>0, <2>4, <3>3, <3>4 DEF Passes
  <2>5. CASE Move(s, c).command = "T" /\ c.left[h] = 1
    <3>1. Takes(s, c) = [on EXCEPT !.left[h] = Move(s, c).turns]
      BY <2>5 DEF Takes, Waits, on
    <3> DEFINE u == Takes(s, c)
    <3>2. /\ DOMAIN u = {"waiting", "current", "left"} /\ u.current = on.current
          /\ u.left = [c.left EXCEPT ![h] = Move(s, c).turns]
      BY <2>3, <3>1
    <3> HIDE DEF u
    <3>3. /\ DOMAIN t = {"waiting", "current", "left"} /\ t.waiting = s.passo
          /\ t.current = (c.current + 1) % n /\ t.left = u.left
      BY <2>1, <2>2, <2>3, <3>2 DEF u
    <3>4. DOMAIN u.left = 1 .. n /\ \A k \in 1 .. n : u.left[k] = s.moves[k].turns
      BY <1>1, <3>2
    <3> QED
      BY <1>1, <2>0, <2>5, <3>3, <3>4 DEF Passes
  <2>6. CASE Move(s, c).command = "T" /\ c.left[h] # 1
    <3>1. Takes(s, c) = [c EXCEPT !.left[h] = @ - 1]
      BY <2>6 DEF Takes, Waits
    <3> DEFINE u == Takes(s, c)
    <3>2. /\ DOMAIN u = {"waiting", "current", "left"} /\ u.current = c.current
          /\ u.left = [c.left EXCEPT ![h] = @ - 1]
      BY <1>1, <3>1
    <3> HIDE DEF u
    <3>3. /\ DOMAIN t = {"waiting", "current", "left"} /\ t.waiting = s.passo
          /\ t.current = c.current /\ t.left = u.left
      BY <2>1, <2>2, <3>2 DEF u
    <3>4. c.left[h] > 1
      BY <1>1, <2>6
    <3> QED
      BY <1>1, <2>0, <2>6, <3>2, <3>3, <3>4 DEF GoesOnWith
  <2> QED
    BY <2>4, <2>5, <2>6
<1> QED
  BY <1>2, <1>3

LEMMA CursorKept ==
  ASSUME NEW s, ScriptOK(s), NEW c, CursorOK(s, c) PROVE CursorOK(s, Tick(s, c))
<1> DEFINE t == Tick(s, c)
           n == Len(s.moves)
           h == Here(c)
<1>1. /\ DOMAIN t = {"waiting", "current", "left"}
      /\ WaitsOn(s, c, t) \/ GoesOnWith(s, c, t) \/ Passes(s, c, t)
  BY TickIs
<1> HIDE DEF t
<1>2. /\ h \in 1 .. n /\ h = c.current + 1 /\ Move(s, c) = s.moves[h]
      /\ Move(s, c).turns \in Nat \ {0} /\ (c.current + 1) % n \in 0 .. n - 1
      /\ c.waiting \in 0 .. s.passo /\ s.passo \in Nat /\ c.current \in 0 .. n - 1
      /\ c.left[h] \in 1 .. Move(s, c).turns /\ DOMAIN c.left = 1 .. n
      /\ n \in Nat \ {0} /\ \A k \in 1 .. n : s.moves[k].turns \in Nat \ {0}
      /\ \A k \in 1 .. n : k # h \/ s.moves[k].command # "T"
                             => c.left[k] = s.moves[k].turns
  <2>1. /\ h \in 1 .. n /\ h = c.current + 1 /\ Move(s, c) = s.moves[h]
        /\ Move(s, c).turns \in Nat \ {0} /\ (c.current + 1) % n \in 0 .. n - 1
    BY HereType
  <2>2. /\ s.passo \in Nat /\ n \in Nat \ {0}
        /\ \A k \in 1 .. n : s.moves[k].turns \in Nat \ {0}
    BY DEF ScriptOK
  <2>3. /\ c.waiting \in 0 .. s.passo /\ c.current \in 0 .. n - 1
        /\ c.left[h] \in 1 .. Move(s, c).turns /\ DOMAIN c.left = 1 .. n
        /\ \A k \in 1 .. n : k # h \/ s.moves[k].command # "T"
                               => c.left[k] = s.moves[k].turns
    BY DEF CursorOK
  <2> QED
    BY <2>1, <2>2, <2>3
<1> HIDE DEF n, h
<1>3. ASSUME t.current = c.current, t.left = c.left, t.waiting \in 0 .. s.passo
      PROVE  CursorOK(s, t)
  <2>1. Here(t) = h /\ Move(s, t) = Move(s, c)
    BY <1>3 DEF Here, Move, h
  <2> QED
    BY <1>1, <1>2, <1>3, <2>1 DEF CursorOK, n, t
<1>4. CASE WaitsOn(s, c, t)
  <2>1. t.waiting \in 0 .. s.passo
    BY <1>2, <1>4 DEF WaitsOn
  <2> QED
    BY <1>3, <1>4, <2>1 DEF WaitsOn, t
<1>5. CASE GoesOnWith(s, c, t)
  <2>1. /\ t.current = c.current /\ t.waiting = s.passo
        /\ t.left = [c.left EXCEPT ![h] = @ - 1] /\ c.left[h] > 1
        /\ Move(s, c).command = "T"
    BY <1>5 DEF GoesOnWith, h
  <2>2. Here(t) = h /\ Move(s, t) = Move(s, c)
    BY <2>1 DEF Here, Move, h
  <2>3. t.left[h] \in 1 .. Move(s, c).turns
    <3> DEFINE m == Move(s, c).turns
               l == c.left[h]
    <3>1. m \in Nat \ {0} /\ l \in 1 .. m /\ l > 1 /\ t.left[h] = l - 1
      BY <1>2, <2>1
    <3> HIDE DEF l, m
    <3>2. l - 1 \in 1 .. m
      BY <3>1
    <3> QED
      BY <3>1, <3>2 DEF m
  <2>4. DOMAIN t.left = 1 .. n /\ \A k \in 1 .. n : k # h => t.left[k] = s.moves[k].turns
    BY <1>2, <2>1
  <2>5. \A k \in 1 .. n : k # h \/ s.moves[k].command # "T"
                            => t.left[k] = s.moves[k].turns
    BY <1>2, <2>1, <2>4
  <2> QED
    BY <1>1, <1>2, <2>1, <2>2, <2>3, <2>4, <2>5 DEF CursorOK, n, t
<1>6. CASE Passes(s, c, t)
  <2>1. /\ t.current \in 0 .. n - 1 /\ t.waiting = s.passo /\ DOMAIN t.left = 1 .. n
        /\ \A k \in 1 .. n : t.left[k] = s.moves[k].turns
    BY <1>2, <1>6 DEF Passes, n
  <2>2. Here(t) \in 1 .. n /\ Move(s, t) = s.moves[Here(t)]
    BY <1>2, <2>1 DEF Here, Move
  <2>3. t.left[Here(t)] \in 1 .. Move(s, t).turns
    <3>1. t.left[Here(t)] = Move(s, t).turns /\ Move(s, t).turns \in Nat \ {0}
      BY <1>2, <2>1, <2>2
    <3> QED
      BY <3>1
  <2>4. t.waiting \in 0 .. s.passo
    BY <1>2, <2>1
  <2> QED
    BY <1>1, <2>1, <2>3, <2>4 DEF CursorOK, n, t
<1> QED
  BY <1>1, <1>4, <1>5, <1>6 DEF t

\* The turns an order stands for, before passo is counted in.
Span(s, k) == IF s.moves[k].command = "T" THEN s.moves[k].turns ELSE 1
Begun(s, c) == Move(s, c).turns - c.left[Here(c)]
Before(s, c) == ((c.current + Len(s.moves) - 1) % Len(s.moves)) + 1

LEMMA TimeIs ==
  ASSUME NEW s, NEW c
  PROVE  TimeOf(s, c) = IF c.waiting = 0 \/ Begun(s, c) > 0
                        THEN <<Here(c), Begun(s, c) * (1 + s.passo) - c.waiting>>
                        ELSE <<Before(s, c), Span(s, Before(s, c)) * (1 + s.passo) - c.waiting>>
  BY DEF TimeOf, Begun, Before, Span

\* The turn before the beginning of order k is one of the order before it.
LEMMA LastIs ==
  ASSUME NEW s, ScriptOK(s), NEW c, CursorOK(s, c)
  PROVE  /\ Before(s, c) \in 1 .. Len(s.moves)
         /\ (Before(s, c) % Len(s.moves)) + 1 = Here(c)
<1> DEFINE n == Len(s.moves)
           k == c.current
           l == (k + n - 1) % n
<1>1. n \in Nat \ {0} /\ k \in 0 .. n - 1
  BY DEF ScriptOK, CursorOK
<1> HIDE DEF n, k
<1>2. k + n - 1 \in Int /\ l \in 0 .. n - 1
  BY <1>1
<1>3. (l + 1) % n = (k + n - 1 + 1) % n
  <2> DEFINE a == k + n - 1
  <2>1. a \in Int /\ l = a % n
    BY <1>2
  <2> HIDE DEF a
  <2>2. ((a % n) + 1) % n = (a + 1) % n
    <3>1. 1 \in Int
      OBVIOUS
    <3> QED
      BY <1>1, <2>1, <3>1, RemainderAdd
  <2> QED
    BY <2>1, <2>2 DEF a
<1>4. k + n - 1 + 1 = n * 1 + k
  BY <1>1
<1>5. (l + 1) % n = k
  <2>1. n * 1 + k \in Int /\ 1 \in Int
    BY <1>1
  <2>2. (n * 1 + k) % n = k
    BY <1>1, <2>1, RemainderUnique
  <2> QED
    BY <1>3, <1>4, <2>2
<1>6. Before(s, c) = l + 1 /\ Here(c) = k + 1 /\ Len(s.moves) = n
  BY DEF Before, Here, n, k
<1> HIDE DEF l
<1> QED
  BY <1>1, <1>2, <1>5, <1>6

LEMMA Beats ==
  ASSUME NEW n \in Nat \ {0}, NEW q \in Int, NEW w \in 0 .. n - 1
  PROVE  (q * n - w) % n = 0 <=> w = 0
<1>1. CASE w = 0
  <2>1. q * n - w = n * q + 0 /\ q * n - w \in Int /\ 0 \in 0 .. n - 1
    BY <1>1
  <2> QED
    BY <1>1, <2>1, RemainderUnique
<1>2. CASE w # 0
  <2> DEFINE r == n - w
             p == q - 1
  <2>1. r \in 0 .. n - 1 /\ p \in Int /\ r # 0
    BY <1>2
  <2>2. q * n - w = n * p + r /\ q * n - w \in Int
    BY <2>1
  <2>3. (q * n - w) % n = r
    BY <2>1, <2>2, RemainderUnique
  <2> QED
    BY <1>2, <2>1, <2>3
<1> QED
  BY <1>1, <1>2

\* What is known of a cursor, as numbers.
LEMMA CursorNumbers ==
  ASSUME NEW s, ScriptOK(s), NEW c, CursorOK(s, c)
  PROVE  /\ s.passo \in Nat /\ c.waiting \in 0 .. s.passo
         /\ Begun(s, c) \in Nat /\ Begun(s, c) < Span(s, Here(c))
         /\ Begun(s, c) = 0 \/ Span(s, Here(c)) = Move(s, c).turns
         /\ \A k \in 1 .. Len(s.moves) : Span(s, k) \in Nat \ {0}
<1> DEFINE m == Move(s, c).turns
           l == c.left[Here(c)]
<1>1. /\ m \in Nat \ {0} /\ l \in 1 .. m /\ Move(s, c) = s.moves[Here(c)]
      /\ Here(c) \in 1 .. Len(s.moves)
  BY HereType DEF CursorOK
<1>2. Begun(s, c) = m - l
  BY DEF Begun
<1>3. Move(s, c).command # "T" => l = m
  BY <1>1 DEF CursorOK
<1>4. Span(s, Here(c)) = IF Move(s, c).command = "T" THEN m ELSE 1
  BY <1>1 DEF Span
<1> HIDE DEF m, l
<1>5. /\ Begun(s, c) \in Nat /\ Begun(s, c) < Span(s, Here(c))
      /\ Begun(s, c) = 0 \/ Span(s, Here(c)) = m
  BY <1>1, <1>2, <1>3, <1>4
<1>6. \A k \in 1 .. Len(s.moves) : Span(s, k) \in Nat \ {0}
  BY DEF Span, ScriptOK
<1> QED
  BY <1>5, <1>6 DEF ScriptOK, CursorOK, m

\* A turn does what the timetable says of it.
LEMMA DueIs ==
  ASSUME NEW s, ScriptOK(s), NEW c, CursorOK(s, c), NEW a, a = TimeOf(s, c)
  PROVE  Issues(s, c) = IF a[2] % (1 + s.passo) = 0 THEN s.moves[a[1]].command ELSE "wait"
<1> DEFINE P == 1 + s.passo
           w == c.waiting
           b == Begun(s, c)
           q == IF w = 0 \/ b > 0 THEN b ELSE Span(s, Before(s, c))
<1>1. P \in Nat \ {0} /\ w \in 0 .. P - 1 /\ b \in Nat /\ Span(s, Before(s, c)) \in Nat
  BY CursorNumbers, LastIs
<1>2. a[2] = q * P - w
  BY TimeIs
<1>3. w = 0 => a[1] = Here(c)
  BY TimeIs
<1>4. Issues(s, c) = IF w > 0 THEN "wait" ELSE s.moves[Here(c)].command
  BY HereType DEF Issues
<1>5. q \in Int
  BY <1>1
<1> HIDE DEF P, w, q
<1>6. a[2] % P = 0 <=> w = 0
  BY <1>1, <1>2, <1>5, Beats
<1>7. w > 0 <=> ~(w = 0)
  BY <1>1
<1> QED
  BY <1>3, <1>4, <1>6, <1>7 DEF P

\* After a turn comes the next of the same order, or the first of the next order.
LEMMA TurnTaken ==
  ASSUME NEW s, ScriptOK(s), NEW c, CursorOK(s, c), NEW a, a = TimeOf(s, c),
         NEW z, z = TimeOf(s, Tick(s, c))
  PROVE  IF a[2] + 1 < Span(s, a[1]) * (1 + s.passo)
         THEN z[2] = a[2] + 1 /\ z[1] = a[1]
         ELSE z[2] = 0 /\ z[1] = (a[1] % Len(s.moves)) + 1
<1> DEFINE t == Tick(s, c)
           n == Len(s.moves)
           p == s.passo
           P == 1 + p
           w == c.waiting
           b == Begun(s, c)
           h == Here(c)
           k == Before(s, c)
           S(i) == Span(s, i)
<1>1. CursorOK(s, t) /\ (WaitsOn(s, c, t) \/ GoesOnWith(s, c, t) \/ Passes(s, c, t))
  BY TickIs, CursorKept
<1>2. /\ p \in Nat /\ P = 1 + p /\ P \in Nat /\ w \in 0 .. p /\ b \in Nat /\ b < S(h)
      /\ S(h) \in Nat \ {0} /\ S(k) \in Nat \ {0} /\ h \in 1 .. n /\ k \in 1 .. n
      /\ (k % n) + 1 = h
  <2>1. /\ p \in Nat /\ w \in 0 .. p /\ b \in Nat /\ b < S(h)
        /\ \A i \in 1 .. n : S(i) \in Nat \ {0}
    BY CursorNumbers
  <2>2. h \in 1 .. n /\ k \in 1 .. n /\ (k % n) + 1 = h
    BY HereType, LastIs
  <2>3. P = 1 + p /\ P \in Nat
    BY <2>1
  <2> QED
    BY <2>1, <2>2, <2>3
<1>3. /\ w = 0 \/ b > 0 => a[1] = h /\ a[2] = b * P - w
      /\ w # 0 /\ b = 0 => a[1] = k /\ a[2] = S(k) * P - w
  BY <1>2, TimeIs
<1>4. /\ t.waiting = 0 \/ Begun(s, t) > 0
           => z[1] = Here(t) /\ z[2] = Begun(s, t) * P - t.waiting
      /\ t.waiting # 0 /\ Begun(s, t) = 0
           => z[1] = Before(s, t) /\ z[2] = S(Before(s, t)) * P - t.waiting
  <2>1. Begun(s, t) \in Nat
    BY <1>1, CursorNumbers
  <2> QED
    BY <2>1, TimeIs
<1>5. CASE WaitsOn(s, c, t)
  <2>1. w > 0 /\ t.waiting = w - 1 /\ t.current = c.current /\ t.left = c.left
    BY <1>5 DEF WaitsOn
  <2>2. Here(t) = h /\ Begun(s, t) = b /\ Before(s, t) = k
    BY <2>1 DEF Here, Begun, Move, Before
  <2> HIDE DEF t, n, p, P, w, b, h, k, S
  <2>3. CASE b > 0
    <3>1. /\ a[1] = h /\ a[2] = b * P - w
          /\ z[1] = h /\ z[2] = b * P - (w - 1)
      BY <1>3, <1>4, <2>1, <2>2, <2>3
    <3>2. S(h) * P >= b * P + P
      <4>1. P \in Nat \ {0} /\ S(h) \in Int /\ b \in Int /\ S(h) >= b + 1
        BY <1>2
      <4>2. P * S(h) >= P * b + P
        BY <4>1, ProductStep
      <4> QED
        BY <4>1, <4>2
    <3>3. z[2] = a[2] + 1 /\ a[2] + 1 < S(h) * P
      <4> DEFINE x == b * P
                 y == S(h) * P
      <4>1. x \in Int /\ y \in Int
        BY <1>2
      <4> HIDE DEF x, y
      <4> QED
        BY <1>2, <2>1, <3>1, <3>2, <4>1 DEF x, y
    <3> QED
      BY <3>1, <3>3 DEF S, P, p
  <2>4. CASE b = 0
    <3> DEFINE y == S(k) * P
    <3>1. a[1] = k /\ a[2] = y - w /\ y \in Int
      BY <1>2, <1>3, <2>1, <2>4
    <3> HIDE DEF y
    <3>2. CASE w = 1
      <4>1. z[1] = h /\ z[2] = 0 * P - 0
        BY <1>4, <2>1, <2>2, <2>4, <3>2
      <4>2. z[2] = 0 /\ a[2] + 1 = y
        BY <1>2, <3>1, <3>2, <4>1
      <4>3. ~(y < y)
        BY <3>1
      <4> QED
        BY <1>2, <3>1, <4>1, <4>2, <4>3 DEF y, S, P, p, n
    <3>3. CASE w # 1
      <4>1. z[1] = k /\ z[2] = y - (w - 1)
        BY <1>2, <1>4, <2>1, <2>2, <2>4, <3>3 DEF y
      <4>2. z[2] = a[2] + 1 /\ a[2] + 1 < y
        BY <1>2, <2>1, <3>1, <3>3, <4>1
      <4> QED
        BY <3>1, <4>1, <4>2 DEF y, S, P, p
    <3> QED
      BY <3>2, <3>3
  <2> QED
    BY <1>2, <2>3, <2>4
<1>6. CASE GoesOnWith(s, c, t)
  <2>1. /\ w = 0 /\ t.waiting = p /\ t.current = c.current
        /\ t.left = [c.left EXCEPT ![h] = @ - 1] /\ Move(s, c).command = "T"
        /\ c.left[h] > 1
    BY <1>6 DEF GoesOnWith
  <2>2. Here(t) = h /\ Move(s, t) = Move(s, c)
    BY <2>1 DEF Here, Move
  <2>3. Begun(s, t) = b + 1 /\ b + 1 < S(h)
    <3> DEFINE m == Move(s, c).turns
               l == c.left[h]
    <3>1. m \in Nat \ {0} /\ l \in 1 .. m /\ h \in DOMAIN c.left
      BY <1>2, HereType DEF CursorOK
    <3>2. t.left[h] = l - 1
      BY <2>1, <3>1
    <3>3. b = m - l /\ Begun(s, t) = m - t.left[h]
      BY <2>2 DEF Begun
    <3>4. S(h) = m
      BY <2>1, HereType DEF Span
    <3>5. l > 1
      BY <2>1
    <3> HIDE DEF m, l, b
    <3> QED
      BY <3>1, <3>2, <3>3, <3>4, <3>5
  <2> HIDE DEF t, n, p, P, w, b, h, k, S
  <2>4. /\ a[1] = h /\ a[2] = b * P - 0
        /\ z[1] = h /\ z[2] = (b + 1) * P - p
    <3>1. Begun(s, t) > 0
      BY <1>2, <2>3
    <3> QED
      BY <1>3, <1>4, <2>1, <2>2, <2>3, <3>1
  <2>5. z[2] = a[2] + 1
    <3>1. (b + 1) * P = b * P + P /\ b * P \in Int
      BY <1>2
    <3> QED
      BY <1>2, <2>4, <3>1
  <2>6. a[2] + 1 < S(h) * P
    <3> DEFINE q == b + 1
    <3>1. P \in Nat \ {0} /\ S(h) \in Int /\ q \in Int /\ S(h) >= q + 1
      BY <1>2, <2>3
    <3>2. P * S(h) >= P * q + P
      BY <3>1, ProductStep
    <3>3. P * q = b * P + P /\ b * P \in Int /\ P * S(h) = S(h) * P
      BY <1>2, <3>1
    <3> HIDE DEF q
    <3> DEFINE x == b * P
               y == S(h) * P
    <3> HIDE DEF x, y
    <3>4. x \in Int /\ y \in Int /\ y >= x + P + P /\ a[2] = x - 0
      BY <1>2, <2>4, <3>1, <3>2, <3>3 DEF x, y
    <3> QED
      BY <1>2, <3>1, <3>4 DEF y
  <2> QED
    BY <2>4, <2>5, <2>6 DEF S, P, p
<1>7. CASE Passes(s, c, t)
  <2>1. /\ w = 0 /\ t.waiting = p /\ t.current = (c.current + 1) % n
        /\ \A i \in 1 .. n : t.left[i] = s.moves[i].turns
        /\ Move(s, c).command # "T" \/ c.left[h] = 1
    BY <1>7 DEF Passes
  <2>2. /\ Here(t) = (h % n) + 1 /\ Here(t) \in 1 .. n /\ Move(s, t) = s.moves[Here(t)]
    BY <1>1, <2>1, HereType DEF Here
  <2>3. Begun(s, t) = 0
    <3>1. t.left[Here(t)] = Move(s, t).turns /\ Move(s, t).turns \in Nat
      BY <1>1, <2>1, <2>2, HereType
    <3> QED
      BY <3>1 DEF Begun
  <2>4. b + 1 = S(h)
    <3> DEFINE m == Move(s, c).turns
               l == c.left[h]
    <3>1. m \in Nat \ {0} /\ l \in 1 .. m /\ Move(s, c) = s.moves[h]
      BY HereType DEF CursorOK
    <3>2. Move(s, c).command # "T" => l = m
      BY <1>2, <3>1 DEF CursorOK
    <3>3. b = m - l /\ S(h) = IF Move(s, c).command = "T" THEN m ELSE 1
      BY <3>1 DEF Begun, Span
    <3> HIDE DEF m, b
    <3>4. Move(s, c).command = "T" => l = 1
      BY <2>1
    <3> HIDE DEF l
    <3> QED
      BY <3>1, <3>2, <3>3, <3>4
  <2>5. Before(s, t) = h
    <3> DEFINE i == Before(s, t)
    <3>1. i \in 1 .. n /\ (i % n) + 1 = (h % n) + 1
      BY <1>1, <2>2, LastIs
    <3>2. n \in Nat \ {0}
      BY DEF ScriptOK
    <3> HIDE DEF i, n, h
    <3>3. i % n = h % n
      <4>1. i % n \in Int /\ h % n \in Int
        BY <1>2, <3>1, <3>2
      <4> QED
        BY <3>1, <4>1
    <3>4. \A j \in 1 .. n : j % n = IF j = n THEN 0 ELSE j
      <4> TAKE j \in 1 .. n
      <4>1. CASE j = n
        <5>1. j = n * 1 + 0 /\ 0 \in 0 .. n - 1 /\ j \in Int /\ 1 \in Int
          BY <3>2, <4>1
        <5>2. j % n = 0
          BY <3>2, <5>1, RemainderUnique
        <5> QED
          BY <4>1, <5>2
      <4>2. CASE j # n
        <5>1. j = n * 0 + j /\ j \in 0 .. n - 1 /\ j \in Int /\ 0 \in Int
          BY <3>2, <4>2
        <5>2. j % n = j
          BY <3>2, <5>1, RemainderUnique
        <5> QED
          BY <4>2, <5>2
      <4> QED
        BY <4>1, <4>2
    <3>5. i = h
      <4>1. i \in 1 .. n /\ h \in 1 .. n
        BY <1>2, <3>1
      <4>2. /\ i % n = IF i = n THEN 0 ELSE i
            /\ h % n = IF h = n THEN 0 ELSE h
        BY <3>4, <4>1
      <4>3. (IF i = n THEN 0 ELSE i) = (IF h = n THEN 0 ELSE h)
        BY <3>3, <4>2
      <4> QED
        BY <3>2, <4>1, <4>3
    <3> QED
      BY <3>5 DEF i
  <2> HIDE DEF t, n, p, P, w, b, h, k, S
  <2>6. a[1] = h /\ a[2] = b * P - 0
    BY <1>3, <2>1
  <2>7. (b + 1) * P = b * P + P /\ b * P \in Int
    BY <1>2
  <2>8. S(h) * P = b * P + P
    BY <2>4, <2>7
  <2>9. CASE p = 0
    <3>1. z[1] = (h % n) + 1 /\ z[2] = 0 * P - 0
      BY <1>4, <2>1, <2>2, <2>3, <2>9
    <3>2. z[2] = 0 /\ a[2] + 1 = S(h) * P
      BY <1>2, <2>6, <2>7, <2>8, <2>9, <3>1
    <3>3. ~(a[2] + 1 < S(h) * P)
      BY <1>2, <2>6, <2>7, <3>2
    <3> QED
      BY <2>6, <3>1, <3>2, <3>3 DEF S, P, p, n
  <2>10. CASE p # 0
    <3>1. z[1] = h /\ z[2] = S(h) * P - p
      BY <1>4, <2>1, <2>3, <2>5, <2>10
    <3>2. z[2] = a[2] + 1 /\ a[2] + 1 < S(h) * P
      BY <1>2, <2>6, <2>7, <2>8, <2>10, <3>1
    <3> QED
      BY <2>6, <3>1, <3>2 DEF S, P, p
  <2> QED
    BY <2>9, <2>10
<1> QED
  BY <1>1, <1>5, <1>6, <1>7

\* A list of moves begins at the first turn of its first order, or that many
\* turns before it, which are then the last ones of its last order.
LEMMA StartsAt ==
  ASSUME NEW s, ScriptOK(s), NEW w \in 0 .. s.passo, NEW c, c = Start(s, w)
  PROVE  /\ CursorOK(s, c)
         /\ w = 0 => /\ TimeOf(s, c) = <<1, 0>>
                     /\ Issues(s, c) = s.moves[1].command
         /\ w # 0 => /\ TimeOf(s, c) = <<Len(s.moves), Span(s, Len(s.moves)) * (1 + s.passo) - w>>
                     /\ Issues(s, c) = "wait"
<1> DEFINE n == Len(s.moves)
<1>1. /\ s.passo \in Nat /\ n \in Nat \ {0}
      /\ \A k \in 1 .. n : s.moves[k].turns \in Nat \ {0}
  BY DEF ScriptOK
<1>2. /\ DOMAIN c = {"waiting", "current", "left"} /\ DOMAIN c.left = 1 .. n
      /\ c.waiting = w /\ c.current = 0
      /\ \A k \in 1 .. n : c.left[k] = s.moves[k].turns
  BY DEF Start
<1>n. n = Len(s.moves)
  OBVIOUS
<1> HIDE DEF n
<1>3. Here(c) = 1 /\ 1 \in 1 .. n /\ 0 \in 0 .. n - 1
  BY <1>1, <1>2 DEF Here
<1>4. Move(s, c) = s.moves[1]
  BY <1>3 DEF Move
<1>5. CursorOK(s, c)
  <2>1. c.left[Here(c)] \in 1 .. Move(s, c).turns
    <3>1. s.moves[1].turns \in Nat \ {0}
      BY <1>1, <1>3
    <3> QED
      BY <1>2, <1>3, <1>4, <3>1
  <2> QED
    BY <1>2, <1>3, <2>1 DEF CursorOK, n
<1>6. Begun(s, c) = 0
  <2>1. s.moves[1].turns \in Nat \ {0}
    BY <1>1, <1>3
  <2> QED
    BY <1>2, <1>3, <1>4, <2>1 DEF Begun
<1>7. Before(s, c) = n
  <2>1. 0 + n - 1 = n * 0 + (n - 1) /\ n - 1 \in 0 .. n - 1 /\ n - 1 \in Int /\ 0 \in Int
    BY <1>1
  <2>2. (0 + n - 1) % n = n - 1
    <3> DEFINE a == 0 + n - 1
               r == n - 1
    <3>1. a = n * 0 + r /\ r \in 0 .. n - 1 /\ a \in Int /\ 0 \in Int
      BY <1>1, <2>1
    <3> HIDE DEF a, r
    <3>2. a % n = r
      BY <1>1, <3>1, RemainderUnique
    <3> QED
      BY <3>2 DEF a, r
  <2>3. Before(s, c) = ((0 + n - 1) % n) + 1
    BY <1>2 DEF Before, n
  <2> QED
    BY <1>1, <2>2, <2>3
<1>8. \/ w = 0 /\ 0 * (1 + s.passo) - 0 = 0 /\ ~(w > 0)
      \/ w # 0 /\ w > 0
  BY <1>1
<1>9. TimeOf(s, c) = IF w = 0 THEN <<1, 0 * (1 + s.passo) - w>>
                     ELSE <<n, Span(s, n) * (1 + s.passo) - w>>
  <2>1. ~(0 > 0)
    OBVIOUS
  <2> QED
    BY <1>2, <1>3, <1>6, <1>7, <2>1, TimeIs
<1>10. Issues(s, c) = IF w > 0 THEN "wait" ELSE s.moves[1].command
  BY <1>2, <1>4 DEF Issues
<1> QED
  BY <1>5, <1>8, <1>9, <1>10, <1>n

LEMMA Starting ==
  ASSUME NEW s, ScriptOK(s), NEW c, c = Start(s, 0)
  PROVE  /\ CursorOK(s, c) /\ TimeOf(s, c)[1] = 1 /\ TimeOf(s, c)[2] = 0
         /\ Issues(s, c) = s.moves[1].command
<1>1. 0 \in 0 .. s.passo
  BY DEF ScriptOK
<1> QED
  BY <1>1, StartsAt
=============================================================================
