------------------------- MODULE StandaloneGameProofs -------------------------
(***************************************************************************)
(* Proofs about StandaloneGame, for every set of ghosts and every number   *)
(* of levels.                                                              *)
(***************************************************************************)
EXTENDS StandaloneGame, TLAPS

\* What the program counters and flags say of one another: has_backup tells
\* the child from its parent, and from the order that asked for a backup on,
\* the pacman's file stays on that order.
Backups ==
  /\ result = "CREATE" => moves = "G"
  /\ main \in {"backup", "kill", "fork", "child", "restored", "reset"} => moves = "G"
  /\ main \in {"fork", "child"} => has_backup
  /\ board_lock => main = "kill"
  /\ main = "fork" => AllDone

\* A result other than CONTINUE comes from a pacman thread that can only leave,
\* but for the old one that the threads of a restored parent find.
Over ==
  result # "CONTINUE" /\ ~(result = "CREATE" /\ main \in {"restored", "reset"})
    => thread["pacman"] \in {"after", "done"}

GameInv == GameTypeOK /\ Backups /\ Over

LEMMA GameInit == Init => GameInv
  BY GameAssumption DEF Init, GameInv, GameTypeOK, Backups, Over, Started, Threads

LEMMA GamePacman == ASSUME GameInv, PacmanStep PROVE GameInv'
<1> USE DEF GameInv, GameTypeOK, Backups, Over, ThreadGoto, AllDone, Threads
<1>1. CASE PacmanTests
  BY <1>1 DEF PacmanTests
<1>2. CASE NoKey
  BY <1>2 DEF NoKey
<1>3. CASE PacmanActs
  <2>1. PICK c \in Commands[moves] :
          \E move \in IF ~alive THEN {"dead"}
                      ELSE IF c = "move" THEN {"valid", "portal", "dead"}
                      ELSE {"valid"} :
            /\ result' = ResultOf(c, move) /\ alive' = (alive /\ move # "dead")
            /\ moves' = IF c = "G" THEN "G" ELSE moves
    BY <1>3 DEF PacmanActs
  <2>2. PICK move \in {"valid", "portal", "dead"} :
            /\ c # "move" => move # "portal"
            /\ result' = ResultOf(c, move) /\ alive' = (alive /\ move # "dead")
            /\ moves' = IF c = "G" THEN "G" ELSE moves
    BY <2>1
  <2>3. c \in {"move", "Q", "G"} /\ (moves = "G" => c = "G")
    BY <2>1 DEF Commands
  <2>4. /\ result' \in {"CONTINUE", "NEXT", "QUIT", "CREATE"}
        /\ result' = "CREATE" => moves' = "G"
        /\ main = "child" => result' \in {"CONTINUE", "QUIT"}
    BY <2>2, <2>3 DEF ResultOf
  <2>5. moves' \in {"typed", "any", "G"} /\ (moves = "G" => moves' = "G")
        /\ alive' \in BOOLEAN
    BY <2>2
  <2>6. /\ thread["pacman"] = "act" /\ ~board_lock
        /\ thread' = [thread EXCEPT !["pacman"] = "after"]
        /\ UNCHANGED <<main, stop_threads, has_backup, board_lock, saved>>
    BY <1>3 DEF PacmanActs
  <2>7. thread' \in [Threads -> {"test", "act", "after", "done"}]
        /\ thread'["pacman"] = "after" /\ main # "fork"
    BY <2>6
  <2> QED
    BY <2>4, <2>5, <2>6, <2>7
<1>4. CASE PacmanLeaves
  BY <1>4 DEF PacmanLeaves
<1> QED
  BY <1>1, <1>2, <1>3, <1>4 DEF PacmanStep

LEMMA GameOther ==
  ASSUME GameInv, NEW t \in Threads \ {"pacman"}, OtherStep(t)
  PROVE  GameInv'
<1> USE DEF GameInv, GameTypeOK, Backups, Over, ThreadGoto, AllDone
<1>1. CASE OtherTests(t)
  BY <1>1 DEF OtherTests
<1>2. CASE t \in Ghosts /\ GhostActs(t)
  <2>1. /\ thread' = [thread EXCEPT ![t] = "test"] /\ main # "fork"
        /\ UNCHANGED <<main, result, stop_threads, has_backup, board_lock, saved, moves>>
    <3>1. main # "fork" \/ thread[t] # "act"
      BY DEF Threads
    <3> QED
      BY <1>2, <3>1 DEF GhostActs
  <2>2. alive' \in BOOLEAN
    BY <1>2 DEF GhostActs
  <2>3. /\ thread' \in [Threads -> {"test", "act", "after", "done"}]
        /\ thread'["pacman"] = thread["pacman"]
    BY <2>1
  <2> QED
    BY <2>1, <2>2, <2>3
<1>3. CASE t = "screen" /\ ScreenDraws
  BY <1>3 DEF ScreenDraws
<1> QED
  BY <1>1, <1>2, <1>3 DEF OtherStep

LEMMA GameMain == ASSUME GameInv, MainStep PROVE GameInv'
<1> USE DEF GameInv, GameTypeOK, Backups, Over, Goto, AllDone, Started
<1>1. CASE MainSees
  BY <1>1 DEF MainSees
<1>2. CASE MainReturns
  BY <1>2 DEF MainReturns
<1>3. CASE BackupLocks
  BY <1>3 DEF BackupLocks
<1>4. CASE BackupJoins
  BY <1>4 DEF BackupJoins
<1>5. CASE Forks
  BY <1>5 DEF Forks
<1>6. CASE ChildQuits
  BY <1>6 DEF ChildQuits
<1>7. CASE RestoreDropsBackup
  BY <1>7 DEF RestoreDropsBackup
<1>8. CASE ResultReset
  BY <1>8 DEF ResultReset
<1> QED
  BY <1>1, <1>2, <1>3, <1>4, <1>5, <1>6, <1>7, <1>8 DEF MainStep

LEMMA GameStep == GameInv /\ [Next]_vars => GameInv'
<1> SUFFICES ASSUME GameInv, [Next]_vars PROVE GameInv'
  OBVIOUS
<1>1. CASE UNCHANGED vars
  BY <1>1 DEF vars, GameInv, GameTypeOK, Backups, Over, AllDone
<1> QED
  BY <1>1, GameMain, GamePacman, GameOther DEF Next

LEMMA GameInvariant == Spec => []GameInv
  BY GameInit, GameStep, PTL DEF Spec

\* Every variable of the standalone game keeps its type, and the child's main
\* is never asked for a backup (GameTypeOK).
THEOREM GameTypeCorrect == Spec => []GameTypeOK
<1>1. GameInv => GameTypeOK
  BY DEF GameInv
<1> QED
  BY <1>1, GameInvariant, PTL

\* create_backup forks when no thread runs and the mutex is free (ForksAlone).
THEOREM ForkTheorem == Spec => []ForksAlone
<1>1. GameInv => ForksAlone
  BY DEF GameInv, Backups, ForksAlone
<1> QED
  BY <1>1, GameInvariant, PTL

\* No thread writes over what ended a level; main does, when the child begins or
\* ends and after a restored backup (ThreadsKeepTheEnd).
THEOREM EndTheorem == Spec => ThreadsKeepTheEnd
<1> DEFINE Kept == result # "CONTINUE" /\ result' # result
                     => \/ main' # main /\ main \in {"fork", "child", "reset"}
                        \/ result = "CREATE" /\ main \in {"restored", "reset"}
<1>1. ASSUME GameInv, [Next]_vars PROVE Kept
  <2>1. CASE MainStep
    BY <2>1 DEF MainStep, MainSees, MainReturns, BackupLocks, BackupJoins, Forks,
         ChildQuits, RestoreDropsBackup, ResultReset, Goto
  <2>2. CASE PacmanTests \/ NoKey \/ PacmanLeaves
    BY <2>2 DEF PacmanTests, NoKey, PacmanLeaves
  <2>3. CASE PacmanActs
    BY <1>1, <2>3 DEF PacmanActs, ThreadGoto, GameInv, Over
  <2>4. ASSUME NEW t \in Threads \ {"pacman"}, OtherStep(t) PROVE Kept
    BY <2>4 DEF OtherStep, OtherTests, GhostActs, ScreenDraws
  <2>5. CASE UNCHANGED vars
    BY <2>5 DEF vars
  <2> QED
    BY <1>1, <2>1, <2>2, <2>3, <2>4, <2>5 DEF Next, PacmanStep
<1>2. Spec => [][Kept]_vars
  BY <1>1, GameInvariant, PTL DEF Spec
<1> QED
  BY <1>2 DEF ThreadsKeepTheEnd
=============================================================================
