---------------------------- MODULE StandaloneGame ----------------------------
(***************************************************************************)
(* The threads of the standalone game: main waits on result, the pacman    *)
(* thread writes it, ghost and screen threads read it, all under one       *)
(* mutex.  A backup stops the threads and forks: the child plays on with   *)
(* threads of its own, the parent waits for it and restores its board.     *)
(* What a move does to the board is reduced to its result (see Board).     *)
(***************************************************************************)
EXTENDS Naturals

CONSTANTS
  Ghosts,
  Levels             \* n_levels

ASSUME GameAssumption ==
  Levels \in Nat \ {0} /\ {"pacman", "screen"} \cap Ghosts = {}

VARIABLES
  main,              \* where main is; "child" is the main of the child
  thread,            \* where each thread of the running process is
  result,            \* *result of that process
  stop_threads, has_backup,
  board_lock,        \* whether main holds it; the threads' sections are steps
  alive,             \* the pacman is
  saved,             \* alive in the memory of a parent that waits
  moves              \* of the pacman: "typed" when the level has no file for it,
                     \* "G" while the next order of its file is a backup

vars == <<main, thread, result, stop_threads, has_backup, board_lock, alive,
          saved, moves>>

Threads == Ghosts \cup {"pacman", "screen"}
Started == [t \in Threads |-> "test"]
AllDone == \A t \in Threads : thread[t] = "done"
\* From the keyboard get_input lets only moves and 'Q' through.
Commands == [typed |-> {"move", "Q"}, any |-> {"move", "Q", "G"}, G |-> {"G"}]

Init ==
  /\ main = "play" /\ thread = Started /\ result = "CONTINUE"
  /\ stop_threads = FALSE /\ has_backup = FALSE /\ board_lock = FALSE
  /\ alive = TRUE /\ saved = TRUE /\ moves \in {"typed", "any"}

Goto(from, to) == main = from /\ main' = to
ThreadGoto(t, from, to) == thread[t] = from /\ thread' = [thread EXCEPT ![t] = to]
-----------------------------------------------------------------------------
(* pacman_thread.                                                          *)

PacmanTests ==
  /\ ThreadGoto("pacman", "test", IF ~stop_threads /\ alive THEN "act" ELSE "done")
  /\ UNCHANGED <<main, result, stop_threads, has_backup, board_lock, alive,
                 saved, moves>>

NoKey ==
  /\ moves = "typed" /\ ThreadGoto("pacman", "act", "test")
  /\ UNCHANGED <<main, result, stop_threads, has_backup, board_lock, alive,
                 saved, moves>>

ResultOfUnchecked(c, move) ==      \* slip: asks for a backup of a backup
  CASE move = "portal" -> "NEXT"
    [] move = "dead"   -> "QUIT"
    [] move = "valid" /\ c = "Q" -> "QUIT"
    [] move = "valid" /\ c = "G" -> "CREATE"
    [] OTHER -> "CONTINUE"

\* What *result becomes after the order c, and what the move came to.
ResultOf(c, move) ==
  CASE move = "portal" -> "NEXT"
    [] move = "dead"   -> "QUIT"
    [] move = "valid" /\ c = "Q" -> "QUIT"
    [] move = "valid" /\ c = "G" -> IF has_backup THEN result ELSE "CREATE"
    [] OTHER -> "CONTINUE"

\* A backup order is not a move: current_move stays on it for good.
PacmanActs ==
  /\ ~board_lock /\ ThreadGoto("pacman", "act", "after")
  /\ \E c \in Commands[moves] :
       \E move \in IF ~alive THEN {"dead"}
                   ELSE IF c = "move" THEN {"valid", "portal", "dead"}
                   ELSE {"valid"} :
         /\ result' = ResultOf(c, move) /\ alive' = (alive /\ move # "dead")
         /\ moves' = IF c = "G" THEN "G" ELSE moves
  /\ UNCHANGED <<main, stop_threads, has_backup, board_lock, saved>>

PacmanGoesOn ==              \* slip: does not leave its loop
  /\ ThreadGoto("pacman", "after", "test")
  /\ UNCHANGED <<main, result, stop_threads, has_backup, board_lock, alive,
                 saved, moves>>

PacmanLeaves ==
  /\ ThreadGoto("pacman", "after", IF result # "CONTINUE" THEN "done" ELSE "test")
  /\ UNCHANGED <<main, result, stop_threads, has_backup, board_lock, alive,
                 saved, moves>>
-----------------------------------------------------------------------------
(* ghost_thread and screen_thread.                                         *)

OtherTests(t) ==
  /\ ThreadGoto(t, "test",
       IF ~stop_threads /\ result \notin {"QUIT", "NEXT"} THEN "act" ELSE "done")
  /\ UNCHANGED <<main, result, stop_threads, has_backup, board_lock, alive,
                 saved, moves>>

GhostActs(g) ==                                        \* may kill the pacman
  /\ ~board_lock /\ ThreadGoto(g, "act", "test") /\ alive' \in {alive, FALSE}
  /\ UNCHANGED <<main, result, stop_threads, has_backup, board_lock, saved,
                 moves>>

ScreenDraws ==
  /\ ~board_lock /\ ThreadGoto("screen", "act", "test")
  /\ UNCHANGED <<main, result, stop_threads, has_backup, board_lock, alive,
                 saved, moves>>
-----------------------------------------------------------------------------
(* main and create_backup.                                                 *)

MainSees ==
  /\ main = "play" /\ result # "CONTINUE"
  /\ main' = IF result = "CREATE" THEN "backup" ELSE "join"
  /\ UNCHANGED <<thread, result, stop_threads, has_backup, board_lock, alive,
                 saved, moves>>

\* Whatever ended the level, main returns after it.
MainReturns ==
  /\ Goto("join", "end") /\ AllDone
  /\ UNCHANGED <<thread, result, stop_threads, has_backup, board_lock, alive,
                 saved, moves>>

BackupLocks ==
  /\ Goto("backup", "kill") /\ board_lock' = TRUE /\ stop_threads' = TRUE
  /\ UNCHANGED <<thread, result, has_backup, alive, saved, moves>>

BackupJoinsSome ==           \* slip: forgets the screen thread
  /\ Goto("kill", "fork") /\ \A t \in Threads \ {"screen"} : thread[t] = "done"
  /\ has_backup' = TRUE /\ board_lock' = FALSE
  /\ UNCHANGED <<thread, result, stop_threads, alive, saved, moves>>

BackupJoins ==                    \* kill_threads, with board_lock still held
  /\ Goto("kill", "fork") /\ AllDone
  /\ has_backup' = TRUE /\ board_lock' = FALSE
  /\ UNCHANGED <<thread, result, stop_threads, alive, saved, moves>>

Forks ==                          \* from here on the child runs
  /\ Goto("fork", "child") /\ saved' = alive /\ stop_threads' = FALSE
  /\ result' = "CONTINUE" /\ thread' = Started
  /\ UNCHANGED <<has_backup, board_lock, alive, moves>>

\* The child never gets past the order that asked for its backup: it meets no
\* portal and ends when a ghost has killed its pacman.
\* exit(1): the parent goes on in its own memory, but the threads it starts
\* find the *result that asked for the backup.
ChildQuits ==
  /\ Goto("child", "restored") /\ result = "QUIT"
  /\ stop_threads' = FALSE /\ thread' = Started /\ result' = "CREATE"
  /\ alive' = saved /\ moves' = "G"
  /\ UNCHANGED <<has_backup, board_lock, saved>>

RestoreDropsBackup ==
  /\ Goto("restored", "reset") /\ has_backup' = FALSE
  /\ UNCHANGED <<thread, result, stop_threads, board_lock, alive, saved, moves>>

ResultReset ==                    \* whatever the new threads wrote meanwhile
  /\ Goto("reset", "play") /\ result' = "CONTINUE"
  /\ UNCHANGED <<thread, stop_threads, has_backup, board_lock, alive, saved, moves>>
-----------------------------------------------------------------------------
MainStep ==
  \/ MainSees \/ MainReturns \/ BackupLocks \/ BackupJoins \/ Forks
  \/ ChildQuits \/ RestoreDropsBackup \/ ResultReset
PacmanStep == PacmanTests \/ NoKey \/ PacmanActs \/ PacmanLeaves
OtherStep(t) == OtherTests(t) \/ (t \in Ghosts /\ GhostActs(t))
                \/ (t = "screen" /\ ScreenDraws)

Next == MainStep \/ PacmanStep \/ \E t \in Threads \ {"pacman"} : OtherStep(t)

Spec == Init /\ [][Next]_vars
\* Every thread goes on while nothing blocks it.
FairSpec == Spec /\ WF_vars(MainStep) /\ WF_vars(PacmanStep)
                 /\ \A t \in Threads \ {"pacman"} : WF_vars(OtherStep(t))
-----------------------------------------------------------------------------
\* The type invariant of the standalone game; the child's main, which knows
\* nothing of backups, is never asked for one.
GameTypeOK ==
  /\ main \in {"play", "join", "end", "backup", "kill", "fork", "child",
               "restored", "reset"}
  /\ thread \in [Threads -> {"test", "act", "after", "done"}]
  /\ result \in {"CONTINUE", "NEXT", "QUIT", "CREATE"}
  /\ {stop_threads, has_backup, board_lock, alive, saved} \subseteq BOOLEAN
  /\ moves \in {"typed", "any", "G"}
  /\ main = "child" => result \in {"CONTINUE", "QUIT"}

\* When main forks, it is the only thread and the mutex is free, so that the
\* copy in the child is one that no thread is in the middle of changing.
ForksAlone == main = "fork" => AllDone /\ ~board_lock

\* What ends a level is taken back by main alone, and only as it begins the
\* child, ends it, and, unlocked, after a restored backup: no thread writes over
\* it, apart from the CREATE that the restored parent finds again.
ThreadsKeepTheEnd ==
  [][result # "CONTINUE" /\ result' # result
       => \/ main' # main /\ main \in {"fork", "child", "reset"}
          \/ result = "CREATE" /\ main \in {"restored", "reset"}]_vars

\* Once the result says so, every thread ends and main returns.
QuitEnds == main = "play" /\ result = "QUIT" ~> main = "end"

\* "non-blocking backups": a backup that has begun reaches its fork.
BackupForks == main = "backup" ~> main = "fork"

\* "main vai para [o] próximo nível": the portal of a level that is not the
\* last one does not end the game.
PortalIsNotTheEnd == main = "end" /\ Levels > 1 => result # "NEXT"

\* "actualizar resultado que a main vai ler": main reads the end of a restored
\* game too, and does not write over it.
EndIsSeen == main \in {"restored", "reset"} /\ result = "QUIT" ~> main = "end"

\* "actualizar resultado que a main vai ler": main gets to know of a death.
DeathEnds == ~alive ~> main \in {"end", "restored"}
=============================================================================
