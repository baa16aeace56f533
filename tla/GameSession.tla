----------------------------- MODULE GameSession -----------------------------
(***************************************************************************)
(* run_game_session: what a manager thread does for one client.  It loads  *)
(* a level, starts the ghost threads, and until the level ends sends a     *)
(* frame and reads what the client asks; then it stops the ghosts, frees   *)
(* the board, and loads the next level or the same one again.  The ghosts  *)
(* and the board are those of Board; every level has the same layout.      *)
(***************************************************************************)
EXTENDS Board

CONSTANTS
  Levels,            \* how many levels the directory has
  MaxBacklog         \* bound: PLAYs unread when the client leaves

ASSUME LevelsAssumption == Levels \in Nat \ {0} /\ MaxBacklog \in Nat

VARIABLES
  pc,                \* where the session is
  current_level,
  client_points,     \* client->points, what every frame shows
  shutdown,          \* board->shutdown: the ghosts must exit
  server_shutdown,   \* set by the main thread
  client,            \* "on" until it disconnects or closes its request FIFO
  backlog            \* PLAYs it wrote before it left, still in the FIFO

session == <<pc, current_level, client_points, shutdown>>
world   == <<server_shutdown, client, backlog>>
svars   == <<board, session, world>>

Gone == [g \in Ghosts |-> [Asleep(GhostStart[g], FALSE) EXCEPT !.pc = "exit"]]

\* A board_t that malloc and memset made: no ghost thread runs yet.
SessionInit ==
  /\ content = LevelContent /\ dots = Cells \ (Walls \cup Portals)
  /\ pac = [pos |-> PacStart, alive |-> TRUE, points |-> 0] /\ ghosts = Gone
  /\ lock = [c \in Cells |-> "nobody"] /\ victory = FALSE /\ game_over = FALSE
  /\ pc = "levels" /\ current_level = 0 /\ client_points = 0
  /\ shutdown = FALSE /\ server_shutdown = FALSE
  /\ client = "on" /\ backlog = 0

Goto(from, to) == pc = from /\ pc' = to
-----------------------------------------------------------------------------
LoadsLevelPoorer ==          \* slip: every level starts from no points
  /\ Goto("levels", "loop") /\ current_level < Levels /\ ~server_shutdown
  /\ Loaded(0)
  /\ UNCHANGED <<game_over, current_level, client_points, shutdown, world>>

\* game_over is not reset: once set, the loop below is never entered again.
LoadsLevel ==
  /\ Goto("levels", "loop") /\ current_level < Levels /\ ~server_shutdown
  /\ Loaded(client_points)
  /\ UNCHANGED <<game_over, current_level, client_points, shutdown, world>>

\* No level left, or the server stops: cleanup_client follows.
Returns ==
  /\ Goto("levels", "done") /\ (current_level = Levels \/ server_shutdown)
  /\ UNCHANGED <<board, current_level, client_points, shutdown, world>>

TestsFlags ==
  /\ Goto("loop", IF game_over \/ victory THEN "count" ELSE "sleep")
  /\ UNCHANGED <<board, current_level, client_points, shutdown, world>>

SleepsOn ==                  \* slip: does not look at the flag of the server
  /\ Goto("sleep", "frame")
  /\ UNCHANGED <<board, current_level, client_points, shutdown, world>>

\* sleep_ms, then the flag of the server.
Sleeps ==
  /\ Goto("sleep", IF server_shutdown THEN "end" ELSE "frame")
  /\ UNCHANGED <<board, current_level, client_points, shutdown, world>>

\* send_board_update: the flags and the points of now; its result is ignored.
SendsFrame ==
  /\ Goto("frame", "read")
  /\ UNCHANGED <<board, current_level, client_points, shutdown, world>>

ReadsNothing ==                                              \* EAGAIN
  /\ Goto("read", "loop") /\ client = "on"
  /\ UNCHANGED <<board, current_level, client_points, shutdown, world>>

ReadsPlay ==
  /\ Goto("read", "play")
  /\ \/ client = "on" /\ backlog' = backlog
     \/ backlog > 0 /\ backlog' = backlog - 1
  /\ UNCHANGED <<board, current_level, client_points, shutdown,
                 server_shutdown, client>>

ReadsEndAsNothing ==         \* slip: the end of the FIFO taken for EAGAIN
  /\ Goto("read", "loop") /\ client' = "off"
  /\ UNCHANGED <<board, current_level, client_points, shutdown,
                 server_shutdown, backlog>>

\* OP_CODE_DISCONNECT, an unknown code, an error or the end of the FIFO.
ReadsEnd ==
  /\ Goto("read", "end") /\ client' = "off"
  /\ UNCHANGED <<board, current_level, client_points, shutdown,
                 server_shutdown, backlog>>

EndsGame ==                             \* under state_lock, for writing
  /\ Goto("end", "count") /\ CanWrite /\ game_over' = TRUE
  /\ UNCHANGED <<cells, pac, ghosts, victory, current_level, client_points,
                 shutdown, world>>

Plays ==
  /\ Goto("play", "loop") /\ \E d \in Directions : Play(d)
  /\ client_points' = pac'.points
  /\ UNCHANGED <<current_level, shutdown, world>>

Counts ==
  /\ Goto("count", "stop")
  /\ current_level' = current_level + (IF victory THEN 1 ELSE 0)
  /\ UNCHANGED <<board, client_points, shutdown, world>>

\* stop_ghost_threads: the flag, the joins, the flag again.
StopsGhosts ==
  /\ Goto("stop", "join") /\ CanWrite /\ shutdown' = TRUE
  /\ UNCHANGED <<board, current_level, client_points, world>>

JoinsNobody ==               \* slip: does not wait for the threads
  /\ Goto("join", "unload") /\ shutdown' = FALSE
  /\ UNCHANGED <<board, current_level, client_points, world>>

JoinsGhosts ==
  /\ Goto("join", "unload") /\ \A g \in Ghosts : ghosts[g].pc = "exit"
  /\ shutdown' = FALSE
  /\ UNCHANGED <<board, current_level, client_points, world>>

\* unload_level: state_lock, the mutexes and the arrays are gone.
Unloads ==
  /\ Goto("unload", "levels")
  /\ UNCHANGED <<board, current_level, client_points, shutdown, world>>
-----------------------------------------------------------------------------
GhostThread(g) ==
  \/ /\ ~shutdown /\ GhostStarts(g) /\ UNCHANGED <<session, world>>
  \/ GhostTurn(g) /\ UNCHANGED <<session, world>>

GhostExits(g) ==
  /\ shutdown /\ ghosts[g].pc = "sleep"
  /\ Set(g, [ghosts[g] EXCEPT !.pc = "exit"])
  /\ UNCHANGED <<cells, pac, flags, session, world>>

ServerStops == /\ ~server_shutdown /\ server_shutdown' = TRUE
               /\ UNCHANGED <<board, session, client, backlog>>

ClientLeaves == /\ client = "on" /\ client' = "off"
                /\ backlog' \in 0 .. MaxBacklog
                /\ UNCHANGED <<board, session, server_shutdown>>

SessionStep ==
  \/ LoadsLevel \/ Returns \/ TestsFlags \/ Sleeps \/ SendsFrame
  \/ ReadsNothing \/ ReadsPlay \/ ReadsEnd \/ EndsGame \/ Plays \/ Counts
  \/ StopsGhosts \/ JoinsGhosts \/ Unloads

SessionOver == pc = "done" /\ UNCHANGED svars

SessionNext ==
  \/ SessionStep \/ ServerStops \/ ClientLeaves \/ SessionOver
  \/ \E g \in Ghosts : GhostThread(g) \/ GhostExits(g)

SessionSpec == SessionInit /\ [][SessionNext]_svars

\* Both threads go on while nothing blocks them.  Ghosts sleep for tempo
\* between turns, so that state_lock and a mutex that are free again and
\* again are got at last.
SessionFairSpec ==
  /\ SessionSpec
  /\ WF_svars(SessionStep) /\ SF_svars(EndsGame) /\ SF_svars(Plays)
  /\ SF_svars(StopsGhosts)
  /\ \A g \in Ghosts : /\ WF_svars(GhostThread(g)) /\ WF_svars(GhostExits(g))
                       /\ SF_svars(GhostLocks(g) /\ UNCHANGED <<session, world>>)
-----------------------------------------------------------------------------
\* The type invariant of the session.
SessionTypeOK ==
  /\ BoardTypeOK
  /\ pc \in {"levels", "loop", "sleep", "frame", "read", "play", "end",
             "count", "stop", "join", "unload", "done"}
  /\ current_level \in 0 .. Levels /\ client_points \in Nat
  /\ shutdown \in BOOLEAN /\ server_shutdown \in BOOLEAN
  /\ client \in {"on", "off"} /\ backlog \in 0 .. MaxBacklog

\* A ghost thread never outlives the board and the locks it uses.
NoGhostAfterFree ==
  pc \in {"unload", "levels", "done"} => \A g \in Ghosts : ghosts[g].pc = "exit"

\* The score of a client never falls, from level to level and through every
\* reload, and what its frames show is what the pacman of the level has.
ScoreKept ==
  [][client_points' >= client_points
     /\ (pc' # "levels" => client_points' = pac'.points)]_svars

\* A pacman that a ghost killed between two frames eats nothing more, and no
\* level counts as finished, whatever is still in the request FIFO.
DeadStaysDead ==
  [][~pac.alive /\ pc # "levels"
       => /\ client_points' = client_points /\ dots' = dots
          /\ (victory' => victory)]_svars

\* When the server stops, the session returns from wherever it is.
ShutdownEndsSession == server_shutdown ~> pc = "done"

\* When the client leaves, its ghosts stop, from wherever they are.
LeavingStopsGhosts ==
  client = "off" ~> \A g \in Ghosts : ghosts[g].pc = "exit"

\* "victory; // level finished": the level the flag ends is unloaded.
VictoryFinishesLevel == victory ~> pc = "levels"

\* cleanup_client "closes any opened server FIFOs and unlink pipe paths" of
\* a client: it is reached once the client has left.
LeavingEndsSession == client = "off" ~> pc = "done"

\* "game_over; // dead pacman": the flag says at last that it is dead.
DeathIsGameOver == ~pac.alive ~> game_over
=============================================================================
