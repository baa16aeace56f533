------------------------------ MODULE ServerPool ------------------------------
(***************************************************************************)
(* All session managers and all clients together, over the channel that    *)
(* RequestQueue implements: who waits for whom while a client connects,    *)
(* what each ending of a client costs the pool of managers, which clients  *)
(* are registered when the host ranks them, and the server's shutdown.     *)
(* A client may be stopped for a while, or for good, and then reads no     *)
(* frame; a session may be stuck after a portal.                           *)
(* A client struct (client_t) is named after the client it is for.         *)
(***************************************************************************)
EXTENDS RequestChannel, Naturals, FiniteSets, SequencesExt

ASSUME PoolAssumption == /\ IsFiniteSet(Managers) /\ Managers # {}
                         /\ None \notin Clients

VARIABLES
  client,    \* where each client is
  stopped,   \* clients whose process is stopped
  mgr,       \* where each manager is
  serves,    \* the client whose FIFOs a manager opens or has opened
  registry,  \* connected_clients: a client_t each, in order
  freed,     \* clients whose client_t cleanup_client has freed
  ranking,   \* the host holds clients_lock, for a leaderboard
  main       \* "run", "join", "done"; "killed" by SIGPIPE

pool     == <<client, stopped, mgr, serves, registry, freed, ranking, main>>
poolvars == <<vars, pool>>

max_games == Cardinality(Managers)

PoolInit ==
  /\ Init
  /\ client = [c \in Clients |-> "new"] /\ stopped = {}
  /\ mgr = [m \in Managers |-> "loop"]
  /\ serves = [m \in Managers |-> None]
  /\ registry = <<>> /\ freed = {} /\ ranking = FALSE /\ main = "run"

MgrGoto(m, from, to) ==
  /\ main # "killed" /\ mgr[m] \in from /\ mgr' = [mgr EXCEPT ![m] = to]
ClientGoto(c, from, to) ==
  /\ client[c] \in from /\ c \notin stopped /\ client' = [client EXCEPT ![c] = to]
ServedBy(c, at) == {m \in Managers : serves[m] = c /\ mgr[m] \in at}
\* The manager, or the kernel, has closed its ends of the client's FIFOs.
Reached == {"play", "full", "stuck", "over", "cleanup"}    \* after the reply
ServerClosed(c) == main = "killed" \/ ServedBy(c, {"register", "reply"} \cup Reached) = {}
-----------------------------------------------------------------------------
(* A client: pacman_connect, play and quit.                                *)

Asks(c) ==
  /\ main = "run" /\ ClientGoto(c, {"new"}, "sent") /\ Enqueue(c)
  /\ UNCHANGED <<stopped, mgr, serves, registry, freed, ranking, main>>

ClientOpensNotifAtOnce(c) ==    \* slip: with O_NONBLOCK it waits for nobody
  /\ ClientGoto(c, {"sent"}, "req")
  /\ UNCHANGED <<vars, stopped, mgr, serves, registry, freed, ranking, main>>

\* open(notif, O_RDONLY) waits for the manager's open, or ends its wait.
ClientOpensNotif(c) ==
  LET them == IF main = "killed" THEN {} ELSE ServedBy(c, {"blocked"}) IN
  /\ ClientGoto(c, {"sent"}, IF them = {} THEN "wait" ELSE "req")
  /\ mgr' = [m \in Managers |-> IF m \in them THEN "open req" ELSE mgr[m]]
  /\ UNCHANGED <<vars, stopped, serves, registry, freed, ranking, main>>

\* open(req, O_WRONLY | O_NONBLOCK): ENXIO while the manager has not opened it.
ClientOpensReq(c) ==
  /\ ClientGoto(c, {"req"}, IF ServerClosed(c) THEN "unlink" ELSE "reply")
  /\ UNCHANGED <<vars, stopped, mgr, serves, registry, freed, ranking, main>>

Replied(c) == c \in freed \/ ServedBy(c, Reached) # {}
ReadsReply(c) ==
  /\ Replied(c) \/ ServerClosed(c)
  /\ ClientGoto(c, {"reply"}, IF Replied(c) THEN "play" ELSE "unlink")
  /\ UNCHANGED <<vars, stopped, mgr, serves, registry, freed, ranking, main>>

\* After close(notif_fd).
Unlinks(c) ==
  /\ ClientGoto(c, {"unlink"}, "failed")
  /\ UNCHANGED <<vars, stopped, mgr, serves, registry, freed, ranking, main>>

\* OP_CODE_DISCONNECT and close(req), then close(notif).
Quits(c) ==
  /\ ClientGoto(c, {"play"}, "bye") /\ ~ServerClosed(c)
  /\ UNCHANGED <<vars, stopped, mgr, serves, registry, freed, ranking, main>>
Ends(c) ==
  /\ (client[c] = "bye" \/ ServerClosed(c)) /\ ClientGoto(c, {"play", "bye"}, "left")
  /\ UNCHANGED <<vars, stopped, mgr, serves, registry, freed, ranking, main>>

Started == {"sent", "wait", "req", "reply", "unlink", "play", "bye"}
Crashes(c) ==
  /\ client[c] \in Started /\ client' = [client EXCEPT ![c] = "crashed"]
  /\ stopped' = stopped \ {c}
  /\ UNCHANGED <<vars, mgr, serves, registry, freed, ranking, main>>

\* Its terminal, or whoever started it, stops the process and may resume it.
Stalls(c) ==
  /\ client[c] \in Started /\ c \notin stopped /\ stopped' = stopped \cup {c}
  /\ UNCHANGED <<vars, client, mgr, serves, registry, freed, ranking, main>>
Resumes(c) ==
  /\ c \in stopped /\ stopped' = stopped \ {c}
  /\ UNCHANGED <<vars, client, mgr, serves, registry, freed, ranking, main>>
-----------------------------------------------------------------------------
(* A manager: session_manager_thread.                                      *)

Dequeues(m) ==
  /\ MgrGoto(m, {"loop"}, "got") /\ HandOver(m)
  /\ UNCHANGED <<client, stopped, serves, registry, freed, ranking, main>>

Leaves(m) ==                    \* while (!server_shutdown), or the break
  /\ closed /\ MgrGoto(m, {"loop", "got"}, "exit")
  /\ UNCHANGED <<vars, client, stopped, serves, registry, freed, ranking, main>>

Begins(m) ==
  /\ MgrGoto(m, {"got"}, "notif") /\ Open(m)
  /\ serves' = [serves EXCEPT ![m] = hand[m]]
  /\ UNCHANGED <<client, stopped, registry, freed, ranking, main>>

\* open(notif, O_WRONLY) waits for the client's open, or ends its wait.
MgrOpensNotif(m) ==
  LET c == serves[m] IN
  /\ MgrGoto(m, {"notif"}, IF client[c] = "wait" THEN "open req" ELSE "blocked")
  /\ client' = [client EXCEPT ![c] = IF @ = "wait" THEN "req" ELSE @]
  /\ UNCHANGED <<vars, stopped, serves, registry, freed, ranking, main>>

MgrOpensReqWaiting(m) ==        \* slip: without O_NONBLOCK it waits for the client
  /\ MgrGoto(m, {"open req"}, "register") /\ client[serves[m]] \in {"reply", "play"}
  /\ UNCHANGED <<vars, client, stopped, serves, registry, freed, ranking, main>>

MgrOpensReq(m) ==               \* ENOENT once the client has unlinked it
  /\ MgrGoto(m, {"open req"},
             IF client[serves[m]] = "failed" THEN "lost" ELSE "register")
  /\ UNCHANGED <<vars, client, stopped, serves, registry, freed, ranking, main>>

RegistersAlways(m) ==           \* slip: the limit is not tested
  /\ ~ranking /\ MgrGoto(m, {"register"}, "reply")
  /\ registry' = Append(registry, serves[m])
  /\ UNCHANGED <<vars, client, stopped, serves, freed, ranking, main>>

Registers(m) ==
  /\ ~ranking /\ MgrGoto(m, {"register"}, "reply")
  /\ registry' = IF Len(registry) < max_games THEN Append(registry, serves[m])
                 ELSE registry
  /\ UNCHANGED <<vars, client, stopped, serves, freed, ranking, main>>

Deaf == {"unlink", "failed", "left", "crashed"}    \* no longer reads notif
SigPipeIgnored(m) ==            \* slip: a failed reply ends the manager
  /\ MgrGoto(m, {"reply"}, "lost") /\ client[serves[m]] \in Deaf
  /\ UNCHANGED <<vars, client, stopped, serves, registry, freed, ranking, main>>

\* A write to a notification FIFO that nobody reads is the end of the server.
SigPipe(m) ==
  /\ main # "killed" /\ mgr[m] \in {"reply", "play", "full"}
  /\ client[serves[m]] \in Deaf /\ main' = "killed"
  /\ UNCHANGED <<vars, client, stopped, mgr, serves, registry, freed, ranking>>

Replies(m) ==
  /\ MgrGoto(m, {"reply"}, "play") /\ client[serves[m]] \notin Deaf
  /\ UNCHANGED <<vars, client, stopped, serves, registry, freed, ranking, main>>

\* A write of a frame waits while the FIFO is full and its reader is stopped.
Fills(m) ==
  /\ MgrGoto(m, {"play"}, "full") /\ serves[m] \in stopped
  /\ UNCHANGED <<vars, client, stopped, serves, registry, freed, ranking, main>>
Drains(m) ==
  /\ MgrGoto(m, {"full"}, "play") /\ serves[m] \notin stopped
  /\ client[serves[m]] \notin Deaf
  /\ UNCHANGED <<vars, client, stopped, serves, registry, freed, ranking, main>>

\* stop_ghost_threads after a portal, whose move kept the mutexes of two cells:
\* a ghost waits for one of them, and nothing ends the wait for that ghost.
Sticks(m) ==
  /\ MgrGoto(m, {"play"}, "stuck") /\ client[serves[m]] \notin {"req", "reply"}
  /\ UNCHANGED <<vars, client, stopped, serves, registry, freed, ranking, main>>

\* run_game_session returns after the last level.
Wins(m) ==
  /\ MgrGoto(m, {"play"}, "cleanup") /\ client[serves[m]] \notin {"req", "reply"}
  /\ UNCHANGED <<vars, client, stopped, serves, registry, freed, ranking, main>>

\* game_over: the pacman is dead, the client said goodbye, or the read found
\* an end of file, also that of a client that has not opened the FIFO yet.
GameOver(m) ==
  /\ MgrGoto(m, {"play"}, "over") /\ client[serves[m]] # "reply"
  /\ UNCHANGED <<vars, client, stopped, serves, registry, freed, ranking, main>>

\* if (server_shutdown) break: nothing else ends a game that is over.
Stops(m) ==
  /\ closed /\ MgrGoto(m, {"play", "over"}, "cleanup")
  /\ UNCHANGED <<vars, client, stopped, serves, registry, freed, ranking, main>>

Cleans(m) ==                    \* cleanup_client; the registry keeps its pointer
  /\ MgrGoto(m, {"cleanup"}, "loop") /\ freed' = freed \cup {serves[m]}
  /\ serves' = [serves EXCEPT ![m] = None]
  /\ UNCHANGED <<vars, client, stopped, registry, ranking, main>>
-----------------------------------------------------------------------------
(* The host's generate_leaderboard, and main's cleanup_server.             *)

RankBegins ==                   \* nothing to do while the count is 0
  /\ main \in {"run", "join"} /\ ~ranking /\ registry # <<>> /\ ranking' = TRUE
  /\ UNCHANGED <<vars, client, stopped, mgr, serves, registry, freed, main>>
RankEnds ==
  /\ main # "killed" /\ ranking /\ ranking' = FALSE
  /\ UNCHANGED <<vars, client, stopped, mgr, serves, registry, freed, main>>

ShutsDown ==
  /\ main = "run" /\ main' = "join" /\ Close
  /\ UNCHANGED <<client, stopped, mgr, serves, registry, freed, ranking>>

\* The host's join is RequestQueue's matter.
Joins ==
  /\ main = "join" /\ \A m \in Managers : mgr[m] \in {"exit", "lost"}
  /\ main' = "done"
  /\ UNCHANGED <<vars, client, stopped, mgr, serves, registry, freed, ranking>>
-----------------------------------------------------------------------------
ClientGoesOn(c) == ClientOpensNotif(c) \/ ClientOpensReq(c) \/ ReadsReply(c)
                   \/ Unlinks(c) \/ Ends(c)
MgrGoesOn(m) ==
  \/ Dequeues(m) \/ Leaves(m) \/ Begins(m) \/ MgrOpensNotif(m) \/ MgrOpensReq(m)
  \/ Registers(m) \/ SigPipe(m) \/ Replies(m) \/ Drains(m) \/ Stops(m) \/ Cleans(m)

\* What happens without a user, a signal, a crash or the course of a game.
GoesOn == \/ \E c \in Clients : ClientGoesOn(c)
          \/ \E m \in Managers : MgrGoesOn(m)
          \/ RankEnds \/ Joins

PoolNext ==
  \/ GoesOn \/ RankBegins \/ ShutsDown
  \/ \E c \in Clients : Asks(c) \/ Quits(c) \/ Crashes(c) \/ Stalls(c) \/ Resumes(c)
  \/ \E m \in Managers : Wins(m) \/ GameOver(m) \/ Fills(m) \/ Sticks(m)

PoolSpec == PoolInit /\ [][PoolNext]_poolvars
-----------------------------------------------------------------------------
\* The type invariant.  connected_clients has room for max_games, and keeps
\* to it however many sessions the managers have had.
PoolTypeOK ==
  /\ client \in [Clients -> {"new", "sent", "wait", "req", "reply", "unlink",
                             "failed", "play", "bye", "left", "crashed"}]
  /\ stopped \subseteq Clients
  /\ mgr \in [Managers -> {"loop", "got", "notif", "blocked", "open req", "register",
                           "reply", "exit", "lost"} \cup Reached]
  /\ serves \in [Managers -> Clients \cup {None}] /\ freed \subseteq Clients
  /\ registry \in Seq(Clients) /\ Len(registry) <= max_games
  /\ ranking \in BOOLEAN /\ main \in {"run", "join", "done", "killed"}

\* Whom nothing moves but a user, a signal, a crash or the course of a game.
ClientWaits(c) ==
  \/ c \in stopped
  \/ client[c] \in {"new", "wait", "failed", "left", "crashed"}
  \/ client[c] = "reply" /\ ~Replied(c) /\ ~ServerClosed(c)
  \/ client[c] = "play" /\ ~ServerClosed(c)
MgrWaits(m) ==
  \/ mgr[m] \in {"blocked", "stuck", "exit", "lost"}
  \/ mgr[m] = "full" /\ serves[m] \in stopped /\ client[serves[m]] \notin Deaf
  \/ mgr[m] = "loop" /\ waiting = <<>> /\ ~closed
  \/ mgr[m] = "register" /\ ranking
  \/ mgr[m] = "play" /\ ~closed /\ client[serves[m]] \notin Deaf
  \/ mgr[m] = "over" /\ ~closed
MainWaits == main = "join" => \E m \in Managers : mgr[m] \notin {"exit", "lost"}
Quiet ==
  /\ \A c \in Clients : ClientWaits(c)
  /\ main # "killed" => MainWaits /\ ~ranking /\ \A m \in Managers : MgrWaits(m)

\* Quiet misses nobody: no thread and no client can go on by itself, in an open,
\* a read, a lock or a join of its own, exactly when it says so above.
QuietIsStill == Quiet <=> ~ENABLED GoesOn

\* When all wait on one another while requests wait to be served, then every
\* manager is held by a client of its own: one that has not opened its FIFO,
\* one whose game goes on, is over or is stuck, one that is stopped, or one that
\* gave up connecting.
HeldBy(m) == IF \/ mgr[m] \in {"blocked", "play", "full", "stuck", "over"}
                \/ mgr[m] = "lost" /\ client[serves[m]] = "failed"
             THEN {serves[m]} ELSE {}
PoolServes ==
  Quiet /\ main = "run" /\ waiting # <<>>
    => Cardinality(UNION {HeldBy(m) : m \in Managers}) = max_games

\* cleanup_server's joins of the managers are over, or each manager that they
\* wait for is held: by a client that died or was stopped between its request
\* and its open, by one that was stopped and reads no frame, or by a portal.
Held(m) ==
  \/ mgr[m] = "blocked" /\ (serves[m] \in stopped \/ client[serves[m]] = "crashed")
  \/ mgr[m] = "full" /\ serves[m] \in stopped
  \/ mgr[m] = "stuck"
ShutdownJoins ==
  Quiet /\ main = "join" => \A m \in Managers : mgr[m] \in {"exit", "lost"} \/ Held(m)

\* generate_leaderboard reads the points of every registered client.
RankedAreAlive == ranking => ToSet(registry) \cap freed = {}

\* "connected_clients": whoever plays is in it.
PlayersAreRanked == \A m \in Managers : mgr[m] = "play" => serves[m] \in ToSet(registry)

\* cleanup_server: the joins of the managers come to an end.
ShutdownNeedsNoClient == Quiet => main # "join"
=============================================================================
