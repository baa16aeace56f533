---------------------------- MODULE RequestQueue ----------------------------
(***************************************************************************)
(* The hand-off of session requests inside the game server: the host       *)
(* thread reads connect messages from the server FIFO and enqueues them in *)
(* the ring request_queue, the max_games session managers dequeue them,    *)
(* and main shuts everything down after SIGINT or SIGTERM.                 *)
(* One action is one step between two points where another thread or a    *)
(* signal can be noticed.  A session itself is one pc value, "serve": it   *)
(* may end, may end its thread (an early return NULL), or may never end.   *)
(***************************************************************************)
EXTENDS Integers, Sequences, FiniteSets

CONSTANTS
  Clients,    \* client processes, each of which asks for one session
  Managers,   \* session manager threads; max_games is their number
  QueueSize,  \* REQUEST_QUEUE_SIZE
  MaxUsr1,    \* bound: how many SIGUSR1 the operator sends
  Stale       \* contents of a slot of request_queue never written

ASSUME QueueAssumption ==
  /\ QueueSize \in Nat \ {0}
  /\ IsFiniteSet(Managers)
  /\ Stale \notin Clients
  /\ Managers \cap {"host", "nobody"} = {}
  /\ MaxUsr1 \in Nat

VARIABLES
  connecting,      \* clients whose open(server FIFO, O_WRONLY) was called
  called,          \* clients that have made their one attempt
  fifo,            \* connect messages in the server FIFO, oldest first
  server_fd,       \* "unset" | "open" | "closed"
  host, host_req,  \* pc of the host thread, its session_request_t
  request_queue, rq_head, rq_tail, rq_items, rq_slots,
  rq_mutex,        \* the thread that holds it, "nobody" when it is free
  mgr, mgr_req,    \* pc of each manager, its session_request_t
  main, posts,     \* pc of main, the loop counter of its sem_posts
  server_shutdown, sigusr1_received,
  usr1,            \* SIGUSR1 sent so far
  overruns,        \* history: sem_waits on rq_slots left through EINTR
  owed,            \* history: a SIGUSR1 awaits a leaderboard
  opened           \* history: requests a session was begun for, in order

ring    == <<request_queue, rq_head, rq_tail, rq_items, rq_slots, rq_mutex>>
outside == <<connecting, called, fifo>>
hostv   == <<server_fd, host, host_req>>
mgrv    == <<mgr, mgr_req, opened>>
mainv   == <<main, posts, server_shutdown>>
sigv    == <<sigusr1_received, usr1, overruns, owed>>
vars    == <<ring, outside, hostv, mgrv, mainv, sigv>>

Requests == Clients \cup {Stale}
Index    == 0 .. QueueSize - 1
AdvanceNoWrap(i) == i + 1               \* slip: the ring does not wrap
Advance(i) == (i + 1) % QueueSize

Init ==
  /\ connecting = {} /\ called = {} /\ fifo = <<>>
  /\ server_fd = "unset" /\ host = "open" /\ host_req = Stale
  /\ request_queue = [i \in Index |-> Stale]
  /\ rq_head = 0 /\ rq_tail = 0
  /\ rq_items = 0 /\ rq_slots = QueueSize /\ rq_mutex = "nobody"
  /\ mgr = [m \in Managers |-> "loop"]
  /\ mgr_req = [m \in Managers |-> Stale]
  /\ main = "sleep" /\ posts = 0 /\ server_shutdown = FALSE
  /\ sigusr1_received = FALSE /\ usr1 = 0 /\ overruns = 0 /\ owed = FALSE
  /\ opened = <<>>
-----------------------------------------------------------------------------
(* Clients, as far as the server FIFO sees them.  open(O_WRONLY) waits for *)
(* a reader; the 81-byte message is written at once, then the FIFO closed. *)

ClientOpen(c) ==
  /\ c \notin called
  /\ called' = called \cup {c} /\ connecting' = connecting \cup {c}
  /\ UNCHANGED <<fifo, ring, hostv, mgrv, mainv, sigv>>

\* A read in progress keeps the FIFO open for reading after close(server_fd).
HasReader == server_fd = "open" \/ host = "reading"

ClientWrite(c) ==
  /\ c \in connecting /\ HasReader
  /\ fifo' = Append(fifo, c) /\ connecting' = connecting \ {c}
  /\ UNCHANGED <<called, ring, hostv, mgrv, mainv, sigv>>
ClientDies(c) ==                                \* killed before its write
  /\ c \in connecting /\ connecting' = connecting \ {c}
  /\ UNCHANGED <<called, fifo, ring, hostv, mgrv, mainv, sigv>>
-----------------------------------------------------------------------------
(* host_thread, accept_new_client and enqueue_request.                     *)

HostGoto(from, to) == host = from /\ host' = to

\* open(server FIFO, O_RDONLY) returns once some client opens it to write.
HostOpen ==
  /\ HostGoto("open", "loop") /\ connecting # {}
  /\ server_fd' = "open"
  /\ UNCHANGED <<host_req, ring, outside, mgrv, mainv, sigv>>

\* while (!server_shutdown)
HostLoop ==
  /\ HostGoto("loop", IF server_shutdown THEN "exit" ELSE "accept")
  /\ UNCHANGED <<server_fd, host_req, ring, outside, mgrv, mainv, sigv>>

\* if (server_shutdown) return;
HostAccept ==
  /\ HostGoto("accept", IF server_shutdown THEN "sig" ELSE "read")
  /\ UNCHANGED <<server_fd, host_req, ring, outside, mgrv, mainv, sigv>>

\* read(server_fd, ...) is called; on a closed descriptor it returns -1 and
\* accept_new_client returns.
HostCallRead ==
  /\ HostGoto("read", IF server_fd = "open" THEN "reading" ELSE "sig")
  /\ UNCHANGED <<server_fd, host_req, ring, outside, mgrv, mainv, sigv>>

\* read returned a connect message: it becomes the request to enqueue.
HostRead ==
  /\ HostGoto("reading", "slots")
  /\ fifo # <<>> /\ host_req' = Head(fifo) /\ fifo' = Tail(fifo)
  /\ UNCHANGED <<connecting, called, server_fd, ring, mgrv, mainv, sigv>>

\* read returned a message of another size or with another OP_CODE.
HostRejects ==
  /\ HostGoto("reading", "sig") /\ fifo # <<>> /\ fifo' = Tail(fifo)
  /\ UNCHANGED <<connecting, called, server_fd, host_req, ring, mgrv, mainv, sigv>>

\* read returned 0: nobody has the FIFO open for writing.
HostReadNothing ==
  /\ HostGoto("reading", "sig") /\ fifo = <<>> /\ connecting = {}
  /\ UNCHANGED <<server_fd, host_req, ring, outside, mgrv, mainv, sigv>>

HostWaitSlot ==                                     \* sem_wait(&rq_slots)
  /\ HostGoto("slots", "lock") /\ rq_slots > 0
  /\ rq_slots' = rq_slots - 1
  /\ UNCHANGED <<request_queue, rq_head, rq_tail, rq_items, rq_mutex,
                 server_fd, host_req, outside, mgrv, mainv, sigv>>

HostLock ==
  /\ HostGoto("lock", "store") /\ rq_mutex = "nobody"
  /\ rq_mutex' = "host"
  /\ UNCHANGED <<request_queue, rq_head, rq_tail, rq_items, rq_slots,
                 server_fd, host_req, outside, mgrv, mainv, sigv>>

HostStore ==                             \* request_queue[rq_tail] = *req
  /\ HostGoto("store", "advance")
  /\ request_queue' = [request_queue EXCEPT ![rq_tail] = host_req]
  /\ UNCHANGED <<rq_head, rq_tail, rq_items, rq_slots, rq_mutex,
                 server_fd, host_req, outside, mgrv, mainv, sigv>>

HostAdvanceNoPost ==          \* slip: returns without sem_post(&rq_items)
  /\ HostGoto("advance", "sig")
  /\ rq_tail' = Advance(rq_tail) /\ rq_mutex' = "nobody"
  /\ UNCHANGED <<request_queue, rq_head, rq_items, rq_slots,
                 server_fd, host_req, outside, mgrv, mainv, sigv>>

HostAdvance ==                                \* move the tail and unlock
  /\ HostGoto("advance", "items")
  /\ rq_tail' = Advance(rq_tail) /\ rq_mutex' = "nobody"
  /\ UNCHANGED <<request_queue, rq_head, rq_items, rq_slots,
                 server_fd, host_req, outside, mgrv, mainv, sigv>>

HostPostItem ==                                     \* sem_post(&rq_items)
  /\ HostGoto("items", "sig")
  /\ rq_items' = rq_items + 1
  /\ UNCHANGED <<request_queue, rq_head, rq_tail, rq_slots, rq_mutex,
                 server_fd, host_req, outside, mgrv, mainv, sigv>>

HostTestSig ==                                  \* if (sigusr1_received)
  /\ HostGoto("sig", IF sigusr1_received THEN "clear" ELSE "loop")
  /\ UNCHANGED <<server_fd, host_req, ring, outside, mgrv, mainv, sigv>>

HostClearSig ==
  /\ HostGoto("clear", "leaderboard")
  /\ sigusr1_received' = FALSE
  /\ UNCHANGED <<usr1, overruns, owed, server_fd, host_req, ring, outside,
                 mgrv, mainv>>

HostLeaderboard ==                  \* generate_leaderboard() is called
  /\ HostGoto("leaderboard", "write")
  /\ owed' = FALSE
  /\ UNCHANGED <<sigusr1_received, usr1, overruns, server_fd, host_req, ring,
                 outside, mgrv, mainv>>

HostWrittenResets ==        \* slip: the flag is reset after the generation
  /\ HostGoto("write", "loop")
  /\ sigusr1_received' = FALSE
  /\ UNCHANGED <<usr1, overruns, owed, server_fd, host_req, ring, outside,
                 mgrv, mainv>>

HostWritten ==                           \* ... and returns, the file written
  /\ HostGoto("write", "loop")
  /\ UNCHANGED <<server_fd, host_req, ring, outside, mgrv, mainv, sigv>>

HostStep == \/ HostOpen \/ HostLoop \/ HostAccept \/ HostCallRead
            \/ HostRead \/ HostRejects \/ HostReadNothing \/ HostWaitSlot
            \/ HostLock \/ HostStore \/ HostAdvance \/ HostPostItem
            \/ HostTestSig \/ HostClearSig \/ HostLeaderboard \/ HostWritten
-----------------------------------------------------------------------------
(* session_manager_thread and dequeue_request.                             *)

MgrGoto(m, from, to) == mgr[m] = from /\ mgr' = [mgr EXCEPT ![m] = to]

MgrLoop(m) ==                                  \* while (!server_shutdown)
  /\ MgrGoto(m, "loop", IF server_shutdown THEN "exit" ELSE "items")
  /\ UNCHANGED <<mgr_req, opened, ring, outside, hostv, mainv, sigv>>

MgrWaitItem(m) ==                                   \* sem_wait(&rq_items)
  /\ MgrGoto(m, "items", "lock") /\ rq_items > 0
  /\ rq_items' = rq_items - 1
  /\ UNCHANGED <<request_queue, rq_head, rq_tail, rq_slots, rq_mutex,
                 mgr_req, opened, outside, hostv, mainv, sigv>>

MgrLockNoWait(m) ==                    \* slip: head read and moved unlocked
  /\ MgrGoto(m, "lock", "read")
  /\ UNCHANGED <<mgr_req, opened, ring, outside, hostv, mainv, sigv>>

MgrLock(m) ==
  /\ MgrGoto(m, "lock", "read") /\ rq_mutex = "nobody"
  /\ rq_mutex' = m
  /\ UNCHANGED <<request_queue, rq_head, rq_tail, rq_items, rq_slots,
                 mgr_req, opened, outside, hostv, mainv, sigv>>

MgrRead(m) ==                               \* req = request_queue[rq_head]
  /\ MgrGoto(m, "read", "advance")
  /\ mgr_req' = [mgr_req EXCEPT ![m] = request_queue[rq_head]]
  /\ UNCHANGED <<opened, ring, outside, hostv, mainv, sigv>>

MgrAdvanceNoPost(m) ==        \* slip: returns without sem_post(&rq_slots)
  /\ MgrGoto(m, "advance", "test")
  /\ rq_head' = Advance(rq_head) /\ rq_mutex' = "nobody"
  /\ UNCHANGED <<request_queue, rq_tail, rq_items, rq_slots,
                 mgr_req, opened, outside, hostv, mainv, sigv>>

MgrAdvance(m) ==                              \* move the head and unlock
  /\ MgrGoto(m, "advance", "slots")
  /\ rq_head' = Advance(rq_head) /\ rq_mutex' = "nobody"
  /\ UNCHANGED <<request_queue, rq_tail, rq_items, rq_slots,
                 mgr_req, opened, outside, hostv, mainv, sigv>>

MgrPostSlot(m) ==                                   \* sem_post(&rq_slots)
  /\ MgrGoto(m, "slots", "test")
  /\ rq_slots' = rq_slots + 1
  /\ UNCHANGED <<request_queue, rq_head, rq_tail, rq_items, rq_mutex,
                 mgr_req, opened, outside, hostv, mainv, sigv>>

MgrTestNoBreak(m) ==              \* slip: no test after dequeue_request
  /\ MgrGoto(m, "test", "serve")
  /\ opened' = Append(opened, mgr_req[m])
  /\ UNCHANGED <<mgr_req, ring, outside, hostv, mainv, sigv>>

\* if (server_shutdown) break; otherwise the session for mgr_req begins.
MgrTest(m) ==
  /\ MgrGoto(m, "test", IF server_shutdown THEN "exit" ELSE "serve")
  /\ opened' = IF server_shutdown THEN opened ELSE Append(opened, mgr_req[m])
  /\ UNCHANGED <<mgr_req, ring, outside, hostv, mainv, sigv>>

\* cleanup_client returned; or open or write failed and the thread is lost.
MgrSessionEnds(m) ==
  /\ \E to \in {"loop", "exit"} : MgrGoto(m, "serve", to)
  /\ UNCHANGED <<mgr_req, opened, ring, outside, hostv, mainv, sigv>>

MgrStep(m) == \/ MgrLoop(m) \/ MgrWaitItem(m) \/ MgrLock(m) \/ MgrRead(m)
              \/ MgrAdvance(m) \/ MgrPostSlot(m) \/ MgrTest(m)
-----------------------------------------------------------------------------
(* main and cleanup_server.                                                *)

MainGoto(from, to) == main = from /\ main' = to

MainWakes ==                         \* while (!server_shutdown) sleep(1);
  /\ MainGoto("sleep", "close") /\ server_shutdown
  /\ UNCHANGED <<posts, server_shutdown, ring, outside, hostv, mgrv, sigv>>

\* close(server_fd); while the host is still opening, server_fd is 0 and
\* closing it does not touch the FIFO.
MainClose ==
  /\ MainGoto("close", "post")
  /\ server_fd' = IF server_fd = "open" THEN "closed" ELSE server_fd
  /\ UNCHANGED <<posts, server_shutdown, host, host_req, ring, outside, mgrv,
                 sigv>>

MainPostOne ==                 \* slip: one post to wake all the managers
  /\ main = "post" /\ UNCHANGED main
  /\ posts < Cardinality(Managers)
  /\ posts' = Cardinality(Managers) /\ rq_items' = rq_items + 1
  /\ UNCHANGED <<server_shutdown, request_queue, rq_head, rq_tail, rq_slots,
                 rq_mutex, outside, hostv, mgrv, sigv>>

MainPost ==                          \* sem_post(&rq_items), max_games times
  /\ main = "post" /\ UNCHANGED main
  /\ posts < Cardinality(Managers)
  /\ posts' = posts + 1 /\ rq_items' = rq_items + 1
  /\ UNCHANGED <<server_shutdown, request_queue, rq_head, rq_tail, rq_slots,
                 rq_mutex, outside, hostv, mgrv, sigv>>

\* pthread_join of the host, then of every manager, then the FIFO is unlinked.
MainJoinHost ==
  /\ MainGoto("post", "join") /\ posts = Cardinality(Managers)
  /\ host = "exit"
  /\ UNCHANGED <<posts, server_shutdown, ring, outside, hostv, mgrv, sigv>>

MainJoinManagers ==
  /\ MainGoto("join", "done") /\ \A m \in Managers : mgr[m] = "exit"
  /\ UNCHANGED <<posts, server_shutdown, ring, outside, hostv, mgrv, sigv>>

MainStep == \/ MainWakes \/ MainClose \/ MainPost
            \/ MainJoinHost \/ MainJoinManagers
-----------------------------------------------------------------------------
(* Signals.  The kernel gives SIGINT and SIGTERM to main, which blocks     *)
(* neither; SIGUSR1 is unblocked in the host thread alone, which may be    *)
(* inside a call that fails with EINTR (no SA_RESTART), or just before it. *)

Terminate ==
  /\ ~server_shutdown /\ server_shutdown' = TRUE
  /\ UNCHANGED <<main, posts, ring, outside, hostv, mgrv, sigv>>

\* Where EINTR takes the host: open fails and the thread returns, read is
\* given up, sem_wait returns -1 unnoticed and no slot was reserved.
Interrupted ==
  \/ HostGoto("open", "exit") /\ UNCHANGED overruns
  \/ HostGoto("reading", "sig") /\ fifo = <<>> /\ connecting # {}
     /\ UNCHANGED overruns
  \/ HostGoto("slots", "lock") /\ rq_slots = 0 /\ overruns' = overruns + 1

Usr1 ==
  /\ usr1 < MaxUsr1 /\ host # "exit"
  /\ usr1' = usr1 + 1 /\ sigusr1_received' = TRUE /\ owed' = TRUE
  /\ Interrupted \/ UNCHANGED <<host, overruns>>
  /\ UNCHANGED <<server_fd, host_req, ring, outside, mgrv, mainv>>

Next == \/ \E c \in Clients : ClientOpen(c) \/ ClientWrite(c) \/ ClientDies(c)
        \/ HostStep \/ MainStep \/ Terminate \/ Usr1
        \/ \E m \in Managers : MgrStep(m) \/ MgrSessionEnds(m)

Spec == Init /\ [][Next]_vars

\* Every server thread keeps running; clients, signals and the end of a
\* session are not promised.
FairSpec == /\ Spec
            /\ WF_vars(HostStep) /\ WF_vars(MainStep)
            /\ \A m \in Managers : WF_vars(MgrStep(m))
-----------------------------------------------------------------------------
HostPC == {"open", "loop", "accept", "read", "reading", "slots", "lock",
           "store", "advance", "items", "sig", "clear", "leaderboard",
           "write", "exit"}
MgrPC  == {"loop", "items", "lock", "read", "advance", "slots", "test",
           "serve", "exit"}
MainPC == {"sleep", "close", "post", "join", "done"}

\* The type invariant: what each variable of the server may hold.
TypeOK ==
  /\ connecting \in SUBSET Clients /\ called \in SUBSET Clients
  /\ fifo \in Seq(Clients)
  /\ server_fd \in {"unset", "open", "closed"}
  /\ host \in HostPC /\ host_req \in Requests
  /\ request_queue \in [Index -> Requests]
  /\ rq_head \in Index /\ rq_tail \in Index
  /\ rq_items \in Nat /\ rq_slots \in Nat
  /\ rq_mutex \in Managers \cup {"host", "nobody"}
  /\ mgr \in [Managers -> MgrPC] /\ mgr_req \in [Managers -> Requests]
  /\ main \in MainPC /\ posts \in 0 .. Cardinality(Managers)
  /\ server_shutdown \in BOOLEAN /\ sigusr1_received \in BOOLEAN
  /\ usr1 \in 0 .. MaxUsr1 /\ overruns \in 0 .. usr1
  /\ owed \in BOOLEAN /\ opened \in Seq(Requests)

At(pcs)     == {m \in Managers : mgr[m] \in pcs}
HostAt(pcs) == IF host \in pcs THEN 1 ELSE 0

\* Requests stored and not yet taken; negative once managers woken by
\* cleanup_server have taken slots that hold no request.
Stored == rq_items + HostAt({"items"})
          + Cardinality(At({"lock", "read", "advance"})) - posts

\* The two semaphores and the threads between them conserve the slots of
\* the queue: only an interrupted sem_wait of the host (enqueue_request
\* ignores its result) or a wake-up post of cleanup_server adds one.
TokensConserved ==
  rq_slots + rq_items + HostAt({"lock", "store", "advance", "items"})
    + Cardinality(At({"lock", "read", "advance", "slots"}))
  = QueueSize + overruns + posts

\* Head and tail, each moved under rq_mutex by another thread, stay exactly
\* as far apart as the semaphores say there are requests in the ring.
RingConsistent == rq_tail = (rq_head + Stored) % QueueSize

\* No store runs over a request that nobody took yet, unless a SIGUSR1 made
\* the host skip the wait for a slot.
NoOverrun ==
  overruns = 0 => Stored + HostAt({"lock", "store", "advance"}) <= QueueSize

\* A manager woken by cleanup_server's posts never opens a session for a
\* slot that holds no request.
NoStaleSession == \A i \in 1 .. Len(opened) : opened[i] # Stale

\* Every SIGUSR1 is followed by a leaderboard generated after it came: the
\* flag is reset before the generation, never after it.
LeaderboardOwed ==
  owed => sigusr1_received \/ host \in {"leaderboard", "exit"}

\* After SIGINT or SIGTERM every manager that is not inside a session
\* leaves its loop: max_games posts are enough to wake them all.
ManagersExit ==
  \A m \in Managers :
    server_shutdown /\ main # "sleep" ~> mgr[m] \in {"serve", "exit"}

\* A request that the host has read is served, however full the ring is and
\* whoever else asks: a session is begun for it, unless the server stops or
\* every manager stays in another session (or its thread has ended).
Read(c)  == host_req = c /\ host \in {"slots", "lock", "store", "advance", "items"}
AllTaken == \A m \in Managers : mgr[m] \in {"serve", "exit"}
RequestsServed ==
  \A c \in Clients :
    Read(c) ~> \/ \E i \in DOMAIN opened : opened[i] = c
               \/ server_shutdown \/ []AllTaken

\* rq_slots counts "free request slots": it never exceeds the number of
\* slots that hold no request.
SlotsAreFree == posts = 0 => Stored + rq_slots <= QueueSize

\* The host thread handles client connections until the server shuts down.
HostServesUntilShutdown == host = "exit" => server_shutdown

\* cleanup_server "wakes" the host thread, which then leaves its loop.
ShutdownWakesHost == main = "post" ~> host = "exit"

\* The ring as an ordered channel: the stored requests from the head on, and
\* what the managers have read and not yet opened a session for.
Waiting ==
  IF server_shutdown THEN <<>>
  ELSE [i \in 1 .. Stored |-> request_queue[(rq_head + i - 1) % QueueSize]]
Hand ==
  [m \in Managers |-> IF ~server_shutdown /\ mgr[m] \in {"slots", "test"}
                      THEN mgr_req[m] ELSE Stale]
Channel == INSTANCE RequestChannel WITH
  None <- Stale, waiting <- Waiting, hand <- Hand, closed <- server_shutdown

\* What the queue is for, when no SIGUSR1 comes: an ordered channel, closed by
\* the shutdown.
ChannelSpec == Channel!Spec

\* With signals: up to the first interrupted sem_wait, every step of host,
\* managers, main and handlers is a step of the channel or invisible to it.
ChannelUntilOverrun ==
  Channel!Init /\ [][overruns' = 0 => Channel!Next]_(Channel!vars)
=============================================================================
