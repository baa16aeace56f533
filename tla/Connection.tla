------------------------------ MODULE Connection ------------------------------
(***************************************************************************)
(* One client process and the manager thread of the server that serves it, *)
(* joined by two FIFOs the client made: it reads frames from one (notif)   *)
(* and writes commands to the other (req).  The request of the client is   *)
(* already in the queue (see RequestQueue) and the game is reduced to what *)
(* it does to the FIFOs (see GameSession).  A FIFO write with no reader    *)
(* raises SIGPIPE, which neither program handles: the process dies.        *)
(***************************************************************************)
EXTENDS Naturals, Sequences

CONSTANTS ReqCap, NotifCap      \* bounds: how many messages a FIFO holds

ASSUME CapAssumption == ReqCap \in Nat \ {0} /\ NotifCap \in Nat \ {0}

VARIABLES
  main, recv,        \* where the client's main and receiver threads are
  mgr,               \* where the manager thread is
  req, notif,        \* what was written to the FIFOs and not yet read
  end,               \* of each end of a FIFO: "none" yet, "open", "closed"
  met,               \* both have the notification FIFO open
  linked,            \* the FIFOs have a name
  stop_execution, server_dead,      \* flags of the client
  server_shutdown

client == <<main, recv, stop_execution, server_dead>>
fifos  == <<req, notif, end, met, linked>>
vars   == <<client, mgr, fifos, server_shutdown>>

Ends == {"client req", "client notif", "server req", "server notif"}
IsOpen(e) == end[e] = "open"
Closed(S) == [e \in Ends |-> IF e \in S THEN "closed" ELSE end[e]]
ClientEnds == {"client req", "client notif"}
ServerEnds == {"server req", "server notif"}

\* A thread in the middle of a read keeps the FIFO open for reading, even
\* when another thread closes the descriptor meanwhile.
NotifHasReader == IsOpen("client notif") \/ recv = "reading"

Init ==
  /\ main = "start" /\ recv = "none" /\ mgr = "queue"
  /\ req = <<>> /\ notif = <<>> /\ end = [e \in Ends |-> "none"]
  /\ met = FALSE /\ linked = TRUE
  /\ stop_execution = FALSE /\ server_dead = FALSE /\ server_shutdown = FALSE

MainGoto(from, to) == main = from /\ main' = to
MgrGoto(from, to)  == mgr = from /\ mgr' = to

\* The process ends: the kernel closes what it has open.
ClientQuitsAs(how) == /\ main' = how /\ recv' = "none"
                    /\ end' = Closed(ClientEnds)
ServerDies == mgr' = "killed" /\ end' = Closed(ServerEnds)
-----------------------------------------------------------------------------
(* The client's main thread: pacman_connect.                               *)

\* open(notif) waits for the manager to open it too.
ConnectOpensNotif ==
  /\ MainGoto("start", "wait writer")
  /\ end' = [end EXCEPT !["client notif"] = "open"]
  /\ met' = IsOpen("server notif")
  /\ UNCHANGED <<recv, stop_execution, server_dead, mgr, req, notif, linked,
                 server_shutdown>>

ConnectNotifOpen ==
  /\ MainGoto("wait writer", "open req") /\ met
  /\ UNCHANGED <<recv, stop_execution, server_dead, mgr, fifos, server_shutdown>>

\* open(req, O_WRONLY | O_NONBLOCK) fails while nobody reads it.
ConnectOpensReq ==
  /\ MainGoto("open req", "reply") /\ IsOpen("server req")
  /\ end' = [end EXCEPT !["client req"] = "open"]
  /\ UNCHANGED <<recv, stop_execution, server_dead, mgr, req, notif, met,
                 linked, server_shutdown>>

ConnectFails ==                  \* ENXIO, or the server ends before it replies
  /\ \/ main = "open req" /\ ~IsOpen("server req")
     \/ main = "reply" /\ notif = <<>> /\ ~IsOpen("server notif")
  /\ main' = "give up"
  /\ end' = [end EXCEPT !["client notif"] = "closed"]
  /\ UNCHANGED <<recv, stop_execution, server_dead, mgr, req, notif, met,
                 linked, server_shutdown>>

GivesUp ==                                  \* unlink both, return, exit
  /\ main = "give up" /\ ClientQuitsAs("failed") /\ linked' = FALSE
  /\ UNCHANGED <<stop_execution, server_dead, mgr, req, notif, met,
                 server_shutdown>>

ConnectReadsReply ==             \* and main starts the receiver
  /\ MainGoto("reply", "running") /\ notif # <<>> /\ Head(notif) = "ok"
  /\ notif' = Tail(notif) /\ recv' = "recv"
  /\ UNCHANGED <<stop_execution, server_dead, mgr, req, end, met, linked,
                 server_shutdown>>
-----------------------------------------------------------------------------
(* The loop of main, pacman_play and pacman_disconnect.                    *)

WritesReqRegardless(message, next) ==   \* slip: one message too many
  IF IsOpen("server req")
  THEN /\ main' = next
       /\ req' = IF Len(req) <= ReqCap THEN Append(req, message) ELSE req
       /\ UNCHANGED <<recv, end>>
  ELSE ClientQuitsAs("killed") /\ UNCHANGED req

\* What a write to req does; a full FIFO refuses it (O_NONBLOCK).
WritesReq(message, next) ==
  IF IsOpen("server req")
  THEN /\ main' = next
       /\ req' = IF Len(req) < ReqCap THEN Append(req, message) ELSE req
       /\ UNCHANGED <<recv, end>>
  ELSE ClientQuitsAs("killed") /\ UNCHANGED req

PlaysCommand ==
  /\ main = "running" /\ ~stop_execution /\ WritesReq("play", "running")
  /\ UNCHANGED <<stop_execution, server_dead, mgr, notif, met, linked,
                 server_shutdown>>

Quits ==                                              \* 'Q'
  /\ MainGoto("running", "disconnect") /\ ~stop_execution
  /\ UNCHANGED <<recv, stop_execution, server_dead, mgr, fifos, server_shutdown>>

StopsRunning ==
  /\ MainGoto("running", "disconnect") /\ stop_execution
  /\ UNCHANGED <<recv, stop_execution, server_dead, mgr, fifos, server_shutdown>>

SaysGoodbye ==
  /\ main = "disconnect"
  /\ IF server_dead THEN main' = "close req" /\ UNCHANGED <<recv, req, end>>
     ELSE WritesReq("bye", "close req")
  /\ UNCHANGED <<stop_execution, server_dead, mgr, notif, met, linked,
                 server_shutdown>>

ClosesReq ==
  /\ MainGoto("close req", "close notif")
  /\ end' = [end EXCEPT !["client req"] = "closed"]
  /\ UNCHANGED <<recv, stop_execution, server_dead, mgr, req, notif, met,
                 linked, server_shutdown>>

ClosesNotif ==
  /\ MainGoto("close notif", "join") /\ linked' = FALSE
  /\ end' = [end EXCEPT !["client notif"] = "closed"]
  /\ UNCHANGED <<recv, stop_execution, server_dead, mgr, req, notif, met,
                 server_shutdown>>

JoinsReceiver ==
  /\ main = "join" /\ recv = "done" /\ ClientQuitsAs("exit")
  /\ UNCHANGED <<stop_execution, server_dead, mgr, req, notif, met, linked,
                 server_shutdown>>
-----------------------------------------------------------------------------
(* The client's receiver thread.                                           *)

RecvGoto(from, to) == recv = from /\ recv' = to

\* read(): EBADF when main has closed the descriptor.
BeginsRead ==
  /\ RecvGoto("recv", IF IsOpen("client notif") THEN "reading" ELSE "stop")
  /\ UNCHANGED <<main, stop_execution, server_dead, mgr, fifos, server_shutdown>>

ReadsFrame ==
  /\ RecvGoto("reading", "recv") /\ notif # <<>> /\ notif' = Tail(notif)
  /\ UNCHANGED <<main, stop_execution, server_dead, mgr, req, end, met, linked,
                 server_shutdown>>

ReadsEofAgain ==             \* slip: the end of the FIFO taken for no frame
  /\ RecvGoto("reading", "recv") /\ notif = <<>> /\ ~IsOpen("server notif")
  /\ UNCHANGED <<main, stop_execution, server_dead, mgr, fifos, server_shutdown>>

ReadsEof ==
  /\ RecvGoto("reading", "stop") /\ notif = <<>> /\ ~IsOpen("server notif")
  /\ server_dead' = TRUE
  /\ UNCHANGED <<main, stop_execution, mgr, fifos, server_shutdown>>

TellsMain ==
  /\ RecvGoto("stop", "done") /\ stop_execution' = TRUE
  /\ UNCHANGED <<main, server_dead, mgr, fifos, server_shutdown>>

\* The client is killed from outside, its FIFOs keep their names.
Crashes ==
  /\ main \notin {"exit", "failed", "killed", "crashed"} /\ ClientQuitsAs("crashed")
  /\ UNCHANGED <<stop_execution, server_dead, mgr, req, notif, met, linked,
                 server_shutdown>>
-----------------------------------------------------------------------------
(* The manager: session_manager_thread.                                    *)

\* dequeue_request, and open(notif), which waits for the client.
MgrOpensNotif ==
  /\ mgr = "queue"
  /\ IF server_shutdown \/ ~linked
     THEN mgr' = "gone" /\ UNCHANGED <<end, met>>
     ELSE /\ mgr' = "wait reader" /\ met' = IsOpen("client notif")
          /\ end' = [end EXCEPT !["server notif"] = "open"]
  /\ UNCHANGED <<client, req, notif, linked, server_shutdown>>

MgrNotifOpen ==
  /\ MgrGoto("wait reader", "open req") /\ met
  /\ UNCHANGED <<client, fifos, server_shutdown>>

MgrOpensReqLeaks ==          \* slip: a failed open leaves the other open
  /\ mgr = "open req"
  /\ IF linked THEN /\ mgr' = "reply"
                    /\ end' = [end EXCEPT !["server req"] = "open"]
     ELSE mgr' = "gone" /\ UNCHANGED end
  /\ UNCHANGED <<client, req, notif, met, linked, server_shutdown>>

MgrOpensReq ==                           \* O_NONBLOCK: waits for nobody
  /\ mgr = "open req"
  /\ IF linked THEN /\ mgr' = "reply"
                    /\ end' = [end EXCEPT !["server req"] = "open"]
     ELSE mgr' = "gone" /\ end' = Closed({"server notif"})
  /\ UNCHANGED <<client, req, notif, met, linked, server_shutdown>>

\* What a write to notif does: it waits while the FIFO is full.
WritesNotif(message, next) ==
  /\ NotifHasReader => Len(notif) < NotifCap
  /\ IF NotifHasReader
     THEN mgr' = next /\ notif' = Append(notif, message) /\ UNCHANGED end
     ELSE ServerDies /\ UNCHANGED notif
  /\ UNCHANGED <<client, req, met, linked, server_shutdown>>

MgrReplies == mgr = "reply" /\ WritesNotif("ok", "loop")

\* run_game_session, as the FIFOs see it.
SessionLoops ==
  /\ MgrGoto("loop", IF server_shutdown THEN "close req" ELSE "frame")
  /\ UNCHANGED <<client, fifos, server_shutdown>>

SessionSendsFrame == mgr = "frame" /\ WritesNotif("frame", "read")

\* A PLAY may end the last level, or find the pacman dead.
SessionReads ==
  /\ mgr = "read" /\ req # <<>> /\ req' = Tail(req)
  /\ IF Head(req) = "play" THEN mgr' \in {"loop", "over", "close req"}
     ELSE mgr' = "over"
  /\ UNCHANGED <<client, notif, end, met, linked, server_shutdown>>


SessionReadsNothing ==                   \* EAGAIN while a writer exists
  /\ req = <<>> /\ MgrGoto("read", IF IsOpen("client req") THEN "loop" ELSE "eof")
  /\ UNCHANGED <<client, fifos, server_shutdown>>

SessionTakesEof ==
  /\ MgrGoto("eof", "over") /\ UNCHANGED <<client, fifos, server_shutdown>>

\* After game_over: level after level without reading or writing.
SessionReloads ==
  /\ MgrGoto("over", "close req") /\ server_shutdown
  /\ UNCHANGED <<client, fifos, server_shutdown>>

\* cleanup_client.
CleanupClosesReq ==
  /\ MgrGoto("close req", "close notif") /\ end' = Closed({"server req"})
  /\ UNCHANGED <<client, req, notif, met, linked, server_shutdown>>

CleanupClosesNotif ==
  /\ MgrGoto("close notif", "gone") /\ end' = Closed({"server notif"})
  /\ UNCHANGED <<client, req, notif, met, linked, server_shutdown>>

ServerStops ==
  /\ ~server_shutdown /\ mgr # "killed" /\ server_shutdown' = TRUE
  /\ UNCHANGED <<client, mgr, fifos>>
-----------------------------------------------------------------------------
MainStep ==
  \/ ConnectOpensNotif \/ ConnectNotifOpen \/ ConnectOpensReq \/ ConnectFails
  \/ GivesUp \/ ConnectReadsReply \/ StopsRunning \/ SaysGoodbye \/ ClosesReq
  \/ ClosesNotif \/ JoinsReceiver

RecvStep == BeginsRead \/ ReadsFrame \/ ReadsEof \/ TellsMain

MgrStep ==
  \/ MgrOpensNotif \/ MgrNotifOpen \/ MgrOpensReq \/ MgrReplies
  \/ SessionLoops \/ SessionSendsFrame \/ SessionReads \/ SessionReadsNothing
  \/ SessionTakesEof \/ SessionReloads \/ CleanupClosesReq \/ CleanupClosesNotif

Next == MainStep \/ PlaysCommand \/ Quits \/ RecvStep \/ Crashes
        \/ MgrStep \/ ServerStops

Spec == Init /\ [][Next]_vars
\* Every thread goes on while its call does not block; the user need not
\* type anything, nobody need stop the server.
FairSpec == Spec /\ WF_vars(MainStep) /\ WF_vars(RecvStep) /\ WF_vars(MgrStep)
-----------------------------------------------------------------------------
Gone == {"exit", "failed", "killed", "crashed"}

\* The type invariant of a connection.
ConnTypeOK ==
  /\ main \in {"start", "wait writer", "open req", "reply", "give up", "running",
               "disconnect", "close req", "close notif", "join"} \cup Gone
  /\ recv \in {"none", "recv", "reading", "stop", "done"}
  /\ mgr \in {"queue", "wait reader", "open req", "reply", "loop", "frame",
              "read", "eof", "over", "close req", "close notif", "gone", "killed"}
  /\ req \in Seq({"play", "bye"}) /\ Len(req) <= ReqCap
  /\ notif \in Seq({"ok", "frame"}) /\ Len(notif) <= NotifCap
  /\ end \in [Ends -> {"none", "open", "closed"}]
  /\ {met, linked, stop_execution, server_dead, server_shutdown} \subseteq BOOLEAN

\* However the manager leaves a client, also when the second open fails, it
\* leaves no descriptor of it open.
NoDescriptorKept == mgr = "gone" => \A e \in ServerEnds : ~IsOpen(e)


\* When the server closes the FIFOs of a client, the client ends too.
ServerEndIsSeen == end["server notif"] = "closed" ~> main \in Gone

\* "Client %d disconnected (EOF)": what the session takes for the end of the
\* FIFO is the end of the client.
EofMeansDisconnected ==
  mgr = "eof" => main \in Gone \cup {"close notif", "join"}

\* "send_board_update: Error writing the board": a client that is gone makes
\* a write fail, and the server goes on.
ServerSurvives == mgr # "killed"

\* "Server already disconnected (EPIPE)": a client whose server is gone says
\* so and ends in order.
ClientSurvives == main # "killed"

\* "Client pressed 'Q', quitting game": the client then ends.
QuittingEnds == main = "disconnect" ~> main \in Gone
=============================================================================
