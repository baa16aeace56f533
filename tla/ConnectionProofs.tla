--------------------------- MODULE ConnectionProofs ---------------------------
(***************************************************************************)
(* Proofs about Connection, for FIFOs of every capacity.                   *)
(***************************************************************************)
EXTENDS Connection, SequenceTheorems, TLAPS

\* What the manager has open of a client's FIFOs, at each place of its code.
Descriptors ==
  /\ mgr \in {"queue", "wait reader", "open req"} => ~IsOpen("server req")
  /\ mgr = "queue" => ~IsOpen("server notif")
  /\ mgr \in {"close notif", "gone", "killed"} => ~IsOpen("server req")
  /\ mgr \in {"gone", "killed"} => ~IsOpen("server notif")

ConnInv == ConnTypeOK /\ Descriptors

LEMMA Shutting ==
  ASSUME ConnTypeOK, NEW S \in SUBSET Ends
  PROVE  /\ Closed(S) \in [Ends -> {"none", "open", "closed"}]
         /\ \A e \in S : Closed(S)[e] = "closed"
         /\ \A e \in Ends \ S : Closed(S)[e] = end[e]
  BY DEF ConnTypeOK, Closed

LEMMA Sending ==
  ASSUME NEW T, NEW q \in Seq(T), NEW m \in T, NEW n \in Nat, Len(q) < n
  PROVE  Append(q, m) \in Seq(T) /\ Len(Append(q, m)) <= n
  BY AppendProperties

LEMMA Receiving ==
  ASSUME NEW T, NEW q \in Seq(T), q # <<>>, NEW n \in Nat, Len(q) <= n
  PROVE  Head(q) \in T /\ Tail(q) \in Seq(T) /\ Len(Tail(q)) <= n
  BY HeadTailProperties

LEMMA ConnInit == Init => ConnInv
<1> SUFFICES ASSUME Init PROVE ConnInv
  OBVIOUS
<1>1. /\ req \in Seq({"play", "bye"}) /\ Len(req) <= ReqCap
      /\ notif \in Seq({"ok", "frame"}) /\ Len(notif) <= NotifCap
  BY CapAssumption DEF Init
<1>2. end \in [Ends -> {"none", "open", "closed"}] /\ Descriptors
  BY DEF Init, Descriptors, IsOpen, Ends
<1>3. {met, linked, stop_execution, server_dead, server_shutdown} \subseteq BOOLEAN
  BY DEF Init
<1> QED
  BY <1>1, <1>2, <1>3 DEF Init, ConnInv, ConnTypeOK

\* A write of the client either is stored, or ends the client.
LEMMA ConnWritesReq ==
  ASSUME ConnInv, NEW m \in {"play", "bye"}, NEW next \in {"running", "close req"},
         WritesReq(m, next),
         UNCHANGED <<stop_execution, server_dead, mgr, notif, met, linked,
                     server_shutdown>>
  PROVE  ConnInv'
<1>1. CASE IsOpen("server req")
  <2>1. req' \in Seq({"play", "bye"}) /\ Len(req') <= ReqCap
    <3>1. /\ req \in Seq({"play", "bye"}) /\ Len(req) <= ReqCap
          /\ req' = IF Len(req) < ReqCap THEN Append(req, m) ELSE req
      BY <1>1 DEF WritesReq, ConnInv, ConnTypeOK
    <3> QED
      BY <3>1, Sending, CapAssumption
  <2> QED
    BY <1>1, <2>1 DEF WritesReq, ConnInv, ConnTypeOK, Descriptors, IsOpen
<1>2. CASE ~IsOpen("server req")
  <2>1. main' = "killed" /\ recv' = "none" /\ end' = Closed(ClientEnds) /\ req' = req
    BY <1>2 DEF WritesReq, ClientQuitsAs
  <2> QED
    BY <2>1, Shutting DEF ConnInv, ConnTypeOK, Descriptors, IsOpen, ClientEnds, Ends, Gone
<1> QED
  BY <1>1, <1>2

LEMMA ConnMain ==
  ASSUME ConnInv, MainStep \/ PlaysCommand \/ Quits \/ Crashes PROVE ConnInv'
<1> USE DEF ConnInv, ConnTypeOK, Descriptors, IsOpen, MainGoto, Gone, ClientEnds, Ends
<1>1. CASE ConnectOpensNotif
  BY <1>1 DEF ConnectOpensNotif
<1>2. CASE ConnectNotifOpen
  BY <1>2 DEF ConnectNotifOpen, fifos
<1>3. CASE ConnectOpensReq
  BY <1>3 DEF ConnectOpensReq
<1>4. CASE ConnectFails
  BY <1>4 DEF ConnectFails
<1>5. CASE GivesUp
  BY <1>5, Shutting DEF GivesUp, ClientQuitsAs
<1>6. CASE ConnectReadsReply
  <2>1. notif' \in Seq({"ok", "frame"}) /\ Len(notif') <= NotifCap
    BY <1>6, Receiving, CapAssumption DEF ConnectReadsReply
  <2> QED
    BY <1>6, <2>1 DEF ConnectReadsReply
<1>7. CASE StopsRunning \/ Quits
  BY <1>7 DEF StopsRunning, Quits, fifos
<1>8. CASE SaysGoodbye
  <2>1. CASE server_dead
    BY <1>8, <2>1 DEF SaysGoodbye
  <2>2. CASE ~server_dead
    BY <1>8, <2>2, ConnWritesReq DEF SaysGoodbye
  <2> QED
    BY <2>1, <2>2
<1>9. CASE ClosesReq
  BY <1>9 DEF ClosesReq
<1>10. CASE ClosesNotif
  BY <1>10 DEF ClosesNotif
<1>11. CASE JoinsReceiver \/ Crashes
  <2>1. /\ end' = Closed(ClientEnds) /\ main' \in {"exit", "crashed"} /\ recv' = "none"
        /\ UNCHANGED <<stop_execution, server_dead, mgr, req, notif, met, linked,
                       server_shutdown>>
    BY <1>11 DEF JoinsReceiver, Crashes, ClientQuitsAs
  <2> QED
    BY <2>1, Shutting
<1>12. CASE PlaysCommand
  BY <1>12, ConnWritesReq DEF PlaysCommand
<1> QED
  BY <1>1, <1>2, <1>3, <1>4, <1>5, <1>6, <1>7, <1>8, <1>9, <1>10, <1>11, <1>12
     DEF MainStep

LEMMA ConnRecv == ASSUME ConnInv, RecvStep PROVE ConnInv'
<1> USE DEF ConnInv, ConnTypeOK, Descriptors, IsOpen, RecvGoto, fifos
<1>1. CASE BeginsRead
  BY <1>1 DEF BeginsRead
<1>2. CASE ReadsFrame
  <2>1. notif' \in Seq({"ok", "frame"}) /\ Len(notif') <= NotifCap
    BY <1>2, Receiving, CapAssumption DEF ReadsFrame
  <2> QED
    BY <1>2, <2>1 DEF ReadsFrame
<1>3. CASE ReadsEof
  BY <1>3 DEF ReadsEof
<1>4. CASE TellsMain
  BY <1>4 DEF TellsMain
<1> QED
  BY <1>1, <1>2, <1>3, <1>4 DEF RecvStep

\* A write of the manager either is stored, or ends the server.
LEMMA ConnWritesNotif ==
  ASSUME ConnInv, NEW m \in {"ok", "frame"}, NEW next \in {"loop", "read"},
         WritesNotif(m, next)
  PROVE  ConnInv'
<1>1. CASE NotifHasReader
  <2>1. notif' \in Seq({"ok", "frame"}) /\ Len(notif') <= NotifCap
    <3>1. /\ notif \in Seq({"ok", "frame"}) /\ Len(notif) < NotifCap
          /\ notif' = Append(notif, m)
      BY <1>1 DEF WritesNotif, ConnInv, ConnTypeOK
    <3> QED
      BY <3>1, Sending, CapAssumption
  <2> QED
    BY <1>1, <2>1 DEF WritesNotif, ConnInv, ConnTypeOK, Descriptors, IsOpen, client
<1>2. CASE ~NotifHasReader
  <2>1. /\ mgr' = "killed" /\ end' = Closed(ServerEnds) /\ notif' = notif
        /\ UNCHANGED <<client, req, met, linked, server_shutdown>>
    BY <1>2 DEF WritesNotif, ServerDies
  <2> QED
    BY <2>1, Shutting
       DEF ConnInv, ConnTypeOK, Descriptors, IsOpen, ServerEnds, Ends, client
<1> QED
  BY <1>1, <1>2

LEMMA ConnMgr == ASSUME ConnInv, MgrStep PROVE ConnInv'
<1> USE DEF ConnInv, ConnTypeOK, Descriptors, IsOpen, MgrGoto, Ends, client, fifos
<1>1. CASE MgrOpensNotif
  BY <1>1 DEF MgrOpensNotif
<1>2. CASE MgrNotifOpen
  BY <1>2 DEF MgrNotifOpen
<1>3. CASE MgrOpensReq
  <2>1. CASE linked
    BY <1>3, <2>1 DEF MgrOpensReq
  <2>2. CASE ~linked
    <3>1. /\ mgr = "open req" /\ mgr' = "gone" /\ end' = Closed({"server notif"})
          /\ UNCHANGED <<client, req, notif, met, linked, server_shutdown>>
      BY <1>3, <2>2 DEF MgrOpensReq
    <3> HIDE DEF IsOpen
    <3>2. ConnTypeOK'
      BY <3>1, Shutting
    <3>3. Descriptors'
      BY <3>1, Shutting DEF IsOpen
    <3> QED
      BY <3>2, <3>3
  <2> QED
    BY <2>1, <2>2
<1>4. CASE MgrReplies \/ SessionSendsFrame
  BY <1>4, ConnWritesNotif DEF MgrReplies, SessionSendsFrame
<1>5. CASE SessionLoops
  BY <1>5 DEF SessionLoops
<1>6. CASE SessionReads
  <2>1. req' \in Seq({"play", "bye"}) /\ Len(req') <= ReqCap
    BY <1>6, Receiving, CapAssumption DEF SessionReads
  <2> QED
    BY <1>6, <2>1 DEF SessionReads
<1>7. CASE SessionReadsNothing
  BY <1>7 DEF SessionReadsNothing
<1>8. CASE SessionTakesEof \/ SessionReloads
  BY <1>8 DEF SessionTakesEof, SessionReloads
<1>9. CASE CleanupClosesReq
  BY <1>9, Shutting DEF CleanupClosesReq
<1>10. CASE CleanupClosesNotif
  BY <1>10, Shutting DEF CleanupClosesNotif
<1> QED
  BY <1>1, <1>2, <1>3, <1>4, <1>5, <1>6, <1>7, <1>8, <1>9, <1>10 DEF MgrStep

LEMMA ConnStep == ConnInv /\ [Next]_vars => ConnInv'
<1> SUFFICES ASSUME ConnInv, [Next]_vars PROVE ConnInv'
  OBVIOUS
<1>1. CASE ServerStops \/ UNCHANGED vars
  <2>1. /\ UNCHANGED <<main, recv, stop_execution, server_dead, mgr, req, notif, end, met,
                       linked>>
        /\ server_shutdown' = server_shutdown \/ server_shutdown' = TRUE
    BY <1>1 DEF ServerStops, vars, client, fifos
  <2>2. Descriptors'
    BY <2>1 DEF ConnInv, Descriptors, IsOpen
  <2>3. {met, linked, stop_execution, server_dead, server_shutdown}' \subseteq BOOLEAN
    BY <2>1 DEF ConnInv, ConnTypeOK
  <2>4. ConnTypeOK'
    BY <2>1, <2>3 DEF ConnInv, ConnTypeOK
  <2> QED
    BY <2>2, <2>4 DEF ConnInv
<1> QED
  BY <1>1, ConnMain, ConnRecv, ConnMgr DEF Next

LEMMA ConnInvariant == Spec => []ConnInv
  BY ConnInit, ConnStep, PTL DEF Spec

\* Both FIFOs keep to their capacities and everything to its type (ConnTypeOK).
THEOREM ConnTypeCorrect == Spec => []ConnTypeOK
<1>1. ConnInv => ConnTypeOK
  BY DEF ConnInv
<1> QED
  BY <1>1, ConnInvariant, PTL

\* session_manager_thread leaves no descriptor of a client open, whichever of
\* its calls failed (NoDescriptorKept).
THEOREM DescriptorTheorem == Spec => []NoDescriptorKept
<1>1. ConnInv => NoDescriptorKept
  BY DEF ConnInv, Descriptors, NoDescriptorKept, ServerEnds
<1> QED
  BY <1>1, ConnInvariant, PTL
=============================================================================
