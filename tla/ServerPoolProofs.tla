--------------------------- MODULE ServerPoolProofs ---------------------------
(***************************************************************************)
(* Proofs about ServerPool, for every set of clients and every finite set  *)
(* of managers.                                                            *)
(***************************************************************************)
EXTENDS ServerPool, FiniteSetTheorems, TLAPS

\* What the channel holds.
ChannelType ==
  /\ waiting \in Seq(Clients) /\ hand \in [Managers -> Clients \cup {None}]
  /\ closed \in BOOLEAN

\* The server's shutdown drops what waits and what is in a manager's hands;
\* only then may a manager leave its loop.
ClosedIsEmpty ==
  /\ closed => waiting = <<>> /\ \A m \in Managers : hand[m] = None
  /\ main = "run" => ~closed
  /\ main \in {"join", "done"} => closed
  /\ \A m \in Managers : mgr[m] = "exit" => closed

\* A manager has a request in its hands only before it begins, and a client
\* from then on until it has cleaned up.
Busy == {"notif", "blocked", "open req", "register", "reply", "play", "full", "stuck",
         "over", "cleanup", "lost"}
Holding == \A m \in Managers : /\ hand[m] # None => mgr[m] = "got"
                               /\ serves[m] \in Clients <=> mgr[m] \in Busy

\* A client asks once: its request is in one place of the queue, or in the
\* hands of one manager, or served by one.
OneRequest ==
  /\ \A i, j \in DOMAIN waiting : waiting[i] = waiting[j] => i = j
  /\ \A i \in DOMAIN waiting, m \in Managers :
       waiting[i] # hand[m] /\ waiting[i] # serves[m]
  /\ \A m, n \in Managers : /\ hand[m] # None => hand[m] # serves[n]
                            /\ hand[m] = hand[n] /\ hand[m] # None => m = n
                            /\ serves[m] = serves[n] /\ serves[m] # None => m = n

\* Where a client can be that no manager has met yet, that a manager waits
\* for in its first open, and that a manager has lost.
Unmet == {"sent", "wait", "crashed"}
Meeting ==
  /\ \A i \in DOMAIN waiting : client[waiting[i]] \in Unmet
  /\ \A m \in Managers :
       /\ hand[m] # None => client[hand[m]] \in Unmet
       /\ serves[m] # None => client[serves[m]] # "new"
       /\ mgr[m] = "notif" => client[serves[m]] \in Unmet
       /\ mgr[m] = "blocked" /\ main # "killed"
            => client[serves[m]] \in {"sent", "crashed"}
       /\ mgr[m] = "lost" => client[serves[m]] = "failed"

PoolInv ==
  PoolTypeOK /\ ChannelType /\ ClosedIsEmpty /\ Holding /\ OneRequest /\ Meeting

LEMMA PoolStart == PoolInit => PoolInv
<1> SUFFICES ASSUME PoolInit PROVE PoolInv
  OBVIOUS
<1>1. /\ waiting = <<>> /\ closed = FALSE /\ hand = [m \in Managers |-> None]
      /\ client = [c \in Clients |-> "new"] /\ stopped = {}
      /\ mgr = [m \in Managers |-> "loop"]
      /\ serves = [m \in Managers |-> None]
      /\ registry = <<>> /\ freed = {} /\ ranking = FALSE /\ main = "run"
  BY DEF PoolInit, Init
<1>2. max_games \in Nat
  BY PoolAssumption, FS_CardinalityType DEF max_games
<1>3. PoolTypeOK /\ ChannelType
  <2>1. <<>> \in Seq(Clients) /\ Len(<<>>) = 0
    OBVIOUS
  <2>2. registry \in Seq(Clients) /\ Len(registry) <= max_games
    BY <1>1, <1>2, <2>1
  <2>3. PoolTypeOK
    BY <1>1, <2>2 DEF PoolTypeOK
  <2>4. ChannelType
    BY <1>1, <2>1 DEF ChannelType
  <2> QED
    BY <2>3, <2>4
<1>4. ClosedIsEmpty /\ Holding
  BY <1>1, PoolAssumption DEF ClosedIsEmpty, Holding, Busy
<1>5. OneRequest /\ Meeting
  BY <1>1 DEF OneRequest, Meeting
<1> QED
  BY <1>3, <1>4, <1>5 DEF PoolInv

LEMMA SeqElements ==
  ASSUME NEW S, NEW q \in Seq(S) PROVE \A i \in DOMAIN q : q[i] \in S
  OBVIOUS

LEMMA OneRequestSame ==
  OneRequest /\ waiting' = waiting /\ hand' = hand /\ serves' = serves => OneRequest'
  BY DEF OneRequest

\* A step of a client alone: it has asked, and a client that no manager has
\* opened a FIFO with can only begin to wait for it, or crash.
LEMMA ClientAlone ==
  ASSUME PoolInv, NEW c \in Clients, NEW to \in {"wait", "reply", "unlink", "failed",
           "play", "bye", "left", "crashed"},
         client' = [client EXCEPT ![c] = to],
         stopped' \subseteq Clients,
         UNCHANGED <<vars, mgr, serves, registry, freed, ranking, main>>,
         client[c] \notin {"new", "failed"},
         client[c] \in Unmet => to \in {"wait", "crashed"},
         to = "wait" => main = "killed" \/ ServedBy(c, {"blocked"}) = {}
  PROVE  PoolInv'
<1> USE DEF PoolInv
<1>1. /\ waiting' = waiting /\ hand' = hand /\ closed' = closed /\ mgr' = mgr
      /\ serves' = serves /\ registry' = registry /\ freed' = freed
      /\ ranking' = ranking /\ main' = main
  BY DEF vars
<1>2. /\ client'[c] = to /\ \A d \in Clients : d # c => client'[d] = client[d]
      /\ PoolTypeOK'
  BY <1>1 DEF PoolTypeOK, max_games
<1>3. ChannelType' /\ ClosedIsEmpty' /\ Holding'
  BY <1>1 DEF ChannelType, ClosedIsEmpty, Holding
<1>5. \A i \in DOMAIN waiting : waiting[i] \in Clients
  BY DEF ChannelType
<1>6. OneRequest'
  BY <1>1, OneRequestSame
<1>7. Meeting'
  <2>1. \A d \in Clients : client[d] \in Unmet => client'[d] \in Unmet
    BY <1>2 DEF Unmet
  <2>2. \A d \in Clients : client[d] = "failed" => client'[d] = "failed"
    BY <1>2
  <2>3. ASSUME NEW m \in Managers, mgr[m] = "blocked", main # "killed"
        PROVE  client'[serves[m]] \in {"sent", "crashed"}
    <3>1. client[serves[m]] \in {"sent", "crashed"} /\ serves[m] \in Clients
      BY <2>3 DEF Meeting, Holding, Busy
    <3>2. serves[m] = c => to # "wait"
      BY <2>3 DEF ServedBy
    <3> QED
      BY <1>2, <3>1, <3>2 DEF Unmet
  <2>4. \A m \in Managers :
          /\ mgr[m] \in {"notif", "lost"} => serves[m] \in Clients
          /\ serves[m] # None => serves[m] \in Clients
    BY DEF Holding, Busy, PoolTypeOK
  <2>5. \A m \in Managers : hand[m] # None => hand[m] \in Clients
    BY DEF ChannelType
  <2> QED
    BY <1>1, <1>5, <2>1, <2>2, <2>3, <2>4, <2>5 DEF Meeting
<1> QED
  BY <1>2, <1>3, <1>6, <1>7

\* A step of a manager alone, that takes up no client and ends with none.
LEMMA ManagerAlone ==
  ASSUME PoolInv, NEW m \in Managers,
         NEW to \in {"blocked", "open req", "register", "reply", "play", "full",
                    "stuck", "over", "cleanup", "exit", "lost"},
         mgr' = [mgr EXCEPT ![m] = to],
         UNCHANGED <<vars, client, stopped, serves, freed, ranking, main>>,
         registry' \in Seq(Clients), Len(registry') <= max_games,
         hand[m] = None, mgr[m] \in Busy <=> to \in Busy,
         to = "exit" => closed,
         to = "blocked" => client[serves[m]] \in {"sent", "crashed"},
         to = "lost" => client[serves[m]] = "failed"
  PROVE  PoolInv'
<1> USE DEF PoolInv
<1>1. /\ waiting' = waiting /\ hand' = hand /\ closed' = closed /\ client' = client
      /\ stopped' = stopped
      /\ serves' = serves /\ freed' = freed /\ ranking' = ranking /\ main' = main
  BY DEF vars
<1>2. /\ mgr'[m] = to /\ \A n \in Managers : n # m => mgr'[n] = mgr[n]
      /\ mgr' \in [Managers -> {"loop", "got", "notif", "blocked", "open req", "register",
                           "reply", "exit", "lost"} \cup Reached]
  BY DEF PoolTypeOK, Reached
<1>3. PoolTypeOK'
  BY <1>1, <1>2 DEF PoolTypeOK, max_games
<1>4. ChannelType' /\ ClosedIsEmpty'
  BY <1>1, <1>2 DEF ChannelType, ClosedIsEmpty
<1>5. Holding'
  BY <1>1, <1>2 DEF Holding
<1>6. OneRequest'
  BY <1>1, OneRequestSame
<1>7. Meeting'
  BY <1>1, <1>2 DEF Meeting
<1> QED
  BY <1>3, <1>4, <1>5, <1>6, <1>7

\* The client and its manager find each other, whoever waited for the other.
LEMMA Meets ==
  ASSUME PoolInv, NEW c \in Clients, NEW m \in Managers, serves[m] = c,
         mgr[m] \in {"notif", "blocked"}, main # "killed",
         client' = [client EXCEPT ![c] = "req"],
         mgr' = [mgr EXCEPT ![m] = "open req"],
         UNCHANGED <<vars, stopped, serves, registry, freed, ranking, main>>
  PROVE  PoolInv'
<1> USE DEF PoolInv
<1>1. /\ waiting' = waiting /\ hand' = hand /\ closed' = closed /\ serves' = serves
      /\ registry' = registry /\ freed' = freed /\ ranking' = ranking /\ main' = main
      /\ stopped' = stopped
  BY DEF vars
<1>2. /\ mgr'[m] = "open req" /\ \A n \in Managers : n # m => mgr'[n] = mgr[n]
      /\ client'[c] = "req" /\ \A d \in Clients : d # c => client'[d] = client[d]
      /\ PoolTypeOK'
  BY <1>1 DEF PoolTypeOK, max_games
<1>3. ChannelType' /\ ClosedIsEmpty'
  BY <1>1, <1>2 DEF ChannelType, ClosedIsEmpty
<1>4. Holding'
  BY <1>1, <1>2 DEF Holding, Busy
<1>5. OneRequest'
  BY <1>1, OneRequestSame
<1>6. \A i \in DOMAIN waiting : waiting[i] \in Clients /\ waiting[i] # c
  <2>1. \A i \in DOMAIN waiting : waiting[i] \in Clients
    BY SeqElements DEF ChannelType
  <2> QED
    BY <2>1 DEF OneRequest
<1>7. \A n \in Managers : hand[n] # None => hand[n] \in Clients /\ hand[n] # c
  BY DEF OneRequest, ChannelType
<1>8. \A n \in Managers : n # m /\ serves[n] # None => serves[n] \in Clients /\ serves[n] # c
  BY PoolAssumption DEF OneRequest, PoolTypeOK
<1>9. \A n \in Managers : mgr[n] \in {"notif", "blocked", "lost"} => serves[n] # None
  BY PoolAssumption DEF Holding, Busy
<1>10. Meeting'
  <2>1. \A i \in DOMAIN waiting : client'[waiting[i]] \in Unmet
    BY <1>2, <1>6 DEF Meeting
  <2>2. \A n \in Managers : hand[n] # None => client'[hand[n]] \in Unmet
    BY <1>2, <1>7 DEF Meeting
  <2>3. ASSUME NEW n \in Managers, n # m
        PROVE  /\ mgr'[n] = mgr[n]
               /\ serves[n] # None => client'[serves[n]] = client[serves[n]]
    BY <1>2, <1>8, <2>3
  <2>4. ASSUME NEW n \in Managers, n # m
        PROVE  /\ serves[n] # None => client'[serves[n]] # "new"
               /\ mgr'[n] = "notif" => client'[serves[n]] \in Unmet
               /\ mgr'[n] = "blocked" /\ main # "killed"
                    => client'[serves[n]] \in {"sent", "crashed"}
               /\ mgr'[n] = "lost" => client'[serves[n]] = "failed"
    BY <1>9, <2>3, <2>4 DEF Meeting
  <2>5. \A n \in Managers :
               /\ serves[n] # None => client'[serves[n]] # "new"
               /\ mgr'[n] = "notif" => client'[serves[n]] \in Unmet
               /\ mgr'[n] = "blocked" /\ main # "killed"
                    => client'[serves[n]] \in {"sent", "crashed"}
               /\ mgr'[n] = "lost" => client'[serves[n]] = "failed"
    BY <1>2, <2>4
  <2> QED
    BY <1>1, <2>1, <2>2, <2>5 DEF Meeting
<1> QED
  BY <1>2, <1>3, <1>4, <1>5, <1>10

LEMMA PoolClients ==
  ASSUME PoolInv, NEW c \in Clients,
         \/ ClientGoesOn(c) \/ Asks(c) \/ Quits(c) \/ Crashes(c)
         \/ Stalls(c) \/ Resumes(c)
  PROVE  PoolInv'
<1> USE DEF PoolInv
<1>0. stopped \subseteq Clients
  BY DEF PoolTypeOK
<1>1. CASE Asks(c)
  <2>1. /\ main = "run" /\ client[c] = "new" /\ client' = [client EXCEPT ![c] = "sent"]
        /\ ~closed /\ waiting' = Append(waiting, c) /\ hand' = hand /\ closed' = closed
        /\ mgr' = mgr /\ serves' = serves /\ registry' = registry /\ freed' = freed
        /\ ranking' = ranking /\ main' = main
        /\ stopped' = stopped
    BY <1>1 DEF Asks, ClientGoto, Enqueue
  <2>2. /\ client'[c] = "sent" /\ \A d \in Clients : d # c => client'[d] = client[d]
        /\ PoolTypeOK'
    BY <2>1 DEF PoolTypeOK, max_games
  <2>3. /\ waiting' \in Seq(Clients) /\ DOMAIN waiting' = DOMAIN waiting \cup {Len(waiting) + 1}
        /\ DOMAIN waiting = 1 .. Len(waiting) /\ Len(waiting) \in Nat
        /\ waiting'[Len(waiting) + 1] = c
        /\ \A i \in DOMAIN waiting : waiting'[i] = waiting[i] /\ waiting[i] \in Clients
    BY <2>1 DEF ChannelType
  <2>4. ChannelType' /\ ClosedIsEmpty' /\ Holding'
    BY <2>1, <2>3 DEF ChannelType, ClosedIsEmpty, Holding
  <2>5. /\ \A i \in DOMAIN waiting : waiting[i] # c
        /\ \A m \in Managers : hand[m] # c /\ serves[m] # c
    BY <2>1, PoolAssumption DEF Meeting, Unmet
  <2>6. OneRequest'
    BY <2>1, <2>3, <2>5 DEF OneRequest
  <2>7. \A m \in Managers : mgr[m] \in {"notif", "blocked", "lost"} => serves[m] \in Clients
    BY DEF Holding, Busy
  <2>8. Meeting'
    BY <2>1, <2>2, <2>3, <2>5, <2>7 DEF Meeting, Unmet
  <2> QED
    BY <2>2, <2>4, <2>6, <2>8
<1>2. CASE ClientOpensNotif(c)
  <2> DEFINE them == IF main = "killed" THEN {} ELSE ServedBy(c, {"blocked"})
  <2>1. CASE them = {}
    <3>1. client[c] = "sent" /\ client' = [client EXCEPT ![c] = "wait"]
      BY <1>2, <2>1 DEF ClientOpensNotif, ClientGoto
    <3>2. mgr' = mgr
      BY <1>2, <2>1 DEF ClientOpensNotif, PoolTypeOK
    <3> QED
      BY <1>2, <2>1, <3>1, <3>2, <1>0, ClientAlone DEF ClientOpensNotif, Unmet
  <2>2. CASE them # {}
    <3>1. PICK m \in them : TRUE
      BY <2>2
    <3>2. m \in Managers /\ serves[m] = c /\ mgr[m] = "blocked" /\ main # "killed"
      BY <3>1 DEF ServedBy
    <3>3. them = {m}
      BY <3>1, <3>2, PoolAssumption DEF ServedBy, OneRequest
    <3>4. /\ client' = [client EXCEPT ![c] = "req"]
          /\ mgr' = [mgr EXCEPT ![m] = "open req"]
          /\ UNCHANGED <<vars, stopped, serves, registry, freed, ranking, main>>
      BY <1>2, <2>2, <3>3 DEF ClientOpensNotif, ClientGoto, PoolTypeOK
    <3> QED
      BY <3>2, <3>4, Meets
  <2> QED
    BY <2>1, <2>2
<1>3. CASE ClientOpensReq(c)
  <2>1. PICK to \in {"unlink", "reply"} : client' = [client EXCEPT ![c] = to]
    BY <1>3 DEF ClientOpensReq, ClientGoto
  <2> QED
    BY <1>3, <2>1, <1>0, ClientAlone DEF ClientOpensReq, ClientGoto, Unmet
<1>4. CASE ReadsReply(c)
  <2>1. PICK to \in {"unlink", "play"} : client' = [client EXCEPT ![c] = to]
    BY <1>4 DEF ReadsReply, ClientGoto
  <2> QED
    BY <1>4, <2>1, <1>0, ClientAlone DEF ReadsReply, ClientGoto, Unmet
<1>5. CASE Unlinks(c)
  BY <1>5, <1>0, ClientAlone DEF Unlinks, ClientGoto, Unmet
<1>6. CASE Ends(c)
  BY <1>6, <1>0, ClientAlone DEF Ends, ClientGoto, Unmet
<1>7. CASE Quits(c)
  BY <1>7, <1>0, ClientAlone DEF Quits, ClientGoto, Unmet
<1>8. CASE Crashes(c)
  BY <1>8, <1>0, ClientAlone DEF Crashes, Started, Unmet
<1>9. CASE Stalls(c) \/ Resumes(c)
  <2>1. /\ waiting' = waiting /\ hand' = hand /\ closed' = closed /\ client' = client
        /\ mgr' = mgr /\ serves' = serves /\ registry' = registry /\ freed' = freed
        /\ ranking' = ranking /\ main' = main /\ stopped' \subseteq Clients
    BY <1>9, <1>0 DEF Stalls, Resumes, vars
  <2>2. PoolTypeOK' /\ ChannelType' /\ ClosedIsEmpty'
    BY <2>1 DEF PoolTypeOK, max_games, ChannelType, ClosedIsEmpty
  <2>3. Holding' /\ OneRequest' /\ Meeting'
    BY <2>1, OneRequestSame DEF Holding, Meeting
  <2> QED
    BY <2>2, <2>3
<1> QED
  BY <1>1, <1>2, <1>3, <1>4, <1>5, <1>6, <1>7, <1>8, <1>9 DEF ClientGoesOn

LEMMA PoolManagers ==
  ASSUME PoolInv, NEW m \in Managers,
         MgrGoesOn(m) \/ Wins(m) \/ GameOver(m) \/ Fills(m) \/ Sticks(m)
  PROVE  PoolInv'
<1> USE DEF PoolInv
<1>1. CASE Dequeues(m)
  <2>1. /\ mgr[m] = "loop" /\ mgr' = [mgr EXCEPT ![m] = "got"] /\ main # "killed"
        /\ ~closed /\ waiting # <<>> /\ hand[m] = None
        /\ hand' = [hand EXCEPT ![m] = Head(waiting)] /\ waiting' = Tail(waiting)
        /\ closed' = closed /\ client' = client /\ serves' = serves
        /\ registry' = registry /\ freed' = freed /\ ranking' = ranking /\ main' = main
        /\ stopped' = stopped
    BY <1>1 DEF Dequeues, MgrGoto, HandOver
  <2>2. /\ Len(waiting) \in Nat \ {0} /\ DOMAIN waiting = 1 .. Len(waiting)
        /\ waiting' \in Seq(Clients) /\ DOMAIN waiting' = 1 .. Len(waiting) - 1
        /\ \A i \in DOMAIN waiting' : waiting'[i] = waiting[i + 1] /\ i + 1 \in DOMAIN waiting
        /\ 1 \in DOMAIN waiting /\ waiting[1] \in Clients
        /\ \A i \in DOMAIN waiting' : i + 1 # 1
    BY <2>1 DEF ChannelType
  <2>3. /\ hand'[m] = waiting[1] /\ \A n \in Managers : n # m => hand'[n] = hand[n]
        /\ hand' \in [Managers -> Clients \cup {None}]
    BY <2>1, <2>2 DEF ChannelType
  <2>4. /\ mgr'[m] = "got" /\ \A n \in Managers : n # m => mgr'[n] = mgr[n]
        /\ PoolTypeOK'
    BY <2>1 DEF PoolTypeOK, max_games
  <2>5. ChannelType' /\ ClosedIsEmpty'
    BY <2>1, <2>2, <2>3, <2>4 DEF ChannelType, ClosedIsEmpty
  <2>6. Holding'
    BY <2>1, <2>3, <2>4 DEF Holding, Busy
  <2>7. OneRequest'
    <3>1. \A i, j \in DOMAIN waiting' : waiting'[i] = waiting'[j] => i = j
      BY <2>2 DEF OneRequest
    <3>2. \A i \in DOMAIN waiting', n \in Managers :
            waiting'[i] # hand[n] /\ waiting'[i] # serves[n] /\ waiting'[i] # hand'[m]
      BY <2>2, <2>3 DEF OneRequest
    <3>3. \A n \in Managers : waiting[1] # hand[n] /\ waiting[1] # serves[n]
      BY <2>2 DEF OneRequest
    <3>4. \A k, n \in Managers :
            /\ hand'[k] # None => hand'[k] # serves[n]
            /\ hand'[k] = hand'[n] /\ hand'[k] # None => k = n
      BY <2>3, <3>3 DEF OneRequest
    <3>5. \A i \in DOMAIN waiting', n \in Managers :
            waiting'[i] # hand'[n] /\ waiting'[i] # serves[n]
      BY <2>3, <3>2
    <3> QED
      BY <2>1, <3>1, <3>4, <3>5 DEF OneRequest
  <2>8. Meeting'
    BY <2>1, <2>2, <2>3, <2>4 DEF Meeting
  <2> QED
    BY <2>4, <2>5, <2>6, <2>7, <2>8
<1>2. CASE Begins(m)
  <2>1. /\ mgr[m] = "got" /\ mgr' = [mgr EXCEPT ![m] = "notif"] /\ main # "killed"
        /\ ~closed /\ hand[m] # None /\ hand' = [hand EXCEPT ![m] = None]
        /\ serves' = [serves EXCEPT ![m] = hand[m]]
        /\ waiting' = waiting /\ closed' = closed /\ client' = client
        /\ registry' = registry /\ freed' = freed /\ ranking' = ranking /\ main' = main
        /\ stopped' = stopped
    BY <1>2 DEF Begins, MgrGoto, Open
  <2>2. hand[m] \in Clients /\ client[hand[m]] \in Unmet
    BY <2>1 DEF ChannelType, Meeting
  <2>3. /\ mgr'[m] = "notif" /\ \A n \in Managers : n # m => mgr'[n] = mgr[n]
        /\ serves'[m] = hand[m] /\ \A n \in Managers : n # m => serves'[n] = serves[n]
        /\ PoolTypeOK'
    BY <2>1, <2>2 DEF PoolTypeOK, max_games
  <2>4. /\ hand'[m] = None /\ \A n \in Managers : n # m => hand'[n] = hand[n]
        /\ ChannelType'
    BY <2>1 DEF ChannelType
  <2>5. ClosedIsEmpty'
    BY <2>1, <2>3, <2>4 DEF ClosedIsEmpty
  <2>6. Holding'
    BY <2>1, <2>2, <2>3, <2>4 DEF Holding, Busy
  <2>7. OneRequest'
    <3>1. \A i \in DOMAIN waiting : waiting[i] # None
      BY PoolAssumption, SeqElements DEF ChannelType
    <3>2. \A i \in DOMAIN waiting, n \in Managers :
            waiting[i] # hand'[n] /\ waiting[i] # serves'[n]
      BY <2>3, <2>4, <3>1 DEF OneRequest
    <3>3. \A k, n \in Managers :
            /\ hand'[k] # None => hand'[k] # serves'[n]
            /\ hand'[k] = hand'[n] /\ hand'[k] # None => k = n
      BY <2>3, <2>4 DEF OneRequest
    <3>4. \A k, n \in Managers : serves'[k] = serves'[n] /\ serves'[k] # None => k = n
      BY <2>1, <2>3 DEF OneRequest
    <3> QED
      BY <2>1, <3>2, <3>3, <3>4 DEF OneRequest
  <2>8. Meeting'
    BY <2>1, <2>2, <2>3, <2>4 DEF Meeting, Unmet
  <2> QED
    BY <2>3, <2>4, <2>5, <2>6, <2>7, <2>8
<1>3. CASE MgrOpensNotif(m)
  <2>1. /\ mgr[m] = "notif" /\ main # "killed" /\ hand[m] = None
        /\ serves[m] \in Clients /\ client[serves[m]] \in Unmet
        /\ UNCHANGED <<vars, stopped, serves, registry, freed, ranking, main>>
    BY <1>3 DEF MgrOpensNotif, MgrGoto, Holding, Busy, Meeting
  <2>2. CASE client[serves[m]] = "wait"
    <3>1. /\ client' = [client EXCEPT ![serves[m]] = "req"]
          /\ mgr' = [mgr EXCEPT ![m] = "open req"]
      BY <1>3, <2>2 DEF MgrOpensNotif, MgrGoto, PoolTypeOK
    <3> QED
      BY <2>1, <3>1, Meets
  <2>3. CASE client[serves[m]] # "wait"
    <3>1. client' = client /\ mgr' = [mgr EXCEPT ![m] = "blocked"]
      BY <1>3, <2>1, <2>3 DEF MgrOpensNotif, MgrGoto, PoolTypeOK
    <3>2. registry' \in Seq(Clients) /\ Len(registry') <= max_games
      BY <2>1 DEF PoolTypeOK
    <3> QED
      BY <2>1, <2>3, <3>1, <3>2, ManagerAlone DEF Busy, Unmet
  <2> QED
    BY <2>2, <2>3
<1>4. ASSUME NEW from \in SUBSET (Busy \cup {"loop", "got"}),
             NEW to \in {"open req", "register", "reply", "play", "full", "stuck",
                        "over", "cleanup", "exit", "lost"},
             MgrGoto(m, from, to), "got" \in from => closed,
             from \subseteq Busy <=> to \in Busy, from \cap Busy = {} \/ from \subseteq Busy,
             to = "exit" => closed, to = "lost" => client[serves[m]] = "failed",
             UNCHANGED <<vars, client, stopped, serves, freed, ranking, main>>,
             registry' \in Seq(Clients), Len(registry') <= max_games
      PROVE  PoolInv'
  <2>1. mgr' = [mgr EXCEPT ![m] = to] /\ mgr[m] \in from
    BY <1>4 DEF MgrGoto
  <2>2. hand[m] = None
    BY <1>4, <2>1 DEF Holding, ClosedIsEmpty, Busy
  <2>3. mgr[m] \in Busy <=> to \in Busy
    BY <1>4, <2>1
  <2> QED
    BY <1>4, <2>1, <2>2, <2>3, ManagerAlone
<1>5. registry \in Seq(Clients) /\ Len(registry) <= max_games
  BY DEF PoolTypeOK
<1>6. CASE Leaves(m)
  BY <1>4, <1>5, <1>6 DEF Leaves, Busy
<1>7. CASE MgrOpensReq(m)
  <2>1. PICK to \in {"register", "lost"} : /\ MgrGoto(m, {"open req"}, to)
                                          /\ to = "lost" => client[serves[m]] = "failed"
    BY <1>7 DEF MgrOpensReq
  <2> QED
    BY <1>4, <1>5, <1>7, <2>1 DEF MgrOpensReq, Busy
<1>8. CASE Registers(m)
  <2>1. serves[m] \in Clients
    BY <1>8 DEF Registers, MgrGoto, Holding, Busy
  <2>2. max_games \in Nat
    BY PoolAssumption, FS_CardinalityType DEF max_games
  <2>3. registry' \in Seq(Clients) /\ Len(registry') <= max_games
    BY <1>5, <1>8, <2>1, <2>2 DEF Registers
  <2> QED
    BY <1>4, <1>8, <2>3 DEF Registers, Busy
<1>9. CASE SigPipe(m)
  BY <1>9 DEF SigPipe, vars, PoolTypeOK, max_games, ChannelType, ClosedIsEmpty,
       Holding, OneRequest, Meeting
<1>10. CASE Replies(m)
  BY <1>4, <1>5, <1>10 DEF Replies, Busy
<1>11. CASE Wins(m)
  BY <1>4, <1>5, <1>11 DEF Wins, Busy
<1>12. CASE GameOver(m)
  BY <1>4, <1>5, <1>12 DEF GameOver, Busy
<1>13. CASE Stops(m)
  BY <1>4, <1>5, <1>13 DEF Stops, Busy
<1>14. CASE Cleans(m)
  <2>1. /\ mgr[m] = "cleanup" /\ mgr' = [mgr EXCEPT ![m] = "loop"]
        /\ serves' = [serves EXCEPT ![m] = None] /\ freed' = freed \cup {serves[m]}
        /\ waiting' = waiting /\ hand' = hand /\ closed' = closed /\ client' = client
        /\ registry' = registry /\ ranking' = ranking /\ main' = main
        /\ stopped' = stopped
    BY <1>14 DEF Cleans, MgrGoto, vars
  <2>2. serves[m] \in Clients
    BY <2>1 DEF Holding, Busy
  <2>3. /\ mgr'[m] = "loop" /\ \A n \in Managers : n # m => mgr'[n] = mgr[n]
        /\ serves'[m] = None /\ \A n \in Managers : n # m => serves'[n] = serves[n]
        /\ PoolTypeOK'
    BY <2>1, <2>2 DEF PoolTypeOK, max_games
  <2>4. ChannelType' /\ ClosedIsEmpty'
    BY <2>1, <2>3 DEF ChannelType, ClosedIsEmpty
  <2>5. Holding'
    BY <2>1, <2>3, PoolAssumption DEF Holding, Busy
  <2>6. OneRequest'
    <3>1. \A i \in DOMAIN waiting : waiting[i] # None
      BY PoolAssumption DEF ChannelType
    <3> QED
      BY <2>1, <2>3, <3>1 DEF OneRequest
  <2>7. Meeting'
    BY <2>1, <2>3 DEF Meeting
  <2> QED
    BY <2>3, <2>4, <2>5, <2>6, <2>7
<1>15. CASE Fills(m)
  BY <1>4, <1>5, <1>15 DEF Fills, Busy
<1>16. CASE Drains(m)
  BY <1>4, <1>5, <1>16 DEF Drains, Busy
<1>17. CASE Sticks(m)
  BY <1>4, <1>5, <1>17 DEF Sticks, Busy
<1> QED
  BY <1>1, <1>2, <1>3, <1>6, <1>7, <1>8, <1>9, <1>10, <1>11, <1>12, <1>13, <1>14,
     <1>15, <1>16, <1>17 DEF MgrGoesOn

LEMMA PoolOthers ==
  ASSUME PoolInv, RankBegins \/ RankEnds \/ ShutsDown \/ Joins
  PROVE  PoolInv'
<1> USE DEF PoolInv
<1>1. CASE RankBegins \/ RankEnds \/ Joins
  <2>1. /\ waiting' = waiting /\ hand' = hand /\ closed' = closed /\ client' = client
        /\ mgr' = mgr /\ serves' = serves /\ registry' = registry /\ freed' = freed
        /\ stopped' = stopped /\ ranking' \in BOOLEAN
        /\ main' = main \/ (main = "join" /\ main' = "done")
    BY <1>1 DEF RankBegins, RankEnds, Joins, vars, PoolTypeOK
  <2>2. PoolTypeOK' /\ ChannelType' /\ ClosedIsEmpty'
    BY <2>1 DEF PoolTypeOK, max_games, ChannelType, ClosedIsEmpty
  <2>3. Holding' /\ OneRequest' /\ Meeting'
    BY <2>1, OneRequestSame DEF Holding, Meeting
  <2> QED
    BY <2>2, <2>3
<1>2. CASE ShutsDown
  <2>1. /\ waiting' = <<>> /\ hand' = [m \in Managers |-> None] /\ closed' = TRUE
        /\ client' = client /\ mgr' = mgr /\ serves' = serves /\ registry' = registry
        /\ freed' = freed /\ ranking' = ranking /\ main = "run" /\ main' = "join"
        /\ stopped' = stopped
    BY <1>2 DEF ShutsDown, Close
  <2>2. PoolTypeOK' /\ ChannelType'
    <3>1. <<>> \in Seq(Clients)
      OBVIOUS
    <3>2. PoolTypeOK'
      BY <2>1 DEF PoolTypeOK, max_games
    <3> QED
      BY <2>1, <3>1, <3>2 DEF ChannelType
  <2>3. ClosedIsEmpty' /\ Holding'
    BY <2>1 DEF ClosedIsEmpty, Holding
  <2>4. OneRequest' /\ Meeting'
    BY <2>1 DEF OneRequest, Meeting
  <2> QED
    BY <2>2, <2>3, <2>4
<1> QED
  BY <1>1, <1>2

LEMMA PoolStep == PoolInv /\ [PoolNext]_poolvars => PoolInv'
<1> SUFFICES ASSUME PoolInv, [PoolNext]_poolvars PROVE PoolInv'
  OBVIOUS
<1>1. CASE UNCHANGED poolvars
  BY <1>1 DEF poolvars, pool, vars, PoolInv, PoolTypeOK, max_games, ChannelType,
       ClosedIsEmpty, Holding, OneRequest, Meeting
<1>2. CASE PoolNext
  BY <1>2, PoolClients, PoolManagers, PoolOthers DEF PoolNext, GoesOn
<1> QED
  BY <1>1, <1>2

\* What the requests, the managers and the clients say of one another, at any
\* moment of the server's life.
THEOREM PoolInvariant == PoolSpec => []PoolInv
<1> QED
  BY PoolStart, PoolStep, PTL DEF PoolSpec

\* The type invariant, with connected_clients never beyond max_games.
THEOREM PoolTypeTheorem == PoolSpec => []PoolTypeOK
<1>1. PoolInv => PoolTypeOK
  BY DEF PoolInv
<1> QED
  BY <1>1, PoolInvariant, PTL
-----------------------------------------------------------------------------
\* Several managers serve as many clients: one each.
LEMMA HeldOneEach ==
  ASSUME PoolInv, \A m \in Managers : HeldBy(m) = {serves[m]} /\ serves[m] \in Clients
  PROVE  Cardinality(UNION {HeldBy(m) : m \in Managers}) = max_games
<1> DEFINE S == UNION {HeldBy(m) : m \in Managers}
           f == [m \in Managers |-> serves[m]]
<1>1. \A m \in Managers : serves[m] \in S
  <2> SUFFICES ASSUME NEW m \in Managers PROVE serves[m] \in S
    OBVIOUS
  <2>1. serves[m] \in HeldBy(m)
    OBVIOUS
  <2> QED
    BY <2>1
<1>2. \A c \in S : \E m \in Managers : c = serves[m]
  OBVIOUS
<1>3. f \in [Managers -> S] /\ \A m \in Managers : f[m] = serves[m]
  BY <1>1
<1>4. \A m, n \in Managers : f[m] = f[n] => m = n
  BY <1>3, PoolAssumption DEF PoolInv, OneRequest
<1>5. \A c \in S : \E m \in Managers : f[m] = c
  BY <1>2, <1>3
<1>6. f \in Bijection(Managers, S)
  BY <1>3, <1>4, <1>5 DEF Bijection, Injection, Surjection, IsInjective
<1> QED
  BY <1>6, PoolAssumption, FS_Bijection DEF ExistsBijection, max_games

\* When all wait on one another while requests wait to be served, then every
\* manager is held by a client of its own: PoolServes, for any number of
\* clients and managers.
THEOREM ServesTheorem == PoolSpec => []PoolServes
<1>1. PoolInv => PoolServes
  <2> SUFFICES ASSUME PoolInv, Quiet, main = "run", waiting # <<>>
               PROVE  Cardinality(UNION {HeldBy(m) : m \in Managers}) = max_games
    BY DEF PoolServes
  <2>1. ASSUME NEW m \in Managers
        PROVE  HeldBy(m) = {serves[m]} /\ serves[m] \in Clients
    <3>1. ~closed /\ ~ranking /\ MgrWaits(m)
      BY DEF PoolInv, ClosedIsEmpty, Quiet
    <3>2. mgr[m] \in {"blocked", "play", "full", "stuck", "over", "lost"}
      BY <3>1 DEF MgrWaits, PoolInv, ClosedIsEmpty
    <3> QED
      BY <3>2 DEF HeldBy, PoolInv, Holding, Busy, Meeting
  <2> QED
    BY <2>1, HeldOneEach
<1> QED
  BY <1>1, PoolInvariant, PTL

\* cleanup_server's joins of the managers are over, or each manager that they
\* wait for is held by a client that died or was stopped before its open, by
\* one that was stopped and reads no frame, or by a portal: ShutdownJoins.
THEOREM JoinsTheorem == PoolSpec => []ShutdownJoins
<1>1. PoolInv => ShutdownJoins
  <2> SUFFICES ASSUME PoolInv, Quiet, main = "join",
                      NEW m \in Managers, mgr[m] \notin {"exit", "lost"}
               PROVE  Held(m)
    BY DEF ShutdownJoins
  <2>1. closed /\ ~ranking /\ MgrWaits(m)
    BY DEF Quiet, PoolInv, ClosedIsEmpty
  <2>2. \/ mgr[m] \in {"blocked", "stuck"}
        \/ mgr[m] = "full" /\ serves[m] \in stopped
    BY <2>1 DEF MgrWaits
  <2>3. CASE mgr[m] = "blocked"
    <3>1. serves[m] \in Clients /\ client[serves[m]] \in {"sent", "crashed"}
      BY <2>3 DEF PoolInv, Holding, Busy, Meeting
    <3>2. ClientWaits(serves[m])
      BY <3>1 DEF Quiet
    <3>3. client[serves[m]] = "crashed" \/ serves[m] \in stopped
      BY <3>1, <3>2 DEF ClientWaits
    <3> QED
      BY <2>3, <3>3 DEF Held
  <2> QED
    BY <2>2, <2>3 DEF Held
<1> QED
  BY <1>1, PoolInvariant, PTL
=============================================================================
