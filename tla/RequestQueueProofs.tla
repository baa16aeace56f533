------------------------- MODULE RequestQueueProofs -------------------------
(***************************************************************************)
(* Proofs about RequestQueue, for every number of clients, managers, slots *)
(* and SIGUSR1.                                                            *)
(***************************************************************************)
EXTENDS RequestQueue, FiniteSetTheorems, SequenceTheorems, TLAPS

-----------------------------------------------------------------------------
(* Remainders.                                                             *)

LEMMA ProductStep ==
  ASSUME NEW n \in Nat \ {0}, NEW p \in Int, NEW q \in Int, q >= p + 1
  PROVE  n * q >= n * p + n
<1> DEFINE d == q - p - 1
<1>1. d \in Nat /\ q = p + 1 + d
  OBVIOUS
<1> HIDE DEF d
<1>2. n * q = n * p + n + n * d
  BY <1>1
<1>3. n * d >= 0
  BY <1>1
<1> QED
  BY <1>1, <1>2, <1>3

LEMMA RemainderUnique ==
  ASSUME NEW n \in Nat \ {0}, NEW a \in Int, NEW q \in Int,
         NEW r \in 0 .. n - 1, a = n * q + r
  PROVE  a % n = r
<1> DEFINE p == a \div n
           s == a % n
<1>1. p \in Int /\ s \in 0 .. n - 1 /\ a = n * p + s
  OBVIOUS
<1>2. n * p \in Int /\ n * q \in Int
  BY <1>1
<1> HIDE DEF p, s
<1>3. CASE q >= p + 1
  BY <1>1, <1>2, <1>3, ProductStep
<1>4. CASE p >= q + 1
  BY <1>1, <1>2, <1>4, ProductStep
<1>5. CASE p = q
  BY <1>1, <1>2, <1>5 DEF s
<1> QED
  BY <1>1, <1>3, <1>4, <1>5

\* Reducing an index modulo the size commutes with moving it.
LEMMA RemainderAdd ==
  ASSUME NEW n \in Nat \ {0}, NEW a \in Int, NEW b \in Int
  PROVE  ((a % n) + b) % n = (a + b) % n
<1> DEFINE p == a \div n
           s == a % n
           q == (s + b) \div n
           t == (s + b) % n
<1>1. p \in Int /\ s \in 0 .. n - 1 /\ a = n * p + s
  OBVIOUS
<1>2. q \in Int /\ t \in 0 .. n - 1 /\ s + b = n * q + t
  BY <1>1
<1> HIDE DEF p, s, q, t
<1> DEFINE k == p + q
<1>3. k \in Int /\ a + b \in Int /\ a + b = n * k + t
  BY <1>1, <1>2
<1> HIDE DEF k
<1>4. (a + b) % n = t
  BY <1>2, <1>3, RemainderUnique
<1>5. t = ((a % n) + b) % n
  BY DEF s, t
<1> QED
  BY <1>4, <1>5

LEMMA AdvanceType == ASSUME NEW i \in Index PROVE Advance(i) \in Index
  BY QueueAssumption DEF Advance, Index
-----------------------------------------------------------------------------
(* Counting the managers at given program counters.                        *)

LEMMA CountType ==
  ASSUME NEW S
  PROVE  /\ IsFiniteSet(At(S)) /\ Cardinality(At(S)) \in Nat
         /\ Cardinality(At(S)') \in Nat
<1>1. At(S) \subseteq Managers /\ At(S)' \subseteq Managers
  BY DEF At
<1> QED
  BY <1>1, QueueAssumption, FS_Subset, FS_CardinalityType

LEMMA CountMove ==
  ASSUME TypeOK, NEW m \in Managers, NEW from, NEW to,
         MgrGoto(m, from, to), NEW S
  PROVE  Cardinality(At(S)') = Cardinality(At(S))
                               + (IF to \in S THEN 1 ELSE 0)
                               - (IF from \in S THEN 1 ELSE 0)
<1>1. mgr[m] = from /\ mgr' = [mgr EXCEPT ![m] = to]
      /\ mgr \in [Managers -> MgrPC]
  BY DEF MgrGoto, TypeOK
<1>2. IsFiniteSet(At(S)) /\ Cardinality(At(S)) \in Nat
  BY CountType
<1>3. CASE from \in S /\ to \in S
  <2>1. At(S)' = At(S)
    BY <1>1, <1>3 DEF At
  <2> QED
    BY <2>1, <1>2, <1>3
<1>4. CASE from \notin S /\ to \notin S
  <2>1. At(S)' = At(S)
    BY <1>1, <1>4 DEF At
  <2> QED
    BY <2>1, <1>2, <1>4
<1>5. CASE from \notin S /\ to \in S
  <2>1. At(S)' = At(S) \cup {m} /\ m \notin At(S)
    BY <1>1, <1>5 DEF At
  <2> QED
    <3>1. Cardinality(At(S) \cup {m}) = Cardinality(At(S)) + 1
      BY <2>1, <1>2, FS_AddElement
    <3> QED
      BY <1>2, <1>5, <2>1, <3>1
<1>6. CASE from \in S /\ to \notin S
  <2>1. At(S)' = At(S) \ {m} /\ m \in At(S)
    BY <1>1, <1>6 DEF At
  <2> QED
    <3>1. Cardinality(At(S) \ {m}) = Cardinality(At(S)) - 1
      BY <2>1, <1>2, FS_RemoveElement
    <3> QED
      BY <1>2, <1>6, <2>1, <3>1
<1> QED
  BY <1>3, <1>4, <1>5, <1>6
-----------------------------------------------------------------------------
(* Type correctness.                                                       *)

LEMMA TypeInit == Init => TypeOK
<1> SUFFICES ASSUME Init PROVE TypeOK
  OBVIOUS
<1> USE DEF Init
<1>1. posts \in 0 .. Cardinality(Managers)
  BY QueueAssumption, FS_CardinalityType
<1>2. fifo \in Seq(Clients) /\ opened \in Seq(Requests)
  OBVIOUS
<1>3. /\ rq_head \in Index /\ rq_tail \in Index
      /\ rq_items \in Nat /\ rq_slots \in Nat
      /\ usr1 \in 0 .. MaxUsr1 /\ overruns \in 0 .. usr1
  BY QueueAssumption DEF Index
<1>4. /\ request_queue \in [Index -> Requests]
      /\ mgr \in [Managers -> MgrPC] /\ mgr_req \in [Managers -> Requests]
  BY DEF Requests, MgrPC
<1> QED
  BY <1>1, <1>2, <1>3, <1>4 DEF TypeOK, HostPC, MainPC, Requests

LEMMA TypeHost == ASSUME TypeOK, HostStep PROVE TypeOK'
<1> USE DEF TypeOK, HostGoto, HostPC, ring, outside, mgrv, mainv, sigv
<1>1. CASE HostOpen
  BY <1>1 DEF HostOpen
<1>2. CASE HostLoop
  BY <1>2 DEF HostLoop
<1>3. CASE HostAccept
  BY <1>3 DEF HostAccept
<1>4. CASE HostCallRead
  BY <1>4 DEF HostCallRead
<1>5. CASE HostRead
  BY <1>5 DEF HostRead, Requests
<1>6. CASE HostReadNothing
  BY <1>6 DEF HostReadNothing
<1>16. CASE HostRejects
  BY <1>16 DEF HostRejects
<1>7. CASE HostWaitSlot
  BY <1>7 DEF HostWaitSlot
<1>8. CASE HostLock
  BY <1>8 DEF HostLock
<1>9. CASE HostStore
  BY <1>9 DEF HostStore
<1>10. CASE HostAdvance
  BY <1>10, AdvanceType DEF HostAdvance
<1>11. CASE HostPostItem
  BY <1>11 DEF HostPostItem
<1>12. CASE HostTestSig
  BY <1>12 DEF HostTestSig
<1>13. CASE HostClearSig
  BY <1>13 DEF HostClearSig
<1>14. CASE HostLeaderboard
  BY <1>14 DEF HostLeaderboard
<1>15. CASE HostWritten
  BY <1>15 DEF HostWritten
<1> QED
  BY <1>1, <1>2, <1>3, <1>4, <1>5, <1>6, <1>7, <1>8, <1>9, <1>10, <1>11,
     <1>12, <1>13, <1>14, <1>15, <1>16 DEF HostStep

LEMMA TypeManager ==
  ASSUME TypeOK, NEW m \in Managers, MgrStep(m) \/ MgrSessionEnds(m)
  PROVE  TypeOK'
<1> USE DEF TypeOK, MgrGoto, MgrPC, ring, outside, hostv, mainv, sigv
<1>1. CASE MgrLoop(m)
  BY <1>1 DEF MgrLoop
<1>2. CASE MgrWaitItem(m)
  BY <1>2 DEF MgrWaitItem
<1>3. CASE MgrLock(m)
  BY <1>3 DEF MgrLock
<1>4. CASE MgrRead(m)
  BY <1>4 DEF MgrRead
<1>5. CASE MgrAdvance(m)
  BY <1>5, AdvanceType DEF MgrAdvance
<1>6. CASE MgrPostSlot(m)
  BY <1>6 DEF MgrPostSlot
<1>7. CASE MgrTest(m)
  BY <1>7 DEF MgrTest
<1>8. CASE MgrSessionEnds(m)
  BY <1>8 DEF MgrSessionEnds
<1> QED
  BY <1>1, <1>2, <1>3, <1>4, <1>5, <1>6, <1>7, <1>8 DEF MgrStep

LEMMA TypeMain == ASSUME TypeOK, MainStep PROVE TypeOK'
<1>0. Cardinality(Managers) \in Nat
  BY QueueAssumption, FS_CardinalityType
<1> USE DEF TypeOK, MainGoto, MainPC, ring, outside, hostv, mgrv, sigv
<1>1. CASE MainWakes
  BY <1>1 DEF MainWakes
<1>2. CASE MainClose
  BY <1>2 DEF MainClose
<1>3. CASE MainPost
  BY <1>0, <1>3 DEF MainPost
<1>4. CASE MainJoinHost
  BY <1>4 DEF MainJoinHost
<1>5. CASE MainJoinManagers
  BY <1>5 DEF MainJoinManagers
<1> QED
  BY <1>1, <1>2, <1>3, <1>4, <1>5 DEF MainStep

LEMMA TypeSignals == ASSUME TypeOK, Terminate \/ Usr1 PROVE TypeOK'
<1>1. CASE Terminate
  BY <1>1 DEF TypeOK, Terminate, ring, outside, hostv, mgrv, sigv
<1>2. CASE Usr1
  <2>1. host' \in HostPC
    BY <1>2 DEF Usr1, Interrupted, HostGoto, TypeOK, HostPC
  <2>2. usr1' \in 0 .. MaxUsr1 /\ overruns' \in 0 .. usr1'
    BY <1>2, QueueAssumption DEF Usr1, Interrupted, TypeOK
  <2> QED
    BY <1>2, <2>1, <2>2 DEF Usr1, TypeOK, ring, outside, mgrv, mainv
<1> QED
  BY <1>1, <1>2

LEMMA TypeClients ==
  ASSUME TypeOK, NEW c \in Clients,
         ClientOpen(c) \/ ClientWrite(c) \/ ClientDies(c)
  PROVE  TypeOK'
<1> USE DEF TypeOK, ring, hostv, mgrv, mainv, sigv
<1>1. CASE ClientOpen(c)
  BY <1>1 DEF ClientOpen
<1>2. CASE ClientWrite(c)
  BY <1>2 DEF ClientWrite
<1>3. CASE ClientDies(c)
  BY <1>3 DEF ClientDies
<1> QED
  BY <1>1, <1>2, <1>3

LEMMA TypeStep == ASSUME TypeOK, [Next]_vars PROVE TypeOK'
<1>1. CASE UNCHANGED vars
  BY <1>1 DEF TypeOK, vars, ring, outside, hostv, mgrv, mainv, sigv
<1>2. CASE Next
  BY <1>2, TypeHost, TypeManager, TypeMain, TypeSignals, TypeClients DEF Next
<1> QED
  BY <1>1, <1>2

\* Every variable of the server keeps its type.
THEOREM TypeCorrect == Spec => []TypeOK
  BY TypeInit, TypeStep, PTL DEF Spec
-----------------------------------------------------------------------------
(* What each kind of step leaves alone, and the counts after it.           *)

LEMMA HostLeaves == HostStep => UNCHANGED <<mgrv, mainv, usr1, overruns>>
  BY DEF HostStep, HostOpen, HostLoop, HostAccept, HostCallRead, HostRead,
         HostReadNothing, HostRejects, HostWaitSlot, HostLock, HostStore, HostAdvance,
         HostPostItem, HostTestSig, HostClearSig, HostLeaderboard,
         HostWritten, sigv

LEMMA MgrLeaves ==
  ASSUME NEW m \in Managers, MgrStep(m) \/ MgrSessionEnds(m)
  PROVE  UNCHANGED <<hostv, mainv, sigv, outside, request_queue, rq_tail>>
  BY DEF MgrStep, MgrLoop, MgrWaitItem, MgrLock, MgrRead, MgrAdvance,
         MgrPostSlot, MgrTest, MgrSessionEnds, ring

LEMMA MainLeaves == MainStep => UNCHANGED <<mgrv, sigv, outside, host, host_req,
                                            request_queue, rq_head, rq_tail,
                                            rq_slots, rq_mutex, server_shutdown>>
  BY DEF MainStep, MainWakes, MainClose, MainPost, MainJoinHost,
         MainJoinManagers, ring, hostv

LEMMA ClientLeaves ==
  ASSUME NEW c \in Clients, ClientOpen(c) \/ ClientWrite(c) \/ ClientDies(c)
  PROVE  UNCHANGED <<ring, hostv, mgrv, mainv, sigv>>
  BY DEF ClientOpen, ClientWrite, ClientDies

LEMMA SameCount == ASSUME UNCHANGED mgr, NEW S PROVE At(S)' = At(S)
  BY DEF At

\* The two sets of program counters the invariants count managers at.
Taking  == {"lock", "read", "advance"}
Holding == {"lock", "read", "advance", "slots"}

LEMMA Deltas ==
  ASSUME TypeOK, NEW m \in Managers, MgrStep(m) \/ MgrSessionEnds(m)
  PROVE  /\ Cardinality(At(Holding)') + rq_items' + rq_slots'
              = Cardinality(At(Holding)) + rq_items + rq_slots
         /\ \/ /\ rq_head' = rq_head /\ mgr[m] # "advance"
               /\ rq_items' + Cardinality(At(Taking)')
                    = rq_items + Cardinality(At(Taking))
            \/ /\ MgrAdvance(m)
               /\ rq_items' + Cardinality(At(Taking)')
                    = (rq_items + Cardinality(At(Taking))) - 1
<1> DEFINE h == Cardinality(At(Holding))
           t == Cardinality(At(Taking))
<1>1. h \in Nat /\ t \in Nat /\ rq_items \in Nat /\ rq_slots \in Nat
  BY CountType DEF TypeOK
<1>2. \A from, to : MgrGoto(m, from, to) =>
        /\ h' = h + (IF to \in Holding THEN 1 ELSE 0)
                  - (IF from \in Holding THEN 1 ELSE 0)
        /\ t' = t + (IF to \in Taking THEN 1 ELSE 0)
                  - (IF from \in Taking THEN 1 ELSE 0)
        /\ mgr[m] = from
  BY CountMove DEF MgrGoto
<1> HIDE DEF h, t
<1> SUFFICES /\ h' + rq_items' + rq_slots' = h + rq_items + rq_slots
             /\ \/ /\ rq_head' = rq_head /\ mgr[m] # "advance"
                   /\ rq_items' + t' = rq_items + t
                \/ /\ MgrAdvance(m)
                   /\ rq_items' + t' = (rq_items + t) - 1
  BY DEF h, t
<1> USE DEF Holding, Taking, ring
<1>3. CASE MgrLoop(m)
  BY <1>1, <1>2, <1>3 DEF MgrLoop
<1>4. CASE MgrWaitItem(m)
  BY <1>1, <1>2, <1>4 DEF MgrWaitItem
<1>5. CASE MgrLock(m)
  BY <1>1, <1>2, <1>5 DEF MgrLock
<1>6. CASE MgrRead(m)
  BY <1>1, <1>2, <1>6 DEF MgrRead
<1>7. CASE MgrAdvance(m)
  <2>1. /\ MgrGoto(m, "advance", "slots")
        /\ UNCHANGED <<rq_items, rq_slots>>
    BY <1>7 DEF MgrAdvance
  <2>2. h' = h /\ t' = t - 1
    BY <1>1, <1>2, <2>1
  <2> QED
    BY <1>1, <1>7, <2>1, <2>2
<1>8. CASE MgrPostSlot(m)
  BY <1>1, <1>2, <1>8 DEF MgrPostSlot
<1>9. CASE MgrTest(m)
  BY <1>1, <1>2, <1>9 DEF MgrTest
<1>10. CASE MgrSessionEnds(m)
  BY <1>1, <1>2, <1>10 DEF MgrSessionEnds
<1> QED
  BY <1>3, <1>4, <1>5, <1>6, <1>7, <1>8, <1>9, <1>10 DEF MgrStep
-----------------------------------------------------------------------------
(* The semaphores conserve the slots.                                      *)

LEMMA TokensHost ==
  ASSUME TypeOK, TokensConserved, HostStep PROVE TokensConserved'
<1> DEFINE h == Cardinality(At(Holding))
<1>1. h \in Nat /\ rq_items \in Nat /\ rq_slots \in Nat /\ QueueSize \in Nat
      /\ overruns \in Nat /\ posts \in Nat
  BY CountType, QueueAssumption, FS_CardinalityType DEF TypeOK
<1>2. h' = h /\ overruns' = overruns /\ posts' = posts
  BY HostLeaves, SameCount DEF mgrv, mainv
<1>3. rq_slots + rq_items + HostAt({"lock", "store", "advance", "items"}) + h
        = QueueSize + overruns + posts
  BY DEF TokensConserved, Holding
<1> HIDE DEF h
<1> SUFFICES rq_slots' + rq_items'
               + HostAt({"lock", "store", "advance", "items"})' + h'
               = QueueSize + overruns' + posts'
  BY DEF TokensConserved, Holding, h
<1> USE DEF HostAt, HostGoto, ring
<1>4. CASE HostWaitSlot
  BY <1>1, <1>2, <1>3, <1>4 DEF HostWaitSlot
<1>5. CASE HostLock \/ HostStore \/ HostAdvance
  BY <1>1, <1>2, <1>3, <1>5 DEF HostLock, HostStore, HostAdvance
<1>6. CASE HostPostItem
  BY <1>1, <1>2, <1>3, <1>6 DEF HostPostItem
<1>7. CASE HostOpen \/ HostLoop \/ HostAccept \/ HostCallRead \/ HostRead
           \/ HostReadNothing \/ HostRejects
  BY <1>1, <1>2, <1>3, <1>7 DEF HostOpen, HostLoop, HostAccept,
     HostCallRead, HostRead, HostReadNothing, HostRejects
<1>8. CASE HostTestSig \/ HostClearSig \/ HostLeaderboard \/ HostWritten
  BY <1>1, <1>2, <1>3, <1>8 DEF HostTestSig, HostClearSig, HostLeaderboard,
     HostWritten
<1> QED
  BY <1>4, <1>5, <1>6, <1>7, <1>8 DEF HostStep

LEMMA TokensStep ==
  ASSUME TypeOK, TokensConserved, [Next]_vars PROVE TokensConserved'
<1> DEFINE k == HostAt({"lock", "store", "advance", "items"})
           t == Cardinality(At(Holding)) + rq_items + rq_slots
<1>1. t \in Nat /\ k \in Nat /\ k' \in Nat /\ QueueSize \in Nat
      /\ overruns \in Nat /\ posts \in Nat
  BY CountType, QueueAssumption, FS_CardinalityType DEF TypeOK, HostAt
<1>2. t + k = QueueSize + overruns + posts
  <2>1. Cardinality(At(Holding)) \in Nat /\ rq_items \in Nat /\ rq_slots \in Nat
    BY CountType DEF TypeOK
  <2>2. rq_slots + rq_items + k + Cardinality(At(Holding)) = QueueSize + overruns + posts
    BY DEF TokensConserved, Holding
  <2> HIDE DEF k
  <2> QED
    BY <1>1, <2>1, <2>2
<1>3. ASSUME t' + k' = QueueSize + overruns' + posts' PROVE TokensConserved'
  <2>1. Cardinality(At(Holding)') \in Nat
    BY CountType
  <2>2. rq_items' \in Nat /\ rq_slots' \in Nat
    BY TypeStep DEF TypeOK
  <2>3. rq_slots' + rq_items' + k' + Cardinality(At(Holding)') = t' + k'
    BY <1>1, <2>1, <2>2
  <2> QED
    BY <1>3, <2>3 DEF TokensConserved, Holding
<1>4. /\ UNCHANGED <<mgr, rq_items, rq_slots>> => t' = t
      /\ UNCHANGED host => k' = k
  BY SameCount DEF HostAt
<1>5. \A m \in Managers : MgrStep(m) \/ MgrSessionEnds(m) => t' = t
  BY Deltas
<1>6. Usr1 => k' - overruns' = k - overruns /\ overruns' \in Nat
  BY <1>1 DEF Usr1, Interrupted, HostGoto, HostAt
<1>7. CASE HostStep
  BY <1>7, TokensHost
<1>8. ASSUME NEW m \in Managers, MgrStep(m) \/ MgrSessionEnds(m)
      PROVE  TokensConserved'
  <2>1. UNCHANGED <<host, overruns, posts>>
    BY <1>8, MgrLeaves DEF hostv, sigv, mainv
  <2>2. t' = t /\ k' = k
    BY <1>4, <1>5, <1>8, <2>1
  <2> QED
    BY <1>2, <1>3, <2>1, <2>2
<1>9. CASE MainStep
  <2>1. UNCHANGED <<mgr, host, overruns, rq_slots>>
    BY <1>9, MainLeaves DEF mgrv, sigv
  <2>2. \/ rq_items' = rq_items /\ posts' = posts
        \/ rq_items' = rq_items + 1 /\ posts' = posts + 1
    BY <1>9 DEF MainStep, MainWakes, MainClose, MainPost, MainJoinHost,
       MainJoinManagers, ring
  <2>3. At(Holding)' = At(Holding)
    BY <2>1, SameCount
  <2>4. \/ t' = t /\ posts' = posts
        \/ t' = t + 1 /\ posts' = posts + 1
    <3>1. /\ Cardinality(At(Holding)) \in Nat
          /\ rq_items \in Nat /\ rq_slots \in Nat
      BY CountType DEF TypeOK
    <3>2. t' = Cardinality(At(Holding)) + rq_items' + rq_slots
      BY <2>1, <2>3
    <3> QED
      BY <2>2, <3>1, <3>2
  <2> HIDE DEF t, k
  <2> QED
    BY <1>1, <1>2, <1>3, <1>4, <2>1, <2>4
<1>10. CASE Usr1
  <2>1. UNCHANGED <<mgr, rq_items, rq_slots, posts>>
    BY <1>10 DEF Usr1, ring, mgrv, mainv
  <2>2. t' = t
    BY <1>4, <2>1
  <2> HIDE DEF t, k
  <2> QED
    BY <1>1, <1>2, <1>3, <1>6, <1>10, <2>1, <2>2
<1>11. CASE Terminate \/ UNCHANGED vars
  <2>1. UNCHANGED <<mgr, rq_items, rq_slots, host, overruns, posts>>
    BY <1>11 DEF Terminate, vars, ring, hostv, mgrv, mainv, sigv
  <2> QED
    BY <1>2, <1>3, <1>4, <2>1
<1>12. ASSUME NEW c \in Clients,
              ClientOpen(c) \/ ClientWrite(c) \/ ClientDies(c)
       PROVE  TokensConserved'
  <2>1. UNCHANGED <<mgr, rq_items, rq_slots, host, overruns, posts>>
    BY <1>12, ClientLeaves DEF ring, hostv, mgrv, mainv, sigv
  <2> QED
    BY <1>2, <1>3, <1>4, <2>1
<1> QED
  BY <1>7, <1>8, <1>9, <1>10, <1>11, <1>12 DEF Next

\* The slots of the queue are conserved by every step.
THEOREM TokensTheorem == Spec => []TokensConserved
<1>1. Init => TokensConserved
  <2> SUFFICES ASSUME Init PROVE TokensConserved
    OBVIOUS
  <2>1. At(Holding) = {}
    BY DEF Init, At, Holding
  <2> QED
    BY <2>1, QueueAssumption, FS_EmptySet
       DEF Init, TokensConserved, HostAt, Holding
<1> QED
  BY <1>1, TypeCorrect, TokensStep, PTL DEF Spec

LEMMA OverrunFollows == ASSUME TypeOK, TokensConserved PROVE NoOverrun
<1> DEFINE h == Cardinality(At(Holding))
           t == Cardinality(At(Taking))
           k == HostAt({"items"})
           j == HostAt({"lock", "store", "advance"})
<1>1. h \in Nat /\ t \in Nat /\ t <= h
  <2>1. At(Taking) \subseteq At(Holding)
    BY DEF At, Taking, Holding
  <2> QED
    BY <2>1, CountType, FS_Subset
<1>2. /\ rq_items \in Nat /\ rq_slots \in Nat /\ QueueSize \in Nat
      /\ posts \in Nat /\ k \in Nat /\ j \in Nat
  BY QueueAssumption, FS_CardinalityType DEF TypeOK, HostAt
<1>3. HostAt({"lock", "store", "advance", "items"}) = k + j
  BY DEF HostAt
<1>4. rq_slots + rq_items + (k + j) + h = QueueSize + overruns + posts
  BY <1>3 DEF TokensConserved, Holding
<1> HIDE DEF h, t, k, j
<1>5. ASSUME overruns = 0 PROVE rq_items + k + t - posts + j <= QueueSize
  BY <1>1, <1>2, <1>4, <1>5
<1> QED
  BY <1>5 DEF NoOverrun, Stored, Taking, k, j, t

\* Unless a signal interrupted the wait for a slot, the host never has
\* more requests in the ring or in its hands than the ring has slots.
THEOREM OverrunTheorem == Spec => []NoOverrun
  BY TypeCorrect, TokensTheorem, OverrunFollows, PTL
-----------------------------------------------------------------------------
(* The indices agree with the semaphores.                                  *)

LEMMA StoredType == ASSUME TypeOK PROVE Stored \in Int
<1>1. /\ rq_items \in Nat /\ posts \in Nat
      /\ HostAt({"items"}) \in Nat /\ Cardinality(At(Taking)) \in Nat
  BY CountType, QueueAssumption, FS_CardinalityType DEF TypeOK, HostAt
<1> QED
  BY <1>1 DEF Stored, Taking

\* Requests posted and not taken, those of cleanup_server's posts included.
Queued == rq_items + Cardinality(At(Taking))

LEMMA StoredParts ==
  ASSUME TypeOK, [Next]_vars
  PROVE  /\ Queued \in Nat /\ Queued' \in Nat
         /\ HostAt({"items"}) \in Nat /\ posts \in Nat /\ posts' \in Nat
         /\ Stored = Queued + HostAt({"items"}) - posts
         /\ Stored' = Queued' + HostAt({"items"})' - posts'
<1>1. rq_items \in Nat /\ posts \in Nat /\ rq_items' \in Nat /\ posts' \in Nat
  BY TypeStep, QueueAssumption, FS_CardinalityType DEF TypeOK
<1>2. Cardinality(At(Taking)) \in Nat /\ Cardinality(At(Taking)') \in Nat
  BY CountType
<1>3. HostAt({"items"}) \in Nat /\ HostAt({"items"})' \in Nat
  BY DEF HostAt
<1>4. Stored = Queued + HostAt({"items"}) - posts
  BY <1>1, <1>2, <1>3 DEF Stored, Taking, Queued
<1>5. Stored' = Queued' + HostAt({"items"})' - posts'
  BY <1>1, <1>2, <1>3 DEF Stored, Taking, Queued
<1> QED
  BY <1>1, <1>2, <1>3, <1>4, <1>5 DEF Queued

\* How the steps of each thread move the indices and what is between them.
LEMMA StoredHost ==
  ASSUME TypeOK, HostStep
  PROVE  /\ rq_head' = rq_head
         /\ \/ HostAdvance /\ Stored' = Stored + 1
            \/ host # "advance" /\ rq_tail' = rq_tail /\ Stored' = Stored
<1>1. [Next]_vars
  BY DEF Next
<1>2. UNCHANGED <<mgr, posts>>
  BY HostLeaves DEF mgrv, mainv
<1>3. /\ rq_items' = rq_items => Queued' = Queued
      /\ rq_items' = rq_items + 1 => Queued' = Queued + 1
  <2>1. /\ At(Taking)' = At(Taking) /\ Cardinality(At(Taking)) \in Nat
        /\ rq_items \in Nat
    BY <1>2, SameCount, CountType DEF TypeOK
  <2> QED
    BY <2>1 DEF Queued
<1> USE <1>1, <1>2, <1>3, StoredParts DEF HostAt, HostGoto, ring
<1>4. CASE HostWaitSlot \/ HostLock \/ HostStore
  BY <1>4 DEF HostWaitSlot, HostLock, HostStore
<1>5. CASE HostAdvance
  BY <1>5 DEF HostAdvance
<1>6. CASE HostPostItem
  BY <1>6 DEF HostPostItem
<1>7. CASE HostOpen \/ HostLoop \/ HostAccept \/ HostCallRead \/ HostRead
           \/ HostReadNothing \/ HostRejects
  BY <1>7 DEF HostOpen, HostLoop, HostAccept, HostCallRead, HostRead,
     HostReadNothing, HostRejects
<1>8. CASE HostTestSig \/ HostClearSig \/ HostLeaderboard \/ HostWritten
  BY <1>8 DEF HostTestSig, HostClearSig, HostLeaderboard, HostWritten
<1> QED
  BY <1>4, <1>5, <1>6, <1>7, <1>8 DEF HostStep

LEMMA StoredManager ==
  ASSUME TypeOK, NEW m \in Managers, MgrStep(m) \/ MgrSessionEnds(m)
  PROVE  /\ rq_tail' = rq_tail
         /\ \/ MgrAdvance(m) /\ Stored' = Stored - 1
            \/ /\ mgr[m] # "advance"
               /\ rq_head' = rq_head /\ Stored' = Stored
<1>1. UNCHANGED <<host, posts, rq_tail>>
  BY MgrLeaves DEF hostv, mainv
<1>2. HostAt({"items"})' = HostAt({"items"}) /\ [Next]_vars
  BY <1>1 DEF HostAt, Next
<1> USE DEF Queued
<1>3. CASE /\ rq_head' = rq_head /\ mgr[m] # "advance"
           /\ Queued' = Queued
  BY <1>1, <1>2, <1>3, StoredParts
<1>4. CASE MgrAdvance(m) /\ Queued' = Queued - 1
  <2> DEFINE k == HostAt({"items"})
  <2>1. /\ Queued \in Nat /\ k \in Nat /\ posts \in Nat
        /\ Stored = Queued + k - posts /\ Stored' = (Queued - 1) + k - posts
    BY <1>1, <1>2, <1>4, StoredParts
  <2> HIDE DEF k, Queued
  <2>2. Stored' = Stored - 1
    BY <2>1
  <2> QED
    BY <1>1, <1>4, <2>2
<1> QED
  BY <1>3, <1>4, Deltas

LEMMA StoredOthers ==
  ASSUME TypeOK, \/ MainStep \/ Terminate \/ Usr1 \/ UNCHANGED vars
                 \/ \E c \in Clients :
                       ClientOpen(c) \/ ClientWrite(c) \/ ClientDies(c)
  PROVE  UNCHANGED <<rq_head, rq_tail>> /\ Stored' = Stored
<1>1. CASE MainStep
  <2>1. UNCHANGED <<mgr, host, rq_head, rq_tail>> /\ [Next]_vars
    BY <1>1, MainLeaves DEF mgrv, Next
  <2>2. \/ rq_items' = rq_items /\ posts' = posts
        \/ rq_items' = rq_items + 1 /\ posts' = posts + 1
    BY <1>1 DEF MainStep, MainWakes, MainClose, MainPost, MainJoinHost,
       MainJoinManagers, ring
  <2>3. \/ Queued' = Queued /\ posts' = posts
        \/ Queued' = Queued + 1 /\ posts' = posts + 1
    <3>1. At(Taking)' = At(Taking) /\ Cardinality(At(Taking)) \in Nat
          /\ rq_items \in Nat
      BY <2>1, SameCount, CountType DEF TypeOK
    <3> QED
      BY <2>2, <3>1 DEF Queued
  <2> DEFINE k == HostAt({"items"})
  <2>4. k' = k
    BY <2>1 DEF HostAt
  <2> HIDE DEF k
  <2>5. /\ Queued \in Nat /\ k \in Nat /\ posts \in Nat
        /\ Stored = Queued + k - posts /\ Stored' = Queued' + k - posts'
    BY <2>1, <2>4, StoredParts DEF k
  <2>6. (Queued + 1) + k - (posts + 1) = Queued + k - posts
    BY <2>5
  <2> QED
    BY <2>1, <2>3, <2>5, <2>6
<1>2. CASE Usr1
  <2>1. UNCHANGED <<mgr, rq_items, posts, rq_head, rq_tail>>
    BY <1>2 DEF Usr1, ring, mgrv, mainv
  <2>2. HostAt({"items"})' = HostAt({"items"})
    BY <1>2 DEF Usr1, Interrupted, HostGoto, HostAt
  <2> QED
    BY <2>1, <2>2 DEF Stored, At
<1>3. CASE \/ Terminate \/ UNCHANGED vars
           \/ \E c \in Clients :
                 ClientOpen(c) \/ ClientWrite(c) \/ ClientDies(c)
  <2>1. UNCHANGED <<mgr, host, rq_items, posts, rq_head, rq_tail>>
    BY <1>3, ClientLeaves DEF Terminate, vars, ring, hostv, mgrv, mainv
  <2> QED
    BY <2>1 DEF Stored, At, HostAt
<1> QED
  BY <1>1, <1>2, <1>3

LEMMA StoredStep ==
  ASSUME TypeOK, [Next]_vars
  PROVE  \/ UNCHANGED <<rq_head, rq_tail>> /\ Stored' = Stored
         \/ HostAdvance /\ rq_head' = rq_head /\ Stored' = Stored + 1
         \/ /\ \E m \in Managers : MgrAdvance(m)
            /\ rq_tail' = rq_tail /\ Stored' = Stored - 1
  BY StoredHost, StoredManager, StoredOthers DEF Next

LEMMA RingStep ==
  ASSUME TypeOK, RingConsistent, [Next]_vars PROVE RingConsistent'
<1>1. /\ Stored \in Int /\ rq_head \in Int /\ QueueSize \in Nat \ {0}
  BY StoredType, QueueAssumption DEF TypeOK, Index
<1>2. rq_tail = (rq_head + Stored) % QueueSize
  BY DEF RingConsistent
<1>3. CASE UNCHANGED <<rq_head, rq_tail>> /\ Stored' = Stored
  BY <1>2, <1>3 DEF RingConsistent
<1>4. CASE HostAdvance /\ rq_head' = rq_head /\ Stored' = Stored + 1
  <2>1. rq_tail' = (rq_tail + 1) % QueueSize
    BY <1>4 DEF HostAdvance, Advance
  <2> DEFINE a == rq_head + Stored
             b == 1
  <2>2. a \in Int /\ rq_tail = a % QueueSize /\ a + 1 = rq_head' + Stored'
    BY <1>1, <1>2, <1>4
  <2> HIDE DEF a
  <2>3. b \in Int
    OBVIOUS
  <2> HIDE DEF b
  <2>4. ((a % QueueSize) + b) % QueueSize = (a + b) % QueueSize
    BY <1>1, <2>2, <2>3, RemainderAdd
  <2> QED
    BY <2>1, <2>2, <2>4 DEF RingConsistent, b
<1>5. CASE /\ \E m \in Managers : MgrAdvance(m)
           /\ rq_tail' = rq_tail /\ Stored' = Stored - 1
  <2>1. rq_head' = (rq_head + 1) % QueueSize
    BY <1>5 DEF MgrAdvance, Advance
  <2> DEFINE a == rq_head + 1
             b == Stored - 1
  <2>2. a \in Int /\ b \in Int /\ a + b = rq_head + Stored
    BY <1>1
  <2>3. rq_head' = a % QueueSize /\ Stored' = b
    BY <1>5, <2>1
  <2> HIDE DEF a, b
  <2>4. ((a % QueueSize) + b) % QueueSize = (a + b) % QueueSize
    BY <1>1, <2>2, RemainderAdd
  <2> QED
    BY <1>2, <1>5, <2>2, <2>3, <2>4 DEF RingConsistent
<1> QED
  BY <1>3, <1>4, <1>5, StoredStep

\* The tail stays Stored slots ahead of the head, modulo the ring.
THEOREM RingTheorem == Spec => []RingConsistent
<1>1. Init => RingConsistent
  <2> SUFFICES ASSUME Init PROVE RingConsistent
    OBVIOUS
  <2>1. At(Taking) = {}
    BY DEF Init, At, Taking
  <2>2. Cardinality(At({"lock", "read", "advance"})) = 0
    BY <2>1, FS_EmptySet DEF Taking
  <2>3. Stored = 0
    BY <2>2 DEF Init, Stored, HostAt
  <2> QED
    BY <2>3, QueueAssumption DEF Init, RingConsistent
<1> QED
  BY <1>1, TypeCorrect, RingStep, PTL DEF Spec
-----------------------------------------------------------------------------
(* No SIGUSR1 is absorbed.                                                 *)

\* A leaderboard is begun after every SIGUSR1, as long as the host lives.
THEOREM LeaderboardTheorem == Spec => []LeaderboardOwed
<1>1. Init => LeaderboardOwed
  BY DEF Init, LeaderboardOwed
<1>2. LeaderboardOwed /\ [Next]_vars => LeaderboardOwed'
  <2> SUFFICES ASSUME LeaderboardOwed, [Next]_vars PROVE LeaderboardOwed'
    OBVIOUS
  <2>1. CASE UNCHANGED <<host, owed, sigusr1_received>>
    BY <2>1 DEF LeaderboardOwed
  <2>2. CASE HostClearSig \/ HostLeaderboard \/ HostWritten \/ HostTestSig
    BY <2>2 DEF HostClearSig, HostLeaderboard, HostWritten, HostTestSig,
       HostGoto, LeaderboardOwed, sigv
  <2>3. CASE HostOpen \/ HostLoop \/ HostAccept \/ HostCallRead \/ HostRead
             \/ HostReadNothing \/ HostRejects
    BY <2>3 DEF HostOpen, HostLoop, HostAccept, HostCallRead, HostRead,
       HostReadNothing, HostRejects, HostGoto, LeaderboardOwed, sigv
  <2>4. CASE HostWaitSlot \/ HostLock \/ HostStore \/ HostAdvance
             \/ HostPostItem
    BY <2>4 DEF HostWaitSlot, HostLock, HostStore, HostAdvance,
       HostPostItem, HostGoto, LeaderboardOwed, sigv
  <2>5. CASE Usr1
    BY <2>5 DEF Usr1, LeaderboardOwed
  <2>6. CASE \/ MainStep \/ Terminate \/ UNCHANGED vars
             \/ \E m \in Managers : MgrStep(m) \/ MgrSessionEnds(m)
             \/ \E c \in Clients :
                   ClientOpen(c) \/ ClientWrite(c) \/ ClientDies(c)
    BY <2>1, <2>6, MainLeaves, MgrLeaves, ClientLeaves
       DEF Terminate, vars, hostv, sigv
  <2> QED
    BY <2>2, <2>3, <2>4, <2>5, <2>6 DEF Next, HostStep
<1> QED
  BY <1>1, <1>2, PTL DEF Spec
-----------------------------------------------------------------------------
(* No session is begun for a slot without a request.                       *)

\* Before main has seen a shutdown, nothing is posted.
PostsAfterShutdown ==
  /\ main # "sleep" => server_shutdown
  /\ posts # 0 => server_shutdown

LEMMA PostsStep ==
  ASSUME PostsAfterShutdown, [Next]_vars
  PROVE  PostsAfterShutdown' /\ (server_shutdown => server_shutdown')
<1>1. CASE UNCHANGED mainv
  BY <1>1 DEF PostsAfterShutdown, mainv
<1>2. CASE MainStep
  BY <1>2 DEF MainStep, MainWakes, MainClose, MainPost, MainJoinHost,
     MainJoinManagers, MainGoto, PostsAfterShutdown
<1>3. CASE Terminate
  BY <1>3 DEF Terminate, PostsAfterShutdown
<1>4. CASE \/ HostStep \/ Usr1 \/ UNCHANGED vars
           \/ \E m \in Managers : MgrStep(m) \/ MgrSessionEnds(m)
           \/ \E c \in Clients : ClientOpen(c) \/ ClientWrite(c) \/ ClientDies(c)
  BY <1>1, <1>4, HostLeaves, MgrLeaves, ClientLeaves DEF Usr1, vars
<1> QED
  BY <1>2, <1>3, <1>4 DEF Next

\* A slot never written holds Stale, so what must be shown is that the head
\* never points at one.  Either every slot was written, or the tail has not
\* come round yet and every slot before it was.
Written ==
  \/ \A i \in Index : request_queue[i] # Stale
  \/ /\ rq_head + Stored = rq_tail
     /\ \A i \in Index : i < rq_tail => request_queue[i] # Stale

StaleInv ==
  /\ NoStaleSession
  /\ host \in {"slots", "lock", "store"} => host_req # Stale
  /\ host = "advance" => request_queue[rq_tail] # Stale
  /\ ~server_shutdown =>
       /\ Written
       /\ \A m \in Managers :
            mgr[m] \in {"advance", "slots", "test"} => mgr_req[m] # Stale

LEMMA StoredPositive ==
  ASSUME TypeOK, posts = 0, NEW m \in Managers, mgr[m] \in Taking
  PROVE  Stored >= 1
<1> DEFINE t == Cardinality(At(Taking))
<1>1. t >= 1 /\ t \in Nat
  <2>1. m \in At(Taking)
    BY DEF At
  <2>2. t # 0
    BY <2>1, CountType, FS_EmptySet
  <2> QED
    BY <2>2, CountType
<1>2. rq_items \in Nat /\ HostAt({"items"}) \in Nat
  BY DEF TypeOK, HostAt
<1>3. Stored = rq_items + HostAt({"items"}) + t - 0
  BY DEF Stored, Taking
<1> HIDE DEF t
<1> QED
  BY <1>1, <1>2, <1>3

LEMMA StaleHost ==
  ASSUME TypeOK, StaleInv, HostStep PROVE StaleInv'
<1>1. UNCHANGED <<mgr, mgr_req, opened, server_shutdown>>
  BY HostLeaves DEF mgrv, mainv
<1>2. NoStaleSession'
  BY <1>1 DEF StaleInv, NoStaleSession
<1>3. /\ rq_tail \in Index /\ request_queue \in [Index -> Requests]
      /\ host_req \in Requests
  BY DEF TypeOK
<1>4. SUFFICES
        /\ (host \in {"slots", "lock", "store"} => host_req # Stale)'
        /\ (host = "advance" => request_queue[rq_tail] # Stale)'
        /\ Written => Written'
  BY <1>1, <1>2 DEF StaleInv
<1>5. CASE HostAdvance
  <2>1. /\ host = "advance" /\ host' = "items" /\ rq_tail' = Advance(rq_tail)
        /\ request_queue' = request_queue /\ rq_head' = rq_head
        /\ request_queue[rq_tail] # Stale
    BY <1>5 DEF HostAdvance, HostGoto, StaleInv
  <2>2. Stored' = Stored + 1 /\ Stored \in Int
    BY <2>1, StoredHost, StoredType
  <2>3. ASSUME rq_head + Stored = rq_tail,
               \A i \in Index : i < rq_tail => request_queue[i] # Stale
        PROVE  Written'
    <3>1. CASE rq_tail = QueueSize - 1
      <4>1. \A i \in Index : i < rq_tail \/ i = rq_tail
        BY <1>3, <3>1, QueueAssumption DEF Index
      <4> QED
        BY <2>1, <2>3, <4>1 DEF Written
    <3>2. CASE rq_tail # QueueSize - 1
      <4>1. Advance(rq_tail) = rq_tail + 1 /\ rq_tail \in Nat
        BY <1>3, <3>2, QueueAssumption DEF Index, Advance
      <4>2. rq_head' + Stored' = rq_tail'
        BY <2>1, <2>2, <2>3, <4>1 DEF TypeOK, Index
      <4>3. \A i \in Index : i < rq_tail + 1 => i < rq_tail \/ i = rq_tail
        BY <4>1 DEF Index
      <4> QED
        BY <2>1, <2>3, <4>1, <4>2, <4>3 DEF Written
    <3> QED
      BY <3>1, <3>2
  <2> QED
    BY <2>1, <2>3 DEF Written
<1>6. CASE ~HostAdvance
  <2>1. UNCHANGED <<rq_head, rq_tail, Stored>>
    BY <1>6, StoredHost
  <2>2. CASE HostStore
    <3>1. /\ host = "store" /\ host' = "advance" /\ host_req # Stale
          /\ request_queue' = [request_queue EXCEPT ![rq_tail] = host_req]
      BY <2>2 DEF HostStore, HostGoto, StaleInv
    <3> QED
      BY <1>3, <2>1, <3>1 DEF Written
  <2>3. CASE HostRead
    <3>1. host_req' # Stale /\ host' = "slots" /\ UNCHANGED request_queue
      BY <2>3, QueueAssumption DEF HostRead, HostGoto, TypeOK, ring
    <3> QED
      BY <2>1, <3>1 DEF Written
  <2>4. CASE HostWaitSlot \/ HostLock
    <3>1. /\ UNCHANGED <<host_req, request_queue>> /\ host' # "advance"
          /\ host \in {"slots", "lock"}
      BY <2>4 DEF HostWaitSlot, HostLock, HostGoto
    <3> QED
      BY <2>1, <3>1 DEF Written, StaleInv
  <2>5. CASE HostOpen \/ HostLoop \/ HostAccept \/ HostCallRead
             \/ HostReadNothing \/ HostRejects \/ HostPostItem
    <3>1. /\ UNCHANGED request_queue
          /\ host' \notin {"slots", "lock", "store", "advance"}
      BY <2>5 DEF HostOpen, HostLoop, HostAccept, HostCallRead,
         HostReadNothing, HostRejects, HostPostItem, HostGoto, ring
    <3> QED
      BY <2>1, <3>1 DEF Written
  <2>6. CASE HostTestSig \/ HostClearSig \/ HostLeaderboard \/ HostWritten
    <3>1. /\ UNCHANGED request_queue
          /\ host' \notin {"slots", "lock", "store", "advance"}
      BY <2>6 DEF HostTestSig, HostClearSig, HostLeaderboard, HostWritten,
         HostGoto, ring
    <3> QED
      BY <2>1, <3>1 DEF Written
  <2> QED
    BY <1>6, <2>2, <2>3, <2>4, <2>5, <2>6 DEF HostStep
<1> QED
  BY <1>5, <1>6

LEMMA StaleManager ==
  ASSUME TypeOK, PostsAfterShutdown, StaleInv,
         NEW m \in Managers, MgrStep(m) \/ MgrSessionEnds(m)
  PROVE  StaleInv'
<1>1. UNCHANGED <<host, host_req, request_queue, rq_tail, server_shutdown>>
  BY MgrLeaves DEF hostv, mainv
<1>2. /\ (host \in {"slots", "lock", "store"} => host_req # Stale)'
      /\ (host = "advance" => request_queue[rq_tail] # Stale)'
  BY <1>1 DEF StaleInv
<1>3. /\ rq_head \in Index /\ rq_tail \in Index /\ Stored \in Int
      /\ mgr \in [Managers -> MgrPC] /\ mgr_req \in [Managers -> Requests]
      /\ opened \in Seq(Requests)
  BY StoredType DEF TypeOK
\* the slot the head points at was written, while a manager is taking
<1>4. ASSUME ~server_shutdown, mgr[m] \in Taking
      PROVE  /\ request_queue[rq_head] # Stale
             /\ rq_head + Stored = rq_tail => Advance(rq_head) = rq_head + 1
  <2>1. Stored >= 1
    BY <1>4, StoredPositive DEF PostsAfterShutdown
  <2>2. rq_head + Stored = rq_tail => rq_head < rq_tail
    BY <1>3, <2>1 DEF Index
  <2>3. rq_head < rq_tail => Advance(rq_head) = rq_head + 1
    BY <1>3, QueueAssumption DEF Index, Advance
  <2> QED
    BY <1>3, <1>4, <2>2, <2>3 DEF StaleInv, Written
<1>5. NoStaleSession'
  <2>1. CASE MgrTest(m) /\ ~server_shutdown
    <3>1. opened' = Append(opened, mgr_req[m]) /\ mgr_req[m] # Stale
      BY <2>1 DEF MgrTest, MgrGoto, StaleInv
    <3> QED
      BY <1>3, <3>1 DEF StaleInv, NoStaleSession
  <2>2. CASE ~(MgrTest(m) /\ ~server_shutdown)
    <3>1. opened' = opened
      BY <2>2 DEF MgrStep, MgrLoop, MgrWaitItem, MgrLock, MgrRead,
         MgrAdvance, MgrPostSlot, MgrTest, MgrSessionEnds
    <3> QED
      BY <3>1 DEF StaleInv, NoStaleSession
  <2> QED
    BY <2>1, <2>2
<1>6. ASSUME ~server_shutdown PROVE Written'
  <2>1. CASE MgrAdvance(m)
    <3>1. rq_head' = Advance(rq_head) /\ mgr[m] \in Taking
      BY <2>1 DEF MgrAdvance, MgrGoto, Taking
    <3>2. Stored' = Stored - 1
      BY <2>1, StoredManager DEF MgrAdvance, MgrGoto
    <3>3. rq_head + Stored = rq_tail => rq_head' + Stored' = rq_tail
      BY <1>3, <1>4, <1>6, <3>1, <3>2 DEF Index
    <3> QED
      BY <1>1, <1>6, <3>3 DEF StaleInv, Written
  <2>2. CASE ~MgrAdvance(m)
    BY <1>1, <1>6, <2>2, StoredManager DEF StaleInv, Written
  <2> QED
    BY <2>1, <2>2
<1>7. ASSUME ~server_shutdown, NEW n \in Managers,
             mgr'[n] \in {"advance", "slots", "test"}
      PROVE  mgr_req'[n] # Stale
  <2>1. CASE MgrRead(m)
    <3>1. /\ mgr' = [mgr EXCEPT ![m] = "advance"] /\ mgr[m] \in Taking
          /\ mgr_req' = [mgr_req EXCEPT ![m] = request_queue[rq_head]]
      BY <2>1 DEF MgrRead, MgrGoto, Taking
    <3> QED
      BY <1>3, <1>4, <1>7, <3>1 DEF StaleInv
  <2>2. CASE MgrAdvance(m) \/ MgrPostSlot(m)
    <3>1. /\ \E to : mgr' = [mgr EXCEPT ![m] = to]
          /\ mgr[m] \in {"advance", "slots"} /\ UNCHANGED mgr_req
      BY <2>2 DEF MgrAdvance, MgrPostSlot, MgrGoto
    <3> QED
      BY <1>3, <1>7, <3>1 DEF StaleInv
  <2>3. CASE \/ MgrLoop(m) \/ MgrWaitItem(m) \/ MgrLock(m) \/ MgrTest(m)
             \/ MgrSessionEnds(m)
    <3>1. /\ \E to \in {"exit", "items", "lock", "read", "serve", "loop"} :
               mgr' = [mgr EXCEPT ![m] = to]
          /\ UNCHANGED mgr_req
      BY <2>3 DEF MgrLoop, MgrWaitItem, MgrLock, MgrTest, MgrSessionEnds,
         MgrGoto
    <3> QED
      BY <1>3, <1>7, <3>1 DEF StaleInv
  <2> QED
    BY <2>1, <2>2, <2>3 DEF MgrStep
<1> QED
  BY <1>1, <1>2, <1>5, <1>6, <1>7 DEF StaleInv

LEMMA StaleStep ==
  ASSUME TypeOK, PostsAfterShutdown, StaleInv, [Next]_vars PROVE StaleInv'
<1>1. CASE \/ MainStep \/ Terminate \/ Usr1 \/ UNCHANGED vars
           \/ \E c \in Clients : ClientOpen(c) \/ ClientWrite(c) \/ ClientDies(c)
  <2>1. UNCHANGED <<rq_head, rq_tail, Stored>>
    BY <1>1, StoredOthers
  <2>2. UNCHANGED <<request_queue, mgr, mgr_req, opened, host_req>>
    BY <1>1, MainLeaves, ClientLeaves
       DEF Terminate, Usr1, vars, ring, hostv, mgrv
  <2>3. \/ host' = host
        \/ host \in {"open", "reading"} /\ host' \in {"exit", "sig"}
        \/ host = "slots" /\ host' = "lock"
    BY <1>1, MainLeaves, ClientLeaves
       DEF Terminate, Usr1, Interrupted, HostGoto, vars, hostv
  <2>4. server_shutdown => server_shutdown'
    BY PostsStep
  <2> QED
    BY <2>1, <2>2, <2>3, <2>4 DEF StaleInv, Written, NoStaleSession
<1> QED
  BY <1>1, StaleHost, StaleManager DEF Next

LEMMA StaleInit == Init => PostsAfterShutdown /\ StaleInv
<1> SUFFICES ASSUME Init PROVE PostsAfterShutdown /\ StaleInv
  OBVIOUS
<1>1. PostsAfterShutdown
  BY DEF Init, PostsAfterShutdown
<1>2. NoStaleSession
  BY DEF Init, NoStaleSession
<1>3. Written
  <2>1. Cardinality(At({"lock", "read", "advance"})) = 0
    <3>1. At({"lock", "read", "advance"}) = {}
      BY DEF Init, At
    <3> QED
      BY <3>1, FS_EmptySet
  <2>2. Stored = 0
    BY <2>1 DEF Init, Stored, HostAt
  <2> QED
    BY <2>2 DEF Init, Written, Index
<1> QED
  BY <1>1, <1>2, <1>3 DEF Init, StaleInv

\* A session is begun only for a request that a client made, also while
\* cleanup_server wakes the managers.
THEOREM StaleTheorem == Spec => []NoStaleSession
<1>1. StaleInv => NoStaleSession
  BY DEF StaleInv
<1> QED
  BY <1>1, StaleInit, TypeCorrect, PostsStep, StaleStep, PTL DEF Spec
-----------------------------------------------------------------------------
(* The refinement.  The ring, its semaphores and its mutex implement the   *)
(* ordered channel of RequestChannel.  First rq_mutex, and what a manager  *)
(* read under it.                                                          *)

Locked ==
  /\ \A m \in Managers : mgr[m] \in {"read", "advance"} => rq_mutex = m
  /\ host \in {"store", "advance"} => rq_mutex = "host"
  /\ \A m \in Managers : mgr[m] = "advance" => mgr_req[m] = request_queue[rq_head]

LEMMA Holders == \A m \in Managers : m # "host" /\ m # "nobody"
  BY QueueAssumption

LEMMA LockedHost ==
  ASSUME TypeOK, Locked, HostStep PROVE Locked'
<1>1. UNCHANGED <<mgr, mgr_req>> /\ rq_head' = rq_head
  BY HostLeaves, StoredHost DEF mgrv
<1>2. CASE HostLock \/ HostAdvance
  <2>1. UNCHANGED request_queue
    BY <1>2 DEF HostLock, HostAdvance
  <2>2. \/ host' = "store" /\ rq_mutex = "nobody" /\ rq_mutex' = "host"
        \/ host' = "items" /\ rq_mutex = "host"
    BY <1>2 DEF HostLock, HostAdvance, HostGoto, Locked
  <2> QED
    BY <1>1, <2>1, <2>2, Holders DEF Locked
<1>3. CASE HostStore
  <2>1. host = "store" /\ rq_mutex = "host" /\ rq_mutex' = rq_mutex /\ host' = "advance"
    BY <1>3 DEF HostStore, HostGoto, Locked
  <2> QED
    BY <1>1, <2>1, Holders DEF Locked
<1>4. CASE \/ HostOpen \/ HostLoop \/ HostAccept \/ HostCallRead \/ HostRead
           \/ HostReadNothing \/ HostRejects \/ HostWaitSlot
  <2>1. UNCHANGED <<request_queue, rq_mutex>>
    BY <1>4 DEF HostOpen, HostLoop, HostAccept, HostCallRead, HostRead, HostReadNothing,
       HostRejects, HostWaitSlot, ring
  <2>2. host' \notin {"store", "advance"}
    BY <1>4 DEF HostOpen, HostLoop, HostAccept, HostCallRead, HostRead, HostReadNothing,
       HostRejects, HostWaitSlot, HostGoto
  <2> QED
    BY <1>1, <2>1, <2>2 DEF Locked
<1>5. CASE HostPostItem \/ HostTestSig \/ HostClearSig \/ HostLeaderboard \/ HostWritten
  <2>1. /\ UNCHANGED <<request_queue, rq_mutex>> /\ host' \notin {"store", "advance"}
    BY <1>5 DEF HostPostItem, HostTestSig, HostClearSig, HostLeaderboard, HostWritten,
       HostGoto, ring
  <2> QED
    BY <1>1, <2>1 DEF Locked
<1> QED
  BY <1>2, <1>3, <1>4, <1>5 DEF HostStep

LEMMA LockedManager ==
  ASSUME TypeOK, Locked, NEW m \in Managers, MgrStep(m) \/ MgrSessionEnds(m)
  PROVE  Locked'
<1>1. UNCHANGED <<host, request_queue>>
  BY MgrLeaves DEF hostv
<1>2. mgr \in [Managers -> MgrPC] /\ mgr_req \in [Managers -> Requests]
  BY DEF TypeOK
<1>3. CASE MgrLock(m)
  <2>1. /\ mgr' = [mgr EXCEPT ![m] = "read"] /\ rq_mutex = "nobody" /\ rq_mutex' = m
        /\ UNCHANGED <<mgr_req, rq_head>>
    BY <1>3 DEF MgrLock, MgrGoto
  <2> QED
    BY <1>1, <1>2, <2>1, Holders DEF Locked
<1>4. CASE MgrRead(m)
  <2>1. /\ mgr[m] = "read" /\ mgr' = [mgr EXCEPT ![m] = "advance"]
        /\ mgr_req' = [mgr_req EXCEPT ![m] = request_queue[rq_head]]
        /\ UNCHANGED <<rq_mutex, rq_head>>
    BY <1>4 DEF MgrRead, MgrGoto, ring
  <2> QED
    BY <1>1, <1>2, <2>1 DEF Locked
<1>5. CASE MgrAdvance(m)
  <2>1. /\ mgr[m] = "advance" /\ mgr' = [mgr EXCEPT ![m] = "slots"]
        /\ rq_mutex' = "nobody" /\ UNCHANGED mgr_req
    BY <1>5 DEF MgrAdvance, MgrGoto
  <2>2. rq_mutex = m
    BY <2>1 DEF Locked
  <2> QED
    BY <1>1, <1>2, <2>1, <2>2, Holders DEF Locked
<1>6. CASE MgrLoop(m) \/ MgrWaitItem(m) \/ MgrPostSlot(m) \/ MgrTest(m) \/ MgrSessionEnds(m)
  <2>1. /\ \E to \in MgrPC \ {"read", "advance"} : mgr' = [mgr EXCEPT ![m] = to]
        /\ UNCHANGED <<mgr_req, rq_mutex, rq_head>>
    BY <1>6 DEF MgrLoop, MgrWaitItem, MgrPostSlot, MgrTest, MgrSessionEnds, MgrGoto, ring,
       MgrPC
  <2> QED
    BY <1>1, <1>2, <2>1 DEF Locked
<1> QED
  BY <1>3, <1>4, <1>5, <1>6 DEF MgrStep

LEMMA LockedStep ==
  ASSUME TypeOK, Locked, [Next]_vars PROVE Locked'
<1>1. CASE \/ MainStep \/ Terminate \/ Usr1 \/ UNCHANGED vars
           \/ \E c \in Clients : ClientOpen(c) \/ ClientWrite(c) \/ ClientDies(c)
  <2>1. UNCHANGED <<request_queue, rq_head, rq_mutex, mgr, mgr_req>>
    BY <1>1, MainLeaves, ClientLeaves DEF Terminate, Usr1, vars, ring, mgrv
  <2>2. host' = host \/ host' \notin {"store", "advance"}
    BY <1>1, MainLeaves, ClientLeaves
       DEF Terminate, Usr1, Interrupted, HostGoto, vars, hostv
  <2> QED
    BY <2>1, <2>2 DEF Locked
<1> QED
  BY <1>1, LockedHost, LockedManager DEF Next
-----------------------------------------------------------------------------
(* The ring as a sequence.                                                 *)

\* Two places of the ring less than a round apart are two slots.
LEMMA Distinct ==
  ASSUME NEW n \in Nat \ {0}, NEW a \in Int, NEW b \in Int, a < b, b < a + n
  PROVE  a % n # b % n
<1> DEFINE p == a \div n
           q == b \div n
           s == a % n
<1>1. p \in Int /\ q \in Int /\ s \in 0 .. n - 1 /\ a = n * p + s /\ b = n * q + (b % n)
  OBVIOUS
<1> SUFFICES ASSUME b % n = s PROVE FALSE
  OBVIOUS
<1>2. n * p \in Int /\ n * q \in Int /\ b = n * q + s
  BY <1>1
<1> HIDE DEF p, q, s
<1>3. CASE q >= p + 1
  BY <1>1, <1>2, <1>3, ProductStep
<1>4. CASE p >= q + 1
  BY <1>1, <1>2, <1>4, ProductStep
<1>5. CASE p = q
  BY <1>1, <1>2, <1>5
<1> QED
  BY <1>1, <1>3, <1>4, <1>5

Slot(i) == (rq_head + i - 1) % QueueSize

LEMMA WaitingIs ==
  TypeOK /\ PostsAfterShutdown /\ ~server_shutdown =>
    /\ Stored \in Nat /\ Waiting \in Seq(Requests) /\ Len(Waiting) = Stored
    /\ \A i \in 1 .. Stored : Waiting[i] = request_queue[Slot(i)]
<1> SUFFICES ASSUME TypeOK, PostsAfterShutdown, ~server_shutdown
             PROVE  /\ Stored \in Nat /\ Waiting \in Seq(Requests)
                    /\ Len(Waiting) = Stored
                    /\ \A i \in 1 .. Stored : Waiting[i] = request_queue[Slot(i)]
  OBVIOUS
<1>1. Stored \in Nat
  <2>1. /\ rq_items \in Nat /\ HostAt({"items"}) \in Nat /\ posts = 0
        /\ Cardinality(At({"lock", "read", "advance"})) \in Nat
    BY CountType DEF TypeOK, HostAt, PostsAfterShutdown
  <2> QED
    BY <2>1 DEF Stored
<1>2. \A i \in 1 .. Stored : request_queue[Slot(i)] \in Requests
  <2>1. \A i \in 1 .. Stored : Slot(i) \in Index
    BY <1>1, QueueAssumption DEF TypeOK, Slot, Index
  <2> QED
    BY <2>1 DEF TypeOK
<1>3. Waiting = [i \in 1 .. Stored |-> request_queue[Slot(i)]]
  BY DEF Waiting, Slot
<1>4. Waiting \in [1 .. Stored -> Requests]
  BY <1>2, <1>3
<1>5. Waiting \in Seq(Requests) /\ Len(Waiting) = Stored
  BY <1>1, <1>4
<1> QED
  BY <1>1, <1>3, <1>5

LEMMA WaitingNext ==
  (TypeOK /\ PostsAfterShutdown /\ ~server_shutdown =>
    /\ Stored \in Nat /\ Waiting \in Seq(Requests) /\ Len(Waiting) = Stored
    /\ \A i \in 1 .. Stored : Waiting[i] = request_queue[Slot(i)])'
  BY WaitingIs, PTL
-----------------------------------------------------------------------------
(* Steps the channel does not see, and the four it does.                   *)

ChannelInv == /\ TypeOK /\ PostsAfterShutdown /\ StaleInv
              /\ NoOverrun /\ RingConsistent /\ Locked

LEMMA SameWaiting ==
  ASSUME UNCHANGED <<server_shutdown, rq_head, request_queue>>, Stored' = Stored
  PROVE  Waiting' = Waiting
  BY DEF Waiting

LEMMA SameHand ==
  ASSUME UNCHANGED <<server_shutdown, mgr, mgr_req>> PROVE Hand' = Hand
  BY DEF Hand

\* HostStore writes a slot that holds none of the waiting requests.
LEMMA ChannelStore ==
  ASSUME ChannelInv, overruns = 0, HostStore PROVE Waiting' = Waiting
<1>1. /\ host = "store" /\ UNCHANGED <<rq_head, server_shutdown>>
      /\ request_queue' = [request_queue EXCEPT ![rq_tail] = host_req]
  BY DEF HostStore, HostGoto, mainv
<1>2. Stored' = Stored
  BY <1>1, StoredHost DEF HostStep, ChannelInv, HostAdvance, HostGoto
<1>3. CASE server_shutdown
  BY <1>1, <1>3 DEF Waiting
<1>4. CASE ~server_shutdown
  <2>1. /\ Stored \in Nat /\ rq_head \in Int /\ QueueSize \in Nat \ {0}
        /\ request_queue \in [Index -> Requests]
    BY <1>4, WaitingIs, QueueAssumption DEF ChannelInv, TypeOK, Index
  <2>2. Stored + 1 <= QueueSize /\ rq_tail = (rq_head + Stored) % QueueSize
    <3>1. HostAt({"lock", "store", "advance"}) = 1
      BY <1>1 DEF HostAt
    <3>2. Stored + HostAt({"lock", "store", "advance"}) <= QueueSize
      BY DEF ChannelInv, NoOverrun
    <3> QED
      BY <2>1, <3>1, <3>2 DEF ChannelInv, RingConsistent
  <2>3. ASSUME NEW i \in 1 .. Stored PROVE request_queue'[Slot(i)] = request_queue[Slot(i)]
    <3> DEFINE a == rq_head + i - 1
               b == rq_head + Stored
    <3>1. a \in Int /\ b \in Int /\ a < b /\ b < a + QueueSize
      BY <2>1, <2>2
    <3>2. Slot(i) = a % QueueSize /\ rq_tail = b % QueueSize
      BY <2>2 DEF Slot
    <3> HIDE DEF a, b
    <3>3. QueueSize \in Nat \ {0}
      BY <2>1
    <3>4. a % QueueSize # b % QueueSize
      BY <3>1, <3>3, Distinct
    <3>5. a % QueueSize \in Index
      BY <3>1, <3>3 DEF Index
    <3> QED
      BY <1>1, <2>1, <3>2, <3>4, <3>5
  <2> QED
    BY <1>1, <1>2, <1>4, <2>3 DEF Waiting, Slot
<1> QED
  BY <1>3, <1>4

\* HostAdvance enqueues.
LEMMA ChannelEnqueue ==
  ASSUME ChannelInv, ChannelInv', ~server_shutdown, HostAdvance
  PROVE  \E r \in Clients : Channel!Enqueue(r)
<1> DEFINE r == request_queue[rq_tail]
<1>1. /\ host = "advance" /\ UNCHANGED <<rq_head, request_queue, mgrv, server_shutdown>>
  BY DEF HostAdvance, HostGoto, mainv
<1>2. Stored' = Stored + 1
  BY <1>1, StoredHost DEF HostStep, ChannelInv
<1>3. r \in Clients /\ r \in Requests
  <2>1. r \in Requests
    BY DEF ChannelInv, TypeOK
  <2> QED
    BY <1>1, <2>1 DEF ChannelInv, StaleInv, Requests
<1>4. /\ Stored \in Nat /\ Waiting \in Seq(Requests) /\ Len(Waiting) = Stored
      /\ \A i \in 1 .. Stored : Waiting[i] = request_queue[Slot(i)]
  BY WaitingIs DEF ChannelInv
<1>5. /\ Waiting' \in Seq(Requests) /\ Len(Waiting') = Stored + 1
      /\ \A i \in 1 .. Stored + 1 : Waiting'[i] = request_queue[Slot(i)]
  BY <1>1, <1>2, WaitingNext DEF ChannelInv, Slot
<1>6. r = request_queue[Slot(Stored + 1)]
  <2>1. rq_tail = (rq_head + Stored) % QueueSize /\ rq_head \in Int
    BY DEF ChannelInv, RingConsistent, TypeOK, Index
  <2>2. rq_head + (Stored + 1) - 1 = rq_head + Stored
    BY <1>4, <2>1
  <2> QED
    BY <2>1, <2>2 DEF Slot
<1> HIDE DEF r
<1>7. Waiting' = Append(Waiting, r)
  <2>1. /\ Append(Waiting, r) \in Seq(Requests) /\ Len(Append(Waiting, r)) = Stored + 1
        /\ \A i \in 1 .. Stored : Append(Waiting, r)[i] = Waiting[i]
        /\ Append(Waiting, r)[Stored + 1] = r
    BY <1>3, <1>4, AppendProperties
  <2>2. \A i \in 1 .. Stored + 1 : i \in 1 .. Stored \/ i = Stored + 1
    BY <1>4
  <2>3. \A i \in 1 .. Stored + 1 : Waiting'[i] = Append(Waiting, r)[i]
    BY <1>4, <1>5, <1>6, <2>1, <2>2
  <2> QED
    BY <1>5, <2>1, <2>3, SeqEqual
<1>8. Hand' = Hand /\ opened' = opened
  BY <1>1, SameHand DEF mgrv
<1> QED
  BY <1>1, <1>3, <1>7, <1>8 DEF Channel!Enqueue

\* MgrAdvance takes the oldest waiting request, and the manager has it.
LEMMA ChannelHandOver ==
  ASSUME ChannelInv, ChannelInv', ~server_shutdown, NEW m \in Managers, MgrAdvance(m)
  PROVE  Channel!HandOver(m)
<1>1. /\ mgr[m] = "advance" /\ mgr' = [mgr EXCEPT ![m] = "slots"]
      /\ rq_head' = Advance(rq_head)
      /\ UNCHANGED <<request_queue, mgr_req, opened, server_shutdown>>
  BY DEF MgrAdvance, MgrGoto, mainv
<1>2. /\ mgr \in [Managers -> MgrPC] /\ mgr_req \in [Managers -> Requests]
      /\ rq_head \in Int /\ QueueSize \in Nat \ {0} /\ rq_head \in Index
  <2>1. /\ mgr \in [Managers -> MgrPC] /\ mgr_req \in [Managers -> Requests]
        /\ rq_head \in Index
    BY DEF ChannelInv, TypeOK
  <2>2. QueueSize \in Nat \ {0}
    BY QueueAssumption
  <2> QED
    BY <2>1, <2>2 DEF Index
<1>3. Stored' = Stored - 1 /\ Stored >= 1
  <2>1. mgr[m] \in Taking /\ posts = 0
    BY <1>1 DEF Taking, ChannelInv, PostsAfterShutdown
  <2>2. Stored' = Stored - 1
    BY <1>1, StoredManager DEF MgrStep, ChannelInv
  <2> QED
    BY <2>1, <2>2, StoredPositive DEF ChannelInv
<1>4. /\ Stored \in Nat /\ Waiting \in Seq(Requests) /\ Len(Waiting) = Stored
      /\ \A i \in 1 .. Stored : Waiting[i] = request_queue[Slot(i)]
  BY WaitingIs DEF ChannelInv
<1>5. /\ Waiting' \in Seq(Requests) /\ Len(Waiting') = Stored - 1
      /\ \A i \in 1 .. Stored - 1 :
           Waiting'[i] = request_queue[(rq_head' + i - 1) % QueueSize]
  BY <1>1, <1>3, WaitingNext DEF ChannelInv, Slot
<1>6. ASSUME NEW i \in 1 .. Stored - 1
      PROVE  (rq_head' + i - 1) % QueueSize = Slot(i + 1)
  <2> DEFINE a == rq_head + 1
             b == i - 1
  <2>1. a \in Int /\ b \in Int /\ rq_head' = a % QueueSize
    BY <1>1, <1>2 DEF Advance
  <2>2. rq_head' \in Int /\ rq_head' + i - 1 = rq_head' + b
        /\ rq_head + (i + 1) - 1 = a + b
    BY <1>2, <2>1
  <2> HIDE DEF a, b
  <2>3. ((a % QueueSize) + b) % QueueSize = (a + b) % QueueSize
    BY <1>2, <2>1, RemainderAdd
  <2> QED
    BY <2>1, <2>2, <2>3 DEF Slot
<1>7. Waiting # <<>> /\ Head(Waiting) = Waiting[1]
  BY <1>3, <1>4
<1>8. Waiting' = Tail(Waiting)
  <2>1. /\ Tail(Waiting) \in Seq(Requests) /\ Len(Tail(Waiting)) = Stored - 1
        /\ \A i \in 1 .. Stored - 1 : Tail(Waiting)[i] = Waiting[i + 1]
    BY <1>4, <1>7, HeadTailProperties
  <2>2. \A i \in 1 .. Stored - 1 : i + 1 \in 1 .. Stored
    BY <1>4
  <2>3. \A i \in 1 .. Stored - 1 : Waiting'[i] = Tail(Waiting)[i]
    BY <1>4, <1>5, <1>6, <2>1, <2>2
  <2> QED
    BY <1>5, <2>1, <2>3, SeqEqual
<1>9. mgr_req[m] = Head(Waiting)
  <2>1. Slot(1) = rq_head
    BY <1>2 DEF Slot, Index
  <2>2. Waiting[1] = request_queue[rq_head]
    BY <1>3, <1>4, <2>1
  <2> QED
    BY <1>1, <1>7, <2>2 DEF ChannelInv, Locked
<1>10. Hand[m] = Stale /\ Hand' = [Hand EXCEPT ![m] = mgr_req[m]]
  BY <1>1, <1>2 DEF Hand
<1> QED
  BY <1>1, <1>7, <1>8, <1>9, <1>10 DEF Channel!HandOver

\* MgrTest opens the session.
LEMMA ChannelOpen ==
  ASSUME ChannelInv, ~server_shutdown, NEW m \in Managers, MgrTest(m)
  PROVE  Channel!Open(m)
<1>1. /\ mgr[m] = "test" /\ mgr' = [mgr EXCEPT ![m] = "serve"]
      /\ opened' = Append(opened, mgr_req[m])
      /\ UNCHANGED <<mgr_req, request_queue, rq_head, server_shutdown>>
  BY DEF MgrTest, MgrGoto, mainv, ring
<1>2. mgr \in [Managers -> MgrPC] /\ mgr_req[m] # Stale
  BY <1>1 DEF ChannelInv, TypeOK, StaleInv
<1>3. Stored' = Stored
  BY <1>1, StoredManager DEF MgrStep, ChannelInv, MgrAdvance, MgrGoto
<1>4. Waiting' = Waiting
  BY <1>1, <1>3, SameWaiting
<1>5. Hand[m] = mgr_req[m] /\ Hand' = [Hand EXCEPT ![m] = Stale]
  BY <1>1, <1>2 DEF Hand
<1> QED
  BY <1>1, <1>2, <1>4, <1>5 DEF Channel!Open

\* Terminate closes the channel.
LEMMA ChannelClose == ASSUME Terminate PROVE Channel!Close
<1>1. ~server_shutdown /\ server_shutdown' = TRUE /\ opened' = opened
  BY DEF Terminate, mgrv
<1> QED
  BY <1>1 DEF Channel!Close, Waiting, Hand

\* Every other step leaves the channel as it is.
LEMMA ChannelHost ==
  ASSUME ChannelInv, overruns = 0, HostStep, ~HostAdvance
  PROVE  UNCHANGED <<Waiting, Hand, opened, server_shutdown>>
<1>1. UNCHANGED <<mgr, mgr_req, opened, server_shutdown, rq_head>> /\ Stored' = Stored
  BY HostLeaves, StoredHost DEF mgrv, mainv, ChannelInv
<1>2. CASE HostStore
  BY <1>1, <1>2, ChannelStore, SameHand
<1>3. CASE ~HostStore
  <2>1. UNCHANGED request_queue
    BY <1>3 DEF HostStep, HostOpen, HostLoop, HostAccept, HostCallRead, HostRead,
       HostReadNothing, HostRejects, HostWaitSlot, HostLock, HostAdvance, HostPostItem, HostTestSig,
       HostClearSig, HostLeaderboard, HostWritten, ring
  <2> QED
    BY <1>1, <2>1, SameWaiting, SameHand
<1> QED
  BY <1>2, <1>3

LEMMA ChannelManager ==
  ASSUME ChannelInv, NEW m \in Managers, MgrStep(m) \/ MgrSessionEnds(m),
         ~MgrAdvance(m), ~MgrTest(m)
  PROVE  UNCHANGED <<Waiting, Hand, opened, server_shutdown>>
<1>1. UNCHANGED <<server_shutdown, request_queue, rq_head>> /\ Stored' = Stored
  BY MgrLeaves, StoredManager DEF mainv, ChannelInv
<1>2. mgr \in [Managers -> MgrPC] /\ mgr_req \in [Managers -> Requests]
  BY DEF ChannelInv, TypeOK
<1>3. CASE MgrRead(m)
  <2>1. /\ mgr[m] = "read" /\ mgr' = [mgr EXCEPT ![m] = "advance"] /\ opened' = opened
        /\ mgr_req' = [mgr_req EXCEPT ![m] = request_queue[rq_head]]
    BY <1>3 DEF MgrRead, MgrGoto
  <2>2. Hand' = Hand
    BY <1>1, <1>2, <2>1 DEF Hand
  <2> QED
    BY <1>1, <2>1, <2>2, SameWaiting
<1>4. CASE MgrPostSlot(m)
  <2>1. /\ mgr[m] = "slots" /\ mgr' = [mgr EXCEPT ![m] = "test"]
        /\ UNCHANGED <<mgr_req, opened>>
    BY <1>4 DEF MgrPostSlot, MgrGoto
  <2>2. Hand' = Hand
    BY <1>1, <1>2, <2>1 DEF Hand
  <2> QED
    BY <1>1, <2>1, <2>2, SameWaiting
<1>5. CASE MgrLoop(m) \/ MgrWaitItem(m) \/ MgrLock(m) \/ MgrSessionEnds(m)
  <2>1. /\ mgr[m] \notin {"slots", "test"} /\ UNCHANGED <<mgr_req, opened>>
        /\ \E to \in MgrPC \ {"slots", "test"} : mgr' = [mgr EXCEPT ![m] = to]
    BY <1>5 DEF MgrLoop, MgrWaitItem, MgrLock, MgrSessionEnds, MgrGoto, MgrPC
  <2>2. Hand' = Hand
    BY <1>1, <1>2, <2>1 DEF Hand
  <2> QED
    BY <1>1, <2>1, <2>2, SameWaiting
<1> QED
  BY <1>3, <1>4, <1>5 DEF MgrStep

LEMMA ChannelOthers ==
  ASSUME ChannelInv, \/ MainStep \/ Usr1 \/ UNCHANGED vars
                     \/ \E c \in Clients :
                          ClientOpen(c) \/ ClientWrite(c) \/ ClientDies(c)
  PROVE  UNCHANGED <<Waiting, Hand, opened, server_shutdown>>
<1>1. Stored' = Stored
  BY StoredOthers DEF ChannelInv
<1>2. UNCHANGED <<mgr, mgr_req, opened, server_shutdown, rq_head, request_queue>>
  BY MainLeaves, ClientLeaves DEF Usr1, vars, ring, mgrv, mainv
<1> QED
  BY <1>1, <1>2, SameWaiting, SameHand

\* After the shutdown the channel stays closed.
LEMMA ChannelClosed ==
  ASSUME ChannelInv, server_shutdown, [Next]_vars
  PROVE  UNCHANGED <<Waiting, Hand, opened, server_shutdown>>
<1>1. server_shutdown'
  BY PostsStep DEF ChannelInv
<1>2. server_shutdown \in BOOLEAN /\ server_shutdown' \in BOOLEAN
  BY TypeStep DEF ChannelInv, TypeOK
<1>3. opened' = opened
  <2>1. ASSUME NEW m \in Managers, MgrStep(m) \/ MgrSessionEnds(m) PROVE opened' = opened
    BY <2>1 DEF MgrStep, MgrLoop, MgrWaitItem, MgrLock, MgrRead, MgrAdvance, MgrPostSlot,
       MgrTest, MgrSessionEnds
  <2> QED
    BY <2>1, HostLeaves, MainLeaves, ClientLeaves DEF Next, Terminate, Usr1, vars, mgrv
<1> QED
  BY <1>1, <1>2, <1>3 DEF Waiting, Hand

LEMMA ChannelStep ==
  ASSUME ChannelInv, ChannelInv', [Next]_vars, overruns' = 0
  PROVE  Channel!Next \/ UNCHANGED Channel!vars
<1>1. overruns = 0
  <2>1. overruns \in Nat
    BY DEF ChannelInv, TypeOK
  <2>2. overruns' = overruns \/ overruns' = overruns + 1
    BY HostLeaves, MgrLeaves, MainLeaves, ClientLeaves
       DEF Next, Terminate, Usr1, Interrupted, sigv, vars
  <2> QED
    BY <2>1, <2>2
<1>2. CASE server_shutdown
  BY <1>2, ChannelClosed DEF Channel!vars
<1>3. CASE ~server_shutdown
  <2>1. CASE HostStep
    BY <1>1, <1>3, <2>1, ChannelEnqueue, ChannelHost DEF Channel!Next, Channel!vars
  <2>2. CASE \E m \in Managers : MgrStep(m) \/ MgrSessionEnds(m)
    BY <1>3, <2>2, ChannelHandOver, ChannelOpen, ChannelManager
       DEF Channel!Next, Channel!vars
  <2>3. CASE Terminate
    BY <2>3, ChannelClose DEF Channel!Next
  <2>4. CASE \/ MainStep \/ Usr1 \/ UNCHANGED vars
             \/ \E c \in Clients : ClientOpen(c) \/ ClientWrite(c) \/ ClientDies(c)
    BY <2>4, ChannelOthers DEF Channel!vars
  <2> QED
    BY <2>1, <2>2, <2>3, <2>4 DEF Next
<1> QED
  BY <1>2, <1>3

LEMMA ChannelInit == Init => Channel!Init /\ Locked
<1> SUFFICES ASSUME Init PROVE Channel!Init /\ Locked
  OBVIOUS
<1>1. Stored = 0
  <2>1. At({"lock", "read", "advance"}) = {}
    BY DEF Init, At
  <2>2. Cardinality(At({"lock", "read", "advance"})) = 0
    BY <2>1, FS_EmptySet
  <2> QED
    BY <2>2 DEF Init, Stored, HostAt
<1>2. Waiting = <<>>
  BY <1>1 DEF Init, Waiting
<1>3. Hand = [m \in Managers |-> Stale]
  BY DEF Init, Hand
<1> QED
  BY <1>2, <1>3 DEF Init, Channel!Init, Locked

\* StaleInv and its companion hold in every behaviour.
LEMMA ChannelInvariant == Spec => []ChannelInv
<1>1. Init => Locked /\ PostsAfterShutdown /\ StaleInv
  BY ChannelInit, StaleInit
<1>2. ChannelInv <=> /\ TypeOK /\ PostsAfterShutdown /\ StaleInv
                     /\ NoOverrun /\ RingConsistent /\ Locked
  BY DEF ChannelInv
<1> QED
  BY <1>1, <1>2, TypeCorrect, PostsStep, StaleStep, OverrunTheorem, RingTheorem, LockedStep,
     PTL DEF Spec

\* Until a SIGUSR1 interrupts a sem_wait of the host, the ring, its two
\* semaphores, its mutex and the shutdown are an ordered channel that closes:
\* every step of every thread is a step of RequestChannel or is not seen by it
\* (ChannelUntilOverrun).
THEOREM ChannelTheorem == Spec => ChannelUntilOverrun
<1>1. ChannelInv /\ ChannelInv' /\ [Next]_vars =>
        [overruns' = 0 => Channel!Next]_(Channel!vars)
  BY ChannelStep
<1> QED
  BY <1>1, ChannelInit, ChannelInvariant, PTL DEF Spec, ChannelUntilOverrun

\* When no SIGUSR1 comes nothing interrupts the host, and the queue is the
\* channel from beginning to end (ChannelSpec).
THEOREM QuietTheorem == ASSUME MaxUsr1 = 0 PROVE Spec => ChannelSpec
<1>1. ChannelInv /\ ChannelInv' /\ [Next]_vars => [Channel!Next]_(Channel!vars)
  <2> SUFFICES ASSUME ChannelInv, ChannelInv', [Next]_vars
               PROVE  [Channel!Next]_(Channel!vars)
    OBVIOUS
  <2>1. overruns' = 0
    BY DEF ChannelInv, TypeOK
  <2> QED
    BY <2>1, ChannelStep
<1> QED
  BY <1>1, ChannelInit, ChannelInvariant, PTL DEF Spec, ChannelSpec, Channel!Spec
=============================================================================
