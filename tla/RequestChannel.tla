--------------------------- MODULE RequestChannel ---------------------------
(***************************************************************************)
(* What the server's request queue promises: requests reach the session    *)
(* managers in the order in which they were enqueued, each one is in the   *)
(* hands of at most one manager, a session is opened only for a request    *)
(* that was enqueued and at most once for each enqueuing, and none is      *)
(* opened after the shutdown, which drops what still waits.                *)
(***************************************************************************)
EXTENDS Sequences

CONSTANTS Clients, Managers, None

VARIABLES
  waiting,  \* requests enqueued and not handed to a manager, oldest first
  hand,     \* the request each manager holds, None when it holds none
  opened,   \* the requests sessions were opened for, in order
  closed    \* the server is shutting down

vars == <<waiting, hand, opened, closed>>

Init == /\ waiting = <<>> /\ opened = <<>> /\ closed = FALSE
        /\ hand = [m \in Managers |-> None]

Enqueue(r) ==
  /\ ~closed /\ waiting' = Append(waiting, r)
  /\ UNCHANGED <<hand, opened, closed>>

HandOver(m) ==
  /\ ~closed /\ waiting # <<>> /\ hand[m] = None
  /\ hand' = [hand EXCEPT ![m] = Head(waiting)]
  /\ waiting' = Tail(waiting)
  /\ UNCHANGED <<opened, closed>>

Open(m) ==
  /\ ~closed /\ hand[m] # None
  /\ opened' = Append(opened, hand[m])
  /\ hand' = [hand EXCEPT ![m] = None]
  /\ UNCHANGED <<waiting, closed>>

Close ==
  /\ ~closed /\ closed' = TRUE
  /\ waiting' = <<>> /\ hand' = [m \in Managers |-> None]
  /\ UNCHANGED opened

Next == \/ \E r \in Clients : Enqueue(r)
        \/ \E m \in Managers : HandOver(m) \/ Open(m)
        \/ Close

Spec == Init /\ [][Next]_vars
=============================================================================
