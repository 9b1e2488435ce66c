--------------------------- MODULE OrderLifecycle ---------------------------
(***************************************************************************)
(* What the order services promise about an order as a whole: it is        *)
(* created as a draft, every change of its status is an edge of the        *)
(* transition table, one order changes at a time, and a master is attached *)
(* to it exactly when it is assigned, for good.                            *)
(***************************************************************************)
EXTENDS OrderStates

CONSTANTS Orders, Masters, None

VARIABLES status, masterId

Init ==
  /\ status = [o \in Orders |-> None]
  /\ masterId = [o \in Orders |-> None]

Create(o) ==
  /\ status[o] = None
  /\ status' = [status EXCEPT ![o] = "DRAFT"]
  /\ UNCHANGED masterId

Move(o, to) ==
  /\ to # "ASSIGNED"
  /\ canTransition(status[o], to)
  /\ status' = [status EXCEPT ![o] = to]
  /\ UNCHANGED masterId

Assign(o, m) ==
  /\ masterId[o] = None
  /\ canTransition(status[o], "ASSIGNED")
  /\ status' = [status EXCEPT ![o] = "ASSIGNED"]
  /\ masterId' = [masterId EXCEPT ![o] = m]

Next ==
  \E o \in Orders :
    \/ Create(o)
    \/ \E to \in OrderStatus : Move(o, to)
    \/ \E m \in Masters : Assign(o, m)

Spec == Init /\ [][Next]_<<status, masterId>>
=============================================================================
