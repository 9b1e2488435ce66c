---------------------------- MODULE OrderPayment ----------------------------
(***************************************************************************)
(* What the payments service promises about the money of an order: it is   *)
(* taken at most once at a time, an order counts as paid only when it has  *)
(* been taken, and a refund is the only way back.                          *)
(***************************************************************************)
CONSTANTS Orders

VARIABLES
  state,   \* "unpaid", "charging" or "paid"
  taken    \* the orders whose money the payment rail has taken

Init ==
  /\ state = [o \in Orders |-> "unpaid"]
  /\ taken = {}

Begin(o) ==
  /\ state[o] = "unpaid"
  /\ state' = [state EXCEPT ![o] = "charging"]
  /\ UNCHANGED taken

Take(o) ==
  /\ state[o] = "charging" /\ o \notin taken
  /\ taken' = taken \cup {o}
  /\ UNCHANGED state

\* The order is paid when its money was taken, and may be tried again when not.
Settle(o) ==
  /\ state[o] = "charging"
  /\ state' = [state EXCEPT ![o] = IF o \in taken THEN "paid" ELSE "unpaid"]
  /\ UNCHANGED taken

Refund(o) ==
  /\ state[o] = "paid"
  /\ state' = [state EXCEPT ![o] = "unpaid"]
  /\ taken' = taken \ {o}

Next == \E o \in Orders : Begin(o) \/ Take(o) \/ Settle(o) \/ Refund(o)

Spec == Init /\ [][Next]_<<state, taken>>
=============================================================================
