---------------------------- MODULE MCPayments ----------------------------
(***************************************************************************)
(* Payments on small instances: one referred customer with one or two      *)
(* completed orders.                                                       *)
(***************************************************************************)
EXTENDS Payments

CONSTANTS c1

OneCustomer == [o \in Orders |-> c1]
===========================================================================
