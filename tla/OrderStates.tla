---------------------------- MODULE OrderStates ----------------------------
(***************************************************************************)
(* The order status machine of apps/api/src/modules/orders/order-state.ts: *)
(* the statuses, the transition table every service method consults, and   *)
(* the two status sets derived from it.                                    *)
(***************************************************************************)

OrderStatus ==
  {"DRAFT", "PRICED", "SEARCHING", "ASSIGNED", "EN_ROUTE", "IN_PROGRESS",
   "COMPLETED", "CLOSED", "CANCELLED_BY_CUSTOMER", "CANCELLED_BY_MASTER",
   "EXPIRED", "DISPUTED"}

\* The rows of the table; a status without a row (CLOSED, EXPIRED, the two
\* cancellations, DISPUTED) has no way out.
TRANSITIONS ==
  {<<"DRAFT", "PRICED">>, <<"DRAFT", "CANCELLED_BY_CUSTOMER">>,
   <<"PRICED", "PRICED">>, <<"PRICED", "DRAFT">>,
   <<"PRICED", "SEARCHING">>, <<"PRICED", "CANCELLED_BY_CUSTOMER">>,
   <<"SEARCHING", "ASSIGNED">>, <<"SEARCHING", "EXPIRED">>,
   <<"SEARCHING", "CANCELLED_BY_CUSTOMER">>,
   <<"ASSIGNED", "EN_ROUTE">>, <<"ASSIGNED", "CANCELLED_BY_CUSTOMER">>,
   <<"ASSIGNED", "CANCELLED_BY_MASTER">>,
   <<"EN_ROUTE", "IN_PROGRESS">>, <<"EN_ROUTE", "CANCELLED_BY_CUSTOMER">>,
   <<"EN_ROUTE", "CANCELLED_BY_MASTER">>,
   <<"IN_PROGRESS", "COMPLETED">>,
   <<"COMPLETED", "CLOSED">>}

canTransition(from, to) == <<from, to>> \in TRANSITIONS

EDITABLE_STATUSES == {"DRAFT", "PRICED"}

ACTIVE_MASTER_JOB_STATUSES ==
  {"ASSIGNED", "EN_ROUTE", "IN_PROGRESS", "COMPLETED"}
=============================================================================
