---------------------------- MODULE MCOrderPage ----------------------------
(***************************************************************************)
(* The customer's order page for TLC, opened by navigation while dispatch  *)
(* is searching, signed in and connected, on a network that loses nothing. *)
(***************************************************************************)
CONSTANTS Requests, None

VARIABLES status, pays, rated, claim, ready, socket, pushed, view, fetch,
          mapMounted, req, lost

Open == INSTANCE OrderPage WITH
  StartStatuses <- {"SEARCHING"}, Navigated <- TRUE, MaxPayments <- 0, MaxLost <- 0

Spec == Open!Spec

\* The page catches up with every change of the order (onOrderUpdated,
\* invalidateQueries).
PageCatchesUp == Open!PageCatchesUp
=============================================================================
