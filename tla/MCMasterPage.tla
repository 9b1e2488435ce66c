---------------------------- MODULE MCMasterPage ----------------------------
(***************************************************************************)
(* The master's dashboard for TLC, in three slices: two jobs on an open    *)
(* page; one job with toggles, an upload and a lost answer; and one job on *)
(* a page opened, left and opened again, on a network that loses nothing   *)
(* and for a customer who does not cancel.                                 *)
(***************************************************************************)
EXTENDS MasterPage

VARIABLE part

\* A page whose first fetches are under way.
Visits == INSTANCE MasterPage WITH Loaded <- FALSE

\* What the theorems about the page assume of its constants.
ASSUME PageAssumption

first == CHOOSE o \in Orders : TRUE
OneJob == \A o \in Orders \ {first} : row[o] = None /\ status[o] = "SEARCHING"

Slice ==
  CASE part = "jobs" -> used = [toggles |-> 0, reopens |-> 0, uploads |-> 0, lost |-> 0]
    [] part = "mishaps" -> OneJob /\ used.reopens = 0
    [] part = "visits" -> /\ OneJob /\ used.toggles + used.uploads + used.lost = 0
                          /\ status[first] # "CANCELLED_BY_CUSTOMER"

MCInit ==
  /\ part \in {"jobs", "mishaps", "visits"}
  /\ IF part = "visits" THEN Visits!Init ELSE Init

MCNext == Next /\ UNCHANGED part /\ Slice'

MCSpec ==
  /\ MCInit /\ [][MCNext]_<<part, vars>>
  /\ WF_vars(part = "visits" /\ Query)
  /\ \A c \in Calls : WF_vars(part = "visits" /\ Serve(c))

\* The page of a master whose customers do not cancel comes to show the job
\* the server has (invalidateQueries).
VisitCatchesUp == part = "visits" => JobCatchesUp
=============================================================================
