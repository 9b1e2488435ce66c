------------------------------ MODULE MCForms ------------------------------
(***************************************************************************)
(* The forms for TLC.  A behaviour explores one of them, its part, while   *)
(* the others rest; the larger ones are cut into slices: the wizard with   *)
(* two orders and one mishap, or with one order and a file; onboarding     *)
(* with two administrators, two submissions at once, or two uploads at     *)
(* once; the lists read page by page, or shown by a page that looks at     *)
(* three filters; the session of two users, or of one and a stray call;    *)
(* the map of one order on both pages, or of two jobs on the dashboard; an *)
(* order's page from the search on, or while it is paid.                   *)
(***************************************************************************)
EXTENDS Forms, FiniteSets

VARIABLE part

Wizard == {"two orders", "one file"}
Onboard == {"decisions", "submissions", "uploads"}
Lists == {"paging", "filters"}
Map == {"one order", "jobs"}
Visit == {"searching", "paying"}

click == CHOOSE c \in Clicks : TRUE
clerk == CHOOSE a \in Admins : TRUE
job == CHOOSE o \in Orders : TRUE

Slice ==
  CASE part = "two orders" -> local.staged = 0 /\ lost + reloads <= 1
    [] part = "one file" -> Len(orders) <= 1
    [] part = "decisions" -> form.files = {} /\ \A c \in Clicks \ {click} : sub[c].at = "idle"
    [] part = "submissions" -> form.files = {} /\ \A a \in Admins \ {clerk} : admin[a].list = {}
    [] part = "uploads" -> Len(requests) <= 1 /\ \A a \in Admins : admin[a].list = {}
    [] part = "paging" -> list.filter = R!NoFilter /\ list.cache[R!NoFilter].state = "none"
    [] part = "filters" -> /\ reader.got = <<>> /\ ~reader.done
                           /\ Len(rows) <= 1 /\ \A i \in 1..Len(rows) : rows[i].status = Done
                           /\ list.filter.status \in {None, Done}
                           /\ Cardinality({f \in R!Filters : list.cache[f].state # "none"}) <= 3
    [] part = "searching" -> pays = <<>> /\ (status = "CLOSED" => dropped = 0)
    [] part = "paying" -> claim = "none" /\ ~rated /\ (status = "CLOSED" => dropped = 0)
    [] part = "one order" -> /\ \A o \in Orders \ {job} : order[o].phase = "searching"
                             /\ \A m \in Masters : page[m].mounts <= 1
    [] part = "jobs" -> \A c \in Customers : page[c].order = None
    [] part = "session" -> /\ Cardinality(stray) <= 1
                           /\ stray # {} => \A k \in 1..issued : row[k].user = Me
    [] OTHER -> TRUE

MCInit ==
  /\ part \in Wizard \cup Onboard \cup Lists \cup Map \cup Visit \cup {"session"}
  /\ Init
  /\ part \notin Lists => rows = <<>>
  /\ part # "paging" => reader.list = R!ordersList /\ reader.filter = R!NoFilter
  /\ part # "filters" => list.of = R!OrdersPage
  /\ part # "session" => row[1].user = Me
  /\ part \notin Map => \A o \in Orders : ~T!Tracked(o)
  /\ (part = "paying") = (status = "COMPLETED")
  /\ Slice

MCNext ==
  /\ UNCHANGED part
  /\ \/ part \in Wizard /\ WizardStep
     \/ part \in Onboard /\ OnboardingStep
     \/ part = "session" /\ SessionStep
     \/ part \in Lists /\ ListStep
     \/ part \in Map /\ MapStep
     \/ part \in Visit /\ PageStep
  /\ Slice'

MCSpec == MCInit /\ [][MCNext]_<<part, vars>>
=============================================================================
