------------------------------ MODULE Listings ------------------------------
(***************************************************************************)
(* The paged lists of the API (a customer's orders, a master's jobs and    *)
(* earnings, notifications, the audit log, the administrators' orders and  *)
(* users) and the web pages that show them.  A client reads a list page by *)
(* page with the cursor it is given; a web page shows the first page of    *)
(* the filter chosen, each filter under a query key of its own.            *)
(*                                                                         *)
(* The seven lists differ in their `where` and share the rest: newest      *)
(* first, take + 1 rows from the cursor on.  A row is abstracted to its    *)
(* owner (customer, master, recipient, actor) and a status; rows are       *)
(* numbered in the order of createdAt.                                     *)
(***************************************************************************)
EXTENDS Naturals, Sequences, FiniteSets, FiniteSetsExt

CONSTANTS
  Users, Statuses, None,
  Done,       \* the status the job and earnings lists select
  Me,         \* the user who reads his own lists
  Take,       \* the page size, 20 or 30 in the code
  MaxRows,    \* bound on the rows
  Reading,    \* whether a client reads page by page
  Browsing    \* whether a web page is open

VARIABLES
  rows,    \* the table, oldest first
  reader,  \* the client's list, what it got so far, its cursor
  page     \* the web page: its filter, the cached answer of each key, the fetches under way

vars == <<rows, reader, page>>

NoFilter == [owner |-> None, status |-> None]
Filters == [owner: Users \cup {None}, status: Statuses \cup {None}]

\* Each list: its own user's rows only or everybody's, the statuses it
\* selects, and the filters a caller may give.
List(scoped, only, byOwner, byStatus) ==
  [scoped |-> scoped, only |-> only,
   filters |-> {f \in Filters : (byOwner \/ f.owner = None) /\ (byStatus \/ f.status = None)}]

ordersList == List(TRUE, Statuses, FALSE, TRUE)
getJobHistory == List(TRUE, {Done}, FALSE, FALSE)
getMasterEarnings == List(TRUE, {Done}, FALSE, FALSE)
notificationsList == List(TRUE, Statuses, FALSE, FALSE)
auditList == List(FALSE, Statuses, TRUE, TRUE)
adminOrdersList == List(FALSE, Statuses, TRUE, TRUE)
adminUsersList == List(FALSE, Statuses, TRUE, TRUE)

Lists == {ordersList, getJobHistory, getMasterEarnings, notificationsList,
          auditList, adminOrdersList, adminUsersList}

\* Each web page: the list it asks for and the filters its controls can set.
Page(list, byOwner, byStatus) == [list |-> list, filters |-> List(FALSE, {}, byOwner, byStatus).filters]
OrdersPage == Page(ordersList, FALSE, FALSE)
MasterJobsPage == Page(getJobHistory, FALSE, FALSE)
MasterEarningsPage == Page(getMasterEarnings, FALSE, FALSE)
AdminAuditLogPage == Page(auditList, FALSE, FALSE)
AdminOrdersPage == Page(adminOrdersList, TRUE, TRUE)
AdminMastersPage == Page(adminUsersList, TRUE, TRUE)
AdminCustomersPage == Page(adminUsersList, TRUE, FALSE)

WebPages == {OrdersPage, MasterJobsPage, MasterEarningsPage, AdminAuditLogPage,
             AdminOrdersPage, AdminMastersPage, AdminCustomersPage}

-----------------------------------------------------------------------------
(* The query.                                                              *)

where(l, f, r) ==
  /\ l.scoped => r.owner = Me
  /\ r.status \in l.only
  /\ f.owner \in {None, r.owner} /\ f.status \in {None, r.status}

\* orderBy createdAt desc
Newest(S) ==
  LET at == 1..Cardinality(S) IN
  CHOOSE found \in [at -> S] : \A i, j \in at : i < j => found[i] > found[j]

\* findMany: matching rows from the cursor's on, the cursor's row skipped.
findMany(l, f, cursor, got) ==
  LET found == Newest({i \in 1..Len(rows) : where(l, f, rows[i]) /\ (cursor # None => i < cursor)})
  IN SubSeq(found, 1, Min({Len(found), Take + 1}))

items(found) == SubSeq(found, 1, Min({Len(found), Take}))

\* The row after the last one shown, when there is one.
nextCursor(found) == IF Len(found) > Take THEN found[Take + 1] ELSE None

-----------------------------------------------------------------------------
NoAnswer == [state |-> "none", ids |-> <<>>]
Settled == {"items", "error"}

\* Every variable keeps its type.
TypeOK ==
  /\ \A i \in 1..Len(rows) : rows[i] \in [owner: Users, status: Statuses]
  /\ reader.list \in Lists /\ reader.filter \in reader.list.filters
  /\ reader.cursor \in 1..Len(rows) \cup {None}
  /\ \A f \in Filters : page.cache[f].state \in {"none", "loading"} \cup Settled
  /\ page.filter \in page.of.filters

Init ==
  /\ rows \in UNION {[1..n -> [owner: Users, status: Statuses]] : n \in 0..MaxRows}
  /\ \E l \in IF Reading THEN Lists ELSE {ordersList} : \E f \in l.filters :
       reader = [list |-> l, filter |-> f, got |-> <<>>, cursor |-> None, done |-> FALSE, start |-> rows]
  /\ \E p \in IF Browsing THEN WebPages ELSE {OrdersPage} :
       page = [of |-> p, filter |-> NoFilter, cache |-> [f \in Filters |-> NoAnswer]]

\* A row is added; a row's status changes; nothing is deleted.
insert(u, s) ==
  /\ Len(rows) < MaxRows
  /\ rows' = Append(rows, [owner |-> u, status |-> s])
  /\ UNCHANGED <<reader, page>>

change(i, s) ==
  /\ rows[i].status # s
  /\ rows' = [rows EXCEPT ![i].status = s]
  /\ UNCHANGED <<reader, page>>

\* A client asks for the next page.
nextPage ==
  /\ Reading /\ ~reader.done
  /\ LET found == findMany(reader.list, reader.filter, reader.cursor, Len(reader.got)) IN
     reader' = [reader EXCEPT !.got = @ \o items(found), !.cursor = nextCursor(found),
                              !.done = nextCursor(found) = None]
  /\ UNCHANGED <<rows, page>>

-----------------------------------------------------------------------------
(* The web page.                                                           *)

\* The cache of a page whose query key leaves the filter out.
keyWithoutFilter(f) == NoFilter

\* queryKey: the list and the filter.
key(f) == f

\* The page, or a filter it had not shown yet, asks for its first page.
useQuery(f) ==
  /\ Browsing /\ page.filter = f /\ page.cache[key(f)].state = "none"
  /\ page' = [page EXCEPT !.cache[key(f)] = [state |-> "loading", ids |-> <<>>]]
  /\ UNCHANGED <<rows, reader>>

\* The answer arrives, whatever the filter is by now.  Owners do not change.
answer(f) ==
  /\ page.cache[key(f)].state = "loading"
  /\ page' = [page EXCEPT !.cache[key(f)] =
                 [state |-> "items", ids |-> items(findMany(page.of.list, f, None, 0))]]
  /\ UNCHANGED <<rows, reader>>

fetchFails(f) ==
  /\ page.cache[key(f)].state = "loading"
  /\ page' = [page EXCEPT !.cache[key(f)] = [state |-> "error", ids |-> <<>>]]
  /\ UNCHANGED <<rows, reader>>

refetch ==
  /\ page.cache[key(page.filter)].state = "error"
  /\ page' = [page EXCEPT !.cache[key(page.filter)] = [state |-> "loading", ids |-> <<>>]]
  /\ UNCHANGED <<rows, reader>>

\* The selects and search fields, and the links that carry a filter.
setFilter(f) ==
  /\ Browsing /\ f \in page.of.filters /\ f # page.filter
  /\ page' = [page EXCEPT !.filter = f]
  /\ UNCHANGED <<rows, reader>>

-----------------------------------------------------------------------------
Next ==
  \/ nextPage \/ refetch
  \/ \E u \in Users : \E s \in Statuses : insert(u, s)
  \/ \E i \in 1..Len(rows) : \E s \in Statuses : change(i, s)
  \/ \E f \in Filters : useQuery(f) \/ answer(f) \/ fetchFails(f) \/ setFilter(f)

Spec == Init /\ [][Next]_vars

-----------------------------------------------------------------------------
\* Page after page, a client gets rows newest first and none of them twice,
\* while rows are added and change underneath.
NewestFirst == \A i, j \in 1..Len(reader.got) : i < j => reader.got[i] > reader.got[j]

\* Whatever order the answers to several filters arrive in, the rows a page
\* shows belong to the owner its filter names, and to its user in his own lists.
ShownMatchesFilter ==
  LET shown == page.cache[key(page.filter)].ids IN
  \A i \in 1..Len(shown) :
    /\ page.filter.owner \in {None, rows[shown[i]].owner}
    /\ page.of.list.scoped => rows[shown[i]].owner = Me

\* admin-orders.test.ts: paging skips no item.  Rows that were there from the
\* start and matched then and now are among those a finished client got.
NoneSkipped ==
  reader.done => \A i \in 1..Len(reader.start) :
    where(reader.list, reader.filter, reader.start[i]) /\ rows[i] = reader.start[i]
      => \E j \in 1..Len(reader.got) : reader.got[j] = i

-----------------------------------------------------------------------------
(* What the theorems assume of the constants, and the inductive invariant. *)

ListsAssumption ==
  /\ None \notin Nat
  /\ Take \in Nat \ {0} /\ MaxRows \in Nat

Rows == [owner: Users, status: Statuses]
Readers == [list: Lists, filter: Filters, got: Seq(Nat), cursor: Nat \cup {None}, done: BOOLEAN, start: Seq(Rows)]
Answers == [state: {"none", "loading"} \cup Settled, ids: Seq(Nat)]
Pages == [of: WebPages, filter: Filters, cache: [Filters -> Answers]]

\* A client has got rows above its cursor, and none before it has one.
ReaderOK ==
  IF reader.cursor = None THEN reader.done \/ reader.got = <<>>
  ELSE \A i \in 1..Len(reader.got) : reader.got[i] > reader.cursor

\* An answer is kept under the filter it was asked for.
AnswerOK(f) ==
  LET ids == page.cache[f].ids IN
  \A i \in 1..Len(ids) : /\ ids[i] \in 1..Len(rows)
                         /\ f.owner \in {None, rows[ids[i]].owner}
                         /\ page.of.list.scoped => rows[ids[i]].owner = Me

ListsInv ==
  /\ rows \in Seq(Rows) /\ reader \in Readers /\ page \in Pages
  /\ ReaderOK /\ NewestFirst
  /\ \A f \in Filters : AnswerOK(f)
=============================================================================
