---------------------------- MODULE LiveTracking ----------------------------
(***************************************************************************)
(* Live GPS: RealtimeGateway.handleLocationUpdate relays the position a    *)
(* device reports to the other party of "the" order its user has in work;  *)
(* LiveTrackingMap (on the customer's order page and the master's          *)
(* dashboard) reports, receives and draws positions.                       *)
(*                                                                         *)
(* A customer's page stays with its order.  The master's dashboard renders *)
(* one LiveTrackingMap for whatever job is current, so that the component, *)
(* its positions and its map go from one job to the next.                  *)
(*                                                                         *)
(* A position is the number of times its device has moved.  Each handler   *)
(* call awaits its own database read, so calls overtake one another;       *)
(* socket.io delivers what is emitted to a user in order.                  *)
(***************************************************************************)
EXTENDS Naturals, Sequences, FiniteSets

CONSTANTS
  Orders, Customers, Masters, None,
  MaxMoves,   \* bound on the moves of a device
  MaxMounts   \* bound on the times a user's page mounts the component

Everyone == Customers \cup Masters

VARIABLES
  order,    \* orders rows: the parties and where the work stands
  pos,      \* the position each device last reported
  relaying, \* handleLocationUpdate calls waiting for the database
  inbox,    \* location:updated events on the way to each user
  page,     \* LiveTrackingMap of each user's open page, if any
  maps,     \* Yandex map instances alive in each browser
  script    \* loadPromise of each browser

vars == <<order, pos, relaying, inbox, page, maps, script>>

\* tracked: ASSIGNED, EN_ROUTE or IN_PROGRESS (LOCATION_TRACKING_STATUSES); a
\* completed job is still the master's current one, but no longer tracked.
Phases == {"searching", "tracked", "completed", "over"}
Tracked(o) == order[o].phase = "tracked"
Parties(o) == {order[o].customer, order[o].master}
counterpart(o, u) == IF order[o].customer = u THEN order[o].master ELSE order[o].customer

\* The orders u's page may show: any of a customer's, and for a master what
\* getCurrentJob finds (it has no order of preference).
Shows(u, o) ==
  \/ order[o].customer = u
  \/ order[o].master = u /\ order[o].phase \in {"tracked", "completed"}

\* mapRef: empty, the map in the box on screen, or one whose box is gone.
MapRefs == {"none", "drawn", "detached"}
Closed(n) == [order |-> None, active |-> FALSE, self |-> 0, other |-> None, map |-> "none", mounts |-> n]
Event == [order: Orders, from: Everyone, at: 1..MaxMoves]

\* initialCounterpartPosition: the address of the order, nobody's position.
Seed(o) == [order |-> o, from |-> None, at |-> 0]
Shown == Event \cup {Seed(o) : o \in Orders}

\* Every variable keeps its type; only a page that is open has a map.
TypeOK ==
  /\ order \in [Orders -> [customer: Customers, master: Masters, phase: Phases]]
  /\ pos \in [Everyone -> 0..MaxMoves]
  /\ relaying \subseteq [from: Everyone, at: 1..MaxMoves]
  /\ \A u \in Everyone : \A i \in 1..Len(inbox[u]) : inbox[u][i] \in Event
  /\ page \in [Everyone -> [order: Orders \cup {None}, active: BOOLEAN, self: 0..MaxMoves,
                         other: Shown \cup {None}, map: MapRefs, mounts: 0..MaxMounts]]
  /\ \A u \in Everyone : page[u].map # "none" => page[u].order # None
  /\ maps \in [Everyone -> Nat] /\ script \in [Everyone -> {"none", "loading", "ready", "failed"}]

Init ==
  /\ order \in [Orders -> [customer: Customers, master: Masters, phase: {"searching", "tracked"}]]
  /\ pos = [u \in Everyone |-> 0] /\ relaying = {}
  /\ inbox = [u \in Everyone |-> <<>>]
  /\ page = [u \in Everyone |-> Closed(0)]
  /\ maps = [u \in Everyone |-> 0] /\ script = [u \in Everyone |-> "none"]

\* The order services move an order on, or cancel it; nothing here moves it back.
proceed(o) ==
  /\ \E to \in Phases :
       /\ <<order[o].phase, to>> \in {<<"searching", "tracked">>, <<"tracked", "completed">>}
            \cup {<<p, "over">> : p \in Phases \ {"over"}}
       /\ order' = [order EXCEPT ![o].phase = to]
  /\ UNCHANGED <<pos, relaying, inbox, page, maps, script>>

-----------------------------------------------------------------------------
(* The page.                                                               *)

\* The page has fetched an order.  The dashboard passes the order's address,
\* if it has coordinates; useState takes it on the first render only.
mount(u, o) ==
  /\ page[u].order = None /\ page[u].mounts < MaxMounts /\ Shows(u, o)
  /\ \E seed \in {None} \cup IF order[o].master = u THEN {Seed(o)} ELSE {} :
       page' = [page EXCEPT ![u] = [Closed(page[u].mounts + 1) EXCEPT
                                  !.order = o, !.active = Tracked(o), !.other = seed]]
  /\ UNCHANGED <<order, pos, relaying, inbox, maps, script>>

\* The teardown whose cleanup destroys the map and leaves it in mapRef.
tornDownKept(m, was, now) ==
  CASE was /\ ~now /\ m = "drawn" -> "detached"
    [] OTHER -> m

\* What a new value of `active` leaves in mapRef.  Without it the box is not
\* rendered.  The teardown effect has registered its cleanup only while it was
\* FALSE, so a map outlives its box and is emptied out for the next one.
tornDown(m, was, now) ==
  CASE was /\ ~now /\ m = "drawn" -> "detached"
    [] ~was /\ now -> "none"
    [] OTHER -> m

\* The maps alive once a cleanup registered while not active has run.
destroyed(u) == IF page[u].map # "none" /\ ~page[u].active THEN maps[u] - 1 ELSE maps[u]

\* A push made the page fetch again: a customer's shows its order as it is, the
\* dashboard whichever job is current now.
rerender(u, o) ==
  /\ page[u].order # None /\ Shows(u, o) /\ (order[o].customer = u => o = page[u].order)
  /\ <<page[u].order, page[u].active>> # <<o, Tracked(o)>>
  /\ page' = [page EXCEPT ![u] = [page[u] EXCEPT !.order = o, !.active = Tracked(o),
                            !.map = tornDown(page[u].map, page[u].active, Tracked(o))]]
  /\ maps' = [maps EXCEPT ![u] = IF Tracked(o) THEN destroyed(u) ELSE @]
  /\ UNCHANGED <<order, pos, relaying, inbox, script>>

\* The page is left, or there is no current job any more.
unmount(u) ==
  /\ page[u].order # None
  /\ page' = [page EXCEPT ![u] = Closed(page[u].mounts)]
  /\ maps' = [maps EXCEPT ![u] = destroyed(u)]
  /\ UNCHANGED <<order, pos, relaying, inbox, script>>

\* watchPosition calls back: the page shows and emits its own position.
onPosition(u) ==
  /\ page[u].active /\ pos[u] < MaxMoves
  /\ pos' = [pos EXCEPT ![u] = @ + 1]
  /\ page' = [page EXCEPT ![u].self = pos'[u]]
  /\ relaying' = relaying \cup {[from |-> u, at |-> pos'[u]]}
  /\ UNCHANGED <<order, inbox, maps, script>>

\* location:updated: the page shows the position, whatever order it is for.
onLocationUpdated(u) ==
  /\ inbox[u] # <<>>
  /\ inbox' = [inbox EXCEPT ![u] = Tail(@)]
  /\ page' = IF page[u].order = None THEN page ELSE [page EXCEPT ![u].other = Head(inbox[u])]
  /\ UNCHANGED <<order, pos, relaying, maps, script>>

\* loadYandexMaps once there is a coordinate: one promise per browser, kept
\* when it is rejected.
wantsMap(u) == page[u].active /\ page[u].map = "none" /\ (page[u].self > 0 \/ page[u].other # None)

loadYandexMaps(u) ==
  /\ wantsMap(u) /\ script[u] = "none"
  /\ script' = [script EXCEPT ![u] = "loading"]
  /\ UNCHANGED <<order, pos, relaying, inbox, page, maps>>

scriptLoaded(u) ==
  /\ script[u] = "loading"
  /\ script' \in {[script EXCEPT ![u] = r] : r \in {"ready", "failed"}}
  /\ UNCHANGED <<order, pos, relaying, inbox, page, maps>>

drawMap(u) ==
  /\ wantsMap(u) /\ script[u] = "ready"
  /\ page' = [page EXCEPT ![u].map = "drawn"]
  /\ maps' = [maps EXCEPT ![u] = @ + 1]
  /\ UNCHANGED <<order, pos, relaying, inbox, script>>

-----------------------------------------------------------------------------
(* The gateway.                                                            *)

\* handleLocationUpdate: some tracked order of the sender (findFirst has no
\* order of preference); emitted to its other party.
handleLocationUpdate(r) ==
  /\ relaying' = relaying \ {r}
  /\ LET jobs == {o \in Orders : Tracked(o) /\ r.from \in Parties(o)} IN
     IF jobs = {} THEN UNCHANGED inbox
     ELSE \E o \in jobs :
            inbox' = [inbox EXCEPT ![counterpart(o, r.from)] = Append(@, [order |-> o, from |-> r.from, at |-> r.at])]
  /\ UNCHANGED <<order, pos, page, maps, script>>

-----------------------------------------------------------------------------
Draw(u) == loadYandexMaps(u) \/ scriptLoaded(u) \/ drawMap(u)

Next ==
  \/ \E o \in Orders : proceed(o)
  \/ \E r \in relaying : handleLocationUpdate(r)
  \/ \E u \in Everyone : \/ onLocationUpdated(u) \/ Draw(u) \/ onPosition(u) \/ unmount(u)
                         \/ \E o \in Orders : mount(u, o) \/ rerender(u, o)

Spec == Init /\ [][Next]_vars

-----------------------------------------------------------------------------
\* The map a page holds while it tracks a job was drawn in the box on screen,
\* not in that of an earlier job: a map left in mapRef would keep the next one
\* from being drawn, and the box would stay empty.
MapInItsBox == \A u \in Everyone : page[u].active => page[u].map # "detached"

\* However many jobs a page shows one after the other, and though a map that
\* loses its box is only destroyed later: a browser holds no more map instances
\* alive than it has mounted the component.
OneMapPerMount == \A u \in Everyone : maps[u] <= page[u].mounts

\* live-tracking-map.tsx seeds the map with "the order's original address pin"
\* and then shows the other party: what is shown is one of them, of the order
\* on the page.
PositionIsCounterparts ==
  \A u \in Everyone : LET p == page[u] IN
    p.other # None => p.other = Seed(p.order) \/ p.other.from = counterpart(p.order, u)

\* live-tracking-map.tsx keeps the markers in sync with the latest
\* coordinates: when everything sent has arrived, a page shows its
\* counterpart's latest reported position.
LatestShown ==
  \A u \in Everyone : \A o \in Orders :
    LET p == page[counterpart(o, u)] IN
    u \in Parties(o) /\ Tracked(o) /\ relaying = {} /\ inbox[counterpart(o, u)] = <<>>
      /\ p.order = o /\ p.other # None /\ p.other.from = u => p.other.at = pos[u]

\* live-tracking-map.tsx tears the map down on unmount and deactivation: a
\* browser whose page is closed, or whose order is no longer tracked, holds no
\* map.
MapTornDown == \A u \in Everyone : page[u].order = None \/ ~page[u].active => maps[u] = 0

-----------------------------------------------------------------------------
(* What the theorems assume of the constants, and the inductive invariant. *)

TrackingAssumption ==
  /\ MaxMoves \in Nat /\ MaxMounts \in Nat
  /\ None \notin Orders

\* A closed page has no map; an open one that has none may still draw one, and
\* the one it has is alive.
PageOK(u) ==
  LET p == page[u] IN
  /\ p.order = None => ~p.active /\ p.map = "none"
  /\ p.order # None /\ p.map = "none" => maps[u] < p.mounts
  /\ p.map # "none" => maps[u] > 0

TrackingInv ==
  /\ inbox \in [Everyone -> Seq(Event)]
  /\ \A u \in Everyone : PageOK(u)
  /\ MapInItsBox /\ OneMapPerMount
=============================================================================
