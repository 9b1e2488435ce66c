----------------------------- MODULE CodesProofs -----------------------------
(***************************************************************************)
(* The one-time codes of a phone, for any requests, purposes, limits and   *)
(* outages of Redis: the types, the daily cap, the bound on wrong codes,   *)
(* and that a replaced code is not accepted.                               *)
(***************************************************************************)
EXTENDS OneTimeCodes, FiniteSetTheorems, TLAPS

Handlers == [
  at: {"idle", "count", "expire", "delete", "create", "send", "bounce", "compare"},
  purpose: Purposes \cup {None}, code: 0..MaxCodes, flag: BOOLEAN, counted: BOOLEAN]
Rows == [purpose: Purposes, state: CodeStates, attempts: Nat]

\* What a request that moves on is seen as: its new state h, the others' old.
Becomes(r, h) == /\ exec' \in [Requests -> Handlers] /\ exec'[r] = h
                 /\ \A q \in Requests : q # r => exec'[q] = exec[q]

\* A request that starts, goes on or returns changes its own state alone.
LEMMA Moves ==
  ASSUME TypeOK, NEW r \in Requests, NEW h \in Handlers, exec' = [exec EXCEPT ![r] = h]
  PROVE  Becomes(r, h)
BY DEF TypeOK, Becomes, Handlers

-----------------------------------------------------------------------------
(* Counting the requests at a place.                                       *)

One(b) == IF b THEN 1 ELSE 0

\* Two sets of requests that differ in one request at most differ by it.
LEMMA CountMoves ==
  ASSUME NEW Q, IsFiniteSet(Q), NEW S \in SUBSET Q, NEW T \in SUBSET Q, NEW r \in Q,
         \A q \in Q : q # r => (q \in S <=> q \in T)
  PROVE  /\ Cardinality(S) \in Nat /\ Cardinality(T) \in Nat
         /\ Cardinality(T) + One(r \in S) = Cardinality(S) + One(r \in T)
<1>1. IsFiniteSet(S) /\ IsFiniteSet(T)
  BY FS_Subset
<1>2. Cardinality(S) \in Nat /\ Cardinality(T) \in Nat
  BY <1>1, FS_CardinalityType
<1>3. CASE (r \in S) = (r \in T)
  <2>1. S = T
    BY <1>3
  <2> QED BY <1>2, <2>1 DEF One
<1>4. CASE r \in S /\ r \notin T
  <2>1. S = T \cup {r}
    BY <1>4
  <2>2. Cardinality(T \cup {r}) = Cardinality(T) + 1
    BY <1>1, <1>4, FS_AddElement
  <2> QED BY <1>2, <1>4, <2>1, <2>2 DEF One
<1>5. CASE r \notin S /\ r \in T
  <2>1. T = S \cup {r}
    BY <1>5
  <2>2. Cardinality(S \cup {r}) = Cardinality(S) + 1
    BY <1>1, <1>5, FS_AddElement
  <2> QED BY <1>2, <1>5, <2>1, <2>2 DEF One
<1> QED BY <1>3, <1>4, <1>5

\* A request that moves on joins or leaves the counted sets alone.
LEMMA Counting ==
  ASSUME CodesAssumption, NEW r \in Requests, NEW h, Becomes(r, h)
  PROVE  /\ Cardinality(Creating) \in Nat /\ Cardinality(Creating') \in Nat
         /\ Cardinality(Creating') + One(Creates(exec[r])) = Cardinality(Creating) + One(Creates(h))
         /\ Cardinality(Counted) \in Nat /\ Cardinality(Counted') \in Nat
         /\ Cardinality(Counted') + One(Counts(exec[r])) = Cardinality(Counted) + One(Counts(h))
         /\ \A c : /\ Cardinality(Checking(c)) \in Nat /\ Cardinality(Checking(c)') \in Nat
                   /\ Cardinality(Checking(c)') + One(Checks(exec[r], c))
                        = Cardinality(Checking(c)) + One(Checks(h, c))
<1> USE DEF Becomes
<1>0. IsFiniteSet(Requests)
  BY DEF CodesAssumption
<1>1. /\ Creating \in SUBSET Requests /\ Creating' \in SUBSET Requests
      /\ \A q \in Requests : q # r => (q \in Creating <=> q \in Creating')
      /\ (r \in Creating) = Creates(exec[r]) /\ (r \in Creating') = Creates(h)
  BY DEF Creating, Creates
<1>2. /\ Counted \in SUBSET Requests /\ Counted' \in SUBSET Requests
      /\ \A q \in Requests : q # r => (q \in Counted <=> q \in Counted')
      /\ (r \in Counted) = Counts(exec[r]) /\ (r \in Counted') = Counts(h)
  BY DEF Counted, Counts
<1>3. ASSUME NEW c
      PROVE  /\ Checking(c) \in SUBSET Requests /\ Checking(c)' \in SUBSET Requests
             /\ \A q \in Requests : q # r => (q \in Checking(c) <=> q \in Checking(c)')
             /\ (r \in Checking(c)) = Checks(exec[r], c) /\ (r \in Checking(c)') = Checks(h, c)
  BY DEF Checking, Checks
<1>4. /\ Cardinality(Creating) \in Nat /\ Cardinality(Creating') \in Nat
      /\ Cardinality(Creating') + One(r \in Creating) = Cardinality(Creating) + One(r \in Creating')
  BY <1>0, <1>1, CountMoves
<1>5. /\ Cardinality(Counted) \in Nat /\ Cardinality(Counted') \in Nat
      /\ Cardinality(Counted') + One(r \in Counted) = Cardinality(Counted) + One(r \in Counted')
  BY <1>0, <1>2, CountMoves
<1>6. ASSUME NEW c
      PROVE  /\ Cardinality(Checking(c)) \in Nat /\ Cardinality(Checking(c)') \in Nat
             /\ Cardinality(Checking(c)') + One(r \in Checking(c))
                  = Cardinality(Checking(c)) + One(r \in Checking(c)')
  BY <1>0, <1>3, CountMoves
<1> QED BY <1>1, <1>2, <1>3, <1>4, <1>5, <1>6

\* The counts of sets of requests are numbers, and no request is nowhere.
LEMMA Sizes ==
  ASSUME CodesAssumption
  PROVE  /\ Cardinality(Creating) \in Nat /\ Cardinality(Counted) \in Nat
         /\ Cardinality(Requests) \in Nat
         /\ \A c : Cardinality(Checking(c)) \in Nat /\ Cardinality(Checking(c)) <= Cardinality(Requests)
<1>1. Creating \in SUBSET Requests /\ Counted \in SUBSET Requests /\ \A c : Checking(c) \in SUBSET Requests
  BY DEF Creating, Counted, Checking
<1>2. \A S \in SUBSET Requests : IsFiniteSet(S) /\ Cardinality(S) <= Cardinality(Requests)
  BY FS_Subset DEF CodesAssumption
<1>3. \A S \in SUBSET Requests : Cardinality(S) \in Nat
  BY <1>2, FS_CardinalityType
<1> QED BY <1>1, <1>2, <1>3

-----------------------------------------------------------------------------
(* What keeps the parts of the invariant.                                  *)

\* The newest code of a purpose is a row of that purpose that is live.
LEMMA Newest ==
  ASSUME TypeOK, CodesAssumption, NEW p \in Purposes, newest(p) # 0
  PROVE  newest(p) \in DOMAIN codes /\ codes[newest(p)].state = "live"
<1> DEFINE live == {c \in DOMAIN codes : codes[c].purpose = p /\ codes[c].state = "live"}
           R == OpToRel(<, Nat)
           T == {created - c : c \in live}
<1>0. IsWellFoundedOn(R, Nat)
  BY NatLessThanWellFounded, Zenon
<1>1. \A x, y \in Nat : x < y => <<x, y>> \in R
  BY Zenon DEF OpToRel
<1> HIDE DEF R
<1>2. live # {} /\ newest(p) = Max(live)
  BY DEF newest
<1>3. live \subseteq 1..created /\ created \in Nat
  BY DEF TypeOK, CodesAssumption
<1>4. T \subseteq Nat /\ T # {}
  BY <1>2, <1>3
<1>5. PICK x \in T : \A y \in T : ~(<<y, x>> \in R)
  <2> HIDE DEF T
  <2> QED BY <1>0, <1>4, WFMin
<1>6. PICK m \in live : x = created - m
  OBVIOUS
<1>7. ASSUME NEW c \in live PROVE m >= c
  <2>1. created - c \in Nat /\ created - m \in Nat /\ created - c \in T /\ m \in Nat /\ c \in Nat
    BY <1>3
  <2>2. ~(created - c < created - m)
    BY <1>1, <1>5, <1>6, <2>1
  <2> QED BY <1>3, <2>1, <2>2
<1>8. Max(live) \in live
  <2> HIDE DEF live
  <2> QED BY <1>7 DEF Max
<1> QED BY <1>2, <1>8

\* A request that moves on knows the purpose of the code it creates.
LEMMA SendersKept ==
  ASSUME CodesInv, NEW r \in Requests, NEW h, Becomes(r, h),
         Creates(h) => h.purpose \in Purposes, h.at = "count" => ~h.counted
  PROVE  \A q \in Requests : SenderOK(q)'
BY DEF CodesInv, SenderOK, Becomes, Creates

\* A step that counts, or sends, nothing keeps the meter.
LEMMA MeterKept ==
  ASSUME CodesAssumption, TypeOK, CodesInv, NEW r \in Requests, NEW h, Becomes(r, h),
         UNCHANGED <<daily, metered>>, Counts(h) => Counts(exec[r])
  PROVE  MeterOK'
<1>1. /\ Cardinality(Counted) \in Nat /\ Cardinality(Counted') \in Nat
      /\ Cardinality(Counted') + One(Counts(exec[r])) = Cardinality(Counted) + One(Counts(h))
  BY Counting
<1>2. One(Counts(h)) <= One(Counts(exec[r])) /\ One(Counts(h)) \in Nat /\ One(Counts(exec[r])) \in Nat
  BY DEF One
<1>3. Cardinality(Counted') <= Cardinality(Counted)
  BY <1>1, <1>2
<1>4. metered \in Nat /\ daily \in Nat /\ OTP_DAILY_CAP \in Nat /\ MeterOK
  BY DEF TypeOK, CodesAssumption, CodesInv
<1> QED BY <1>1, <1>3, <1>4 DEF MeterOK

\* A step that creates no code and begins none keeps their bound.
LEMMA BoundKept ==
  ASSUME CodesAssumption, TypeOK, CodesInv, NEW r \in Requests, NEW h, Becomes(r, h),
         created' = created, Creates(h) => Creates(exec[r])
  PROVE  created' + Cardinality(Creating') <= MaxCodes
<1>1. /\ Cardinality(Creating) \in Nat /\ Cardinality(Creating') \in Nat
      /\ Cardinality(Creating') + One(Creates(exec[r])) = Cardinality(Creating) + One(Creates(h))
  BY Counting
<1>2. One(Creates(h)) <= One(Creates(exec[r])) /\ One(Creates(h)) \in Nat /\ One(Creates(exec[r])) \in Nat
  BY DEF One
<1>3. Cardinality(Creating') <= Cardinality(Creating)
  BY <1>1, <1>2
<1> QED BY <1>1, <1>3 DEF TypeOK, CodesAssumption, CodesInv

\* A step that compares nothing keeps the rows' counts: it may replace rows,
\* but it restores none.
LEMMA RowsKept ==
  ASSUME CodesAssumption, TypeOK, CodesInv, NEW r \in Requests, NEW h, Becomes(r, h),
         guesses' = guesses, created' = created,
         \A c \in 1..created : /\ codes'[c].attempts = codes[c].attempts
                               /\ codes'[c].state # "deleted" => codes[c].state # "deleted",
         \A c \in Ids : Checks(h, c) => Checks(exec[r], c)
  PROVE  \A c \in Ids : RowOK(c)'
<1> SUFFICES ASSUME NEW c \in Ids PROVE RowOK(c)'
  OBVIOUS
<1>1. /\ Cardinality(Checking(c)) \in Nat /\ Cardinality(Checking(c)') \in Nat
      /\ Cardinality(Checking(c)') + One(Checks(exec[r], c)) = Cardinality(Checking(c)) + One(Checks(h, c))
  BY Counting
<1>2. One(Checks(h, c)) <= One(Checks(exec[r], c)) /\ One(Checks(h, c)) \in Nat /\ One(Checks(exec[r], c)) \in Nat
  BY DEF One
<1>3. Cardinality(Checking(c)') <= Cardinality(Checking(c))
  BY <1>1, <1>2
<1>4. /\ guesses[c] \in Nat /\ OTP_MAX_ATTEMPTS \in Nat /\ Cardinality(Requests) \in Nat
      /\ created \in Nat /\ c \in Nat /\ c >= 1 /\ RowOK(c)
  BY Sizes DEF TypeOK, CodesAssumption, CodesInv, Ids
<1>5. c <= created => c \in 1..created
  BY <1>4
<1>6. guesses[c] + Cardinality(Checking(c)') < OTP_MAX_ATTEMPTS + Cardinality(Requests)
  BY <1>1, <1>3, <1>4 DEF RowOK
<1> QED BY <1>4, <1>5, <1>6 DEF RowOK

-----------------------------------------------------------------------------
(* Sending a code.                                                         *)

\* The first states have the types and the invariant.
LEMMA InitOK == CodesAssumption /\ Init => TypeOK /\ CodesInv
<1> SUFFICES ASSUME CodesAssumption, Init PROVE TypeOK /\ CodesInv
  OBVIOUS
<1>1. TypeOK
  <2>1. codes \in [1..created -> Rows] /\ created \in 0..MaxCodes
    BY DEF Init, CodesAssumption
  <2>2. exec \in [Requests -> Handlers]
    BY DEF Init, CodesAssumption, Idle, Handlers
  <2>3. \A r \in Requests : exec[r].at = "idle"
    BY DEF Init, Idle
  <2>4. cooldown = {} /\ daily = 0 /\ dailyTtl = FALSE /\ redis = TRUE /\ metered = 0
    BY DEF Init
  <2>6. 0 \in 0..OTP_DAILY_CAP + 1
    BY DEF CodesAssumption
  <2>5. guesses \in [Ids -> Nat] /\ accepted \in [Ids -> Nat]
    BY DEF Init
  <2> QED BY <2>1, <2>2, <2>3, <2>4, <2>5, <2>6 DEF TypeOK, Handlers, Rows
<1>2. \A r \in Requests : exec[r].at = "idle"
  BY DEF Init, Idle
<1>3. Creating = {} /\ Counted = {} /\ \A c : Checking(c) = {}
  BY <1>2 DEF Creating, Creates, Counted, Counts, Checking, Checks
<1>4. Cardinality({}) = 0
  BY FS_EmptySet
<1>5. Cardinality(Requests) \in Nat
  BY Sizes
<1>6. ASSUME NEW c \in Ids PROVE RowOK(c)
  <2>1. guesses[c] = 0 /\ created = 0
    BY DEF Init
  <2>2. c \in Nat /\ c >= 1
    BY DEF Ids, CodesAssumption
  <2>3. Cardinality(Checking(c)) = 0
    BY <1>3, <1>4
  <2> QED BY <1>5, <2>1, <2>2, <2>3 DEF RowOK, CodesAssumption
<1>7. MeterOK /\ created + Cardinality(Creating) <= MaxCodes
  BY <1>3, <1>4 DEF Init, MeterOK, CodesAssumption
<1>8. \A r \in Requests : SenderOK(r)
  BY <1>2 DEF SenderOK, Creates
<1> QED BY <1>1, <1>6, <1>7, <1>8 DEF CodesInv

\* A code is asked for when one is left, for a known purpose, and uncounted.
LEMMA IssueKeeps ==
  ASSUME CodesAssumption, TypeOK, CodesInv, NEW r \in Requests, NEW p \in Purposes, NEW b \in BOOLEAN,
         issue(r, p, b)
  PROVE  TypeOK' /\ CodesInv'
<1> DEFINE h == [at |-> IF redis THEN "count" ELSE "delete", purpose |-> p, code |-> 0,
                 flag |-> b, counted |-> FALSE]
<1>1. /\ h \in Handlers /\ h.purpose \in Purposes /\ ~h.counted /\ h.at # "compare" /\ Creates(h) /\ ~Counts(h)
      /\ \A c : ~Checks(h, c)
  BY DEF Handlers, CodesAssumption, Creates, Counts, Checks
<1>2. /\ exec' = [exec EXCEPT ![r] = h] /\ CodeLeft /\ exec[r] = Idle
      /\ UNCHANGED <<codes, created, daily, dailyTtl, redis, metered, guesses, accepted>>
      /\ cooldown' \subseteq Purposes
  BY DEF issue, TypeOK
<1> HIDE DEF h
<1>3. Becomes(r, h)
  BY <1>1, <1>2, Moves
<1>4. TypeOK'
  BY <1>1, <1>2, <1>3 DEF TypeOK, Becomes, Handlers
<1>5. created' + Cardinality(Creating') <= MaxCodes
  <2>1. /\ Cardinality(Creating) \in Nat /\ Cardinality(Creating') \in Nat
        /\ Cardinality(Creating') + One(Creates(exec[r])) = Cardinality(Creating) + One(Creates(h))
    BY <1>3, Counting
  <2>2. One(Creates(exec[r])) = 0 /\ One(Creates(h)) = 1
    BY <1>1, <1>2 DEF One, Creates, Idle
  <2>3. created + Cardinality(Creating) < MaxCodes
    BY <1>2 DEF CodeLeft, Creating, Creates
  <2> QED BY <1>2, <2>1, <2>2, <2>3 DEF TypeOK, CodesAssumption
<1>6. \A q \in Requests : SenderOK(q)'
  BY <1>1, <1>3, SendersKept
<1>7. MeterOK'
  BY <1>1, <1>2, <1>3, MeterKept
<1>8. \A c \in Ids : RowOK(c)'
  BY <1>1, <1>2, <1>3, RowsKept
<1> QED BY <1>4, <1>5, <1>6, <1>7, <1>8 DEF CodesInv

\* What a step of a request that has begun to send does, but for the meter: it
\* goes from a place before the code's creation to another, or ends.
LEMMA SendingKeeps ==
  ASSUME CodesAssumption, TypeOK, CodesInv, NEW r \in Requests, NEW h \in Handlers,
         exec' = [exec EXCEPT ![r] = h], UNCHANGED <<codes, created, cooldown, redis, guesses, accepted>>,
         h.at # "count", h.at # "compare", Creates(h) => Creates(exec[r]) /\ h.purpose = exec[r].purpose,
         metered' \in Nat, daily' \in 0..OTP_DAILY_CAP + 1, dailyTtl' \in BOOLEAN, MeterOK'
  PROVE  TypeOK' /\ CodesInv'
<1>1. Becomes(r, h)
  BY Moves
<1>2. TypeOK'
  BY <1>1 DEF TypeOK, Becomes, Handlers
<1>3. exec[r].purpose \in Purposes \/ ~Creates(exec[r])
  BY DEF CodesInv, SenderOK
<1>4. \A q \in Requests : SenderOK(q)'
  BY <1>1, <1>3, SendersKept
<1>5. created' + Cardinality(Creating') <= MaxCodes
  BY <1>1, BoundKept
<1>6. \A c : Checks(h, c) => Checks(exec[r], c)
  BY DEF Checks
<1>7. \A c \in Ids : RowOK(c)'
  BY <1>1, <1>6, RowsKept
<1> QED BY <1>2, <1>4, <1>5, <1>7 DEF CodesInv

\* The request that raises the counter to the cap at most is counted; over the
\* cap, and without Redis, none is.
LEMMA CountKeeps ==
  ASSUME CodesAssumption, TypeOK, CodesInv, NEW r \in Requests, countDaily(r)
  PROVE  TypeOK' /\ CodesInv'
<1>1. /\ exec[r].at = "count" /\ ~exec[r].counted /\ exec[r] \in Handlers /\ Creates(exec[r]) /\ ~Counts(exec[r])
      /\ UNCHANGED <<codes, created, cooldown, dailyTtl, redis, metered, guesses, accepted>>
  BY DEF countDaily, At, CodesInv, SenderOK, TypeOK, Handlers, Creates, Counts
<1>2. /\ daily \in 0..OTP_DAILY_CAP + 1 /\ dailyTtl \in BOOLEAN /\ metered \in Nat
      /\ OTP_DAILY_CAP \in Nat /\ OTP_DAILY_CAP >= 1 /\ MeterOK
  BY DEF TypeOK, CodesAssumption, CodesInv
<1>3. ASSUME NEW h \in Handlers, exec' = [exec EXCEPT ![r] = h], h.at \in {"expire", "delete"},
             h.purpose = exec[r].purpose, Counts(h), daily' = daily + 1, daily' <= OTP_DAILY_CAP
      PROVE  TypeOK' /\ CodesInv'
  <2>1. Becomes(r, h)
    BY <1>3, Moves
  <2>2. /\ Cardinality(Counted) \in Nat /\ Cardinality(Counted') \in Nat
        /\ Cardinality(Counted') + One(Counts(exec[r])) = Cardinality(Counted) + One(Counts(h))
    BY <2>1, Counting
  <2>3. Cardinality(Counted') = Cardinality(Counted) + 1
    BY <1>1, <1>3, <2>2 DEF One
  <2>4. MeterOK'
    BY <1>1, <1>2, <1>3, <2>2, <2>3 DEF MeterOK
  <2>5. daily' \in 0..OTP_DAILY_CAP + 1
    BY <1>2, <1>3
  <2>6. metered' \in Nat /\ dailyTtl' \in BOOLEAN
    BY <1>1, <1>2
  <2> QED BY <1>1, <1>3, <2>4, <2>5, <2>6, SendingKeeps
<1>4. ASSUME NEW h \in Handlers, exec' = [exec EXCEPT ![r] = h], h.at \in {"idle", "bounce", "delete"},
             h.at = "delete" => h.purpose = exec[r].purpose, ~Counts(h), daily' = Saturated(daily + 1) \/ daily' = daily
      PROVE  TypeOK' /\ CodesInv'
  <2>1. Becomes(r, h)
    BY <1>4, Moves
  <2>2. /\ Cardinality(Counted) \in Nat /\ Cardinality(Counted') \in Nat
        /\ Cardinality(Counted') + One(Counts(exec[r])) = Cardinality(Counted) + One(Counts(h))
    BY <2>1, Counting
  <2>3. Cardinality(Counted') = Cardinality(Counted)
    BY <1>1, <1>4, <2>2 DEF One
  <2>4. daily' \in 0..OTP_DAILY_CAP + 1 /\ daily' >= daily
    BY <1>2, <1>4 DEF Saturated
  <2>5. MeterOK'
    BY <1>1, <1>2, <2>2, <2>3, <2>4 DEF MeterOK
  <2>6. metered' \in Nat /\ dailyTtl' \in BOOLEAN
    BY <1>1, <1>2
  <2>7. Creates(h) => h.purpose = exec[r].purpose
    BY <1>4 DEF Creates
  <2> QED BY <1>1, <1>4, <2>4, <2>5, <2>6, <2>7, SendingKeeps
<1>5. CASE redis /\ daily = 0
  <2> DEFINE h == [exec[r] EXCEPT !.at = "expire"]
  <2>1. h \in Handlers /\ h.at = "expire" /\ h.purpose = exec[r].purpose /\ Counts(h)
    BY <1>1 DEF Handlers, Counts
  <2>2. exec' = [exec EXCEPT ![r] = h] /\ daily' = Saturated(daily + 1)
    BY <1>5 DEF countDaily, Goto
  <2>3. daily' = daily + 1 /\ daily' <= OTP_DAILY_CAP
    BY <1>2, <1>5, <2>2 DEF Saturated
  <2> HIDE DEF h
  <2> QED BY <1>3, <2>1, <2>2, <2>3
<1>6. CASE redis /\ daily # 0 /\ daily' <= OTP_DAILY_CAP
  <2> DEFINE h == [exec[r] EXCEPT !.at = "delete", !.counted = TRUE]
  <2>1. h \in Handlers /\ h.at = "delete" /\ h.purpose = exec[r].purpose /\ Counts(h)
    BY <1>1 DEF Handlers, Counts
  <2>2. AfterCount(r, daily') /\ daily' = Saturated(daily + 1)
    BY <1>6 DEF countDaily
  <2>3. exec' = [exec EXCEPT ![r] = h]
    BY <1>6, <2>2 DEF AfterCount, TypeOK
  <2>4. daily' = daily + 1
    BY <1>2, <1>6, <2>2 DEF Saturated
  <2> HIDE DEF h
  <2> QED BY <1>3, <1>6, <2>1, <2>3, <2>4
<1>7. CASE redis /\ daily # 0 /\ ~(daily' <= OTP_DAILY_CAP)
  <2>1. AfterCount(r, daily') /\ daily' = Saturated(daily + 1)
    BY <1>7 DEF countDaily
  <2>2. CASE exec[r].flag
    <3> DEFINE h == [exec[r] EXCEPT !.at = "bounce"]
    <3>1. h \in Handlers /\ h.at = "bounce" /\ ~Counts(h)
      BY <1>1 DEF Handlers, Counts
    <3>2. exec' = [exec EXCEPT ![r] = h]
      BY <1>7, <2>1, <2>2 DEF AfterCount, Goto
    <3> HIDE DEF h
    <3> QED BY <1>4, <2>1, <3>1, <3>2
  <2>3. CASE ~exec[r].flag
    <3>1. Idle \in Handlers /\ Idle.at = "idle" /\ ~Counts(Idle)
      BY DEF Handlers, Counts, Idle, CodesAssumption
    <3>2. exec' = [exec EXCEPT ![r] = Idle]
      BY <1>7, <2>1, <2>3 DEF AfterCount, Return
    <3> QED BY <1>4, <2>1, <3>1, <3>2
  <2> QED BY <2>2, <2>3
<1>8. CASE ~redis
  <2> DEFINE h == [exec[r] EXCEPT !.at = "delete"]
  <2>1. h \in Handlers /\ h.at = "delete" /\ h.purpose = exec[r].purpose /\ ~Counts(h)
    BY <1>1 DEF Handlers, Counts
  <2>2. exec' = [exec EXCEPT ![r] = h] /\ daily' = daily
    BY <1>8 DEF countDaily, Goto
  <2> HIDE DEF h
  <2> QED BY <1>4, <2>1, <2>2
<1> QED BY <1>5, <1>6, <1>7, <1>8

\* EXPIRE by the first of the day: counted, unless Redis went away meanwhile.
LEMMA ExpireKeeps ==
  ASSUME CodesAssumption, TypeOK, CodesInv, NEW r \in Requests, expireDaily(r)
  PROVE  TypeOK' /\ CodesInv'
<1> DEFINE h == [exec[r] EXCEPT !.at = "delete", !.counted = redis]
<1>1. /\ exec[r].at = "expire" /\ exec[r] \in Handlers /\ redis \in BOOLEAN
      /\ UNCHANGED <<codes, created, cooldown, daily, redis, metered, guesses, accepted>>
  BY DEF expireDaily, At, TypeOK, Handlers
<1>2. /\ h \in Handlers /\ h.at = "delete" /\ h.purpose = exec[r].purpose
      /\ Counts(h) => Counts(exec[r]) /\ Creates(exec[r])
  BY <1>1 DEF Handlers, Counts, Creates
<1>3. Creates(exec[r])
  BY <1>1 DEF Creates
<1>4. exec' = [exec EXCEPT ![r] = h]
  BY DEF expireDaily, TypeOK
<1> HIDE DEF h
<1>5. MeterOK'
  BY <1>1, <1>2, <1>4, Moves, MeterKept
<1>6. metered' \in Nat /\ daily' \in 0..OTP_DAILY_CAP + 1 /\ dailyTtl' \in BOOLEAN
  <2>1. metered' \in Nat /\ daily' \in 0..OTP_DAILY_CAP + 1
    BY <1>1 DEF TypeOK
  <2>2. dailyTtl' \in BOOLEAN
    BY DEF expireDaily, TypeOK
  <2> QED BY <2>1, <2>2
<1> QED BY <1>1, <1>2, <1>3, <1>4, <1>5, <1>6, SendingKeeps

\* The user is sent to verification.
LEMMA BounceKeeps ==
  ASSUME CodesAssumption, TypeOK, CodesInv, NEW r \in Requests, bounce(r)
  PROVE  TypeOK' /\ CodesInv'
<1>1. /\ Idle \in Handlers /\ Idle.at = "idle" /\ ~Counts(Idle) /\ ~Creates(Idle)
  BY DEF Handlers, Counts, Creates, Idle, CodesAssumption
<1>2. /\ exec' = [exec EXCEPT ![r] = Idle]
      /\ UNCHANGED <<codes, created, cooldown, redis, daily, dailyTtl, metered, guesses, accepted>>
  BY DEF bounce, Return, limits
<1>3. MeterOK'
  BY <1>1, <1>2, Moves, MeterKept
<1>4. metered' \in Nat /\ daily' \in 0..OTP_DAILY_CAP + 1 /\ dailyTtl' \in BOOLEAN
  BY <1>2 DEF TypeOK
<1> QED BY <1>1, <1>2, <1>3, <1>4, SendingKeeps

\* The unused codes of the purpose are replaced; none comes back.
LEMMA DeleteKeeps ==
  ASSUME CodesAssumption, TypeOK, CodesInv, NEW r \in Requests, deleteUnused(r)
  PROVE  TypeOK' /\ CodesInv'
<1> DEFINE h == [exec[r] EXCEPT !.at = "create"]
           replaced(c) == codes[c].purpose = exec[r].purpose /\ codes[c].state \in {"live", "expired"}
<1>1. /\ exec[r].at = "delete" /\ exec[r] \in Handlers
      /\ UNCHANGED <<created, cooldown, redis, daily, dailyTtl, metered, guesses, accepted>>
      /\ codes' = [c \in DOMAIN codes |-> IF replaced(c) THEN [codes[c] EXCEPT !.state = "deleted"] ELSE codes[c]]
  BY DEF deleteUnused, At, limits, TypeOK, Handlers
<1>2. /\ h \in Handlers /\ h.at = "create" /\ h.purpose = exec[r].purpose
      /\ Counts(h) => Counts(exec[r])
  BY <1>1 DEF Handlers, Counts
<1>3. Creates(exec[r])
  BY <1>1 DEF Creates
<1>4. exec' = [exec EXCEPT ![r] = h]
  BY DEF deleteUnused, Goto
<1> HIDE DEF h, replaced
<1>5. Becomes(r, h)
  BY <1>2, <1>4, Moves
<1>6. DOMAIN codes = 1..created /\ \A c \in 1..created : codes[c] \in Rows
  BY DEF TypeOK, Rows
<1>7. ASSUME NEW c \in 1..created
      PROVE  /\ codes'[c] \in Rows /\ codes'[c].attempts = codes[c].attempts
             /\ codes'[c].state # "deleted" => codes[c].state # "deleted"
  <2>1. codes[c] \in Rows
    BY <1>6
  <2>2. CASE replaced(c)
    <3>1. codes'[c] = [codes[c] EXCEPT !.state = "deleted"]
      BY <1>1, <1>6, <2>2
    <3> QED BY <2>1, <3>1 DEF Rows, CodeStates
  <2>3. CASE ~replaced(c)
    <3>1. codes'[c] = codes[c]
      BY <1>1, <1>6, <2>3
    <3> QED BY <2>1, <3>1
  <2> QED BY <2>2, <2>3
<1>8. codes' \in [1..created -> Rows]
  <2>1. codes' = [c \in 1..created |-> codes'[c]]
    BY <1>1, <1>6
  <2> QED BY <1>7, <2>1
<1>9. TypeOK'
  BY <1>1, <1>2, <1>5, <1>8 DEF TypeOK, Becomes, Handlers, Rows
<1>10. \A q \in Requests : SenderOK(q)'
  BY <1>2, <1>3, <1>5, SendersKept DEF CodesInv, SenderOK
<1>11. MeterOK'
  BY <1>1, <1>2, <1>5, MeterKept
<1>12. created' + Cardinality(Creating') <= MaxCodes
  BY <1>1, <1>3, <1>5, BoundKept
<1>13. \A c \in Ids : RowOK(c)'
  <2>1. \A c \in Ids : ~Checks(h, c)
    BY <1>2 DEF Checks
  <2> QED BY <1>1, <1>5, <1>7, <2>1, RowsKept
<1> QED BY <1>9, <1>10, <1>11, <1>12, <1>13 DEF CodesInv

\* A new row takes the place that was kept for it.
LEMMA CreateKeeps ==
  ASSUME CodesAssumption, TypeOK, CodesInv, NEW r \in Requests, createCode(r)
  PROVE  TypeOK' /\ CodesInv'
<1> DEFINE h == [exec[r] EXCEPT !.at = "send"]
           row == [purpose |-> exec[r].purpose, state |-> "live", attempts |-> 0]
<1>1. /\ exec[r].at = "create" /\ exec[r] \in Handlers
      /\ UNCHANGED <<cooldown, redis, daily, dailyTtl, metered, guesses, accepted>>
      /\ created' = created + 1
      /\ codes' = [c \in 1..created' |-> IF c \in DOMAIN codes THEN codes[c] ELSE row]
  BY DEF createCode, At, limits, TypeOK, Handlers
<1>2. /\ h \in Handlers /\ h.at = "send" /\ h.purpose = exec[r].purpose
      /\ Counts(h) => Counts(exec[r])
  BY <1>1 DEF Handlers, Counts
<1>3. Creates(exec[r]) /\ ~Creates(h) /\ exec[r].purpose \in Purposes
  BY <1>1, <1>2 DEF Creates, CodesInv, SenderOK
<1>4. exec' = [exec EXCEPT ![r] = h]
  BY DEF createCode, Goto
<1>5. row \in Rows /\ row.attempts = 0
  BY <1>3 DEF Rows, CodeStates
<1> HIDE DEF h, row
<1>6. Becomes(r, h)
  BY <1>2, <1>4, Moves
<1>7. DOMAIN codes = 1..created /\ created \in Nat /\ \A c \in 1..created : codes[c] \in Rows
  BY DEF TypeOK, Rows, CodesAssumption
<1>8. created' + Cardinality(Creating') <= MaxCodes /\ created' \in 0..MaxCodes
  <2>1. /\ Cardinality(Creating) \in Nat /\ Cardinality(Creating') \in Nat
        /\ Cardinality(Creating') + One(Creates(exec[r])) = Cardinality(Creating) + One(Creates(h))
    BY <1>6, Counting
  <2>2. Cardinality(Creating') + 1 = Cardinality(Creating)
    BY <1>3, <2>1 DEF One
  <2>3. created + Cardinality(Creating) <= MaxCodes /\ MaxCodes \in Nat
    BY DEF CodesInv, CodesAssumption
  <2> QED BY <1>1, <1>7, <2>1, <2>2, <2>3
<1>9. codes' \in [1..created' -> Rows]
  BY <1>1, <1>5, <1>7
<1>10. TypeOK'
  <2>1. \A q \in Requests : exec'[q].at = "compare" => exec'[q].code \in 1..created'
    BY <1>1, <1>2, <1>6, <1>7 DEF TypeOK, Becomes
  <2> QED BY <1>1, <1>6, <1>8, <1>9, <2>1 DEF TypeOK, Becomes, Handlers, Rows
<1>11. \A q \in Requests : SenderOK(q)'
  BY <1>2, <1>3, <1>6, SendersKept
<1>12. MeterOK'
  BY <1>1, <1>2, <1>6, MeterKept
<1>13. ASSUME NEW c \in Ids PROVE RowOK(c)'
  <2>1. /\ Cardinality(Checking(c)) \in Nat /\ Cardinality(Checking(c)') \in Nat
        /\ Cardinality(Checking(c)') + One(Checks(exec[r], c)) = Cardinality(Checking(c)) + One(Checks(h, c))
    BY <1>6, Counting
  <2>2. ~Checks(exec[r], c) /\ ~Checks(h, c)
    BY <1>1, <1>2 DEF Checks
  <2>3. Cardinality(Checking(c)') = Cardinality(Checking(c))
    BY <2>1, <2>2 DEF One
  <2>4. RowOK(c) /\ c \in Nat /\ c >= 1
    BY DEF CodesInv, Ids, CodesAssumption
  <2>5. c > created' => guesses'[c] = 0
    BY <1>1, <1>7, <2>4 DEF RowOK
  <2>6. ASSUME c <= created', codes'[c].state # "deleted" PROVE guesses'[c] = codes'[c].attempts
    <3>1. CASE c <= created
      <4>1. codes'[c] = codes[c]
        BY <1>1, <1>7, <2>4, <3>1
      <4> QED BY <1>1, <2>4, <2>6, <3>1, <4>1 DEF RowOK
    <3>2. CASE c = created + 1
      <4>1. codes'[c] = row
        BY <1>1, <1>7, <2>4, <3>2
      <4> QED BY <1>1, <1>5, <1>7, <2>4, <3>2, <4>1 DEF RowOK
    <3> QED BY <1>1, <1>7, <2>4, <2>6, <3>1, <3>2
  <2> QED BY <1>1, <2>3, <2>4, <2>5, <2>6 DEF RowOK
<1> QED BY <1>8, <1>10, <1>11, <1>12, <1>13 DEF CodesInv

\* A message of a request that was counted moves from the one side to the other.
LEMMA SendKeeps ==
  ASSUME CodesAssumption, TypeOK, CodesInv, NEW r \in Requests, sendOtp(r)
  PROVE  TypeOK' /\ CodesInv'
<1>1. /\ Idle \in Handlers /\ Idle.at = "idle" /\ ~Counts(Idle) /\ ~Creates(Idle)
  BY DEF Handlers, Counts, Creates, Idle, CodesAssumption
<1>2. /\ exec' = [exec EXCEPT ![r] = Idle] /\ exec[r].at = "send"
      /\ UNCHANGED <<codes, created, cooldown, redis, daily, dailyTtl, guesses, accepted>>
      /\ metered' = IF exec[r].counted THEN metered + 1 ELSE metered
  BY DEF sendOtp, Return, limits, At
<1>3. Becomes(r, Idle)
  BY <1>1, <1>2, Moves
<1>4. /\ Cardinality(Counted) \in Nat /\ Cardinality(Counted') \in Nat
      /\ Cardinality(Counted') + One(Counts(exec[r])) = Cardinality(Counted) + One(Counts(Idle))
  BY <1>3, Counting
<1>5. Counts(exec[r]) <=> exec[r].counted
  BY <1>2 DEF Counts
<1>6. /\ metered \in Nat /\ metered' \in Nat /\ daily \in 0..OTP_DAILY_CAP + 1 /\ daily \in Nat
      /\ daily' \in 0..OTP_DAILY_CAP + 1 /\ dailyTtl' \in BOOLEAN /\ OTP_DAILY_CAP \in Nat /\ MeterOK
  BY <1>2 DEF TypeOK, CodesInv, CodesAssumption
<1>7. metered' + Cardinality(Counted') = metered + Cardinality(Counted)
  <2>1. CASE exec[r].counted
    BY <1>1, <1>2, <1>4, <1>5, <1>6, <2>1 DEF One
  <2>2. CASE ~exec[r].counted
    BY <1>1, <1>2, <1>4, <1>5, <1>6, <2>2 DEF One
  <2> QED BY <2>1, <2>2
<1>8. MeterOK'
  BY <1>2, <1>6, <1>7 DEF MeterOK
<1> QED BY <1>1, <1>2, <1>6, <1>8, SendingKeeps

-----------------------------------------------------------------------------
(* Verifying a code.                                                       *)

\* A row is compared while its attempts are below the limit; as many requests
\* as there are may be past that check.
LEMMA VerifyKeeps ==
  ASSUME CodesAssumption, TypeOK, CodesInv, NEW r \in Requests, NEW p \in Purposes, NEW b \in BOOLEAN,
         verify(r, p, b)
  PROVE  TypeOK' /\ CodesInv'
<1> DEFINE n == newest(p)
           h == [at |-> "compare", purpose |-> p, code |-> n, flag |-> b, counted |-> FALSE]
<1>1. /\ exec' = [exec EXCEPT ![r] = h] /\ n # 0 /\ codes[n].attempts < OTP_MAX_ATTEMPTS
      /\ UNCHANGED <<codes, created, cooldown, daily, dailyTtl, redis, metered, guesses, accepted>>
  BY DEF verify, limits
<1>2. n \in 1..created /\ codes[n].state = "live" /\ created \in 0..MaxCodes
  BY <1>1, Newest DEF TypeOK
<1>3. h \in Handlers /\ h.at = "compare" /\ h.code = n /\ ~Creates(h) /\ ~Counts(h)
  BY <1>2 DEF Handlers, Creates, Counts, CodesAssumption
<1> HIDE DEF h, n
<1>4. Becomes(r, h)
  BY <1>1, <1>3, Moves
<1>5. TypeOK'
  <2>1. \A q \in Requests : exec'[q].at = "compare" => exec'[q].code \in 1..created'
    BY <1>1, <1>2, <1>3, <1>4 DEF TypeOK, Becomes
  <2> QED BY <1>1, <1>4, <2>1 DEF TypeOK, Becomes, Handlers
<1>6. \A q \in Requests : SenderOK(q)'
  BY <1>3, <1>4, SendersKept
<1>7. MeterOK'
  BY <1>1, <1>3, <1>4, MeterKept
<1>8. created' + Cardinality(Creating') <= MaxCodes
  BY <1>1, <1>3, <1>4, BoundKept
<1>9. ASSUME NEW c \in Ids PROVE RowOK(c)'
  <2>1. /\ Cardinality(Checking(c)) \in Nat /\ Cardinality(Checking(c)') \in Nat
        /\ Cardinality(Checking(c)') + One(Checks(exec[r], c)) = Cardinality(Checking(c)) + One(Checks(h, c))
    BY <1>4, Counting
  <2>2. Checking(c)' \in SUBSET Requests
    BY DEF Checking
  <2>3. Cardinality(Checking(c)') <= Cardinality(Requests) /\ Cardinality(Requests) \in Nat
    BY <2>2, Sizes, FS_Subset DEF CodesAssumption
  <2>4. RowOK(c) /\ guesses[c] \in Nat /\ OTP_MAX_ATTEMPTS \in Nat
    BY DEF CodesInv, TypeOK, CodesAssumption
  <2>5. CASE c = n
    <3>1. guesses[c] = codes[n].attempts /\ codes[n].attempts \in Nat
      BY <1>2, <2>4, <2>5 DEF RowOK, TypeOK
    <3>2. guesses[c] + Cardinality(Checking(c)') < OTP_MAX_ATTEMPTS + Cardinality(Requests)
      BY <1>1, <2>1, <2>3, <2>4, <3>1
    <3> QED BY <1>1, <2>4, <3>2 DEF RowOK
  <2>6. CASE c # n
    <3>1. One(Checks(h, c)) = 0 /\ One(Checks(exec[r], c)) \in Nat
      BY <1>3, <2>6 DEF Checks, One
    <3>2. Cardinality(Checking(c)') <= Cardinality(Checking(c))
      BY <2>1, <3>1
    <3> QED BY <1>1, <2>1, <2>3, <2>4, <3>2 DEF RowOK
  <2> QED BY <2>5, <2>6
<1> QED BY <1>5, <1>6, <1>7, <1>8, <1>9 DEF CodesInv

\* A wrong code is counted with the row, unless the row was replaced; the row
\* that is not there any more is not written.
LEMMA CompareKeeps ==
  ASSUME CodesAssumption, TypeOK, CodesInv, NEW r \in Requests, compare(r)
  PROVE  TypeOK' /\ CodesInv'
<1> DEFINE k == exec[r].code
           f == exec[r].flag
           gone == codes[k].state = "deleted"
<1>1. /\ exec[r].at = "compare" /\ exec' = [exec EXCEPT ![r] = Idle]
      /\ guesses' = IF f THEN guesses ELSE [guesses EXCEPT ![k] = @ + 1]
      /\ codes' = IF gone THEN codes
                  ELSE IF f THEN [codes EXCEPT ![k].state = "used"]
                  ELSE [codes EXCEPT ![k].attempts = @ + 1]
      /\ accepted' = IF f /\ ~gone THEN [accepted EXCEPT ![k] = @ + 1] ELSE accepted
      /\ UNCHANGED <<created, cooldown, daily, dailyTtl, redis, metered>>
  BY DEF compare, At, Return, limits
<1>2. /\ Idle \in Handlers /\ Idle.at = "idle" /\ ~Counts(Idle) /\ ~Creates(Idle)
      /\ \A c : ~Checks(Idle, c)
  BY DEF Handlers, Counts, Creates, Checks, Idle, CodesAssumption
<1>3. /\ k \in 1..created /\ created \in Nat /\ created <= MaxCodes /\ MaxCodes \in Nat /\ f \in BOOLEAN /\ k \in Ids
      /\ codes \in [1..created -> Rows] /\ guesses \in [Ids -> Nat] /\ accepted \in [Ids -> Nat]
  <2>1. k \in 1..created /\ created \in Nat /\ created <= MaxCodes /\ MaxCodes \in Nat
    BY <1>1 DEF TypeOK, CodesAssumption
  <2>2. k \in Ids
    BY <2>1 DEF Ids
  <2>3. f \in BOOLEAN
    BY DEF TypeOK
  <2>4. codes \in [1..created -> Rows] /\ guesses \in [Ids -> Nat] /\ accepted \in [Ids -> Nat]
    BY DEF TypeOK, Rows
  <2> QED BY <2>1, <2>2, <2>3, <2>4
<1> HIDE DEF k, f, gone
<1>4. Becomes(r, Idle)
  BY <1>1, <1>2, Moves
<1>5. ASSUME NEW c \in 1..created
      PROVE  /\ codes'[c] \in Rows
             /\ codes'[c].state # "deleted" => codes[c].state # "deleted"
             /\ c # k \/ gone \/ f => codes'[c].attempts = codes[c].attempts
             /\ c = k /\ ~gone /\ ~f => codes'[c].attempts = codes[c].attempts + 1
  <2>1. codes[c] \in Rows /\ codes[k] \in Rows
    BY <1>3
  <2>2. CASE c # k \/ gone
    <3>1. codes'[c] = codes[c]
      BY <1>1, <1>3, <2>2
    <3> QED BY <2>1, <2>2, <3>1
  <2>3. CASE c = k /\ ~gone /\ f
    <3>1. codes'[c] = [codes[c] EXCEPT !.state = "used"]
      BY <1>1, <1>3, <2>3
    <3>2. codes[c].state # "deleted"
      BY <2>3 DEF gone
    <3> QED BY <2>1, <2>3, <3>1, <3>2 DEF Rows, CodeStates
  <2>4. CASE c = k /\ ~gone /\ ~f
    <3>1. codes'[c] = [codes[c] EXCEPT !.attempts = @ + 1]
      BY <1>1, <1>3, <2>4
    <3> QED BY <2>1, <2>4, <3>1 DEF Rows
  <2> QED BY <2>2, <2>3, <2>4
<1>6. codes' \in [1..created' -> Rows]
  <2>1. codes' = [c \in 1..created |-> codes'[c]]
    BY <1>1, <1>3
  <2> QED BY <1>1, <1>5, <2>1
<1>7. guesses' \in [Ids -> Nat] /\ accepted' \in [Ids -> Nat]
  BY <1>1, <1>3
<1>8. TypeOK'
  <2>1. \A q \in Requests : exec'[q].at = "compare" => exec'[q].code \in 1..created'
    BY <1>1, <1>2, <1>4 DEF TypeOK, Becomes
  <2> QED BY <1>1, <1>4, <1>6, <1>7, <2>1 DEF TypeOK, Becomes, Handlers, Rows
<1>9. \A q \in Requests : SenderOK(q)'
  BY <1>2, <1>4, SendersKept
<1>10. MeterOK'
  BY <1>1, <1>2, <1>4, MeterKept
<1>11. created' + Cardinality(Creating') <= MaxCodes
  BY <1>1, <1>2, <1>4, BoundKept
<1>12. ASSUME NEW c \in Ids PROVE RowOK(c)'
  <2>1. /\ Cardinality(Checking(c)) \in Nat /\ Cardinality(Checking(c)') \in Nat
        /\ Cardinality(Checking(c)') + One(Checks(exec[r], c)) = Cardinality(Checking(c)) + One(Checks(Idle, c))
    BY <1>4, Counting
  <2>2. /\ RowOK(c) /\ guesses[c] \in Nat /\ OTP_MAX_ATTEMPTS \in Nat /\ Cardinality(Requests) \in Nat
        /\ c \in Nat /\ c >= 1
    BY <1>3, Sizes DEF CodesInv, CodesAssumption, Ids
  <2>3. One(Checks(Idle, c)) = 0 /\ One(Checks(exec[r], c)) = (IF c = k THEN 1 ELSE 0)
    BY <1>1, <1>2 DEF One, Checks, k
  <2>4. guesses'[c] = IF c = k /\ ~f THEN guesses[c] + 1 ELSE guesses[c]
    BY <1>1, <1>3
  <2>5. guesses'[c] + Cardinality(Checking(c)') <= guesses[c] + Cardinality(Checking(c))
    BY <2>1, <2>2, <2>3, <2>4
  <2>6. guesses'[c] + Cardinality(Checking(c)') < OTP_MAX_ATTEMPTS + Cardinality(Requests)
    BY <2>1, <2>2, <2>4, <2>5 DEF RowOK
  <2>7. c > created' => guesses'[c] = 0
    BY <1>1, <1>3, <2>2, <2>4 DEF RowOK
  <2>8. ASSUME c <= created', codes'[c].state # "deleted" PROVE guesses'[c] = codes'[c].attempts
    <3>1. c \in 1..created
      BY <1>1, <1>3, <2>2, <2>8
    <3>2. codes[c].state # "deleted" /\ guesses[c] = codes[c].attempts
      BY <1>5, <2>2, <2>8, <3>1 DEF RowOK
    <3>3. c = k => ~gone
      BY <3>2 DEF gone
    <3> QED BY <1>5, <2>4, <3>1, <3>2, <3>3
  <2> QED BY <2>6, <2>7, <2>8 DEF RowOK
<1> QED BY <1>8, <1>9, <1>10, <1>11, <1>12 DEF CodesInv

-----------------------------------------------------------------------------
(* Time and Redis.                                                         *)

\* Keys expire, codes expire, Redis comes and goes: no request moves.
LEMMA OutsideKeeps ==
  ASSUME CodesAssumption, TypeOK, CodesInv,
         \/ \E p \in Purposes : CooldownEnds(p)
         \/ \E c \in Ids : CodeExpires(c)
         \/ DayEnds \/ RedisChanges
  PROVE  TypeOK' /\ CodesInv'
<1>1. UNCHANGED <<created, guesses, accepted, exec>>
  BY DEF CooldownEnds, CodeExpires, DayEnds, RedisChanges, limits
<1>2. /\ codes' \in [1..created -> Rows]
      /\ \A c \in 1..created : /\ codes'[c].attempts = codes[c].attempts
                               /\ codes'[c].state # "deleted" => codes[c].state # "deleted"
  <2>1. codes \in [1..created -> Rows]
    BY DEF TypeOK, Rows
  <2>2. CASE codes' = codes
    BY <2>1, <2>2
  <2>3. ASSUME NEW c \in DOMAIN codes, codes[c].state = "live", codes' = [codes EXCEPT ![c].state = "expired"]
        PROVE  /\ codes' \in [1..created -> Rows]
               /\ \A d \in 1..created : /\ codes'[d].attempts = codes[d].attempts
                                        /\ codes'[d].state # "deleted" => codes[d].state # "deleted"
    BY <2>1, <2>3 DEF Rows, CodeStates
  <2> QED BY <2>2, <2>3 DEF CooldownEnds, CodeExpires, DayEnds, RedisChanges
<1>3. /\ cooldown' \subseteq Purposes /\ redis' \in BOOLEAN
      /\ daily' \in 0..OTP_DAILY_CAP + 1 /\ dailyTtl' \in BOOLEAN /\ metered' \in Nat
  <2>1. 0 \in 0..OTP_DAILY_CAP + 1
    BY DEF CodesAssumption
  <2>2. CASE DayEnds
    BY <2>1, <2>2 DEF TypeOK, DayEnds
  <2>3. CASE RedisChanges
    <3>1. redis' = ~redis /\ UNCHANGED <<cooldown, daily, dailyTtl, metered>>
      BY <2>3 DEF RedisChanges
    <3>2. redis' \in BOOLEAN
      BY <3>1
    <3> QED BY <3>1, <3>2 DEF TypeOK
  <2>4. ASSUME NEW p \in Purposes, CooldownEnds(p)
        PROVE  /\ cooldown' \subseteq Purposes /\ UNCHANGED <<redis, daily, dailyTtl, metered>>
    BY <2>4 DEF TypeOK, CooldownEnds
  <2>5. ASSUME NEW c \in Ids, CodeExpires(c) PROVE UNCHANGED <<cooldown, redis, daily, dailyTtl, metered>>
    BY <2>5 DEF CodeExpires, limits
  <2> QED BY <2>2, <2>3, <2>4, <2>5 DEF TypeOK
<1>4. TypeOK'
  BY <1>1, <1>2, <1>3 DEF TypeOK, Rows
<1>5. Creating' = Creating /\ Counted' = Counted /\ \A c : Checking(c)' = Checking(c)
  BY <1>1 DEF Creating, Counted, Checking
<1>6. \A r \in Requests : SenderOK(r)'
  BY <1>1 DEF CodesInv, SenderOK
<1>7. MeterOK'
  <2>1. CASE UNCHANGED <<daily, metered>>
    BY <1>5, <2>1 DEF CodesInv, MeterOK
  <2>2. CASE DayEnds
    <3>1. Counted = {} /\ daily' = 0 /\ metered' = 0
      BY <2>2 DEF DayEnds, Counted, Counts
    <3>2. Cardinality(Counted') = 0
      BY <1>5, <3>1, FS_EmptySet
    <3> QED BY <3>1, <3>2 DEF MeterOK, CodesAssumption
  <2> QED BY <2>1, <2>2 DEF CooldownEnds, CodeExpires, RedisChanges, limits
<1>8. created' + Cardinality(Creating') <= MaxCodes
  BY <1>1, <1>5 DEF CodesInv
<1>9. ASSUME NEW c \in Ids PROVE RowOK(c)'
  <2>1. RowOK(c) /\ (c <= created => c \in 1..created)
    BY DEF CodesInv, Ids, CodesAssumption, TypeOK
  <2> QED BY <1>1, <1>2, <1>5, <2>1 DEF RowOK
<1> QED BY <1>4, <1>6, <1>7, <1>8, <1>9 DEF CodesInv

-----------------------------------------------------------------------------
(* The theorems.                                                           *)

\* Every step keeps the types and the invariant.
LEMMA StepKeeps ==
  ASSUME CodesAssumption, TypeOK, CodesInv, [Next]_vars PROVE TypeOK' /\ CodesInv'
<1>1. CASE UNCHANGED vars
  <2>1. Creating' = Creating /\ Counted' = Counted /\ \A c : Checking(c)' = Checking(c)
    BY <1>1 DEF vars, Creating, Counted, Checking
  <2>2. TypeOK'
    BY <1>1 DEF vars, TypeOK
  <2>3. CodesInv'
    BY <1>1, <2>1 DEF vars, CodesInv, SenderOK, MeterOK, RowOK
  <2> QED BY <2>2, <2>3
<1>2. ASSUME NEW r \in Requests, Continue(r) PROVE TypeOK' /\ CodesInv'
  BY <1>2, CountKeeps, ExpireKeeps, BounceKeeps, DeleteKeeps, CreateKeeps, SendKeeps, CompareKeeps DEF Continue
<1>3. ASSUME NEW r \in Requests, NEW p \in Purposes, NEW b \in BOOLEAN, issue(r, p, b) \/ verify(r, p, b)
      PROVE  TypeOK' /\ CodesInv'
  BY <1>3, IssueKeeps, VerifyKeeps
<1> QED BY <1>1, <1>2, <1>3, OutsideKeeps DEF Next

\* What the invariant says of the limits.
LEMMA LimitsKept == CodesAssumption /\ TypeOK /\ CodesInv => MeteredWithinCap /\ GuessesBounded
<1> SUFFICES ASSUME CodesAssumption, TypeOK, CodesInv PROVE MeteredWithinCap /\ GuessesBounded
  OBVIOUS
<1>1. MeteredWithinCap
  BY Sizes DEF CodesInv, MeterOK, MeteredWithinCap, TypeOK, CodesAssumption
<1>2. ASSUME NEW c \in Ids PROVE guesses[c] < OTP_MAX_ATTEMPTS + Cardinality(Requests)
  BY Sizes DEF CodesInv, RowOK, TypeOK, CodesAssumption
<1> QED BY <1>1, <1>2 DEF GuessesBounded

\* What no step does: accept a row that was replaced.
NoneAccepted == \A c \in DOMAIN codes : codes[c].state = "deleted" => accepted'[c] = accepted[c]
LEMMA ReplacedKept == ASSUME CodesAssumption, TypeOK, [Next]_vars PROVE NoneAccepted
<1>1. CASE accepted' = accepted
  BY <1>1 DEF NoneAccepted
<1>2. ASSUME NEW r \in Requests, compare(r) PROVE NoneAccepted
  <2>1. exec[r].code \in 1..created /\ DOMAIN codes = 1..created /\ created \in Nat /\ created <= MaxCodes
    BY <1>2 DEF TypeOK, compare, At, CodesAssumption
  <2>2. DOMAIN codes \subseteq DOMAIN accepted
    BY <2>1 DEF TypeOK, Ids, CodesAssumption
  <2> QED BY <1>2, <2>1, <2>2 DEF compare, NoneAccepted, TypeOK
<1> QED
  BY <1>1, <1>2 DEF Next, Continue, countDaily, expireDaily, bounce, deleteUnused, createCode, sendOtp,
     issue, verify, CooldownEnds, CodeExpires, DayEnds, RedisChanges, vars

\* Every variable keeps its type, and the invariant holds.
THEOREM CodeTypes == ASSUME CodesAssumption PROVE Spec => [](TypeOK /\ CodesInv)
<1>1. Init => TypeOK /\ CodesInv
  BY InitOK
<1>2. TypeOK /\ CodesInv /\ [Next]_vars => (TypeOK /\ CodesInv)'
  BY StepKeeps
<1> QED BY <1>1, <1>2, PTL DEF Spec

\* However many requests overlap and whenever Redis is out of reach, a phone is
\* sent the daily cap of metered messages at most, and the wrong codes tried on
\* one row exceed the limit by the requests in flight at most.
THEOREM CodeLimitsHold == ASSUME CodesAssumption PROVE Spec => [](MeteredWithinCap /\ GuessesBounded)
<1>1. TypeOK /\ CodesInv => MeteredWithinCap /\ GuessesBounded
  BY LimitsKept
<1> QED BY <1>1, CodeTypes, PTL

\* A code that a newer one has replaced is not accepted any more.
THEOREM ReplacedNotAcceptedHolds == ASSUME CodesAssumption PROVE Spec => ReplacedNotAccepted
<1>1. TypeOK /\ [Next]_vars => [\A c \in DOMAIN codes : codes[c].state = "deleted" => accepted'[c] = accepted[c]]_vars
  BY ReplacedKept DEF NoneAccepted
<1> QED BY <1>1, CodeTypes, PTL DEF Spec, ReplacedNotAccepted
=============================================================================
