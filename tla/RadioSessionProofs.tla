------------------------ MODULE RadioSessionProofs -------------------------
(***************************************************************************)
(* Proofs about RadioSession, for any handlers and planners, any watermark *)
(* and client queues, and any bounds.                                      *)
(***************************************************************************)
EXTENDS RadioSession, FiniteSetTheorems, TLAPS

-----------------------------------------------------------------------------
(* The inductive invariants *)

\* One planner at most is at work, and it alone has a draft.
OnePlan ==
    /\ \A p \in Planner : planner[p].pc # "off" => planning = "yes"
    /\ \A p, q \in Planner : planner[p].pc # "off" /\ planner[q].pc # "off" => p = q
    /\ \A p \in Planner : planner[p].pc # "queue" => planner[p].draft = NoRows

\* An id is used for one row: in the table or in a draft.
Fresh ==
    /\ \A i \in Item : i > made => item[i].st = "none"
    /\ \A p \in Planner, i \in Item :
          planner[p].draft[i].st # "none" => i <= made /\ item[i].st = "none"

\* A request's copy of a row differs from the row in its status only, and the
\* items it has yet to follow are downloads but for the one it is to record.
Copied(r) ==
    /\ \A i \in Item : r.rows[i].st # "none" =>
          item[i].st # "none" /\ item[i].pos = r.rows[i].pos /\ item[i].kind = r.rows[i].kind
    /\ \A i \in r.todo : r.rows[i].st \in {"downloading", "ready"}
    /\ r.pc = "check" => \A i \in r.todo : r.rows[i].st = "downloading"
    /\ r.pc \in {"idle", "mode", "items"} => r.todo = {}
    /\ \A i, k \in r.todo : r.rows[i].st = "ready" /\ r.rows[k].st = "ready" => i = k

Typed == TypeOK /\ OnePlan /\ Fresh /\ \A h \in Handler : Copied(handler[h])

\* The position n is the first behind the rows of the table.
Behind(n) ==
    /\ n \in 1..made + 1
    /\ \A i \in Made(item) : item[i].pos < n
    /\ n = 1 \/ \E i \in Made(item) : item[i].pos = n - 1

\* A planner's next position is the first behind the table and its draft, and
\* the draft is behind the table.
Ahead(p) ==
    planner[p].pc = "queue" =>
        LET d == planner[p].draft  n == planner[p].pos IN
        /\ n \in 1..made + 1
        /\ \A i \in Made(item) : item[i].pos < n
        /\ \A i \in Made(d) : d[i].pos < n /\ \A k \in Made(item) : item[k].pos < d[i].pos
        /\ \/ n = 1
           \/ \E i \in Made(item) : item[i].pos = n - 1
           \/ \E i \in Made(d) : d[i].pos = n - 1

Positions == (\E n \in 1..MaxItems + 1 : Behind(n)) /\ \A p \in Planner : Ahead(p)

\* What is drafted as a discovery is still to be downloaded.
DraftedDownload ==
    \A p \in Planner, i \in Item :
        planner[p].draft[i].kind = "discovery" /\ planner[p].draft[i].st # "none" =>
            planner[p].draft[i].st = "downloading"

Recorded == DiscoveryRecorded /\ DraftedDownload

\* The downloads under way and the slots still open to a planner.
Drafted(p) == {i \in Item : planner[p].draft[i].st = "downloading"}
Within(p) ==
    planner[p].pc = "queue" =>
        Cardinality(Downloading(item)) + Cardinality(Drafted(p)) + planner[p].slots <= Watermark
Budget == Cardinality(Downloading(item)) <= Watermark /\ \A p \in Planner : Within(p)

-----------------------------------------------------------------------------
(* Records and sets *)

LEMMA Idle ==
  /\ NoRow \in Row /\ NoRows \in Rows /\ (\A i \in Item : NoRows[i].st = "none")
  /\ NoRequest \in HandlerState /\ NoRequest.pc = "idle" /\ NoRequest.todo = {}
  /\ NoRequest.rows = NoRows
  /\ ServerQueue \in Context
  /\ NoPlan \in PlannerState /\ NoPlan.pc = "off" /\ NoPlan.draft = NoRows
  <1>1. NoRow \in Row /\ NoRow.st = "none"
    BY DEF NoRow, Row, Status
  <1>2. NoRows \in Rows /\ \A i \in Item : NoRows[i].st = "none"
    BY <1>1 DEF NoRows, Rows
  <1>3. ServerQueue \in Context
    BY DEF ServerQueue, Context, NoItem
  <1>4. NoRequest \in HandlerState /\ NoRequest.pc = "idle" /\ NoRequest.todo = {}
        /\ NoRequest.rows = NoRows
    BY <1>2 DEF NoRequest, HandlerState, Session
  <1>5. NoPlan \in PlannerState /\ NoPlan.pc = "off" /\ NoPlan.draft = NoRows
    BY <1>2, <1>3, WatermarkAssumption DEF NoPlan, PlannerState
  <1> QED
    BY <1>1, <1>2, <1>3, <1>4, <1>5

LEMMA FiniteItems ==
  ASSUME NEW S, S \subseteq Item
  PROVE  IsFiniteSet(S) /\ Cardinality(S) \in Nat
  <1>1. IsFiniteSet(Item)
    BY FS_Interval, BoundAssumption DEF Item
  <1> QED
    BY <1>1, FS_Subset, FS_CardinalityType

\* radioOutstandingItems counts every download.
LEMMA OutstandingCounts ==
  ASSUME NEW rows \in Rows, NEW c \in Context
  PROVE  /\ Outstanding(rows, c) \in Nat
         /\ Cardinality(Downloading(rows)) \in Nat
         /\ Cardinality(Downloading(rows)) <= Outstanding(rows, c)
  <1> DEFINE S == {i \in Item : rows[i].st \in {"ready", "downloading"}}
             T == {i \in c.queued : rows[i].st = "ready" \/ (rows[i].st = "played" /\ i = c.cur)}
                  \cup Downloading(rows)
  <1>1. Downloading(rows) \subseteq S /\ S \subseteq Item /\ Downloading(rows) \subseteq T /\ T \subseteq Item
    BY DEF Downloading, Context
  <1>2. IsFiniteSet(S) /\ Cardinality(S) \in Nat /\ IsFiniteSet(T) /\ Cardinality(T) \in Nat
    BY <1>1, FiniteItems
  <1>3. Cardinality(Downloading(rows)) \in Nat
    BY <1>1, FiniteItems
  <1>4. Outstanding(rows, c) = Cardinality(S) \/ Outstanding(rows, c) = Cardinality(T)
    BY DEF Outstanding
  <1> HIDE DEF S, T
  <1>5. /\ Cardinality(Downloading(rows)) <= Cardinality(S)
        /\ Cardinality(Downloading(rows)) <= Cardinality(T)
    BY <1>1, <1>2, FS_Subset
  <1> QED
    BY <1>2, <1>3, <1>4, <1>5

LEMMA KnownContext ==
  ASSUME NEW q, NEW rows \in Rows
  PROVE  Known(q, rows) \in Context
  BY DEF Known, Made, Context, NoItem

\* The request r has given item i its status st, and h has not yet.
IsSettled(r, h, i, st) ==
    /\ r \in HandlerState
    /\ r.pc = (IF st = "ready" THEN "upsert" ELSE "check")
    /\ r.todo = (IF st = "ready" THEN handler[h].todo ELSE handler[h].todo \ {i})
    /\ r.rows[i] = NewRow(h, i, st)
    /\ r.rows[i] \in Row /\ r.rows[i].st = st
    /\ r.rows[i].pos = handler[h].rows[i].pos /\ r.rows[i].kind = handler[h].rows[i].kind
    /\ \A k \in Item : k # i => r.rows[k] = handler[h].rows[k]

LEMMA SettledFields ==
  ASSUME TypeOK, NEW h \in Handler, NEW i \in Item, NEW st \in Status, NEW r, r = Settled(h, i, st)
  PROVE  IsSettled(r, h, i, st)
  <1>1. handler[h] \in HandlerState /\ handler[h].rows \in [Item -> Row]
    BY DEF TypeOK, HandlerState, Rows
  <1>2. PICK new : new = NewRow(h, i, st)
    OBVIOUS
  <1>3. /\ new \in Row /\ new.st = st /\ new.pos = handler[h].rows[i].pos
        /\ new.kind = handler[h].rows[i].kind
    <2>1. handler[h].rows[i] \in Row
      BY <1>1
    <2> QED
      BY <1>2, <2>1 DEF Row, NewRow
  <1>4. PICK rows : rows = [handler[h].rows EXCEPT ![i] = new]
    OBVIOUS
  <1>5. rows \in Rows /\ rows[i] = new /\ \A k \in Item : k # i => rows[k] = handler[h].rows[k]
    BY <1>1, <1>3, <1>4 DEF Rows
  <1>6. r = [handler[h] EXCEPT !.rows = rows,
                       !.pc = IF st = "ready" THEN "upsert" ELSE "check",
                       !.todo = IF st = "ready" THEN handler[h].todo ELSE handler[h].todo \ {i}]
    BY <1>1, <1>2, <1>4 DEF Settled, HandlerState
  <1>7. /\ r.rows = rows
        /\ r.pc = (IF st = "ready" THEN "upsert" ELSE "check")
        /\ r.todo = (IF st = "ready" THEN handler[h].todo ELSE handler[h].todo \ {i})
    BY <1>1, <1>6 DEF HandlerState
  <1>8. r \in HandlerState
    BY <1>1, <1>5, <1>6 DEF HandlerState
  <1> QED
    BY <1>2, <1>3, <1>5, <1>7, <1>8 DEF IsSettled

\* What a checked item becomes.
LEMMA Settling ==
  ASSUME NEW j, NEW st \in SettledAs(j)
  PROVE  st \in {"ready", "failed"} /\ st \in Status
  BY DEF SettledAs, Status

LEMMA CheckParts ==
  ASSUME NEW h \in Handler, NEW i \in Item, CheckItem(h, i)
  PROVE  /\ handler[h].pc = "check" /\ i \in handler[h].todo
         /\ UNCHANGED <<session, discovery, unrecorded, made, job, planning, planner>>
         /\ Mishap \/ UNCHANGED mishaps
         /\ \/ UNCHANGED item /\ (Skip(h, i) \/ Return(h))
            \/ \E st \in {"ready", "failed"} :
                  /\ item' = [item EXCEPT ![i] = NewRow(h, i, st)]
                  /\ handler' = [handler EXCEPT ![h] = Settled(h, i, st)]
  BY Settling DEF CheckItem, Current

-----------------------------------------------------------------------------
(* Type correctness, and which rows there are *)

LEMMA TypedInit == Init => Typed
  <1> SUFFICES ASSUME Init PROVE Typed
    OBVIOUS
  <1>1. TypeOK
    BY Idle, BoundAssumption DEF Init, TypeOK, Session
  <1>2. OnePlan /\ Fresh
    BY Idle DEF Init, OnePlan, Fresh
  <1>3. ASSUME NEW h \in Handler PROVE Copied(handler[h])
    <2>1. handler[h] = NoRequest
      BY DEF Init
    <2> QED
      BY <2>1, Idle DEF Copied
  <1> QED
    BY <1>1, <1>2, <1>3 DEF Typed

\* The table may gain rows, and the status of a row change.
Grows == \A i \in Item : item[i].st # "none" =>
            item'[i].st # "none" /\ item'[i].pos = item[i].pos /\ item'[i].kind = item[i].kind

\* Rows may change their status, and none is made.
Rewritten == Grows /\ \A i \in Item : item[i].st = "none" => item'[i].st = "none"

LEMMA CopyKept ==
  ASSUME Grows, NEW r, Copied(r)
  PROVE  Copied(r)'
  BY DEF Grows, Copied

LEMMA CopiesKept ==
  ASSUME Typed, Grows, UNCHANGED handler
  PROVE  \A h \in Handler : Copied(handler[h])'
  <1> SUFFICES ASSUME NEW h \in Handler PROVE Copied(handler[h])'
    OBVIOUS
  <1>1. PICK r : r = handler[h]
    OBVIOUS
  <1>2. Copied(r)'
    BY <1>1, CopyKept DEF Typed
  <1> QED
    BY <1>1, <1>2 DEF Copied

\* A request moves to the state r.
LEMMA RequestMoves ==
  ASSUME Typed, Grows, NEW h \in Handler, NEW r \in HandlerState, Copied(r)',
         handler' = [handler EXCEPT ![h] = r]
  PROVE  handler' \in [Handler -> HandlerState] /\ \A g \in Handler : Copied(handler[g])'
  <1>0. handler \in [Handler -> HandlerState]
    BY DEF Typed, TypeOK
  <1>1. handler' \in [Handler -> HandlerState]
    BY <1>0
  <1>2. ASSUME NEW g \in Handler PROVE Copied(handler[g])'
    <2>1. PICK q : q = handler'[g]
      OBVIOUS
    <2>2. CASE g = h
      <3>1. q = r
        BY <1>0, <2>1, <2>2
      <3> QED
        BY <2>1, <3>1 DEF Copied
    <2>3. CASE g # h
      <3>1. q = handler[g]
        BY <1>0, <2>1, <2>3
      <3>2. Copied(q)'
        BY <3>1, CopyKept DEF Typed
      <3> QED
        BY <2>1, <3>2 DEF Copied
    <2> QED
      BY <2>2, <2>3
  <1> QED
    BY <1>1, <1>2

LEMMA SameGrows == ASSUME UNCHANGED item PROVE Grows
  BY DEF Grows

LEMMA MishapTyped ==
  ASSUME Typed, Mishap \/ UNCHANGED mishaps
  PROVE  mishaps' \in 0..MaxMishaps
  BY BoundAssumption DEF Typed, TypeOK, Mishap

\* Where a request may go from h.
LEMMA Requests ==
  ASSUME Typed, NEW h \in Handler
  PROVE  /\ handler[h] \in HandlerState
         /\ Copied(NoRequest)
         /\ \A s \in Session, pc \in {"mode", "items", "check"} :
               LET r == [NoRequest EXCEPT !.pc = pc, !.sess = s] IN
               r \in HandlerState /\ Copied(r) /\ r.pc = pc /\ r.todo = {}
  <1>1. handler[h] \in HandlerState
    BY DEF Typed, TypeOK
  <1>2. Copied(NoRequest)
    BY Idle DEF Copied
  <1>3. ASSUME NEW s \in Session, NEW pc \in {"mode", "items", "check"},
               NEW r, r = [NoRequest EXCEPT !.pc = pc, !.sess = s]
        PROVE  r \in HandlerState /\ Copied(r) /\ r.pc = pc /\ r.todo = {}
    <2>1. r \in HandlerState /\ r.pc = pc /\ r.todo = {} /\ r.rows = NoRows
      BY <1>3, Idle DEF HandlerState
    <2> QED
      BY <2>1, Idle DEF Copied
  <1> QED
    BY <1>1, <1>2, <1>3

\* A request may change the status of rows, but makes none.
LEMMA RequestTyped ==
  ASSUME Typed, NEW h \in Handler, NEW r \in HandlerState, handler' = [handler EXCEPT ![h] = r],
         Copied(r)', Grows, \A i \in Item : item[i].st = "none" => item'[i].st = "none",
         item' \in Rows, session' \in Session, discovery' \subseteq Item, unrecorded' \subseteq Item,
         Mishap \/ UNCHANGED mishaps, UNCHANGED <<made, job, planning, planner>>
  PROVE  Typed'
  <1>1. handler' \in [Handler -> HandlerState] /\ \A g \in Handler : Copied(handler[g])'
    BY RequestMoves
  <1>2. TypeOK'
    BY <1>1, MishapTyped DEF Typed, TypeOK
  <1>3. OnePlan' /\ Fresh'
    BY DEF Typed, OnePlan, Fresh
  <1> QED
    BY <1>1, <1>2, <1>3 DEF Typed

LEMMA CheckTyped ==
  ASSUME Typed, NEW h \in Handler, NEW i \in Item, CheckItem(h, i)
  PROVE  Typed' /\ Rewritten /\ (\A k \in Item : item'[k].st = "downloading" => item[k].st = "downloading")
  <1>0. TypeOK /\ handler[h] \in HandlerState /\ Copied(handler[h]) /\ Copied(NoRequest)
        /\ item \in [Item -> Row]
    BY Requests DEF Typed, TypeOK, Rows
  <1>1. /\ handler[h].pc = "check" /\ i \in handler[h].todo
        /\ UNCHANGED <<session, discovery, unrecorded, made, job, planning, planner>>
        /\ Mishap \/ UNCHANGED mishaps
    BY CheckParts
  <1>2. /\ session' \in Session /\ discovery' \subseteq Item /\ unrecorded' \subseteq Item
    BY <1>0, <1>1 DEF TypeOK
  <1>3. CASE UNCHANGED item /\ Skip(h, i)
    <2>1. PICK r : r = [handler[h] EXCEPT !.todo = @ \ {i}]
      OBVIOUS
    <2>2. /\ r \in HandlerState /\ r.pc = handler[h].pc /\ r.rows = handler[h].rows
          /\ r.todo = handler[h].todo \ {i}
      BY <1>0, <2>1 DEF HandlerState
    <2>3. Copied(r)
      BY <1>0, <1>1, <2>2 DEF Copied
    <2>4. handler' = [handler EXCEPT ![h] = r]
      BY <1>3, <2>1 DEF Skip
    <2>5. Copied(r)' /\ Grows /\ item' \in Rows
      BY <1>0, <1>3, <2>3, SameGrows, CopyKept DEF TypeOK
    <2> QED
      BY <1>1, <1>2, <1>3, <2>2, <2>4, <2>5, RequestTyped DEF Rewritten
  <1>4. CASE UNCHANGED item /\ Return(h)
    <2>1. Copied(NoRequest)' /\ Grows /\ item' \in Rows /\ NoRequest \in HandlerState
      <3>1. PICK r : r = NoRequest
        OBVIOUS
      <3>2. Copied(r)' /\ Grows
        BY <1>0, <1>4, <3>1, SameGrows, CopyKept
      <3> QED
        BY <1>0, <1>4, <3>1, <3>2, Idle DEF TypeOK, Copied
    <2> QED
      BY <1>1, <1>2, <1>4, <2>1, RequestTyped DEF Return, Rewritten
  <1>5. ASSUME NEW st \in {"ready", "failed"}, item' = [item EXCEPT ![i] = NewRow(h, i, st)],
               handler' = [handler EXCEPT ![h] = Settled(h, i, st)]
        PROVE  Typed' /\ Rewritten /\ (\A k \in Item : item'[k].st = "downloading" => item[k].st = "downloading")
    <2>1. PICK r : r = Settled(h, i, st)
      OBVIOUS
    <2>2. /\ r \in HandlerState
          /\ r.pc = (IF st = "ready" THEN "upsert" ELSE "check")
          /\ r.todo = (IF st = "ready" THEN handler[h].todo ELSE handler[h].todo \ {i})
          /\ r.rows[i] = NewRow(h, i, st)
          /\ r.rows[i] \in Row /\ r.rows[i].st = st
          /\ r.rows[i].pos = handler[h].rows[i].pos /\ r.rows[i].kind = handler[h].rows[i].kind
          /\ \A k \in Item : k # i => r.rows[k] = handler[h].rows[k]
      <3>1. st \in Status
        BY DEF Status
      <3>2. IsSettled(r, h, i, st)
        BY <1>0, <2>1, <3>1, SettledFields
      <3> QED
        BY <3>2 DEF IsSettled
    <2>3. handler[h].rows[i].st = "downloading"
      BY <1>0, <1>1 DEF Copied
    <2>4. item[i].st # "none" /\ item[i].pos = r.rows[i].pos /\ item[i].kind = r.rows[i].kind
      BY <1>0, <2>2, <2>3 DEF Copied
    <2>5. /\ item'[i] = r.rows[i] /\ item' \in [Item -> Row]
          /\ \A k \in Item : k # i => item'[k] = item[k]
      BY <1>0, <1>5, <2>2
    <2>6. Grows /\ \A k \in Item : item[k].st = "none" => item'[k].st = "none"
      BY <2>2, <2>4, <2>5 DEF Grows
    <2>7. Copied(r)'
      <3>1. \A k \in handler[h].todo : k # i => r.rows[k].st = "downloading"
        BY <1>0, <1>1, <2>2 DEF Copied, HandlerState
      <3>2. \A k \in Item : r.rows[k].st # "none" =>
               item'[k].st # "none" /\ item'[k].pos = r.rows[k].pos /\ item'[k].kind = r.rows[k].kind
        BY <1>0, <2>2, <2>4, <2>5 DEF Copied
      <3> QED
        BY <2>2, <3>1, <3>2 DEF Copied
    <2>8. Typed'
      BY <1>1, <1>2, <1>5, <2>1, <2>2, <2>5, <2>6, <2>7, RequestTyped DEF Rows
    <2> QED
      BY <2>2, <2>5, <2>6, <2>8 DEF Rewritten
  <1> QED
    BY <1>3, <1>4, <1>5, CheckParts, SameGrows DEF Rewritten

\* A request that only moves on.
LEMMA MovesTyped ==
  ASSUME Typed, NEW h \in Handler, NEW r \in HandlerState, Copied(r),
         handler' = [handler EXCEPT ![h] = r], session' \in Session,
         discovery' \subseteq Item, unrecorded' \subseteq Item,
         Mishap \/ UNCHANGED mishaps, UNCHANGED <<item, made, job, planning, planner>>
  PROVE  Typed'
  <1>1. Grows /\ Copied(r)'
    BY SameGrows, CopyKept
  <1>2. item' \in Rows
    BY DEF Typed, TypeOK
  <1> QED
    BY <1>1, <1>2, RequestTyped

LEMMA CreateTyped == ASSUME Typed, NEW h \in Handler, Create(h) PROVE Typed'
  <1>1. PICK r : r = [NoRequest EXCEPT !.pc = "check", !.sess = "active"]
    OBVIOUS
  <1>2. r \in HandlerState /\ Copied(r)
    BY <1>1, Requests DEF Session
  <1>3. discovery' \subseteq Item /\ unrecorded' \subseteq Item /\ session' \in Session
    BY DEF Typed, TypeOK, Create, Session
  <1>4. handler' = [handler EXCEPT ![h] = r]
    BY <1>1 DEF Create
  <1>5. UNCHANGED <<item, made, job, planning, planner, mishaps>>
    BY DEF Create
  <1> QED
    BY <1>2, <1>3, <1>4, <1>5, MovesTyped

LEMMA ReadTyped == ASSUME Typed, NEW h \in Handler, ReadSession(h) PROVE Typed'
  <1>1. PICK pc \in {"mode", "items"} :
           handler' = [handler EXCEPT ![h] = [NoRequest EXCEPT !.pc = pc, !.sess = session]]
    BY DEF ReadSession
  <1>2. PICK r : r = [NoRequest EXCEPT !.pc = pc, !.sess = session]
    OBVIOUS
  <1>3. discovery' \subseteq Item /\ unrecorded' \subseteq Item /\ session' \in Session /\ session \in Session
    BY DEF Typed, TypeOK, ReadSession, table
  <1>4. r \in HandlerState /\ Copied(r)
    BY <1>2, <1>3, Requests
  <1>5. UNCHANGED <<item, made, job, planning, planner, mishaps>>
    BY DEF ReadSession, table
  <1> QED
    BY <1>1, <1>2, <1>3, <1>4, <1>5, MovesTyped

LEMMA ReturnTyped ==
  ASSUME Typed, NEW h \in Handler, Return(h), Mishap \/ UNCHANGED mishaps,
         UNCHANGED <<session, discovery, unrecorded, item, made, job, planning, planner>>
  PROVE  Typed'
  <1>1. PICK r : r = NoRequest
    OBVIOUS
  <1>2. r \in HandlerState /\ Copied(r) /\ handler' = [handler EXCEPT ![h] = r]
    BY <1>1, Requests, Idle DEF Return
  <1>3. session' \in Session /\ discovery' \subseteq Item /\ unrecorded' \subseteq Item
    BY DEF Typed, TypeOK
  <1> QED
    BY <1>2, <1>3, MovesTyped

LEMMA UpdateTyped == ASSUME Typed, NEW h \in Handler, UpdateSession(h) PROVE Typed'
  <1>0. handler[h] \in HandlerState /\ Copied(handler[h]) /\ handler[h].pc = "mode"
    BY Requests DEF Typed, UpdateSession
  <1>1. CASE session' = handler[h].sess /\ Goto(h, "items") /\ UNCHANGED mishaps
    <2>1. PICK r : r = [handler[h] EXCEPT !.pc = "items"]
      OBVIOUS
    <2>2. r \in HandlerState /\ r.pc = "items" /\ r.rows = handler[h].rows /\ r.todo = handler[h].todo
      BY <1>0, <2>1 DEF HandlerState
    <2>3. Copied(r)
      BY <1>0, <2>2 DEF Copied
    <2>4. handler' = [handler EXCEPT ![h] = r]
      BY <1>1, <2>1 DEF Goto
    <2>5. session' \in Session /\ discovery' \subseteq Item /\ unrecorded' \subseteq Item
      BY <1>0, <1>1 DEF Typed, TypeOK, UpdateSession, HandlerState
    <2>6. UNCHANGED <<item, made, job, planning, planner>>
      BY DEF UpdateSession
    <2> QED
      BY <1>1, <2>2, <2>3, <2>4, <2>5, <2>6, MovesTyped
  <1>2. CASE Mishap /\ Return(h) /\ UNCHANGED session
    BY <1>2, ReturnTyped DEF UpdateSession
  <1> QED
    BY <1>1, <1>2 DEF UpdateSession

LEMMA GetTyped == ASSUME Typed, NEW h \in Handler, GetItems(h) PROVE Typed'
  <1>0. handler[h] \in HandlerState /\ item \in Rows
    BY Requests DEF Typed, TypeOK
  <1>1. CASE /\ handler' = [handler EXCEPT ![h].pc = "check", ![h].rows = item,
                                          ![h].todo = Downloading(item)]
             /\ UNCHANGED mishaps
    <2>1. PICK r : r = [handler[h] EXCEPT !.pc = "check", !.rows = item, !.todo = Downloading(item)]
      OBVIOUS
    <2>2. r \in HandlerState /\ r.pc = "check" /\ r.rows = item /\ r.todo = Downloading(item)
      BY <1>0, <2>1 DEF HandlerState, Downloading
    <2>3. Copied(r)
      BY <1>0, <2>2 DEF Copied, Downloading
    <2>4. handler' = [handler EXCEPT ![h] = r]
      BY <1>0, <1>1, <2>1 DEF Typed, TypeOK, HandlerState
    <2>5. session' \in Session /\ discovery' \subseteq Item /\ unrecorded' \subseteq Item
      BY DEF Typed, TypeOK, GetItems, table
    <2>6. UNCHANGED <<item, made, job, planning, planner>>
      BY DEF GetItems, table
    <2> QED
      BY <1>1, <2>2, <2>3, <2>4, <2>5, <2>6, MovesTyped
  <1>2. CASE Mishap /\ Return(h)
    BY <1>2, ReturnTyped DEF GetItems, table
  <1> QED
    BY <1>1, <1>2 DEF GetItems

LEMMA UpsertTyped ==
  ASSUME Typed, NEW h \in Handler, NEW i \in Item, UpsertDiscovery(h, i)
  PROVE  Typed'
  <1>0. /\ handler[h] \in HandlerState /\ Copied(handler[h]) /\ handler[h].pc = "upsert"
        /\ i \in handler[h].todo /\ handler[h].rows[i].st = "ready"
    BY Requests DEF Typed, UpsertDiscovery, Recording
  <1>1. PICK r : r = [handler[h] EXCEPT !.pc = "check", !.todo = @ \ {i}]
    OBVIOUS
  <1>2. /\ r \in HandlerState /\ r.pc = "check" /\ r.rows = handler[h].rows
        /\ r.todo = handler[h].todo \ {i}
    BY <1>0, <1>1 DEF HandlerState
  <1>3. Copied(r)
    BY <1>0, <1>2 DEF Copied
  <1>4. handler' = [handler EXCEPT ![h] = r]
    BY <1>0, <1>1 DEF UpsertDiscovery, Typed, TypeOK, HandlerState
  <1>5. session' \in Session /\ discovery' \subseteq Item /\ unrecorded' \subseteq Item
    BY DEF Typed, TypeOK, UpsertDiscovery
  <1>6. UNCHANGED <<item, made, job, planning, planner>> /\ (Mishap \/ UNCHANGED mishaps)
    BY DEF UpsertDiscovery
  <1> QED
    BY <1>2, <1>3, <1>4, <1>5, <1>6, MovesTyped

-----------------------------------------------------------------------------
(* Planners *)

\* Steps of one planner: it moves to the state r while the others are off.
LEMMA PlannerMoves ==
  ASSUME Typed, NEW p \in Planner, NEW r \in PlannerState, planner' = [planner EXCEPT ![p] = r],
         planning' \in {"yes", "no"}, \A q \in Planner : q # p => planner[q].pc = "off",
         r.pc # "off" => planning' = "yes", r.pc # "queue" => r.draft = NoRows
  PROVE  /\ planner' \in [Planner -> PlannerState] /\ OnePlan'
         /\ planner'[p] = r
         /\ \A q \in Planner : q # p => planner'[q] = planner[q] /\ planner[q].draft = NoRows
  <1>1. planner \in [Planner -> PlannerState]
    BY DEF Typed, TypeOK
  <1>2. /\ planner' \in [Planner -> PlannerState] /\ planner'[p] = r
        /\ \A q \in Planner : q # p => planner'[q] = planner[q]
    BY <1>1
  <1>3. \A q \in Planner : q # p => planner[q].draft = NoRows
    BY DEF Typed, OnePlan
  <1> QED
    BY <1>2, <1>3 DEF OnePlan

\* A planner at work is the only one.
LEMMA OnlyPlan ==
  ASSUME Typed, NEW p \in Planner, planner[p].pc # "off"
  PROVE  /\ planner[p] \in PlannerState /\ planning = "yes"
         /\ \A q \in Planner : q # p => planner[q].pc = "off" /\ planner[q].draft = NoRows
  BY DEF Typed, OnePlan, TypeOK

\* What a planner does to the table, the ids and the jobs, the requests left alone.
LEMMA PlanTyped ==
  ASSUME Typed, NEW p \in Planner, NEW r \in PlannerState, planner' = [planner EXCEPT ![p] = r],
         planning' \in {"yes", "no"}, \A q \in Planner : q # p => planner[q].pc = "off",
         r.pc # "off" => planning' = "yes", r.pc # "queue" => r.draft = NoRows,
         Grows, item' \in Rows, made' \in 0..MaxItems, made <= made',
         \A i \in Item : i > made' => item'[i].st = "none",
         \A i \in Item : r.draft[i].st # "none" => i <= made' /\ item'[i].st = "none",
         job' \in [Item -> {"none", "active", "imported", "unmatched", "failed"}],
         UNCHANGED <<session, discovery, unrecorded, handler>>, Mishap \/ UNCHANGED mishaps
  PROVE  Typed'
  <1>1. /\ planner' \in [Planner -> PlannerState] /\ OnePlan' /\ planner'[p] = r
        /\ \A q \in Planner : q # p => planner'[q] = planner[q] /\ planner[q].draft = NoRows
    BY PlannerMoves
  <1>2. TypeOK'
    BY <1>1, MishapTyped DEF Typed, TypeOK
  <1>3. Fresh'
    <2>1. ASSUME NEW q \in Planner, NEW i \in Item, planner'[q].draft[i].st # "none"
          PROVE  i <= made' /\ item'[i].st = "none"
      <3>1. CASE q = p
        BY <1>1, <2>1, <3>1
      <3>2. CASE q # p
        BY <1>1, <2>1, <3>2, Idle
      <3> QED
        BY <3>1, <3>2
    <2> QED
      BY <2>1 DEF Fresh
  <1>4. \A h \in Handler : Copied(handler[h])'
    BY CopiesKept
  <1> QED
    BY <1>1, <1>2, <1>3, <1>4 DEF Typed

\* The plan ends, and the table is as it was.
LEMMA FinishTyped ==
  ASSUME Typed, NEW p \in Planner, planner[p].pc # "off", Finish(p), Mishap \/ UNCHANGED mishaps,
         UNCHANGED <<session, item, discovery, unrecorded, made, job, handler>>
  PROVE  Typed'
  <1>1. PICK r : r = NoPlan
    OBVIOUS
  <1>2. r \in PlannerState /\ r.pc = "off" /\ r.draft = NoRows /\ \A i \in Item : r.draft[i].st = "none"
    BY <1>1, Idle
  <1>3. planner' = [planner EXCEPT ![p] = r] /\ planning' = "no"
    BY <1>1 DEF Finish
  <1>4. \A q \in Planner : q # p => planner[q].pc = "off"
    BY OnlyPlan
  <1>5. /\ item' \in Rows /\ made' \in 0..MaxItems /\ made <= made'
        /\ \A i \in Item : i > made' => item'[i].st = "none"
        /\ job' \in [Item -> {"none", "active", "imported", "unmatched", "failed"}]
    BY DEF Typed, TypeOK, Fresh
  <1> QED
    BY <1>2, <1>3, <1>4, <1>5, SameGrows, PlanTyped

\* The position a plan starts at.
LEMMA FirstPosition ==
  ASSUME Typed, Positions
  PROVE  /\ NextPosition(item) \in 1..made + 1
         /\ \A i \in Made(item) : item[i].pos < NextPosition(item)
         /\ NextPosition(item) = 1 \/ \E i \in Made(item) : item[i].pos = NextPosition(item) - 1
  <1>1. PICK m \in 1..MaxItems + 1 : Behind(m)
    BY DEF Positions
  <1>2. PICK n : n = NextPosition(item)
    OBVIOUS
  <1>3. /\ n \in 1..MaxItems + 1
        /\ \A i \in Made(item) : item[i].pos < n
        /\ n = 1 \/ \E i \in Made(item) : item[i].pos = n - 1
    BY <1>1, <1>2 DEF NextPosition, Behind
  <1>4. made \in Nat /\ MaxItems \in Nat /\ m \in 1..made + 1
    BY <1>1, BoundAssumption DEF Typed, TypeOK, Behind
  <1>5. n \in 1..made + 1
    <2>1. CASE n = 1
      BY <1>4, <2>1
    <2>2. ASSUME NEW i \in Made(item), item[i].pos = n - 1 PROVE n \in 1..made + 1
      <3>1. item[i].pos < m
        BY <1>1 DEF Behind
      <3> QED
        BY <1>3, <1>4, <2>2, <3>1
    <2> QED
      BY <1>3, <2>1, <2>2
  <1> QED
    BY <1>2, <1>3, <1>5

LEMMA PlanReadTyped ==
  ASSUME Typed, Positions, NEW p \in Planner, PlanRead(p)
  PROVE  Typed'
  <1>0. /\ planner[p] \in PlannerState /\ planning = "yes" /\ planner[p].pc = "read"
        /\ \A q \in Planner : q # p => planner[q].pc = "off"
    BY OnlyPlan DEF PlanRead
  <1>1. CASE /\ Room(p) > 0
             /\ planner' = [planner EXCEPT ![p].pc = "queue", ![p].slots = Room(p),
                                          ![p].pos = NextPosition(item)]
             /\ UNCHANGED <<planning, mishaps>>
    <2>1. PICK r : r = [planner[p] EXCEPT !.pc = "queue", !.slots = Room(p), !.pos = NextPosition(item)]
      OBVIOUS
    <2>2. Outstanding(item, planner[p].ctx) \in Nat
      BY <1>0, OutstandingCounts DEF Typed, TypeOK, PlannerState
    <2>3. Room(p) \in 0..Watermark /\ NextPosition(item) \in Nat
      BY <1>1, <2>2, FirstPosition, WatermarkAssumption DEF Room, Typed, TypeOK
    <2>4. r \in PlannerState /\ r.pc = "queue" /\ r.draft = planner[p].draft
      BY <1>0, <2>1, <2>3 DEF PlannerState
    <2>5. planner' = [planner EXCEPT ![p] = r]
      BY <1>0, <1>1, <2>1 DEF Typed, TypeOK, PlannerState
    <2>6. /\ item' \in Rows /\ made' \in 0..MaxItems /\ made <= made'
          /\ \A i \in Item : i > made' => item'[i].st = "none"
          /\ job' \in [Item -> {"none", "active", "imported", "unmatched", "failed"}]
          /\ UNCHANGED <<session, item, discovery, unrecorded, handler>>
      BY DEF Typed, TypeOK, Fresh, PlanRead, table
    <2>7. \A i \in Item : r.draft[i].st = "none"
      BY <1>0, <2>4, Idle DEF Typed, OnePlan
    <2>8. Grows
      BY <2>6, SameGrows
    <2>9. /\ r.pc # "off" => planning' = "yes"
          /\ r.pc # "queue" => r.draft = NoRows
          /\ \A i \in Item : r.draft[i].st # "none" => i <= made' /\ item'[i].st = "none"
          /\ planning' \in {"yes", "no"} /\ UNCHANGED mishaps
      BY <1>0, <1>1, <2>4, <2>7
    <2> QED
      BY <1>0, <2>4, <2>5, <2>6, <2>8, <2>9, PlanTyped
  <1>2. CASE Finish(p) /\ (Mishap \/ UNCHANGED mishaps)
    BY <1>0, <1>2, FinishTyped DEF PlanRead, table
  <1> QED
    BY <1>1, <1>2 DEF PlanRead

\* The planner p goes to r with one row more in its draft.
Extended(r, p, st, kind) ==
    /\ planner' = [planner EXCEPT ![p] = r]
    /\ r.pc = "queue" /\ r.ctx = planner[p].ctx
    /\ r.slots = planner[p].slots - 1 /\ r.pos = planner[p].pos + 1
    /\ r.draft[made + 1] = [st |-> st, kind |-> kind, pos |-> planner[p].pos]
    /\ \A i \in Item : i # made + 1 => r.draft[i] = planner[p].draft[i]

LEMMA DraftRoom ==
  ASSUME Typed, NEW p \in Planner, PlanLocal(p) \/ QueueDiscovery(p)
  PROVE  /\ planner[p] \in PlannerState /\ planner[p].pc = "queue" /\ planner[p].slots > 0
         /\ made + 1 \in Item /\ made' = made + 1
         /\ \E st \in {"ready", "downloading"}, kind \in {"library", "discovery"} : Draft(p, st, kind)
  <1>1. PICK st \in {"ready", "downloading"}, kind \in {"library", "discovery"} : Draft(p, st, kind)
    BY DEF PlanLocal, QueueDiscovery
  <1>2. /\ planner[p] \in PlannerState /\ planner[p].pc = "queue" /\ planner[p].slots > 0
        /\ made' = made + 1 /\ made < MaxItems
    BY <1>1 DEF Draft, Typed, TypeOK
  <1>3. made + 1 \in Item
    BY <1>2, BoundAssumption DEF Typed, TypeOK, Item
  <1> QED
    BY <1>1, <1>2, <1>3

LEMMA DraftParts ==
  ASSUME Typed, NEW p \in Planner, NEW st \in Status, NEW kind \in {"library", "discovery"},
         Draft(p, st, kind)
  PROVE  \E r \in PlannerState : Extended(r, p, st, kind)
  <1>1. /\ planner[p] \in PlannerState /\ planner[p].pc = "queue" /\ planner[p].slots > 0
        /\ made' = made + 1 /\ made + 1 \in Item
        /\ planner \in [Planner -> PlannerState]
    BY BoundAssumption DEF Typed, TypeOK, Draft, Item
  <1>2. PICK row : row = [st |-> st, kind |-> kind, pos |-> planner[p].pos]
    OBVIOUS
  <1>3. row \in Row
    BY <1>1, <1>2 DEF Row, PlannerState
  <1>4. PICK d : d = [planner[p].draft EXCEPT ![made + 1] = row]
    OBVIOUS
  <1>5. d \in Rows /\ d[made + 1] = row /\ \A i \in Item : i # made + 1 => d[i] = planner[p].draft[i]
    BY <1>1, <1>3, <1>4 DEF Rows, PlannerState
  <1>6. PICK r : r = [planner[p] EXCEPT !.slots = planner[p].slots - 1, !.pos = planner[p].pos + 1,
                                        !.draft = d]
    OBVIOUS
  <1>7. planner[p].slots - 1 \in 0..Watermark /\ planner[p].pos + 1 \in Nat
    BY <1>1, WatermarkAssumption DEF PlannerState
  <1>8. /\ r \in PlannerState /\ r.pc = "queue" /\ r.ctx = planner[p].ctx
        /\ r.slots = planner[p].slots - 1 /\ r.pos = planner[p].pos + 1 /\ r.draft = d
    BY <1>1, <1>5, <1>6, <1>7 DEF PlannerState
  <1>9. planner' = [planner EXCEPT ![p].slots = @ - 1, ![p].pos = @ + 1, ![p].draft[made + 1] = row]
    BY <1>2 DEF Draft
  <1>10. planner' = [planner EXCEPT ![p] = r]
    BY <1>1, <1>4, <1>6, <1>9 DEF PlannerState, Rows
  <1> QED
    BY <1>2, <1>5, <1>8, <1>10 DEF Extended

LEMMA DraftTyped ==
  ASSUME Typed, NEW p \in Planner, PlanLocal(p) \/ QueueDiscovery(p)
  PROVE  Typed'
  <1>1. PICK st \in {"ready", "downloading"}, kind \in {"library", "discovery"} : Draft(p, st, kind)
    BY DEF PlanLocal, QueueDiscovery
  <1>2. st \in Status
    BY DEF Status
  <1>3. /\ planner[p] \in PlannerState /\ planner[p].pc = "queue"
        /\ made + 1 \in Item /\ made' = made + 1
    BY DraftRoom
  <1>4. PICK r \in PlannerState : Extended(r, p, st, kind)
    BY <1>1, <1>2, DraftParts
  <1>5. /\ UNCHANGED <<session, item, discovery, unrecorded, handler, planning, mishaps>>
        /\ job' \in [Item -> {"none", "active", "imported", "unmatched", "failed"}]
    BY <1>3 DEF PlanLocal, QueueDiscovery, table, Typed, TypeOK
  <1>6. planning' = "yes" /\ \A q \in Planner : q # p => planner[q].pc = "off"
    BY <1>3, <1>5, OnlyPlan
  <1>7. /\ item' \in Rows /\ made' \in 0..MaxItems /\ made <= made'
        /\ \A i \in Item : i > made' => item'[i].st = "none"
    BY <1>3, <1>5, BoundAssumption DEF Typed, TypeOK, Fresh, Item
  <1>8. \A i \in Item : r.draft[i].st # "none" => i <= made' /\ item'[i].st = "none"
    <2> SUFFICES ASSUME NEW i \in Item, r.draft[i].st # "none" PROVE i <= made' /\ item'[i].st = "none"
      OBVIOUS
    <2>1. made \in Nat /\ i \in Nat
      BY BoundAssumption DEF Typed, TypeOK, Item
    <2>2. CASE i = made + 1
      BY <1>3, <1>5, <2>1, <2>2 DEF Typed, Fresh
    <2>3. CASE i # made + 1
      <3>1. planner[p].draft[i].st # "none"
        BY <1>4, <2>3 DEF Extended
      <3> QED
        BY <1>3, <1>5, <2>1, <3>1 DEF Typed, Fresh
    <2> QED
      BY <2>2, <2>3
  <1>9. planner' = [planner EXCEPT ![p] = r] /\ r.pc = "queue"
    BY <1>4 DEF Extended
  <1> QED
    BY <1>9, <1>5, <1>6, <1>7, <1>8, SameGrows, PlanTyped

\* The rows of the table after AppendItems.
LEMMA Appended ==
  ASSUME Typed, NEW p \in Planner, planner[p].pc = "queue",
         item' = [i \in Item |-> IF i \in Made(planner[p].draft) THEN planner[p].draft[i] ELSE item[i]]
  PROVE  /\ item' \in Rows /\ Grows
         /\ \A i \in Made(planner[p].draft) :
               item'[i] = planner[p].draft[i] /\ item[i].st = "none" /\ i <= made
         /\ \A i \in Item : i \notin Made(planner[p].draft) => item'[i] = item[i]
  <1>1. item \in [Item -> Row] /\ planner[p].draft \in [Item -> Row]
    BY DEF Typed, TypeOK, PlannerState, Rows
  <1>2. /\ \A i \in Made(planner[p].draft) : item'[i] = planner[p].draft[i]
        /\ \A i \in Item : i \notin Made(planner[p].draft) => item'[i] = item[i]
    BY DEF Made
  <1>3. \A i \in Made(planner[p].draft) : item[i].st = "none" /\ i <= made
    BY DEF Typed, Fresh, Made
  <1>4. item' \in Rows
    BY <1>1 DEF Rows
  <1> QED
    BY <1>2, <1>3, <1>4 DEF Grows

LEMMA AppendTyped == ASSUME Typed, NEW p \in Planner, AppendItems(p) PROVE Typed'
  <1>0. planner[p].pc = "queue" /\ Finish(p) /\ UNCHANGED <<session, discovery, unrecorded, made, job, handler>>
    BY DEF AppendItems
  <1>1. CASE UNCHANGED item /\ (Mishap \/ UNCHANGED mishaps)
    BY <1>0, <1>1, FinishTyped
  <1>2. CASE /\ item' = [i \in Item |-> IF i \in Made(planner[p].draft)
                                        THEN planner[p].draft[i] ELSE item[i]]
             /\ UNCHANGED mishaps
    <2>1. PICK r : r = NoPlan
      OBVIOUS
    <2>2. r \in PlannerState /\ r.pc = "off" /\ r.draft = NoRows /\ \A i \in Item : r.draft[i].st = "none"
      BY <2>1, Idle
    <2>3. planner' = [planner EXCEPT ![p] = r] /\ planning' = "no"
      BY <1>0, <2>1 DEF Finish
    <2>4. \A q \in Planner : q # p => planner[q].pc = "off"
      BY <1>0, OnlyPlan
    <2>5. /\ item' \in Rows /\ Grows
          /\ \A i \in Made(planner[p].draft) : i <= made
          /\ \A i \in Item : i \notin Made(planner[p].draft) => item'[i] = item[i]
      BY <1>0, <1>2, Appended
    <2>6. /\ made' \in 0..MaxItems /\ made <= made'
          /\ job' \in [Item -> {"none", "active", "imported", "unmatched", "failed"}]
      BY <1>0, BoundAssumption DEF Typed, TypeOK
    <2>7. \A i \in Item : i > made' => item'[i].st = "none"
      BY <1>0, <2>5, BoundAssumption DEF Typed, TypeOK, Fresh, Item
    <2> QED
      BY <1>0, <1>2, <2>2, <2>3, <2>4, <2>5, <2>6, <2>7, PlanTyped
  <1> QED
    BY <1>1, <1>2 DEF AppendItems

-----------------------------------------------------------------------------
(* Scheduling, and the surroundings *)

LEMMA ScheduleParts ==
  ASSUME Typed, NEW h \in Handler, SchedulePlan(h)
  PROVE  /\ Return(h) /\ UNCHANGED <<table, made, job>> /\ handler[h].pc = "check"
         /\ Mishap \/ UNCHANGED mishaps
         /\ \/ UNCHANGED <<planner, planning>>
            \/ /\ planning = "no" /\ planning' = "yes"
               /\ \E r \in PlannerState : \E p :
                     /\ planner' = [planner EXCEPT ![p] = r]
                     /\ r.pc = "read" /\ r.draft = NoRows
  <1>1. /\ Return(h) /\ UNCHANGED <<table, made, job>> /\ handler[h].pc = "check"
        /\ Mishap \/ UNCHANGED mishaps
    BY DEF SchedulePlan
  <1>2. ASSUME NEW q \in Queues, NEW c, c = Known(q, handler[h].rows), planning = "no", NEW p,
               planner' = [planner EXCEPT ![p] = [NoPlan EXCEPT !.pc = "read", !.ctx = c]],
               planning' = "yes"
        PROVE  \E r \in PlannerState : \E k :
                     /\ planner' = [planner EXCEPT ![k] = r]
                     /\ r.pc = "read" /\ r.draft = NoRows
    <2>1. c \in Context
      BY <1>2, KnownContext DEF Typed, TypeOK, HandlerState
    <2>2. PICK r : r = [NoPlan EXCEPT !.pc = "read", !.ctx = c]
      OBVIOUS
    <2>3. r \in PlannerState /\ r.pc = "read" /\ r.draft = NoRows
      BY <2>1, <2>2, Idle DEF PlannerState
    <2> QED
      BY <1>2, <2>2, <2>3
  <1> QED
    BY <1>1, <1>2 DEF SchedulePlan

LEMMA ScheduleTyped == ASSUME Typed, NEW h \in Handler, SchedulePlan(h) PROVE Typed'
  <1>1. /\ Return(h) /\ UNCHANGED <<session, item, discovery, unrecorded, made, job>>
        /\ Mishap \/ UNCHANGED mishaps
    BY ScheduleParts DEF table
  <1>2. CASE UNCHANGED <<planner, planning>>
    BY <1>1, <1>2, ReturnTyped
  <1>3. ASSUME planning = "no", planning' = "yes", NEW r \in PlannerState, NEW p,
               planner' = [planner EXCEPT ![p] = r], r.pc = "read", r.draft = NoRows
        PROVE  Typed'
    <2>1. planner \in [Planner -> PlannerState] /\ \A q \in Planner : planner[q].pc = "off"
      BY <1>3 DEF Typed, TypeOK, OnePlan
    <2>2. /\ planner' \in [Planner -> PlannerState]
          /\ \A q \in Planner : planner'[q] = IF q = p THEN r ELSE planner[q]
      BY <1>3, <2>1
    <2>3. OnePlan'
      BY <1>3, <2>1, <2>2 DEF Typed, OnePlan
    <2>4. \A q \in Planner : planner'[q].draft = NoRows
      BY <1>3, <2>1, <2>2 DEF Typed, OnePlan
    <2>5. Fresh'
      BY <1>1, <2>4, Idle DEF Typed, Fresh
    <2>6. PICK e : e = NoRequest
      OBVIOUS
    <2>7. e \in HandlerState /\ Copied(e) /\ handler' = [handler EXCEPT ![h] = e]
      BY <1>1, <2>6, Requests, Idle DEF Return
    <2>8. Grows /\ Copied(e)'
      BY <1>1, <2>7, SameGrows, CopyKept
    <2>9. handler' \in [Handler -> HandlerState] /\ \A g \in Handler : Copied(handler[g])'
      BY <2>7, <2>8, RequestMoves
    <2>10. TypeOK'
      BY <1>1, <1>3, <2>2, <2>9, MishapTyped DEF Typed, TypeOK
    <2> QED
      BY <2>3, <2>5, <2>9, <2>10 DEF Typed
  <1> QED
    BY <1>2, <1>3, ScheduleParts

\* Steps of the surroundings.
LEMMA OutsideTyped ==
  ASSUME Typed, Rewritten, item' \in Rows, session' \in Session,
         job' \in [Item -> {"none", "active", "imported", "unmatched", "failed"}],
         Mishap \/ UNCHANGED mishaps,
         UNCHANGED <<discovery, unrecorded, made, planning, planner, handler>>
  PROVE  Typed'
  <1>1. TypeOK'
    BY MishapTyped DEF Typed, TypeOK
  <1>2. OnePlan' /\ Fresh'
    BY DEF Typed, OnePlan, Fresh, Rewritten
  <1>3. \A h \in Handler : Copied(handler[h])'
    BY CopiesKept DEF Rewritten
  <1> QED
    BY <1>1, <1>2, <1>3 DEF Typed

LEMMA FeedbackParts ==
  ASSUME Typed, NEW i \in Item, Feedback(i)
  PROVE  /\ item' \in Rows /\ Rewritten /\ item'[i].st = "played" /\ item[i].st # "none"
         /\ \A k \in Item : k # i => item'[k] = item[k]
         /\ UNCHANGED <<session, discovery, unrecorded, made, job, planning, planner, handler, mishaps>>
  <1>1. item \in [Item -> Row] /\ item[i] \in Row /\ item[i].st # "none"
    BY DEF Typed, TypeOK, Rows, Feedback
  <1>2. PICK row : row = [item[i] EXCEPT !.st = "played"]
    OBVIOUS
  <1>3. row \in Row /\ row.st = "played" /\ row.pos = item[i].pos /\ row.kind = item[i].kind
    BY <1>1, <1>2 DEF Row, Status
  <1>4. item' = [item EXCEPT ![i] = row]
    BY <1>2 DEF Feedback
  <1>5. item' \in Rows /\ item'[i] = row /\ \A k \in Item : k # i => item'[k] = item[k]
    BY <1>1, <1>3, <1>4 DEF Rows
  <1> QED
    BY <1>1, <1>3, <1>5 DEF Feedback, Rewritten, Grows

LEMMA CrashTyped == ASSUME Typed, Crash PROVE Typed'
  <1>1. /\ \A p \in Planner : planner'[p] = NoPlan
        /\ \A h \in Handler : handler'[h] = NoRequest
        /\ UNCHANGED <<session, item, discovery, made, job>> /\ Mishap
    BY DEF Crash
  <1>2. unrecorded' \subseteq Item /\ planning' = "no"
    BY DEF Crash, Typed, TypeOK
  <1>3. planner' \in [Planner -> PlannerState] /\ handler' \in [Handler -> HandlerState]
    BY Idle DEF Crash
  <1>4. TypeOK'
    BY <1>1, <1>2, <1>3, MishapTyped DEF Typed, TypeOK
  <1>5. OnePlan' /\ Fresh'
    BY <1>1, Idle DEF Typed, OnePlan, Fresh
  <1>6. \A h \in Handler : Copied(handler[h])'
    <2> SUFFICES ASSUME NEW h \in Handler PROVE Copied(handler[h])'
      OBVIOUS
    <2>1. PICK r : r = handler'[h]
      OBVIOUS
    <2>2. r.pc = "idle" /\ r.todo = {} /\ r.rows = NoRows
      BY <1>1, <2>1, Idle
    <2> QED
      BY <2>1, <2>2, Idle DEF Copied
  <1> QED
    BY <1>4, <1>5, <1>6 DEF Typed

LEMMA JobEndsTyped == ASSUME Typed, NEW i \in Item, JobEnds(i) PROVE Typed'
  <1>1. /\ UNCHANGED <<session, item, discovery, unrecorded, made, planning, planner, handler, mishaps>>
        /\ job' \in [Item -> {"none", "active", "imported", "unmatched", "failed"}]
    BY DEF JobEnds, table, Typed, TypeOK
  <1>2. Rewritten /\ item' \in Rows /\ session' \in Session
    BY <1>1, SameGrows DEF Rewritten, Typed, TypeOK
  <1> QED
    BY <1>1, <1>2, OutsideTyped

LEMMA EndTyped == ASSUME Typed, EndActiveSessions PROVE Typed'
  <1>1. /\ UNCHANGED <<item, discovery, unrecorded, made, job, planning, planner, handler>> /\ Mishap
        /\ session' = "ended"
    BY DEF EndActiveSessions
  <1>2. Rewritten /\ item' \in Rows /\ session' \in Session
    BY <1>1, SameGrows DEF Rewritten, Typed, TypeOK, Session
  <1>3. job' \in [Item -> {"none", "active", "imported", "unmatched", "failed"}]
    BY <1>1 DEF Typed, TypeOK
  <1> QED
    BY <1>1, <1>2, <1>3, OutsideTyped

LEMMA FeedbackTyped == ASSUME Typed, NEW i \in Item, Feedback(i) PROVE Typed'
  <1>1. job' \in [Item -> {"none", "active", "imported", "unmatched", "failed"}] /\ session' \in Session
    BY FeedbackParts DEF Typed, TypeOK
  <1> QED
    BY <1>1, FeedbackParts, OutsideTyped

LEMMA StutterTyped == ASSUME Typed, UNCHANGED vars PROVE Typed'
  <1>1. UNCHANGED <<session, item, made, job, discovery, planning, planner, handler, mishaps, unrecorded>>
    BY DEF vars
  <1>2. Rewritten /\ item' \in Rows /\ session' \in Session
        /\ job' \in [Item -> {"none", "active", "imported", "unmatched", "failed"}]
    BY <1>1, SameGrows DEF Rewritten, Typed, TypeOK
  <1> QED
    BY <1>1, <1>2, OutsideTyped

LEMMA TypedStep == ASSUME Typed, Positions, [Next]_vars PROVE Typed'
  <1>1. ASSUME NEW h \in Handler, HandlerStep(h) PROVE Typed'
    BY <1>1, CreateTyped, ReadTyped, UpdateTyped, GetTyped, CheckTyped, UpsertTyped, ScheduleTyped
    DEF HandlerStep
  <1>2. ASSUME NEW p \in Planner, PlanStep(p) PROVE Typed'
    BY <1>2, PlanReadTyped, DraftTyped, AppendTyped DEF PlanStep
  <1> QED
    BY <1>1, <1>2, JobEndsTyped, FeedbackTyped, EndTyped, CrashTyped, StutterTyped DEF Next

-----------------------------------------------------------------------------
(* The steps, as the table and the plans see them *)

\* Nothing is made or drafted, and no download begins.
Calm ==
    /\ Rewritten /\ UNCHANGED made
    /\ \A i \in Item : item'[i].st = "downloading" => item[i].st = "downloading"
    /\ \A p \in Planner : planner'[p] = planner[p] \/ planner'[p].pc # "queue"

\* A plan begins.
Begins(p) ==
    /\ planner[p].pc = "read" /\ Room(p) > 0 /\ UNCHANGED <<item, made>>
    /\ planner' = [planner EXCEPT ![p].pc = "queue", ![p].slots = Room(p), ![p].pos = NextPosition(item)]

\* A plan is stored.
Stored(p) ==
    /\ planner[p].pc = "queue" /\ Finish(p) /\ UNCHANGED made
    /\ item' = [i \in Item |-> IF i \in Made(planner[p].draft) THEN planner[p].draft[i] ELSE item[i]]

LEMMA SameCalm ==
  ASSUME UNCHANGED <<item, made>>,
         \A p \in Planner : planner'[p] = planner[p] \/ planner'[p].pc # "queue"
  PROVE  Calm
  BY SameGrows DEF Calm, Rewritten

LEMMA FinishCalm ==
  ASSUME Typed, NEW p \in Planner, Finish(p), UNCHANGED <<item, made>>
  PROVE  Calm
  <1>1. \A q \in Planner : planner'[q] = IF q = p THEN NoPlan ELSE planner[q]
    BY DEF Finish, Typed, TypeOK
  <1> QED
    BY <1>1, Idle, SameCalm

LEMMA ScheduleCalm == ASSUME Typed, NEW h \in Handler, SchedulePlan(h) PROVE Calm
  <1>1. UNCHANGED <<item, made>>
    BY ScheduleParts DEF table
  <1>2. CASE UNCHANGED planner
    BY <1>1, <1>2, SameCalm
  <1>3. ASSUME NEW r \in PlannerState, NEW p, planner' = [planner EXCEPT ![p] = r], r.pc = "read"
        PROVE  Calm
    <2>1. \A q \in Planner : planner'[q] = IF q = p THEN r ELSE planner[q]
      BY <1>3 DEF Typed, TypeOK
    <2> QED
      BY <1>1, <1>3, <2>1, SameCalm
  <1> QED
    BY <1>2, <1>3, ScheduleParts

LEMMA HandlerCalm == ASSUME Typed, NEW h \in Handler, HandlerStep(h) PROVE Calm
  <1>1. CASE Create(h) \/ ReadSession(h) \/ UpdateSession(h) \/ GetItems(h)
    BY <1>1, SameCalm DEF Create, ReadSession, UpdateSession, GetItems, table
  <1>2. ASSUME NEW i \in Item, CheckItem(h, i) PROVE Calm
    BY <1>2, CheckTyped, CheckParts DEF Calm
  <1>3. ASSUME NEW i \in Item, UpsertDiscovery(h, i) PROVE Calm
    BY <1>3, SameCalm DEF UpsertDiscovery
  <1> QED
    BY <1>1, <1>2, <1>3, ScheduleCalm DEF HandlerStep

LEMMA Steps ==
  ASSUME Typed, [Next]_vars
  PROVE  \/ Calm
         \/ \E p \in Planner : Begins(p) \/ PlanLocal(p) \/ QueueDiscovery(p) \/ Stored(p)
  <1>1. ASSUME NEW p \in Planner, PlanRead(p) PROVE Begins(p) \/ Calm
    BY <1>1, FinishCalm DEF PlanRead, Begins, table
  <1>2. ASSUME NEW p \in Planner, AppendItems(p) PROVE Stored(p) \/ Calm
    BY <1>2, FinishCalm DEF AppendItems, Stored
  <1>3. ASSUME NEW i \in Item, JobEnds(i) PROVE Calm
    BY <1>3, SameCalm DEF JobEnds, table
  <1>4. ASSUME NEW i \in Item, Feedback(i) PROVE Calm
    BY <1>4, FeedbackParts DEF Calm
  <1>5. CASE EndActiveSessions
    BY <1>5, SameCalm DEF EndActiveSessions
  <1>6. CASE Crash
    BY <1>6, SameCalm, Idle DEF Crash
  <1>7. CASE UNCHANGED vars
    BY <1>7, SameCalm DEF vars
  <1> QED
    BY <1>1, <1>2, <1>3, <1>4, <1>5, <1>6, <1>7, HandlerCalm DEF Next, PlanStep

-----------------------------------------------------------------------------
(* Positions *)

LEMMA PositionsInit == Init => Positions
  <1> SUFFICES ASSUME Init PROVE Positions
    OBVIOUS
  <1>1. Made(item) = {} /\ made = 0
    BY Idle DEF Init, Made
  <1>2. Behind(1) /\ 1 \in 1..MaxItems + 1
    BY <1>1, BoundAssumption DEF Behind
  <1>3. \A p \in Planner : Ahead(p)
    BY Idle DEF Init, Ahead
  <1> QED
    BY <1>2, <1>3 DEF Positions

\* The rows are where they were.
LEMMA RowsStay ==
  ASSUME Rewritten
  PROVE  Made(item)' = Made(item) /\ \A i \in Made(item) : item'[i].pos = item[i].pos
  BY DEF Rewritten, Grows, Made

LEMMA CalmPositions == ASSUME Typed, Positions, Calm PROVE Positions'
  <1>1. Made(item)' = Made(item) /\ \A i \in Made(item) : item'[i].pos = item[i].pos
    BY RowsStay DEF Calm
  <1>2. PICK n \in 1..MaxItems + 1 : Behind(n)
    BY DEF Positions
  <1>3. Behind(n)'
    BY <1>1, <1>2 DEF Behind, Calm
  <1>4. ASSUME NEW p \in Planner PROVE Ahead(p)'
    <2>1. CASE planner'[p] = planner[p]
      BY <1>1, <2>1 DEF Calm, Positions, Ahead, Made
    <2>2. CASE planner'[p].pc # "queue"
      BY <2>2 DEF Ahead
    <2> QED
      BY <2>1, <2>2 DEF Calm
  <1> QED
    BY <1>2, <1>3, <1>4 DEF Positions

\* The other planners are off, and stay so.
LEMMA OthersAhead ==
  ASSUME Typed, NEW p \in Planner, planner[p].pc # "off", NEW r, planner' = [planner EXCEPT ![p] = r]
  PROVE  /\ planner'[p] = r
         /\ \A q \in Planner : q # p =>
               Ahead(q)' /\ planner'[q] = planner[q] /\ planner'[q].pc = "off" /\ planner'[q].draft = NoRows
  <1>1. \A q \in Planner : planner'[q] = IF q = p THEN r ELSE planner[q]
    BY DEF Typed, TypeOK
  <1> QED
    BY <1>1, OnlyPlan DEF Ahead

LEMMA BeginsParts ==
  ASSUME Typed, Positions, NEW p \in Planner, Begins(p)
  PROVE  /\ planner'[p].pc = "queue" /\ planner'[p].slots = Room(p)
         /\ planner'[p].pos = NextPosition(item)
         /\ planner'[p].draft = NoRows
         /\ \A q \in Planner : q # p => planner'[q] = planner[q] /\ planner'[q].pc = "off"
         /\ UNCHANGED <<item, made>>
  <1>0. planner[p] \in PlannerState /\ planner[p].pc = "read" /\ planner[p].draft = NoRows
    BY DEF Typed, TypeOK, OnePlan, Begins
  <1>1. PICK r : r = [planner[p] EXCEPT !.pc = "queue", !.slots = Room(p), !.pos = NextPosition(item)]
    OBVIOUS
  <1>2. /\ r.pc = "queue" /\ r.slots = Room(p) /\ r.pos = NextPosition(item) /\ r.draft = NoRows
    BY <1>0, <1>1 DEF PlannerState
  <1>3. planner' = [planner EXCEPT ![p] = r]
    BY <1>0, <1>1 DEF Begins, Typed, TypeOK, PlannerState
  <1>4. /\ planner'[p] = r
        /\ \A q \in Planner : q # p => planner'[q] = planner[q] /\ planner'[q].pc = "off"
    BY <1>0, <1>3, OthersAhead
  <1> QED
    BY <1>2, <1>4 DEF Begins

LEMMA BeginsPositions == ASSUME Typed, Positions, NEW p \in Planner, Begins(p) PROVE Positions'
  <1>1. /\ planner'[p].pos = NextPosition(item) /\ planner'[p].draft = NoRows
        /\ \A q \in Planner : q # p => planner'[q].pc = "off"
        /\ UNCHANGED <<item, made>>
    BY BeginsParts
  <1>2. PICK n \in 1..MaxItems + 1 : Behind(n)
    BY DEF Positions
  <1>3. Behind(n)'
    BY <1>1, <1>2 DEF Behind
  <1>4. PICK m : m = NextPosition(item)
    OBVIOUS
  <1>5. /\ m \in 1..made + 1
        /\ \A i \in Made(item) : item[i].pos < m
        /\ m = 1 \/ \E i \in Made(item) : item[i].pos = m - 1
    BY <1>4, FirstPosition
  <1>6. Made(NoRows) = {}
    BY Idle DEF Made
  <1>7. Ahead(p)'
    BY <1>1, <1>4, <1>5, <1>6 DEF Ahead
  <1>8. \A q \in Planner : q # p => Ahead(q)'
    BY <1>1 DEF Ahead
  <1> QED
    BY <1>2, <1>3, <1>7, <1>8 DEF Positions

LEMMA DraftPositions ==
  ASSUME Typed, Positions, NEW p \in Planner, PlanLocal(p) \/ QueueDiscovery(p)
  PROVE  Positions'
  <1>1. /\ planner[p] \in PlannerState /\ planner[p].pc = "queue"
        /\ made + 1 \in Item /\ made' = made + 1 /\ made \in Nat
    BY DraftRoom DEF Typed, TypeOK
  <1>2. PICK st \in {"ready", "downloading"}, kind \in {"library", "discovery"} : Draft(p, st, kind)
    BY DraftRoom
  <1>3. PICK r \in PlannerState : Extended(r, p, st, kind)
    BY <1>2, DraftParts DEF Status
  <1>4. UNCHANGED item
    BY DEF PlanLocal, QueueDiscovery, table
  <1>5. PICK m \in 1..MaxItems + 1 : Behind(m)
    BY DEF Positions
  <1>6. Behind(m)'
    BY <1>1, <1>4, <1>5 DEF Behind
  <1>7. planner'[p] = r /\ \A q \in Planner : q # p => Ahead(q)'
    BY <1>1, <1>3, OthersAhead DEF Extended
  <1>8. PICK d, n : d = planner[p].draft /\ n = planner[p].pos
    OBVIOUS
  <1>9. /\ n \in 1..made + 1
        /\ \A i \in Made(item) : item[i].pos < n
        /\ \A i \in Made(d) : d[i].pos < n /\ \A k \in Made(item) : item[k].pos < d[i].pos
    BY <1>1, <1>8 DEF Positions, Ahead
  <1>10. PICK row : row = [st |-> st, kind |-> kind, pos |-> n]
    OBVIOUS
  <1>11. /\ r.draft[made + 1] = row /\ row.pos = n /\ row.st # "none" /\ r.pos = n + 1
         /\ \A i \in Item : i # made + 1 => r.draft[i] = d[i]
    BY <1>3, <1>8, <1>10 DEF Extended
  <1>12. made + 1 \in Made(r.draft) /\ \A i \in Made(r.draft) : i = made + 1 \/ (i \in Made(d) /\ r.draft[i] = d[i])
    BY <1>1, <1>11 DEF Made
  <1>13. item \in [Item -> Row] /\ d \in [Item -> Row]
    BY <1>1, <1>8 DEF Typed, TypeOK, PlannerState, Rows
  <1>14. (\A i \in Item : item[i].pos \in Nat /\ d[i].pos \in Nat) /\ n \in Nat
    BY <1>1, <1>9, <1>13 DEF Row
  <1>15. \A i \in Made(item) : item[i].pos < n + 1
    BY <1>9, <1>14 DEF Made
  <1>16. ASSUME NEW i \in Made(r.draft)
         PROVE  r.draft[i].pos < n + 1 /\ \A k \in Made(item) : item[k].pos < r.draft[i].pos
    <2>1. CASE i = made + 1
      BY <1>9, <1>11, <1>14, <2>1
    <2>2. CASE i \in Made(d) /\ r.draft[i] = d[i]
      BY <1>9, <1>14, <2>2 DEF Made
    <2> QED
      BY <1>12, <2>1, <2>2
  <1>17. n + 1 \in 1..made' + 1 /\ \E i \in Made(r.draft) : r.draft[i].pos = (n + 1) - 1
    BY <1>1, <1>9, <1>11, <1>12
  <1>18. Ahead(p)'
    BY <1>4, <1>7, <1>11, <1>15, <1>16, <1>17 DEF Ahead
  <1> QED
    BY <1>5, <1>6, <1>7, <1>18 DEF Positions

LEMMA StoredParts ==
  ASSUME Typed, NEW p \in Planner, Stored(p)
  PROVE  /\ planner[p] \in PlannerState /\ planner[p].pc = "queue" /\ UNCHANGED made
         /\ \A q \in Planner : planner'[q].pc = "off" /\ planner'[q].draft = NoRows
         /\ Grows
         /\ \A i \in Made(planner[p].draft) :
               item'[i] = planner[p].draft[i] /\ item[i].st = "none"
         /\ \A i \in Item : i \notin Made(planner[p].draft) => item'[i] = item[i]
  <1>1. planner[p] \in PlannerState /\ planner[p].pc = "queue" /\ UNCHANGED made
    BY DEF Stored, Typed, TypeOK
  <1>2. \A q \in Planner : planner'[q] = IF q = p THEN NoPlan ELSE planner[q]
    BY DEF Stored, Finish, Typed, TypeOK
  <1>3. \A q \in Planner : planner'[q].pc = "off" /\ planner'[q].draft = NoRows
    BY <1>1, <1>2, Idle, OnlyPlan
  <1> QED
    BY <1>1, <1>3, Appended DEF Stored

LEMMA StoredPositions == ASSUME Typed, Positions, NEW p \in Planner, Stored(p) PROVE Positions'
  <1>1. PICK d, n : d = planner[p].draft /\ n = planner[p].pos
    OBVIOUS
  <1>2. /\ planner[p].pc = "queue" /\ UNCHANGED made
        /\ \A q \in Planner : planner'[q].pc = "off"
        /\ \A i \in Made(d) : item'[i] = d[i] /\ item[i].st = "none"
        /\ \A i \in Item : i \notin Made(d) => item'[i] = item[i]
    BY <1>1, StoredParts
  <1>3. /\ n \in 1..made + 1
        /\ \A i \in Made(item) : item[i].pos < n
        /\ \A i \in Made(d) : d[i].pos < n
        /\ \/ n = 1
           \/ \E i \in Made(item) : item[i].pos = n - 1
           \/ \E i \in Made(d) : d[i].pos = n - 1
    BY <1>1, <1>2 DEF Positions, Ahead
  <1>4. \A i \in Made(item)' : (i \in Made(d) /\ item'[i] = d[i]) \/ (i \in Made(item) /\ item'[i] = item[i])
    BY <1>2 DEF Made
  <1>5. /\ \A i \in Made(item) : i \in Made(item)' /\ item'[i] = item[i]
        /\ \A i \in Made(d) : i \in Made(item)' /\ item'[i] = d[i]
    BY <1>2 DEF Made
  <1>6. \A i \in Made(item)' : item'[i].pos < n
    BY <1>3, <1>4
  <1>7. n = 1 \/ \E i \in Made(item)' : item'[i].pos = n - 1
    BY <1>3, <1>5
  <1>8. Behind(n)'
    BY <1>2, <1>3, <1>6, <1>7 DEF Behind
  <1>9. n \in 1..MaxItems + 1
    BY <1>3, BoundAssumption DEF Typed, TypeOK
  <1>10. \A q \in Planner : Ahead(q)'
    BY <1>2 DEF Ahead
  <1> QED
    BY <1>8, <1>9, <1>10 DEF Positions

\* Type correctness, that each row has one owner, and that plans are behind the
\* queue they were read from.
THEOREM SessionTyped == Spec => [](Typed /\ Positions)
  <1>1. Init => Typed /\ Positions
    BY TypedInit, PositionsInit
  <1>2. Typed /\ Positions /\ [Next]_vars => (Typed /\ Positions)'
    <2> SUFFICES ASSUME Typed, Positions, [Next]_vars PROVE Typed' /\ Positions'
      OBVIOUS
    <2>1. Typed'
      BY TypedStep
    <2>2. Positions'
      BY Steps, CalmPositions, BeginsPositions, DraftPositions, StoredPositions
    <2> QED
      BY <2>1, <2>2
  <1> QED
    BY <1>1, <1>2, PTL DEF Spec

\* Whatever Refills overlap, AppendItems never meets a position that is taken:
\* one plan is made at a time, and it starts behind the rows it has read.
THEOREM AppendsNeverCollide == Spec => []AppendNeverCollides
  <1>1. Typed /\ Positions => AppendNeverCollides
    <2> SUFFICES ASSUME Typed, Positions, NEW p \in Planner PROVE ~Collides(p)
      BY DEF AppendNeverCollides
    <2>1. CASE planner[p].pc = "queue"
      <3>1. \A i \in Made(planner[p].draft), k \in Made(item) : item[k].pos < planner[p].draft[i].pos
        BY <2>1 DEF Positions, Ahead
      <3>2. \A i \in Item : item[i].pos \in Nat
        BY DEF Typed, TypeOK, Rows, Row
      <3> QED
        BY <3>1, <3>2 DEF Collides, Made
    <2>2. CASE planner[p].pc # "queue"
      BY <2>2, Idle DEF Typed, OnePlan, Collides, Made
    <2> QED
      BY <2>1, <2>2
  <1> QED
    BY <1>1, SessionTyped, PTL

-----------------------------------------------------------------------------
(* Discoveries that can be played *)

Shown(i) == item[i].kind = "discovery" /\ item[i].st \in {"ready", "played"}
Noted(i) == i \in discovery \cup unrecorded \/ \E h \in Handler : Recording(h, i)

LEMMA RecordedMeans == DiscoveryRecorded <=> \A i \in Item : Shown(i) => Noted(i)
  BY DEF DiscoveryRecorded, Shown, Noted

\* A record is lost with no request that has none in hand.
LEMMA NotedKept ==
  ASSUME NEW i, Noted(i), discovery \subseteq discovery', unrecorded \subseteq unrecorded',
         \A h \in Handler : handler'[h] = handler[h] \/ handler[h].pc # "upsert"
  PROVE  Noted(i)'
  BY DEF Noted, Recording

\* Steps that show nothing new, of requests that record nothing.
LEMMA ShownKept ==
  ASSUME DiscoveryRecorded, discovery \subseteq discovery', unrecorded \subseteq unrecorded',
         \A i \in Item : Shown(i)' => Shown(i),
         \A h \in Handler : handler'[h] = handler[h] \/ handler[h].pc # "upsert"
  PROVE  DiscoveryRecorded'
  <1> SUFFICES ASSUME NEW i \in Item, Shown(i)' PROVE Noted(i)'
    BY DEF DiscoveryRecorded, Shown, Noted
  <1>1. Noted(i)
    BY RecordedMeans
  <1> QED
    BY <1>1, NotedKept

\* Requests with nothing in hand to record.
LEMMA RequestMovesOn ==
  ASSUME Typed, NEW h \in Handler, Create(h) \/ ReadSession(h) \/ UpdateSession(h) \/ GetItems(h) \/ SchedulePlan(h)
  PROVE  /\ UNCHANGED <<item, discovery, unrecorded>>
         /\ \A g \in Handler : handler'[g] = handler[g] \/ handler[g].pc # "upsert"
  <1>1. UNCHANGED <<item, discovery, unrecorded>> /\ handler[h].pc # "upsert"
    BY DEF Create, ReadSession, UpdateSession, GetItems, SchedulePlan, table
  <1>2. \A g \in Handler : g # h => handler'[g] = handler[g]
    BY DEF Create, ReadSession, UpdateSession, GetItems, SchedulePlan, Goto, Return, Typed, TypeOK
  <1> QED
    BY <1>1, <1>2

LEMMA CheckRecorded ==
  ASSUME Typed, Recorded, NEW h \in Handler, NEW i \in Item, CheckItem(h, i)
  PROVE  DiscoveryRecorded'
  <1>1. /\ handler[h].pc = "check" /\ i \in handler[h].todo
        /\ UNCHANGED <<discovery, unrecorded>>
    BY CheckParts
  <1>2. \A g \in Handler : g # h => handler'[g] = handler[g]
    BY CheckParts DEF Skip, Return, Typed, TypeOK
  <1>3. \A g \in Handler : handler'[g] = handler[g] \/ handler[g].pc # "upsert"
    BY <1>1, <1>2
  <1>4. CASE UNCHANGED item
    BY <1>1, <1>3, <1>4, ShownKept DEF Shown, Recorded
  <1>5. ASSUME NEW st \in {"ready", "failed"}, item' = [item EXCEPT ![i] = NewRow(h, i, st)],
               handler' = [handler EXCEPT ![h] = Settled(h, i, st)]
        PROVE  DiscoveryRecorded'
    <2>1. PICK r : r = Settled(h, i, st)
      OBVIOUS
    <2>2. IsSettled(r, h, i, st)
      BY <2>1, SettledFields DEF Typed, Status
    <2>3. handler'[h] = r /\ \A k \in Item : item'[k] = IF k = i THEN r.rows[i] ELSE item[k]
      BY <1>5, <2>1, <2>2 DEF Typed, TypeOK, Rows, IsSettled
    <2>4. ASSUME NEW k \in Item, Shown(k)' PROVE Noted(k)'
      <3>1. CASE k # i
        <4>1. Shown(k)
          BY <2>3, <2>4, <3>1 DEF Shown
        <4> QED
          BY <1>1, <1>3, <4>1, RecordedMeans, NotedKept DEF Recorded
      <3>2. CASE k = i
        <4>1. st = "ready"
          BY <2>2, <2>3, <2>4, <3>2 DEF Shown, IsSettled
        <4>2. r.pc = "upsert" /\ r.todo = handler[h].todo /\ r.rows[i].st = "ready"
          BY <2>2, <4>1 DEF IsSettled
        <4>3. Recording(h, i)'
          BY <1>1, <2>3, <4>2 DEF Recording
        <4> QED
          BY <3>2, <4>3 DEF Noted
      <3> QED
        BY <3>1, <3>2
    <2> QED
      BY <2>4 DEF DiscoveryRecorded, Shown, Noted
  <1> QED
    BY <1>4, <1>5, CheckParts

LEMMA UpsertRecorded ==
  ASSUME Typed, Recorded, NEW h \in Handler, NEW i \in Item, UpsertDiscovery(h, i)
  PROVE  DiscoveryRecorded'
  <1>1. Recording(h, i) /\ UNCHANGED item /\ i \in discovery' \cup unrecorded'
        /\ discovery \subseteq discovery' /\ unrecorded \subseteq unrecorded'
    BY DEF UpsertDiscovery
  <1>2. \A g \in Handler : g # h => handler'[g] = handler[g]
    BY DEF UpsertDiscovery, Typed, TypeOK
  <1>3. \A k \in Item : Recording(h, k) => k = i
    BY <1>1 DEF Recording, Typed, Copied
  <1> SUFFICES ASSUME NEW k \in Item, Shown(k)' PROVE Noted(k)'
    BY DEF DiscoveryRecorded, Shown, Noted
  <1>4. Noted(k)
    BY <1>1, RecordedMeans DEF Shown, Recorded
  <1> QED
    BY <1>1, <1>2, <1>3, <1>4 DEF Noted, Recording

LEMMA StoredRecorded ==
  ASSUME Typed, Recorded, NEW p \in Planner, Stored(p), UNCHANGED <<discovery, unrecorded, handler>>
  PROVE  DiscoveryRecorded'
  <1>1. /\ \A i \in Made(planner[p].draft) : item'[i] = planner[p].draft[i] /\ item[i].st = "none"
        /\ \A i \in Item : i \notin Made(planner[p].draft) => item'[i] = item[i]
    BY StoredParts
  <1>2. ASSUME NEW i \in Item, Shown(i)' PROVE Shown(i)
    <2>1. CASE i \in Made(planner[p].draft)
      BY <1>1, <1>2, <2>1 DEF Shown, Recorded, DraftedDownload, Made
    <2>2. CASE i \notin Made(planner[p].draft)
      BY <1>1, <1>2, <2>2 DEF Shown
    <2> QED
      BY <2>1, <2>2
  <1> QED
    BY <1>2, ShownKept DEF Recorded

LEMMA CrashRecorded == ASSUME Recorded, Crash PROVE DiscoveryRecorded'
  <1> SUFFICES ASSUME NEW i \in Item, Shown(i)' PROVE Noted(i)'
    BY DEF DiscoveryRecorded, Shown, Noted
  <1>1. Shown(i)
    BY DEF Crash, Shown
  <1>2. Noted(i)
    BY <1>1, RecordedMeans DEF Recorded
  <1> QED
    BY <1>2 DEF Crash, Noted

\* The draft of a plan.
LEMMA DraftsKept == ASSUME Typed, Positions, Typed', DraftedDownload, [Next]_vars PROVE DraftedDownload'
  <1>0. \A p \in Planner : planner'[p].pc # "queue" => planner'[p].draft = NoRows
    BY DEF Typed, OnePlan
  <1>1. CASE Calm
    BY <1>0, <1>1, Idle DEF Calm, DraftedDownload
  <1>2. ASSUME NEW p \in Planner, Begins(p) PROVE DraftedDownload'
    BY <1>2, <1>0, BeginsParts, Idle DEF DraftedDownload
  <1>3. ASSUME NEW p \in Planner, Stored(p) PROVE DraftedDownload'
    BY <1>3, StoredParts, Idle DEF DraftedDownload
  <1>4. ASSUME NEW p \in Planner, PlanLocal(p) \/ QueueDiscovery(p) PROVE DraftedDownload'
    <2>1. PICK st \in {"ready", "downloading"}, kind \in {"library", "discovery"} :
             Draft(p, st, kind) /\ (kind = "discovery" => st = "downloading")
      BY <1>4 DEF PlanLocal, QueueDiscovery
    <2>2. PICK r \in PlannerState : Extended(r, p, st, kind)
      BY <2>1, DraftParts DEF Status
    <2>3. /\ r.draft[made + 1] = [st |-> st, kind |-> kind, pos |-> planner[p].pos]
          /\ \A i \in Item : i # made + 1 => r.draft[i] = planner[p].draft[i]
          /\ planner' = [planner EXCEPT ![p] = r]
      BY <2>2 DEF Extended
    <2>4. \A q \in Planner : planner'[q] = IF q = p THEN r ELSE planner[q]
      BY <2>3 DEF Typed, TypeOK
    <2>5. \A i \in Item : r.draft[i].kind = "discovery" /\ r.draft[i].st # "none" => r.draft[i].st = "downloading"
      BY <2>1, <2>3 DEF DraftedDownload
    <2> QED
      BY <2>4, <2>5 DEF DraftedDownload
  <1> QED
    BY <1>1, <1>2, <1>3, <1>4, Steps

LEMMA RecordedStep == ASSUME Typed, Positions, Recorded, [Next]_vars PROVE Recorded'
  <1>1. DraftedDownload'
    BY TypedStep, DraftsKept DEF Recorded
  <1>2. ASSUME NEW h \in Handler, HandlerStep(h) PROVE DiscoveryRecorded'
    BY <1>2, RequestMovesOn, ShownKept, CheckRecorded, UpsertRecorded DEF HandlerStep, Recorded, Shown
  <1>3. ASSUME NEW p \in Planner, PlanStep(p) PROVE DiscoveryRecorded'
    <2>1. UNCHANGED <<discovery, unrecorded, handler>>
      BY <1>3 DEF PlanStep, PlanRead, PlanLocal, QueueDiscovery, AppendItems, table
    <2>2. UNCHANGED item \/ Stored(p)
      BY <1>3 DEF PlanStep, PlanRead, PlanLocal, QueueDiscovery, AppendItems, table, Stored
    <2> QED
      BY <2>1, <2>2, ShownKept, StoredRecorded DEF Recorded, Shown
  <1>4. ASSUME NEW i \in Item, Feedback(i) PROVE DiscoveryRecorded'
    <2>0. UNCHANGED <<discovery, unrecorded, handler>> /\ \A k \in Item : k # i => item'[k] = item[k]
      BY <1>4, FeedbackParts
    <2>1. Shown(i)' => Noted(i)'
      <3>1. item'[i].kind = item[i].kind
        BY <1>4 DEF Feedback, Typed, TypeOK, Rows, Row
      <3>2. item'[i].kind = "discovery" => i \in discovery'
        BY <1>4, <2>0, <3>1 DEF Feedback
      <3> QED
        BY <3>2 DEF Shown, Noted
    <2>2. ASSUME NEW k \in Item, k # i, Shown(k)' PROVE Noted(k)'
      <3>1. Shown(k)
        BY <2>0, <2>2 DEF Shown
      <3>2. Noted(k)
        BY <3>1, RecordedMeans DEF Recorded
      <3> QED
        BY <2>0, <3>2 DEF Noted, Recording
    <2> QED
      BY <2>1, <2>2 DEF DiscoveryRecorded, Shown, Noted
  <1>5. CASE UNCHANGED <<item, discovery, unrecorded, handler>>
    <2>1. \A k \in Item : Shown(k)' => Shown(k)
      BY <1>5 DEF Shown
    <2>2. \A h \in Handler : handler'[h] = handler[h] \/ handler[h].pc # "upsert"
      BY <1>5
    <2>3. discovery \subseteq discovery' /\ unrecorded \subseteq unrecorded' /\ DiscoveryRecorded
      BY <1>5 DEF Recorded
    <2> QED
      BY <1>1, <2>1, <2>2, <2>3, ShownKept DEF Recorded
  <1> QED
    BY <1>1, <1>2, <1>3, <1>4, <1>5, CrashRecorded DEF Next, JobEnds, EndActiveSessions, table, vars, Recorded

\* A discovery that can be played has its row in discovery_track, or its
\* UpsertDiscovery is under way, has failed or was interrupted: whatever
\* Refills overlap and write old copies of the rows.
THEOREM DiscoveriesRecorded == Spec => []DiscoveryRecorded
  <1>1. Init => Recorded
    BY Idle DEF Init, Recorded, DiscoveryRecorded, DraftedDownload
  <1>2. Typed /\ Positions /\ Recorded /\ [Next]_vars => Recorded'
    BY RecordedStep
  <1>3. Recorded => DiscoveryRecorded
    BY DEF Recorded
  <1> QED
    BY <1>1, <1>2, <1>3, SessionTyped, PTL DEF Spec

-----------------------------------------------------------------------------
(* Downloads *)

LEMMA Counted ==
  ASSUME NEW rows
  PROVE  Downloading(rows) \subseteq Item /\ IsFiniteSet(Downloading(rows)) /\ Cardinality(Downloading(rows)) \in Nat
  BY FiniteItems DEF Downloading

\* The draft of p, as a set of rows.
LEMMA DraftedIs == ASSUME NEW p PROVE Drafted(p) = Downloading(planner[p].draft)
  BY DEF Drafted, Downloading

LEMMA CalmBudget == ASSUME Typed, Budget, Calm PROVE Budget'
  <1>1. Downloading(item)' \subseteq Downloading(item)
    BY DEF Calm, Downloading
  <1>2. PICK a, b \in Nat : a = Cardinality(Downloading(item)) /\ b = Cardinality(Downloading(item)')
    BY Counted
  <1>3. b <= a
    BY <1>1, <1>2, Counted, FS_Subset
  <1>4. ASSUME NEW p \in Planner PROVE Within(p)'
    <2>1. CASE planner'[p] = planner[p]
      <3>0. Drafted(p)' = Drafted(p)
        BY <2>1 DEF Drafted
      <3>1. PICK c \in Nat : c = Cardinality(Drafted(p)) /\ c = Cardinality(Drafted(p)')
        BY <3>0, Counted, DraftedIs
      <3>2. planner'[p].slots = planner[p].slots /\ planner[p].slots \in Nat
        BY <2>1 DEF Typed, TypeOK, PlannerState
      <3>3. planner[p].pc = "queue" => a + c + planner[p].slots <= Watermark
        BY <1>2, <3>1 DEF Budget, Within
      <3>4. planner'[p].pc = "queue" => b + c + planner'[p].slots <= Watermark
        BY <1>3, <2>1, <3>2, <3>3, WatermarkAssumption
      <3> QED
        BY <1>2, <3>1, <3>4 DEF Within
    <2>2. CASE planner'[p].pc # "queue"
      BY <2>2 DEF Within
    <2> QED
      BY <2>1, <2>2 DEF Calm
  <1>5. b <= Watermark
    BY <1>2, <1>3, WatermarkAssumption DEF Budget
  <1> QED
    BY <1>2, <1>4, <1>5 DEF Budget

LEMMA BeginsBudget == ASSUME Typed, Positions, Budget, NEW p \in Planner, Begins(p) PROVE Budget'
  <1>1. /\ planner'[p].slots = Room(p) /\ planner'[p].draft = NoRows
        /\ \A q \in Planner : q # p => planner'[q].pc = "off"
        /\ UNCHANGED item
    BY BeginsParts
  <1>2. PICK a, o \in Nat : a = Cardinality(Downloading(item)) /\ o = Outstanding(item, planner[p].ctx) /\ a <= o
    BY OutstandingCounts DEF Typed, TypeOK, PlannerState
  <1>3. planner'[p].slots = Watermark - o
    BY <1>1, <1>2 DEF Room
  <1>4. Drafted(p)' = {}
    BY <1>1, Idle DEF Drafted
  <1>5. Cardinality(Drafted(p)') = 0
    BY <1>4, FS_EmptySet
  <1>6. Cardinality(Downloading(item)') = a
    BY <1>1, <1>2
  <1>7. Within(p)'
    BY <1>2, <1>3, <1>5, <1>6, WatermarkAssumption DEF Within
  <1>8. \A q \in Planner : q # p => Within(q)'
    BY <1>1 DEF Within
  <1> QED
    BY <1>2, <1>6, <1>7, <1>8 DEF Budget

LEMMA DraftBudget ==
  ASSUME Typed, Budget, NEW p \in Planner, PlanLocal(p) \/ QueueDiscovery(p)
  PROVE  Budget'
  <1>1. PICK st \in {"ready", "downloading"}, kind \in {"library", "discovery"} : Draft(p, st, kind)
    BY DraftRoom
  <1>2. PICK r \in PlannerState : Extended(r, p, st, kind)
    BY <1>1, DraftParts DEF Status
  <1>3. planner[p].pc = "queue" /\ made + 1 \in Item /\ planner[p].slots \in Nat /\ UNCHANGED item
    BY DraftRoom DEF PlanLocal, QueueDiscovery, table, PlannerState
  <1>4. planner'[p] = r /\ \A q \in Planner : q # p => planner'[q].pc = "off"
    BY <1>2, <1>3, OthersAhead DEF Extended
  <1>5. Drafted(p)' \subseteq Drafted(p) \cup {made + 1}
    BY <1>2, <1>4 DEF Drafted, Extended
  <1>6. PICK a, c, d \in Nat : /\ a = Cardinality(Downloading(item)) /\ c = Cardinality(Drafted(p))
                               /\ d = Cardinality(Drafted(p)')
    BY Counted, DraftedIs, FiniteItems DEF Drafted
  <1>7. d <= c + 1
    <2>1. IsFiniteSet(Drafted(p))
      BY Counted, DraftedIs
    <2>2. /\ IsFiniteSet(Drafted(p) \cup {made + 1})
          /\ Cardinality(Drafted(p) \cup {made + 1}) = c \/ Cardinality(Drafted(p) \cup {made + 1}) = c + 1
      BY <1>6, <2>1, FS_AddElement
    <2>3. d <= Cardinality(Drafted(p) \cup {made + 1})
      BY <1>5, <1>6, <2>2, FS_Subset
    <2> QED
      BY <1>6, <2>2, <2>3
  <1>8. a + c + planner[p].slots <= Watermark /\ planner'[p].slots = planner[p].slots - 1
    BY <1>2, <1>3, <1>4, <1>6 DEF Budget, Within, Extended
  <1>9. a + d + planner'[p].slots <= Watermark
    BY <1>3, <1>6, <1>7, <1>8, WatermarkAssumption
  <1>10. Cardinality(Downloading(item)') = a
    BY <1>3, <1>6
  <1>11. Within(p)'
    BY <1>6, <1>9, <1>10 DEF Within
  <1>12. \A q \in Planner : q # p => Within(q)'
    BY <1>4 DEF Within
  <1> QED
    BY <1>6, <1>10, <1>11, <1>12 DEF Budget

LEMMA StoredBudget == ASSUME Typed, Budget, NEW p \in Planner, Stored(p) PROVE Budget'
  <1>1. /\ planner[p].pc = "queue" /\ planner[p].slots \in Nat
        /\ \A q \in Planner : planner'[q].pc = "off"
        /\ \A i \in Made(planner[p].draft) : item'[i] = planner[p].draft[i]
        /\ \A i \in Item : i \notin Made(planner[p].draft) => item'[i] = item[i]
    BY StoredParts DEF PlannerState
  <1>2. Downloading(item)' \subseteq Downloading(item) \cup Drafted(p)
    BY <1>1 DEF Downloading, Drafted, Made
  <1>3. PICK a, b, c \in Nat : /\ a = Cardinality(Downloading(item)) /\ c = Cardinality(Drafted(p))
                               /\ b = Cardinality(Downloading(item)')
    BY Counted, DraftedIs
  <1>4. b <= a + c
    <2>1. IsFiniteSet(Downloading(item)) /\ IsFiniteSet(Drafted(p))
      BY Counted, DraftedIs
    <2>2. PICK S : S = Downloading(item) \cup Drafted(p)
      OBVIOUS
    <2>3. IsFiniteSet(S) /\ Cardinality(S) \in Nat
      BY <2>1, <2>2, FS_Union, FS_CardinalityType
    <2>4. PICK x \in Nat : x = Cardinality(Downloading(item) \cap Drafted(p))
      BY FiniteItems DEF Drafted
    <2>5. Cardinality(S) = a + c - x
      BY <1>3, <2>1, <2>2, <2>4, FS_Union
    <2>6. b <= Cardinality(S)
      BY <1>2, <1>3, <2>2, <2>3, FS_Subset
    <2> QED
      BY <1>3, <2>3, <2>4, <2>5, <2>6
  <1>5. a + c + planner[p].slots <= Watermark
    BY <1>1, <1>3 DEF Budget, Within
  <1>6. b <= Watermark
    BY <1>1, <1>3, <1>4, <1>5, WatermarkAssumption
  <1>7. \A q \in Planner : Within(q)'
    BY <1>1 DEF Within
  <1> QED
    BY <1>3, <1>6, <1>7 DEF Budget

\* The drafts of all planners are those of the one at work.
LEMMA DraftsCounted ==
  ASSUME Typed, Budget
  PROVE  DownloadBudget
  <1> DEFINE Pairs == {d \in Planner \X Item : planner[d[1]].draft[d[2]].st = "downloading"}
  <1>1. PICK a \in Nat : a = Cardinality(Downloading(item)) /\ a <= Watermark
    BY Counted DEF Budget
  <1>2. CASE \A p \in Planner : planner[p].pc # "queue"
    <2>1. Pairs = {}
      <3> SUFFICES ASSUME NEW d \in Pairs PROVE FALSE
        OBVIOUS
      <3>1. d[1] \in Planner /\ d[2] \in Item /\ planner[d[1]].draft[d[2]].st = "downloading"
        OBVIOUS
      <3>2. planner[d[1]].draft = NoRows
        BY <1>2, <3>1 DEF Typed, OnePlan
      <3> QED
        BY <3>1, <3>2, Idle
    <2>2. Cardinality(Pairs) = 0
      BY <2>1, FS_EmptySet
    <2> QED
      BY <1>1, <2>2, WatermarkAssumption DEF DownloadBudget
  <1>3. ASSUME NEW p \in Planner, planner[p].pc = "queue" PROVE DownloadBudget
    <2>1. \A d \in Pairs : d[1] = p /\ d[2] \in Drafted(p) /\ d = <<p, d[2]>>
      <3> SUFFICES ASSUME NEW d \in Pairs PROVE d[1] = p /\ d[2] \in Drafted(p) /\ d = <<p, d[2]>>
        OBVIOUS
      <3>1. /\ d[1] \in Planner /\ d[2] \in Item /\ planner[d[1]].draft[d[2]].st = "downloading"
            /\ d = <<d[1], d[2]>>
        OBVIOUS
      <3>2. d[1] = p
        BY <1>3, <3>1, OnlyPlan, Idle
      <3> QED
        BY <3>1, <3>2 DEF Drafted
    <2>2. \A i \in Drafted(p) : <<p, i>> \in Pairs
      BY DEF Drafted
    <2> DEFINE f == [i \in Drafted(p) |-> <<p, i>>]
    <2>3. f \in Surjection(Drafted(p), Pairs)
      <3>1. f \in [Drafted(p) -> Pairs]
        BY <2>2
      <3>2. \A d \in Pairs : \E i \in Drafted(p) : f[i] = d
        BY <2>1
      <3> QED
        BY <3>1, <3>2 DEF Surjection
    <2>4. PICK c \in Nat : c = Cardinality(Drafted(p)) /\ IsFiniteSet(Drafted(p))
      BY Counted, DraftedIs
    <2> HIDE DEF f, Pairs
    <2>5. IsFiniteSet(Pairs) /\ Cardinality(Pairs) <= c
      BY <2>3, <2>4, FS_Surjection
    <2>6. PICK n \in Nat : n = Cardinality(Pairs)
      BY <2>5, FS_CardinalityType
    <2>7. a + c + planner[p].slots <= Watermark /\ planner[p].slots \in Nat
      BY <1>1, <1>3, <2>4 DEF Budget, Within, Typed, TypeOK, PlannerState
    <2>8. a + n <= Watermark
      BY <2>4, <2>5, <2>6, <2>7, WatermarkAssumption
    <2> QED
      BY <1>1, <2>6, <2>8 DEF DownloadBudget, Pairs
  <1> QED
    BY <1>2, <1>3

\* The downloads of the queue and of the plans being made never exceed
\* queueLowWatermark, whatever queue the client reports: a plan counts every
\* download of the table, and the slots it has left are reserved.
THEOREM DownloadsWithinBudget == Spec => []DownloadBudget
  <1>1. Init => Budget
    <2> SUFFICES ASSUME Init PROVE Budget
      OBVIOUS
    <2>1. Downloading(item) = {}
      BY Idle DEF Init, Downloading
    <2>2. Cardinality(Downloading(item)) = 0
      BY <2>1, FS_EmptySet
    <2> QED
      BY <2>2, Idle, WatermarkAssumption DEF Init, Budget, Within
  <1>2. Typed /\ Positions /\ Budget /\ [Next]_vars => Budget'
    BY Steps, CalmBudget, BeginsBudget, DraftBudget, StoredBudget
  <1>3. Typed /\ Budget => DownloadBudget
    BY DraftsCounted
  <1> QED
    BY <1>1, <1>2, <1>3, SessionTyped, PTL DEF Spec
=============================================================================
