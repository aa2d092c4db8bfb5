---------------------------- MODULE RadioSession ----------------------------
(***************************************************************************)
(* A personal radio session (core/personalradio/service.go and the         *)
(* repository of its tables): Create starts it, each Refill of the client  *)
(* first follows the downloads of the queue and then may schedule a        *)
(* planner, a goroutine of its own that fills the queue up.  The tables    *)
(* survive a crash; requests, planners and the planning flag do not.       *)
(*                                                                         *)
(* Abstractions: the ranking of candidates is left out, a planner queues   *)
(* any mix of library and discovery items; every item has a recording of   *)
(* its own; a download job is followed only until it ends (its life is     *)
(* MusicDownload); the planning status shown to the client is left out.    *)
(***************************************************************************)
EXTENDS Integers, FiniteSets

CONSTANTS
    Handler,      \* goroutines serving Create and Refill
    Planner,      \* goroutines of schedulePlanForContext
    Watermark,    \* queueLowWatermark
    Queues,       \* the queues a client may report
    MaxItems,     \* bound: items ever made for the session
    MaxMishaps    \* bound: failed statements, crashes, and sessions that take over

ASSUME WatermarkAssumption == Watermark \in Nat \ {0}
ASSUME QueuesAssumption ==
    /\ Queues # {}
    /\ \A q \in Queues : q.queued \subseteq 1..MaxItems /\ q.cur \in q.queued \cup {0}
ASSUME BoundAssumption == MaxItems \in Nat /\ MaxMishaps \in Nat

Item == 1..MaxItems    \* item ids, in the order they are made; the seed is not one
NoItem == 0

VARIABLES
    session,     \* the status of its row in personal_radio_session
    item,        \* the rows of personal_radio_item, the seed's left out
    made,        \* number of item ids used
    job,         \* the download job of each item
    discovery,   \* items whose recording has a row in discovery_track
    planning,    \* s.planning has the session
    planner, handler,
    mishaps,     \* failed statements, crashes, takeovers so far
    unrecorded   \* history: items whose UpsertDiscovery failed or was lost

table == <<session, item, discovery, unrecorded>>
vars == <<session, item, made, job, discovery, planning, planner, handler,
          mishaps, unrecorded>>

Status == {"none", "downloading", "ready", "played", "failed"}
Row == [st : Status, kind : {"library", "discovery"}, pos : Nat]
NoRow == [st |-> "none", kind |-> "library", pos |-> 0]
Rows == [Item -> Row]
NoRows == [i \in Item |-> NoRow]

Session == {"none", "active", "ended"}

\* radioContext: the client's queue and its current item, NoItem when unknown.
Context == [queued : SUBSET Item, cur : Item \cup {NoItem}]
ServerQueue == [queued |-> {}, cur |-> NoItem]

NoRequest == [pc |-> "idle", sess |-> "none", rows |-> NoRows, todo |-> {}]
NoPlan == [pc |-> "off", ctx |-> ServerQueue, slots |-> 0, pos |-> 0, draft |-> NoRows]

Init ==
    /\ session = "none"
    /\ item = NoRows /\ made = 0
    /\ job = [i \in Item |-> "none"]
    /\ discovery = {}
    /\ planning = "no"
    /\ planner = [p \in Planner |-> NoPlan]
    /\ handler = [h \in Handler |-> NoRequest]
    /\ mishaps = 0
    /\ unrecorded = {}

Mishap == mishaps < MaxMishaps /\ mishaps' = mishaps + 1

Made(rows) == {i \in Item : rows[i].st # "none"}
Downloading(rows) == {i \in Item : rows[i].st = "downloading"}

\* radioOutstandingItems: the server's queue, or the part of it the client has
\* together with every download.
Outstanding(rows, ctx) ==
    IF ctx.queued = {}
    THEN Cardinality({i \in Item : rows[i].st \in {"ready", "downloading"}})
    ELSE Cardinality({i \in ctx.queued : rows[i].st = "ready"
                                         \/ (rows[i].st = "played" /\ i = ctx.cur)}
                     \cup Downloading(rows))

-----------------------------------------------------------------------------
(* Create and Refill. *)

Goto(h, pc) == handler' = [handler EXCEPT ![h].pc = pc]
Return(h) == handler' = [handler EXCEPT ![h] = NoRequest]

\* The session and its seed are inserted, the user's other sessions ended; a
\* plan for the server's queue is scheduled next.
Create(h) ==
    /\ handler[h].pc = "idle" /\ session = "none"
    /\ session' = "active"
    /\ handler' = [handler EXCEPT ![h] = [NoRequest EXCEPT !.pc = "check", !.sess = "active"]]
    /\ UNCHANGED <<item, discovery, unrecorded, made, job, planning, planner, mishaps>>

\* Refill reads the session; when another mode is asked for it is to be saved.
ReadSession(h) ==
    /\ handler[h].pc = "idle" /\ session # "none"
    /\ \E pc \in {"mode", "items"} :
          handler' = [handler EXCEPT ![h] = [NoRequest EXCEPT !.pc = pc, !.sess = session]]
    /\ UNCHANGED <<table, made, job, planning, planner, mishaps>>

\* UpdateSession writes the status of the copy along with the mode.
UpdateSession(h) ==
    /\ handler[h].pc = "mode"
    /\ \/ session' = handler[h].sess /\ Goto(h, "items") /\ UNCHANGED mishaps
       \/ Mishap /\ Return(h) /\ UNCHANGED session
    /\ UNCHANGED <<item, discovery, unrecorded, made, job, planning, planner>>

GetItems(h) ==
    /\ handler[h].pc = "items"
    /\ \/ /\ handler' = [handler EXCEPT ![h].pc = "check", ![h].rows = item,
                                       ![h].todo = Downloading(item)]
          /\ UNCHANGED mishaps
       \/ Mishap /\ Return(h)
    /\ UNCHANGED <<table, made, job, planning, planner>>

\* The loop goes over the downloading items of the copy in order of position.
Current(h, i) ==
    /\ handler[h].pc = "check"
    /\ i \in handler[h].todo
    /\ \A k \in handler[h].todo : handler[h].rows[i].pos <= handler[h].rows[k].pos

Skip(h, i) == handler' = [handler EXCEPT ![h].todo = @ \ {i}]

\* Mutant: an imported track that does not match is waited for.
SettledAsUnmatched(j) ==
    CASE j = "imported" -> {"ready"} [] j = "failed" -> {"failed"} [] OTHER -> {}

\* The status a finished job gives its item.
SettledAs(j) ==
    CASE j = "imported" -> {"ready"} [] j \in {"unmatched", "failed"} -> {"failed"} [] OTHER -> {}

\* The item's row with that status, from the request's copy, and the request
\* afterwards: a track that is ready is to be recorded next.
NewRow(h, i, st) == [handler[h].rows[i] EXCEPT !.st = st]
Settled(h, i, st) ==
    [handler[h] EXCEPT !.rows = [handler[h].rows EXCEPT ![i] = NewRow(h, i, st)],
                       !.pc = IF st = "ready" THEN "upsert" ELSE "check",
                       !.todo = IF st = "ready" THEN handler[h].todo ELSE handler[h].todo \ {i}]

\* One item: its job is read, the imported track matched, and the whole row
\* written from the copy.  An item whose job is under way, or can not be read
\* or matched now, waits for the next Refill.
CheckItem(h, i) ==
    /\ Current(h, i)
    /\ \/ SettledAs(job[i]) = {} /\ Skip(h, i) /\ UNCHANGED <<item, mishaps>>
       \/ \E st \in SettledAs(job[i]) :
             /\ item' = [item EXCEPT ![i] = NewRow(h, i, st)]
             /\ handler' = [handler EXCEPT ![h] = Settled(h, i, st)]
             /\ UNCHANGED mishaps
       \/ Mishap /\ (Skip(h, i) \/ Return(h)) /\ UNCHANGED item
    /\ UNCHANGED <<session, discovery, unrecorded, made, job, planning, planner>>

\* The item a handler has made ready and not recorded yet.
Recording(h, i) ==
    /\ handler[h].pc = "upsert"
    /\ i \in handler[h].todo /\ handler[h].rows[i].st = "ready"

\* Mutant: nothing is recorded for a session that has ended.
UpsertDiscoveryActive(h, i) ==
    /\ Recording(h, i)
    /\ discovery' = IF handler[h].sess = "active" THEN discovery \cup {i} ELSE discovery
    /\ handler' = [handler EXCEPT ![h].pc = "check", ![h].todo = @ \ {i}]
    /\ UNCHANGED <<session, item, unrecorded, made, job, planning, planner, mishaps>>

\* UpsertDiscovery, whose error is only logged.
UpsertDiscovery(h, i) ==
    /\ Recording(h, i)
    /\ \/ discovery' = discovery \cup {i} /\ UNCHANGED <<mishaps, unrecorded>>
       \/ Mishap /\ unrecorded' = unrecorded \cup {i} /\ UNCHANGED discovery
    /\ handler' = [handler EXCEPT ![h].pc = "check", ![h].todo = @ \ {i}]
    /\ UNCHANGED <<session, item, made, job, planning, planner>>

\* buildRadioContext keeps the items of the client's queue it knows.
Known(c, rows) ==
    [queued |-> c.queued \cap Made(rows),
     cur |-> IF c.cur \in Made(rows) THEN c.cur ELSE NoItem]

\* The end of both: a planner is scheduled for an active session whose queue
\* runs low, unless one is at work.
SchedulePlan(h) ==
    /\ handler[h].pc = "check" /\ handler[h].todo = {}
    /\ \/ \E q \in Queues : LET c == Known(q, handler[h].rows) IN
             IF /\ handler[h].sess = "active"
                /\ Outstanding(handler[h].rows, c) < Watermark
                /\ planning = "no"
             THEN LET p == CHOOSE p \in Planner : planner[p].pc = "off" IN
                     /\ planner' = [planner EXCEPT ![p] = [NoPlan EXCEPT !.pc = "read", !.ctx = c]]
                     /\ planning' = "yes"
                     /\ UNCHANGED mishaps
             ELSE UNCHANGED <<planner, planning, mishaps>>
       \/ Mishap /\ UNCHANGED <<planner, planning>>
    /\ Return(h)
    /\ UNCHANGED <<table, made, job>>

-----------------------------------------------------------------------------
(* planWithContext. *)

\* The goroutine ends and takes the flag down.
Finish(p) ==
    /\ planner' = [planner EXCEPT ![p] = NoPlan]
    /\ planning' = "no"

\* Mutant: the first position behind the items still to be played.
NextPositionActive(rows) ==
    CHOOSE n \in 1..MaxItems + 1 :
        LET active == {i \in Made(rows) : rows[i].st \in {"ready", "downloading"}} IN
        /\ \A i \in active : rows[i].pos < n
        /\ \/ n = 1
           \/ \E i \in active : rows[i].pos = n - 1

\* The first position behind the items read.
NextPosition(rows) ==
    CHOOSE n \in 1..MaxItems + 1 :
        /\ \A i \in Made(rows) : rows[i].pos < n
        /\ \/ n = 1
           \/ \E i \in Made(rows) : rows[i].pos = n - 1

\* Mutant: the queue is as low as it was when the plan was scheduled.
RoomAssumed(p) == Watermark

\* slotsToAdd, from the rows the planner reads itself.
Room(p) == Watermark - Outstanding(item, planner[p].ctx)

PlanRead(p) ==
    /\ planner[p].pc = "read"
    /\ \/ /\ Room(p) > 0
          /\ planner' = [planner EXCEPT ![p].pc = "queue", ![p].slots = Room(p),
                                       ![p].pos = NextPosition(item)]
          /\ UNCHANGED <<planning, mishaps>>
       \/ Room(p) <= 0 /\ Finish(p) /\ UNCHANGED mishaps
       \/ Mishap /\ Finish(p)
    /\ UNCHANGED <<table, made, job, handler>>

Draft(p, st, kind) ==
    /\ planner[p].pc = "queue" /\ planner[p].slots > 0 /\ made < MaxItems
    /\ made' = made + 1
    /\ planner' = [planner EXCEPT
           ![p].slots = @ - 1, ![p].pos = @ + 1,
           ![p].draft[made + 1] = [st |-> st, kind |-> kind, pos |-> planner[p].pos]]

\* appendLocalItem
PlanLocal(p) ==
    /\ Draft(p, "ready", "library")
    /\ UNCHANGED <<table, job, planning, handler, mishaps>>

\* queueDiscovery: the download job is created before its item is stored.
QueueDiscovery(p) ==
    /\ Draft(p, "downloading", "discovery")
    /\ job' = [job EXCEPT ![made + 1] = "active"]
    /\ UNCHANGED <<table, planning, handler, mishaps>>

\* A position of the draft is taken: the insertion violates the table's
\* unique (session_id, position).
Collides(p) ==
    \E i \in Made(planner[p].draft), k \in Made(item) : planner[p].draft[i].pos = item[k].pos

\* AppendItems, one transaction; with nothing queued the plan ends without it.
AppendItems(p) ==
    /\ planner[p].pc = "queue"
    /\ \/ /\ ~Collides(p)
          /\ item' = [i \in Item |-> IF i \in Made(planner[p].draft)
                                     THEN planner[p].draft[i] ELSE item[i]]
          /\ UNCHANGED mishaps
       \/ Collides(p) /\ UNCHANGED <<item, mishaps>>
       \/ Mishap /\ UNCHANGED item
    /\ Finish(p)
    /\ UNCHANGED <<session, discovery, unrecorded, made, job, handler>>

-----------------------------------------------------------------------------
(* The surroundings. *)

\* The download service finishes a job; the track it has imported may not be
\* recognised.
JobEnds(i) ==
    /\ job[i] = "active"
    /\ \E end \in {"imported", "unmatched", "failed"} : job' = [job EXCEPT ![i] = end]
    /\ UNCHANGED <<table, made, planning, planner, handler, mishaps>>

\* RecordPlaybackFeedback: an item is played, whatever its status was; for a
\* discovery the transaction needs its row in discovery_track.
Feedback(i) ==
    /\ item[i].st # "none"
    /\ item[i].kind = "discovery" => i \in discovery
    /\ item' = [item EXCEPT ![i].st = "played"]
    /\ UNCHANGED <<session, discovery, unrecorded, made, job, planning, planner, handler, mishaps>>

\* EndActiveSessions, in the Create of another session.
EndActiveSessions ==
    /\ session = "active" /\ Mishap
    /\ session' = "ended"
    /\ UNCHANGED <<item, discovery, unrecorded, made, job, planning, planner, handler>>

Crash ==
    /\ Mishap
    /\ unrecorded' = unrecorded \cup {i \in Item : \E h \in Handler : Recording(h, i)}
    /\ planning' = "no"
    /\ planner' = [p \in Planner |-> NoPlan]
    /\ handler' = [h \in Handler |-> NoRequest]
    /\ UNCHANGED <<session, item, discovery, made, job>>

HandlerStep(h) ==
    \/ Create(h) \/ ReadSession(h) \/ UpdateSession(h) \/ GetItems(h)
    \/ \E i \in Item : CheckItem(h, i) \/ UpsertDiscovery(h, i)
    \/ SchedulePlan(h)

PlanStep(p) == PlanRead(p) \/ PlanLocal(p) \/ QueueDiscovery(p) \/ AppendItems(p)

Next ==
    \/ \E h \in Handler : HandlerStep(h)
    \/ \E p \in Planner : PlanStep(p)
    \/ \E i \in Item : JobEnds(i) \/ Feedback(i)
    \/ EndActiveSessions \/ Crash

Spec == Init /\ [][Next]_vars

\* The client polls the session while an item is downloading, and its request
\* comes to an end; so does every download job (EveryJobSettles).
FairSpec ==
    /\ Spec
    /\ \A h \in Handler : WF_vars(HandlerStep(h))
    /\ \A i \in Item : WF_vars(JobEnds(i))

-----------------------------------------------------------------------------
(* Properties. *)

HandlerState == [pc : {"idle", "mode", "items", "check", "upsert"}, sess : Session,
                 rows : Rows, todo : SUBSET Item]
PlannerState == [pc : {"off", "read", "queue"}, ctx : Context, slots : 0..Watermark,
                 pos : Nat, draft : Rows]

TypeOK ==
    /\ session \in Session
    /\ item \in Rows /\ made \in 0..MaxItems
    /\ job \in [Item -> {"none", "active", "imported", "unmatched", "failed"}]
    /\ discovery \subseteq Item /\ unrecorded \subseteq Item
    /\ planning \in {"yes", "no"}
    /\ planner \in [Planner -> PlannerState]
    /\ handler \in [Handler -> HandlerState]
    /\ mishaps \in 0..MaxMishaps

\* Whatever Refills overlap, a plan never meets positions taken since it read
\* the queue: an AppendItems that collides would leave downloads without item.
AppendNeverCollides == \A p \in Planner : ~Collides(p)

\* The radio never has more downloads under way for its queue than
\* queueLowWatermark, whatever queue the client reports: the plans being made
\* are counted in.
DownloadBudget ==
    Cardinality(Downloading(item))
        + Cardinality({d \in Planner \X Item : planner[d[1]].draft[d[2]].st = "downloading"})
    <= Watermark

\* A discovery that can be played has its row in discovery_track, without
\* which its feedback is refused and its file never expires; only a failed or
\* interrupted UpsertDiscovery leaves it without one.
DiscoveryRecorded ==
    \A i \in Item : item[i].kind = "discovery" /\ item[i].st \in {"ready", "played"} =>
        \/ i \in discovery \cup unrecorded
        \/ \E h \in Handler : Recording(h, i)

\* The client sees every download of its queue end, as a track or a failure,
\* whatever Refills write old copies of the rows and wherever the process
\* crashes.
EveryDownloadShown == \A i \in Item : item[i].st = "downloading" ~> item[i].st # "downloading"
=============================================================================
