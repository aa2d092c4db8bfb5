-------------------------- MODULE ScrobblingProofs --------------------------
(***************************************************************************)
(* Proofs about Scrobbling, for any sets of users, plays and handlers, and *)
(* any bounds.                                                             *)
(***************************************************************************)
EXTENDS Scrobbling, FiniteSetTheorems, TLAPS

RunState == [pc : {"off", "list", "user", "send", "dequeue", "sleep"},
             todo : SUBSET User, user : User, entry : Entry \cup {None},
             ok : {"yes", "no"}, wake : {0, 1}, stopped : {"yes", "no"},
             inst : {"live", "closed"}]
HandlerState == [pc : {"idle", "enqueue", "wake"}, play : Plays,
                 to : Scrobbler \cup {None}, entry : Entry \cup {None}]

-----------------------------------------------------------------------------
(* What a scrobbler has in hand *)

\* The row a scrobbler is about to send is the first of its user that was
\* stored before it.
InTurn(s) ==
    run[s].pc = "send" =>
        /\ run[s].entry \in 1..entries
        /\ \A f \in buffered :
              f < run[s].entry /\ row[f].user = row[run[s].entry].user =>
                  row[f].time > row[run[s].entry].time

\* Row e was taken, refused, or lost with its plugin's instance.
Accounted(e)    == e \in refused \cup severed \/ sent[e] > 0
NowAccounted(e) == e \in refused' \cup severed' \/ sent'[e] > 0

\* The row it is about to remove has been; the removal of a stopped one fails.
Disposed(s) ==
    run[s].pc = "dequeue" =>
        /\ run[s].entry \in 1..entries
        /\ run[s].stopped = "no" => Accounted(run[s].entry)

InHand == \A s \in Scrobbler : InTurn(s) /\ Disposed(s)

\* Only the scrobbler that is registered is at work and not stopped.
OneLive ==
    /\ \A s \in Scrobbler : run[s].pc # "off" /\ run[s].stopped = "no" => s = active
    /\ active # None => run[active].stopped = "no" /\ run[active].pc # "off"

\* The stopped scrobblers that still have the answer for row e to wait for.
Stragglers(e) ==
    {s \in Scrobbler : run[s].stopped = "yes" /\ run[s].pc = "send" /\ run[s].entry = e}

\* Whether row e may be sent once more by a scrobbler that is not stopped, and
\* whether the next refresh will stop one.
Removing(e) == active # None /\ run[active].pc = "dequeue" /\ run[active].entry = e
Sending(e)  == active # None /\ run[active].pc = "send" /\ run[active].entry = e
Ahead(e)    == IF ~Removing(e) /\ (e \in buffered \/ Sending(e)) THEN 1 ELSE 0
Due         == IF plugin = "out" /\ active # None THEN 1 ELSE 0

\* Every send past the first is paid for by a mishap.
PaidFor(e) == sent[e] + Cardinality(Stragglers(e)) + Ahead(e) + Due <= 1 + mishaps

Accounts ==
    /\ OneLive
    /\ plugin = "out" => mishaps > 0
    /\ \A e \in Entry : PaidFor(e)
    /\ \A e \in Entry : e > entries => sent[e] = 0

-----------------------------------------------------------------------------
(* Type correctness *)

\* A scrobbler or a handler at work on a row has one.
RowsInHand ==
    /\ \A s \in Scrobbler : run[s].pc \in {"send", "dequeue"} => run[s].entry \in 1..entries
    /\ \A h \in Handler : handler[h].pc = "wake" => handler[h].entry \in Entry
Typed == TypeOK /\ RowsInHand

LEMMA Idle ==
  /\ AnyUser \in User /\ AnyPlay \in Plays
  /\ Off \in RunState /\ NoReport \in HandlerState
  /\ Off.pc = "off" /\ Off.stopped = "no" /\ NoReport.pc = "idle"
  /\ [Off EXCEPT !.pc = "list"] \in RunState
  /\ [Off EXCEPT !.stopped = "yes"] \in RunState
  <1>1. AnyPlay \in Plays
    BY PlaysAssumption DEF AnyPlay
  <1>2. AnyUser \in User
    BY <1>1, PlaysAssumption DEF AnyUser
  <1> QED
    BY <1>1, <1>2 DEF Off, NoReport, RunState, HandlerState

LEMMA Plain ==
  ASSUME NEW p \in Plays
  PROVE  p.user \in User /\ p.time \in Nat
  BY PlaysAssumption, TimeAssumption

LEMMA TypedInit == Init => Typed
  BY Idle, BoundAssumption DEF Init, Typed, TypeOK, RowsInHand, RunState, HandlerState

\* The states that a scrobbler moves to.
LEMMA Moves ==
  ASSUME TypeOK, NEW s \in Scrobbler, NEW u
  PROVE  LET r == run[s] IN
         /\ r \in RunState
         /\ [r EXCEPT !.stopped = "yes"] \in RunState
         /\ \A w \in {0, 1} : [r EXCEPT !.wake = w] \in RunState
         /\ \A t \in SUBSET User : [r EXCEPT !.pc = "user", !.ok = "yes", !.todo = t] \in RunState
         /\ [r EXCEPT !.pc = "sleep", !.ok = "no"] \in RunState
         /\ GivenUp(s, u) \in RunState
         /\ GivenUp(s, u).pc = "user" /\ GivenUp(s, u).stopped = r.stopped
         /\ [r EXCEPT !.todo = @ \ {u}, !.user = AnyUser, !.entry = None] \in RunState
         /\ \A p \in {"user", "dequeue", "sleep", "list"} : [r EXCEPT !.pc = p] \in RunState
         /\ [r EXCEPT !.pc = "list", !.wake = 0] \in RunState
  <1>1. run[s] \in RunState
    BY DEF TypeOK, RunState
  <1> QED
    BY <1>1, Idle DEF RunState, GivenUp

LEMMA RefreshTyped ==
  ASSUME Typed, Refresh
  PROVE  /\ active' \in Scrobbler \cup {None} /\ started' \in 0..MaxScrobblers
         /\ run' \in [Scrobbler -> RunState]
         /\ plugin = "in" => active' \in Scrobbler
         /\ \A s \in Scrobbler : run'[s].pc \in {"send", "dequeue"} =>
               /\ run'[s].pc = run[s].pc /\ run'[s].entry = run[s].entry
               /\ run'[s].stopped = "no" => run[s].stopped = "no"
  <1>0. run \in [Scrobbler -> RunState] /\ active \in Scrobbler \cup {None}
        /\ started \in 0..MaxScrobblers /\ plugin \in {"in", "out"}
    BY DEF Typed, TypeOK, RunState
  <1>1. CASE /\ plugin = "in" /\ active = None /\ started < MaxScrobblers
             /\ started' = started + 1 /\ active' = started + 1
             /\ run' = [run EXCEPT ![started + 1] = [Off EXCEPT !.pc = "list"]]
    <2>1. started + 1 \in Scrobbler
      BY <1>0, <1>1, BoundAssumption DEF Scrobbler
    <2>2. [Off EXCEPT !.pc = "list"].pc = "list"
      BY DEF Off
    <2>3. run' \in [Scrobbler -> RunState]
      BY <1>0, <1>1, Idle
    <2> QED
      BY <1>0, <1>1, <2>1, <2>2, <2>3, BoundAssumption DEF Scrobbler
  <1>2. CASE /\ plugin = "out" /\ active # None
             /\ run' = [run EXCEPT ![active].stopped = "yes"]
             /\ active' = None /\ UNCHANGED started
    <2>1. active \in Scrobbler
      BY <1>0, <1>2
    <2>2. run[active] \in RunState /\ [run[active] EXCEPT !.stopped = "yes"] \in RunState
      BY <2>1, Moves DEF Typed
    <2>3. /\ [run[active] EXCEPT !.stopped = "yes"].pc = run[active].pc
          /\ [run[active] EXCEPT !.stopped = "yes"].entry = run[active].entry
          /\ [run[active] EXCEPT !.stopped = "yes"].stopped = "yes"
      BY <2>2 DEF RunState
    <2> QED
      BY <1>0, <1>2, <2>1, <2>2, <2>3
  <1>3. CASE (plugin = "in" <=> active # None) /\ UNCHANGED <<active, started, run>>
    BY <1>0, <1>3
  <1> QED
    BY <1>1, <1>2, <1>3 DEF Refresh

\* A step of one scrobbler keeps the types when the state it moves to does.
LEMMA SetTyped ==
  ASSUME Typed, NEW s \in Scrobbler, NEW r \in RunState, Set(s, r),
         r.pc \in {"send", "dequeue"} => r.entry \in 1..entries,
         buffered' \subseteq buffered,
         mishaps' \in 0..MaxMishaps, sent' \in [Entry -> Nat], refused' \subseteq Entry,
         severed' \subseteq Entry,
         UNCHANGED <<row, entries, plugin, active, started, handler, astray>>
  PROVE  Typed'
  <1>1. run' \in [Scrobbler -> RunState]
    BY DEF Typed, TypeOK, RunState, Set
  <1>2. RowsInHand'
    BY DEF Typed, TypeOK, RowsInHand, Set
  <1>3. TypeOK'
    BY <1>1 DEF Typed, TypeOK, RunState
  <1> QED
    BY <1>2, <1>3 DEF Typed

LEMMA MishapTyped ==
  ASSUME Typed, Mishap \/ UNCHANGED mishaps
  PROVE  mishaps' \in 0..MaxMishaps
  BY BoundAssumption DEF Typed, TypeOK, Mishap

\* unloadPlugin only takes the instances of the calls under way.
LEMMA UnloadMoves ==
  ASSUME Typed, Unload
  PROVE  /\ run' \in [Scrobbler -> RunState]
         /\ \A s \in Scrobbler : /\ run'[s].pc = run[s].pc /\ run'[s].entry = run[s].entry
                                 /\ run'[s].stopped = run[s].stopped
  <1>0. run \in [Scrobbler -> RunState]
    BY DEF Typed, TypeOK, RunState
  <1>1. ASSUME NEW s \in Scrobbler
        PROVE  LET r == [run[s] EXCEPT !.inst = "closed"] IN
               /\ r \in RunState /\ r.pc = run[s].pc /\ r.entry = run[s].entry
               /\ r.stopped = run[s].stopped
    BY <1>0 DEF RunState
  <1>2. run' = [s \in Scrobbler |->
                 IF run[s].pc = "send" THEN [run[s] EXCEPT !.inst = "closed"] ELSE run[s]]
    BY DEF Unload
  <1> QED
    BY <1>0, <1>1, <1>2

LEMMA StepTyped == Typed /\ [Next]_vars => Typed'
  <1> SUFFICES ASSUME Typed, [Next]_vars PROVE Typed'
    OBVIOUS
  <1>0. TypeOK /\ RowsInHand /\ run \in [Scrobbler -> RunState]
        /\ handler \in [Handler -> HandlerState]
    BY DEF Typed, TypeOK, RunState, HandlerState
  <1>1. ASSUME NEW h \in Handler, DispatchScrobble(h) PROVE Typed'
    <2>1. PICK p \in Plays : handler' = [handler EXCEPT ![h] =
              [NoReport EXCEPT !.pc = "enqueue", !.play = p, !.to = active']]
      BY <1>1 DEF DispatchScrobble
    <2>2. Refresh /\ UNCHANGED <<row, buffered, entries, plugin, mishaps, histories>>
      BY <1>1 DEF DispatchScrobble
    <2> DEFINE new == [NoReport EXCEPT !.pc = "enqueue", !.play = p, !.to = active']
    <2>3. new \in HandlerState /\ new.pc = "enqueue"
      BY <2>2, RefreshTyped, Idle DEF HandlerState, NoReport
    <2> HIDE DEF new
    <2>4. handler' \in [Handler -> HandlerState]
      BY <1>0, <2>1, <2>3 DEF new
    <2>5. RowsInHand'
      BY <1>0, <2>1, <2>2, <2>3, RefreshTyped DEF RowsInHand, new
    <2> QED
      BY <1>0, <2>2, <2>4, <2>5, RefreshTyped
      DEF Typed, TypeOK, RunState, HandlerState, histories
  <1>2. ASSUME NEW h \in Handler, Enqueue(h) PROVE Typed'
    <2>0. UNCHANGED <<plugin, active, started, run, histories>> /\ handler[h].play \in Plays
          /\ handler[h].to \in Scrobbler \cup {None}
      BY <1>0, <1>2 DEF Enqueue, HandlerState
    <2>1. CASE /\ entries < MaxEntries
               /\ entries' = entries + 1
               /\ row' = [row EXCEPT ![entries + 1] = handler[h].play]
               /\ buffered' = buffered \cup {entries + 1}
               /\ handler' = [handler EXCEPT ![h] =
                      [NoReport EXCEPT !.pc = "wake", !.to = handler[h].to, !.entry = entries + 1]]
               /\ UNCHANGED mishaps
      <3>1. entries + 1 \in Entry /\ entries \in Nat /\ entries' \in 0..MaxEntries
        BY <1>0, <2>1, BoundAssumption DEF TypeOK, Entry
      <3> DEFINE new == [NoReport EXCEPT !.pc = "wake", !.to = handler[h].to, !.entry = entries + 1]
      <3>2. new \in HandlerState /\ new.entry = entries + 1
        BY <2>0, <3>1, Idle DEF HandlerState, NoReport
      <3> HIDE DEF new
      <3>3. handler' \in [Handler -> HandlerState]
        BY <1>0, <2>1, <3>2 DEF new
      <3>4. RowsInHand'
        BY <1>0, <2>0, <2>1, <3>1, <3>2 DEF RowsInHand, new
      <3>5. row' \in [Entry -> Plays]
        BY <1>0, <2>0, <2>1, <3>1 DEF TypeOK
      <3>6. buffered' \subseteq 1..entries'
        BY <1>0, <2>1, <3>1 DEF TypeOK
      <3> QED
        BY <1>0, <2>0, <2>1, <3>1, <3>3, <3>4, <3>5, <3>6
        DEF Typed, TypeOK, RunState, HandlerState, histories
    <2>2. CASE /\ Mishap \/ (entries = MaxEntries /\ UNCHANGED mishaps)
               /\ handler' = [handler EXCEPT ![h] = NoReport]
               /\ UNCHANGED <<row, buffered, entries>>
      <3>1. handler' \in [Handler -> HandlerState]
        BY <1>0, <2>2, Idle
      <3>2. RowsInHand'
        BY <1>0, <2>0, <2>2, Idle DEF RowsInHand
      <3> QED
        BY <1>0, <2>0, <2>2, <3>1, <3>2, MishapTyped
        DEF Typed, TypeOK, RunState, HandlerState, histories
    <2> QED
      BY <1>2, <2>1, <2>2 DEF Enqueue
  <1>3. ASSUME NEW h \in Handler, SendWakeSignal(h) PROVE Typed'
    <2> DEFINE s == handler[h].to
    <2>1. handler' = [handler EXCEPT ![h] = NoReport] /\ handler[h].entry \in Entry
          /\ UNCHANGED <<row, buffered, entries, plugin, active, started, mishaps, sent, refused, severed>>
      BY <1>0, <1>3 DEF SendWakeSignal, RowsInHand
    <2>2. handler' \in [Handler -> HandlerState]
      BY <1>0, <2>1, Idle
    <2>3. astray' \subseteq Entry
      BY <1>0, <1>3, <2>1 DEF SendWakeSignal, TypeOK
    <2>4. run' \in [Scrobbler -> RunState]
          /\ \A t \in Scrobbler : run'[t].pc = run[t].pc /\ run'[t].entry = run[t].entry
      <3>1. PICK w \in {0, 1} : run' = [run EXCEPT ![s].wake = w]
        BY <1>3 DEF SendWakeSignal
      <3>2. CASE s \in Scrobbler
        <4>1. [run[s] EXCEPT !.wake = w] \in RunState
          BY <1>0, <3>2, Moves
        <4>2. /\ [run[s] EXCEPT !.wake = w].pc = run[s].pc
              /\ [run[s] EXCEPT !.wake = w].entry = run[s].entry
          BY <1>0, <3>2 DEF RunState
        <4> QED
          BY <1>0, <3>1, <3>2, <4>1, <4>2
      <3>3. CASE s \notin Scrobbler
        BY <1>0, <3>1, <3>3
      <3> QED
        BY <3>2, <3>3
    <2>5. RowsInHand'
      BY <1>0, <2>1, <2>4, Idle DEF RowsInHand
    <2> QED
      BY <1>0, <2>1, <2>2, <2>3, <2>4, <2>5 DEF Typed, TypeOK, RunState, HandlerState
  <1>4. ASSUME NEW s \in Scrobbler, UserIDs(s) PROVE Typed'
    <2>0. UNCHANGED <<row, buffered, entries, plugin, active, started, handler, histories>>
      BY <1>4 DEF UserIDs
    <2>1. CASE Working(s) /\ Set(s, [run[s] EXCEPT !.pc = "user", !.ok = "yes",
                                   !.todo = {row[e].user : e \in buffered}])
      <3>1. {row[e].user : e \in buffered} \in SUBSET User
        BY <1>0, Plain, BoundAssumption DEF TypeOK, Entry
      <3>2. [run[s] EXCEPT !.pc = "user", !.ok = "yes",
                           !.todo = {row[e].user : e \in buffered}].pc = "user"
        BY <1>0 DEF RunState
      <3> QED
        BY <1>0, <2>0, <2>1, <3>1, <3>2, Moves, SetTyped, MishapTyped DEF Working, TypeOK, histories
    <2>2. CASE Failing(s) /\ Set(s, [run[s] EXCEPT !.pc = "sleep", !.ok = "no"])
      <3>1. [run[s] EXCEPT !.pc = "sleep", !.ok = "no"].pc = "sleep"
        BY <1>0 DEF RunState
      <3> QED
        BY <1>0, <2>0, <2>2, <3>1, Moves, SetTyped, MishapTyped DEF Failing, TypeOK, histories
    <2> QED
      BY <1>4, <2>1, <2>2 DEF UserIDs
  <1>5. ASSUME NEW s \in Scrobbler, NEW u \in User, NextEntry(s, u) PROVE Typed'
    <2>0. UNCHANGED <<row, buffered, entries, plugin, active, started, handler, histories>>
          /\ run[s].pc = "user" /\ mishaps' \in 0..MaxMishaps
      BY <1>5, MishapTyped DEF NextEntry, Working, Failing
    <2>1. CASE Set(s, [run[s] EXCEPT !.todo = @ \ {u}, !.user = AnyUser, !.entry = None])
      <3>1. [run[s] EXCEPT !.todo = @ \ {u}, !.user = AnyUser, !.entry = None].pc = "user"
        BY <1>0, <2>0 DEF RunState
      <3> QED
        BY <1>0, <2>0, <2>1, <3>1, Moves, SetTyped DEF TypeOK, histories
    <2>2. ASSUME NEW e \in Of(u), Set(s, [run[s] EXCEPT !.pc = "send", !.user = u, !.entry = e])
          PROVE  Typed'
      <3> DEFINE r == [run[s] EXCEPT !.pc = "send", !.user = u, !.entry = e]
      <3>1. e \in 1..entries /\ e \in Entry
        BY <1>0, BoundAssumption DEF Of, TypeOK, Entry
      <3>2. r \in RunState /\ r.entry = e
        BY <1>0, <3>1 DEF RunState
      <3> HIDE DEF r
      <3>3. Set(s, r)
        BY <2>2 DEF r
      <3> QED
        BY <1>0, <2>0, <3>1, <3>2, <3>3, SetTyped DEF TypeOK, histories
    <2>3. CASE Set(s, GivenUp(s, u))
      BY <1>0, <2>0, <2>3, Moves, SetTyped DEF TypeOK, histories
    <2> QED
      BY <1>5, <2>1, <2>2, <2>3 DEF NextEntry
  <1>6. ASSUME NEW s \in Scrobbler, Send(s) PROVE Typed'
    <2> DEFINE e == run[s].entry  deq == [run[s] EXCEPT !.pc = "dequeue", !.inst = "live"]
    <2>0. UNCHANGED <<row, buffered, entries, plugin, active, started, handler, astray>>
          /\ run[s].pc = "send" /\ mishaps' \in 0..MaxMishaps
      BY <1>6, MishapTyped DEF Send
    <2>1. e \in 1..entries /\ e \in Entry
      BY <1>0, <2>0, BoundAssumption DEF TypeOK, RowsInHand, Entry
    <2>2. sent' \in [Entry -> Nat] /\ refused' \subseteq Entry /\ severed' \subseteq Entry
      BY <1>0, <1>6, <2>1 DEF Send, Arrive, TypeOK
    <2>3. deq \in RunState /\ deq.entry = e
      BY <1>0 DEF RunState
    <2>4. PutOff(s) \in RunState /\ PutOff(s).pc = "user"
      BY <1>0, Moves DEF PutOff
    <2>5. Set(s, deq) \/ Set(s, PutOff(s))
      BY <1>6 DEF Send
    <2> HIDE DEF deq
    <2> QED
      BY <2>0, <2>1, <2>2, <2>3, <2>4, <2>5, SetTyped
  <1>7. ASSUME NEW s \in Scrobbler, Dequeue(s) PROVE Typed'
    <2> DEFINE r == [run[s] EXCEPT !.pc = "user"]
    <2>0. UNCHANGED <<row, entries, plugin, active, started, handler, histories>>
          /\ buffered' \subseteq buffered /\ mishaps' \in 0..MaxMishaps
      BY <1>7, MishapTyped DEF Dequeue, Working, Failing
    <2>1. r \in RunState /\ r.pc = "user"
      BY <1>0 DEF RunState
    <2>2. Set(s, r) \/ Set(s, GivenUp(s, run[s].user))
      BY <1>7 DEF Dequeue
    <2> HIDE DEF r
    <2> QED
      BY <1>0, <2>0, <2>1, <2>2, Moves, SetTyped DEF TypeOK, histories
  <1>8. ASSUME NEW s \in Scrobbler, Served(s) PROVE Typed'
    <2> DEFINE r == [run[s] EXCEPT !.pc = "sleep"]
    <2>1. r \in RunState /\ r.pc = "sleep"
      BY <1>0 DEF RunState
    <2>2. Set(s, r)
      BY <1>8 DEF Served
    <2> HIDE DEF r
    <2> QED
      BY <1>0, <1>8, <2>1, <2>2, SetTyped DEF TypeOK, Served, histories
  <1>9. ASSUME NEW s \in Scrobbler, Select(s) PROVE Typed'
    <2>1. PICK r \in RunState : Set(s, r) /\ r.pc \in {"list", "off"}
      <3>1. /\ [run[s] EXCEPT !.pc = "list", !.wake = 0].pc = "list"
            /\ [run[s] EXCEPT !.pc = "list"].pc = "list"
            /\ [Off EXCEPT !.stopped = "yes"].pc = "off"
        BY <1>0 DEF RunState, Off
      <3> QED
        BY <1>0, <1>9, <3>1, Moves, Idle DEF Select
    <2> QED
      BY <1>0, <1>9, <2>1, SetTyped DEF TypeOK, Select, histories
  <1>10. CASE ReportPlayback
    <2>1. Refresh /\ UNCHANGED <<row, buffered, entries, plugin, handler, mishaps, histories>>
      BY <1>10 DEF ReportPlayback
    <2>2. RowsInHand'
      BY <1>0, <2>1, RefreshTyped DEF RowsInHand
    <2> QED
      BY <1>0, <2>1, <2>2, RefreshTyped DEF Typed, TypeOK, RunState, histories
  <1>11. CASE Unload
    <2>1. mishaps' \in 0..MaxMishaps /\ plugin' = "out"
          /\ UNCHANGED <<row, buffered, entries, active, started, handler, histories>>
      BY <1>11, MishapTyped DEF Unload
    <2>2. RowsInHand' /\ run' \in [Scrobbler -> RunState]
      BY <1>0, <1>11, <2>1, UnloadMoves DEF RowsInHand
    <2> QED
      BY <1>0, <2>1, <2>2 DEF Typed, TypeOK, RunState, histories
  <1>14. CASE Load \/ Discard
    <2>1. mishaps' \in 0..MaxMishaps
      BY <1>14, MishapTyped DEF Load, Discard
    <2>2. RowsInHand' /\ plugin' \in {"in", "out"} /\ buffered' \subseteq buffered
      BY <1>0, <1>14 DEF Load, Discard, TypeOK, RowsInHand
    <2>3. refused' \subseteq Entry
      <3>1. buffered \subseteq Entry
        BY <1>0, BoundAssumption DEF TypeOK, Entry
      <3>2. refused' \in {refused, refused \cup buffered}
        BY <1>14 DEF Load, Discard, histories
      <3> QED
        BY <1>0, <3>1, <3>2 DEF TypeOK
    <2>4. UNCHANGED <<row, entries, active, started, run, handler, sent, severed, astray>>
      BY <1>14 DEF Load, Discard, histories
    <2> QED
      BY <1>0, <2>1, <2>2, <2>3, <2>4 DEF Typed, TypeOK
  <1>12. CASE Crash
    <2>1. mishaps' \in 0..MaxMishaps
      BY <1>12, MishapTyped DEF Crash
    <2>2. run' \in [Scrobbler -> RunState] /\ handler' \in [Handler -> HandlerState]
      BY <1>12, Idle DEF Crash
    <2>3. RowsInHand'
      BY <1>12, Idle DEF Crash, RowsInHand
    <2> QED
      BY <1>0, <1>12, <2>1, <2>2, <2>3 DEF Crash, Typed, TypeOK, RunState, HandlerState, histories
  <1>13. CASE UNCHANGED vars
    BY <1>13 DEF vars, Typed, TypeOK, RowsInHand
  <1> QED
    BY <1>1, <1>2, <1>3, <1>4, <1>5, <1>6, <1>7, <1>8, <1>9, <1>10, <1>11, <1>12, <1>13, <1>14
    DEF Next, RunStep

\* Type correctness: every variable keeps its type, and whoever is at work on a
\* row of the buffer has one.
THEOREM ScrobblingTyped == Spec => []Typed
  BY TypedInit, StepTyped, PTL DEF Spec

-----------------------------------------------------------------------------
(* No scrobble is lost, and none overtakes another *)

Safe == InHand /\ NoScrobbleLost

LEMMA SafeInit == Init => Safe
  BY Idle DEF Init, Safe, InHand, InTurn, Disposed, NoScrobbleLost

\* What is known of a row may only grow, and a stored row is not rewritten.
LEMMA HistoryGrows ==
  ASSUME Typed, [Next]_vars
  PROVE  /\ refused \subseteq refused' /\ severed \subseteq severed'
         /\ \A e \in Entry : sent'[e] >= sent[e]
         /\ entries' \in {entries, entries + 1} /\ buffered' \subseteq buffered \cup {entries'}
         /\ \A e \in 1..entries : row'[e] = row[e]
  <1>0. sent \in [Entry -> Nat] /\ row \in [Entry -> Plays] /\ entries \in Nat
    BY DEF Typed, TypeOK
  <1>1. ASSUME NEW h \in Handler, Enqueue(h) 
        PROVE  /\ refused' = refused /\ severed' = severed /\ sent' = sent
               /\ entries' \in {entries, entries + 1} /\ buffered' \subseteq buffered \cup {entries'}
               /\ \A e \in 1..entries : row'[e] = row[e]
    <2>1. \A e \in 1..entries : e \in Entry /\ e # entries + 1
      BY <1>0, BoundAssumption DEF Entry, Typed, TypeOK
    <2>2. \/ UNCHANGED <<row, buffered, entries>>
          \/ /\ entries' = entries + 1 /\ buffered' = buffered \cup {entries + 1}
             /\ row' = [row EXCEPT ![entries + 1] = handler[h].play]
      BY <1>1 DEF Enqueue
    <2>3. \A e \in 1..entries : row'[e] = row[e]
      BY <1>0, <2>1, <2>2
    <2> QED
      BY <1>1, <2>2, <2>3 DEF Enqueue, histories
  <1>2. ASSUME NEW s \in Scrobbler, Send(s)
        PROVE  /\ refused \subseteq refused' /\ severed \subseteq severed'
               /\ \A e \in Entry : sent'[e] >= sent[e]
               /\ UNCHANGED <<row, buffered, entries>>
    BY <1>0, <1>2 DEF Send, Arrive
  <1>3. \/ \E h \in Handler : Enqueue(h)
        \/ \E s \in Scrobbler : Send(s)
        \/ /\ UNCHANGED <<row, entries, sent, severed>> /\ refused \subseteq refused'
           /\ buffered' \subseteq buffered
    BY DEF Next, vars, RunStep, DispatchScrobble, SendWakeSignal, UserIDs, NextEntry, Dequeue,
           Served, Select, ReportPlayback, Unload, Load, Discard, Crash, histories
  <1> QED
    BY <1>0, <1>1, <1>2, <1>3

\* Whoever is at work on a row after a step was so before it, or has just
\* taken it from the buffer or had it answered.
HandMoves(t) ==
    /\ run'[t].pc = "send" =>
          \/ run[t].pc = "send" /\ run'[t].entry = run[t].entry
          \/ /\ run'[t].entry \in buffered /\ UNCHANGED <<row, buffered, entries>>
             /\ \A f \in Of(row[run'[t].entry].user) : Before(run'[t].entry, f)
    /\ run'[t].pc = "dequeue" =>
          \/ /\ run[t].pc = "dequeue" /\ run'[t].entry = run[t].entry
             /\ run'[t].stopped = "no" => run[t].stopped = "no"
          \/ /\ run[t].pc = "send" /\ run'[t].entry = run[t].entry
             /\ run'[t].stopped = "no" => NowAccounted(run[t].entry)

LEMMA HandsMove ==
  ASSUME Typed, [Next]_vars, NEW t \in Scrobbler
  PROVE  HandMoves(t)
  <1>0. run \in [Scrobbler -> RunState] /\ TypeOK /\ RowsInHand
    BY DEF Typed, TypeOK, RunState
  <1>a. ASSUME NEW s \in Scrobbler, NEW r \in RunState, Set(s, r), r.pc \notin {"send", "dequeue"}
        PROVE  HandMoves(t)
    BY <1>0, <1>a DEF Set, HandMoves
  <1>b. ASSUME run'[t].pc \in {"send", "dequeue"} =>
                  /\ run'[t].pc = run[t].pc /\ run'[t].entry = run[t].entry
                  /\ run'[t].stopped = "no" => run[t].stopped = "no"
        PROVE  HandMoves(t)
    BY <1>b DEF HandMoves
  <1>1. CASE Refresh
    BY <1>1, <1>b, RefreshTyped
  <1>2. ASSUME NEW h \in Handler, SendWakeSignal(h) PROVE HandMoves(t)
    <2>1. PICK w \in {0, 1} : run' = [run EXCEPT ![handler[h].to].wake = w]
      BY <1>2 DEF SendWakeSignal
    <2>2. run'[t].pc = run[t].pc /\ run'[t].entry = run[t].entry /\ run'[t].stopped = run[t].stopped
      BY <1>0, <2>1 DEF RunState
    <2> QED
      BY <2>2, <1>b
  <1>3. ASSUME NEW s \in Scrobbler, UserIDs(s) \/ Dequeue(s) \/ Served(s) \/ Select(s) PROVE HandMoves(t)
    <2>1. PICK r \in RunState : Set(s, r) /\ r.pc \notin {"send", "dequeue"}
      <3>1. UserIDs(s) => \E t1 \in SUBSET User :
               Set(s, [run[s] EXCEPT !.pc = "user", !.ok = "yes", !.todo = t1])
               \/ Set(s, [run[s] EXCEPT !.pc = "sleep", !.ok = "no"])
        <4>1. {row[e].user : e \in buffered} \in SUBSET User
          BY <1>0, Plain, BoundAssumption DEF TypeOK, Entry
        <4> QED
          BY <4>1 DEF UserIDs
      <3>2. /\ \A t1 : [run[s] EXCEPT !.pc = "user", !.ok = "yes", !.todo = t1].pc = "user"
            /\ [run[s] EXCEPT !.pc = "sleep", !.ok = "no"].pc = "sleep"
            /\ [run[s] EXCEPT !.pc = "user"].pc = "user"
            /\ [run[s] EXCEPT !.pc = "sleep"].pc = "sleep"
            /\ [run[s] EXCEPT !.pc = "list", !.wake = 0].pc = "list"
            /\ [run[s] EXCEPT !.pc = "list"].pc = "list"
            /\ [Off EXCEPT !.stopped = "yes"].pc = "off"
        BY <1>0 DEF RunState, Off
      <3>3. CASE UserIDs(s)
        BY <1>0, <3>1, <3>2, <3>3, Moves
      <3>4. CASE Dequeue(s)
        BY <1>0, <3>2, <3>4, Moves DEF Dequeue
      <3>5. CASE Served(s)
        BY <1>0, <3>2, <3>5, Moves DEF Served
      <3>6. CASE Select(s)
        BY <1>0, <3>2, <3>6, Moves, Idle DEF Select
      <3> QED
        BY <1>3, <3>3, <3>4, <3>5, <3>6
    <2> QED
      BY <2>1, <1>a
  <1>4. ASSUME NEW s \in Scrobbler, NEW u \in User, NextEntry(s, u) PROVE HandMoves(t)
    <2>0. run[s].pc = "user" /\ UNCHANGED <<row, buffered, entries>>
      BY <1>4 DEF NextEntry
    <2>1. CASE Set(s, [run[s] EXCEPT !.todo = @ \ {u}, !.user = AnyUser, !.entry = None])
      <3>1. [run[s] EXCEPT !.todo = @ \ {u}, !.user = AnyUser, !.entry = None].pc = "user"
        BY <1>0, <2>0 DEF RunState
      <3> QED
        BY <1>0, <2>1, <3>1, <1>a, Moves
    <2>2. ASSUME NEW e \in Of(u), \A f \in Of(u) : Before(e, f),
                 Set(s, [run[s] EXCEPT !.pc = "send", !.user = u, !.entry = e])
          PROVE  HandMoves(t)
      <3> DEFINE r == [run[s] EXCEPT !.pc = "send", !.user = u, !.entry = e]
      <3>1. r.entry = e /\ r.pc = "send"
        BY <1>0 DEF RunState
      <3> HIDE DEF r
      <3>2. run' = [run EXCEPT ![s] = r]
        BY <2>2 DEF r, Set
      <3>3. e \in buffered /\ row[e].user = u
        BY DEF Of
      <3>4. CASE t = s
        <4>1. run'[t].pc = "send" /\ run'[t].entry = e
          BY <1>0, <3>1, <3>2, <3>4
        <4> QED
          BY <4>1, <3>3, <2>0, <2>2 DEF HandMoves
      <3>5. CASE t # s
        BY <1>0, <3>2, <3>5, <1>b
      <3> QED
        BY <3>4, <3>5
    <2>3. CASE Set(s, GivenUp(s, u))
      BY <1>0, <2>3, <1>a, Moves
    <2> QED
      BY <1>4, <2>1, <2>2, <2>3 DEF NextEntry
  <1>5. ASSUME NEW s \in Scrobbler, Send(s) PROVE HandMoves(t)
    <2> DEFINE e == run[s].entry  deq == [run[s] EXCEPT !.pc = "dequeue", !.inst = "live"]
    <2>0. run[s].pc = "send" /\ e \in Entry
      BY <1>0, <1>5, BoundAssumption DEF Send, RowsInHand, TypeOK, Entry
    <2>1. CASE Set(s, PutOff(s))
      BY <1>0, <2>1, <1>a, Moves DEF PutOff
    <2>2. CASE Set(s, deq) /\ (e \in refused' \cup severed' \/ Arrive(e) \/ run[s].stopped = "yes")
      <3>1. deq.entry = e /\ deq.pc = "dequeue" /\ deq.stopped = run[s].stopped
        BY <1>0 DEF RunState
      <3> HIDE DEF deq
      <3>2. run' = [run EXCEPT ![s] = deq]
        BY <2>2 DEF Set
      <3>3. run[s].stopped = "yes" \/ NowAccounted(e)
        BY <1>0, <2>0, <2>2 DEF Arrive, TypeOK, NowAccounted
      <3>4. CASE t = s
        <4>1. run'[t].pc = "dequeue" /\ run'[t].entry = e /\ run'[t].stopped = run[t].stopped
          BY <1>0, <3>1, <3>2, <3>4
        <4> QED
          BY <4>1, <3>3, <2>0, <3>4 DEF HandMoves
      <3>5. CASE t # s
        BY <1>0, <3>2, <3>5, <1>b
      <3> QED
        BY <3>4, <3>5
    <2> QED
      BY <1>5, <2>1, <2>2 DEF Send
  <1>6. CASE Crash
    <2>1. run'[t].pc = "off"
      BY <1>6, Idle DEF Crash
    <2> QED
      BY <2>1, <1>b
  <1>7. CASE Unload
    BY <1>7, <1>b, UnloadMoves
  <1>8. CASE UNCHANGED run
    BY <1>8, <1>b
  <1> QED
    BY <1>1, <1>2, <1>3, <1>4, <1>5, <1>6, <1>7, <1>8
    DEF Next, RunStep, DispatchScrobble, Enqueue, ReportPlayback, Load, Discard, vars

LEMMA SafeStep == Typed /\ Safe /\ [Next]_vars => Safe'
  <1> SUFFICES ASSUME Typed, Safe, [Next]_vars PROVE Safe'
    OBVIOUS
  <1>0. /\ TypeOK /\ RowsInHand /\ InHand /\ NoScrobbleLost
        /\ buffered \subseteq 1..entries /\ entries \in Nat /\ row \in [Entry -> Plays]
        /\ 1..entries \subseteq Entry /\ sent \in [Entry -> Nat]
    BY BoundAssumption DEF Typed, TypeOK, Safe, Entry
  <1>1. Typed'
    BY StepTyped
  <1>2. ASSUME NEW t \in Scrobbler PROVE InTurn(t)'
    <2> DEFINE e == run'[t].entry
    <2> SUFFICES ASSUME run'[t].pc = "send"
                 PROVE  /\ e \in 1..entries'
                        /\ \A f \in buffered' :
                              f < e /\ row'[f].user = row'[e].user => row'[f].time > row'[e].time
      BY DEF InTurn
    <2>1. CASE run[t].pc = "send" /\ run'[t].entry = run[t].entry
      <3>1. e \in 1..entries
        BY <1>0, <2>1 DEF RowsInHand
      <3>2. ASSUME NEW f \in buffered', f < e, row'[f].user = row'[e].user
            PROVE  row'[f].time > row'[e].time
        <4>1. f \in buffered
          BY <1>0, <3>1, <3>2, HistoryGrows
        <4>2. row'[f] = row[f] /\ row'[e] = row[e]
          BY <1>0, <3>1, <4>1, HistoryGrows
        <4> QED
          BY <1>0, <2>1, <3>2, <4>1, <4>2 DEF InHand, InTurn
      <3>3. e \in 1..entries'
        BY <1>0, <3>1, HistoryGrows
      <3> QED
        BY <3>2, <3>3
    <2>2. CASE /\ run'[t].entry \in buffered /\ UNCHANGED <<row, buffered, entries>>
               /\ \A f \in Of(row[run'[t].entry].user) : Before(run'[t].entry, f)
      <3>1. ASSUME NEW f \in buffered, f < e, row[f].user = row[e].user
            PROVE  row[f].time > row[e].time
        <4>1. Before(e, f) /\ f \in Int /\ e \in Int
          <5>1. f \in Of(row[e].user)
            BY <3>1 DEF Of
          <5>2. Before(e, f)
            BY <2>2, <5>1
          <5>3. f \in 1..entries /\ e \in 1..entries
            BY <1>0, <2>2
          <5> QED
            BY <1>0, <5>2, <5>3
        <4>2. row[e].time \in Nat /\ row[f].time \in Nat
          BY <1>0, <2>2, Plain
        <4> QED
          BY <3>1, <4>1, <4>2 DEF Before
      <3> QED
        BY <1>0, <2>2, <3>1
    <2> QED
      BY <2>1, <2>2, HandsMove DEF HandMoves
  <1>3. ASSUME NEW t \in Scrobbler PROVE Disposed(t)'
    <2> DEFINE e == run'[t].entry
    <2> SUFFICES ASSUME run'[t].pc = "dequeue"
                 PROVE  e \in 1..entries' /\ (run'[t].stopped = "no" => NowAccounted(e))
      BY DEF Disposed, Accounted, NowAccounted
    <2>1. e \in 1..entries'
      BY <1>1 DEF Typed, RowsInHand
    <2>2. CASE /\ run[t].pc = "dequeue" /\ run'[t].entry = run[t].entry
               /\ run'[t].stopped = "no" => run[t].stopped = "no"
      <3>1. e \in Entry /\ (run[t].stopped = "no" => Accounted(e))
        BY <1>0, <2>2 DEF InHand, Disposed
      <3>2. Accounted(e) => NowAccounted(e)
        <4>1. /\ refused \subseteq refused' /\ severed \subseteq severed'
              /\ sent'[e] >= sent[e] /\ sent[e] \in Nat /\ sent'[e] \in Nat
          BY <1>0, <1>1, <3>1, HistoryGrows DEF Typed, TypeOK
        <4> QED
          BY <2>2, <4>1 DEF Accounted, NowAccounted
      <3> QED
        BY <2>1, <2>2, <3>1, <3>2
    <2>3. CASE /\ run[t].pc = "send" /\ run'[t].entry = run[t].entry
               /\ run'[t].stopped = "no" => NowAccounted(run[t].entry)
      <3>1. NowAccounted(run[t].entry) => NowAccounted(e)
        BY <2>3 DEF NowAccounted
      <3> QED
        BY <2>1, <2>3, <3>1
    <2> QED
      BY <2>2, <2>3, HandsMove DEF HandMoves
  <1>4. NoScrobbleLost'
    <2> SUFFICES ASSUME NEW e \in 1..entries'
                 PROVE  e \in buffered' \cup refused' \cup severed' \/ sent'[e] > 0
      BY DEF NoScrobbleLost
    <2>1. CASE e \in 1..entries /\ Accounted(e)
      <3>1. /\ refused \subseteq refused' /\ severed \subseteq severed'
            /\ sent'[e] >= sent[e] /\ sent[e] \in Nat /\ sent'[e] \in Nat
        BY <1>0, <1>1, <2>1, HistoryGrows DEF Typed, TypeOK
      <3> QED
        BY <2>1, <3>1 DEF Accounted
    <2>2. CASE e \in buffered
      <3>1. CASE \E s \in Scrobbler : Dequeue(s)
        <4>1. PICK s \in Scrobbler : Dequeue(s)
          BY <3>1
        <4>2. /\ run[s].pc = "dequeue"
              /\ \/ UNCHANGED buffered
                 \/ buffered' = buffered \ {run[s].entry} /\ run[s].stopped = "no"
          BY <4>1 DEF Dequeue, Working
        <4>3. CASE e = run[s].entry /\ run[s].stopped = "no"
          <5>1. Accounted(e)
            BY <1>0, <4>2, <4>3 DEF InHand, Disposed
          <5> QED
            BY <1>0, <2>1, <2>2, <5>1
        <4> QED
          BY <2>2, <4>2, <4>3
      <3>2. CASE Discard
        BY <2>2, <3>2 DEF Discard
      <3>3. CASE \E h \in Handler : Enqueue(h)
        BY <2>2, <3>3 DEF Enqueue
      <3>4. CASE UNCHANGED buffered
        BY <2>2, <3>4
      <3> QED
        BY <3>1, <3>2, <3>3, <3>4
        DEF Next, vars, RunStep, DispatchScrobble, SendWakeSignal, UserIDs, NextEntry, Send,
            Served, Select, ReportPlayback, Unload, Load, Crash
    <2>3. CASE e \notin 1..entries
      <3>1. PICK h \in Handler : Enqueue(h)
        <4>1. entries' # entries
          BY <2>3
        <4> QED
          BY <4>1
          DEF Next, vars, RunStep, DispatchScrobble, SendWakeSignal, UserIDs, NextEntry, Send, Dequeue,
              Served, Select, ReportPlayback, Unload, Load, Discard, Crash
      <3> QED
        BY <1>0, <2>3, <3>1 DEF Enqueue
    <2> QED
      BY <1>0, <2>1, <2>2, <2>3 DEF NoScrobbleLost, Accounted
  <1> QED
    BY <1>2, <1>3, <1>4 DEF Safe, InHand

\* No stored scrobble is lost: a row leaves scrobble_buffer only when the
\* service has taken it, its plugin has refused it or is removed for good, or
\* the plugin was unloaded while it was being called with that very row.
THEOREM NothingLost == Spec => []NoScrobbleLost
  <1>1. Safe => NoScrobbleLost
    BY DEF Safe
  <1> QED
    BY <1>1, SafeInit, SafeStep, ScrobblingTyped, PTL DEF Spec

\* Only the row in hand of a scrobbler is sent.
LEMMA OnlyInTurnSent ==
  ASSUME Typed, Safe, [Next]_vars, NEW e \in Entry, NEW f \in Entry,
         sent'[e] > sent[e], f \in buffered, f < e, row[f].user = row[e].user
  PROVE  row[f].time > row[e].time
  <1>0. sent \in [Entry -> Nat]
    BY DEF Typed, TypeOK
  <1>1. PICK s \in Scrobbler : Send(s)
    <2>1. ~ UNCHANGED sent
      BY <1>0
    <2> QED
      BY <2>1
      DEF Next, vars, RunStep, DispatchScrobble, Enqueue, SendWakeSignal, UserIDs, NextEntry, Dequeue,
          Served, Select, ReportPlayback, Unload, Load, Discard, Crash, histories
  <1>2. run[s].pc = "send" /\ (UNCHANGED sent \/ Arrive(run[s].entry))
    BY <1>1 DEF Send
  <1>3. e = run[s].entry
    BY <1>0, <1>2 DEF Arrive
  <1> QED
    BY <1>2, <1>3 DEF Safe, InHand, InTurn

\* A user's scrobbles are sent in the order of their play times, never past one
\* that was stored before and played no later.
THEOREM OrderKept == Spec => SentInOrder
  <1>1. Typed /\ Safe /\ [Next]_vars =>
          [\A e, f \in Entry :
              /\ sent'[e] > sent[e] /\ f \in buffered /\ f < e
              /\ row[f].user = row[e].user
              => row[f].time > row[e].time]_vars
    BY OnlyInTurnSent
  <1> QED
    BY <1>1, SafeInit, SafeStep, ScrobblingTyped, PTL DEF Spec, SentInOrder

-----------------------------------------------------------------------------
(* Every send past the first is paid for *)

LEMMA StragglersFinite ==
  ASSUME NEW e
  PROVE  /\ IsFiniteSet(Stragglers(e)) /\ Cardinality(Stragglers(e)) \in Nat
         /\ \A s : s \in Stragglers(e) =>
               Cardinality(Stragglers(e) \ {s}) = Cardinality(Stragglers(e)) - 1
  <1>1. IsFiniteSet(Scrobbler)
    BY FS_Interval, BoundAssumption DEF Scrobbler
  <1>2. IsFiniteSet(Stragglers(e))
    BY <1>1, FS_Subset DEF Stragglers
  <1> QED
    BY <1>2, FS_CardinalityType, FS_RemoveElement

LEMMA AccountsInit == Init => Accounts
  <1> SUFFICES ASSUME Init PROVE Accounts
    OBVIOUS
  <1>1. \A s \in Scrobbler : run[s].pc = "off" /\ run[s].stopped = "no"
    BY Idle DEF Init
  <1>2. \A e : Stragglers(e) = {}
    BY <1>1 DEF Stragglers
  <1>3. \A e : Cardinality(Stragglers(e)) = 0
    BY <1>2, FS_EmptySet
  <1> QED
    BY <1>1, <1>3 DEF Init, Accounts, OneLive, PaidFor, Ahead, Due

\* The account of row e, from its parts.
LEMMA Parts ==
  ASSUME Typed, Accounts, NEW e \in Entry
  PROVE  /\ sent[e] \in Nat /\ mishaps \in Nat
         /\ Cardinality(Stragglers(e)) \in Nat /\ Ahead(e) \in {0, 1} /\ Due \in {0, 1}
         /\ sent[e] + Cardinality(Stragglers(e)) + Ahead(e) + Due <= 1 + mishaps
  BY StragglersFinite, BoundAssumption DEF Typed, TypeOK, Accounts, PaidFor, Ahead, Due

\* A step of scrobbler s, to the state r.
LEMMA OneMoves ==
  ASSUME Typed, Accounts, NEW s \in Scrobbler, NEW r \in RunState, Set(s, r),
         r.stopped = run[s].stopped, run[s].pc # "off", r.pc = "off" => r.stopped = "yes",
         UNCHANGED active
  PROVE  /\ OneLive'
         /\ run[s].stopped = "no" => s = active
         /\ run[s].stopped = "yes" => s # active /\ \A e : Removing(e)' = Removing(e) /\ Sending(e)' = Sending(e)
         /\ \A e : ~(r.stopped = "yes" /\ r.pc = "send" /\ r.entry = e) =>
                      Stragglers(e)' = Stragglers(e) \ {s}
         /\ run[s].stopped = "no" => \A e : Stragglers(e)' = Stragglers(e)
         /\ s = active => \A e : /\ Removing(e)' <=> r.pc = "dequeue" /\ r.entry = e
                                 /\ Sending(e)' <=> r.pc = "send" /\ r.entry = e
                                 /\ Removing(e) <=> run[s].pc = "dequeue" /\ run[s].entry = e
                                 /\ Sending(e) <=> run[s].pc = "send" /\ run[s].entry = e
  <1>0. run \in [Scrobbler -> RunState] /\ active \in Scrobbler \cup {None} /\ None \notin Scrobbler
    BY DEF Typed, TypeOK, RunState, Scrobbler, None
  <1>1. OneLive /\ run[s].stopped \in {"yes", "no"}
    BY <1>0 DEF Accounts, RunState
  <1>2. run' = [run EXCEPT ![s] = r]
    BY DEF Set
  <1>3. OneLive'
    BY <1>0, <1>1, <1>2 DEF OneLive
  <1>4. run[s].stopped = "no" => s = active
    BY <1>1 DEF OneLive
  <1>5. run[s].stopped = "yes" => s # active
    BY <1>0, <1>1 DEF OneLive
  <1>6. ASSUME run[s].stopped = "yes", NEW e
        PROVE  Removing(e)' = Removing(e) /\ Sending(e)' = Sending(e)
    BY <1>0, <1>2, <1>5, <1>6 DEF Removing, Sending
  <1>7. ASSUME NEW e, ~(r.stopped = "yes" /\ r.pc = "send" /\ r.entry = e)
        PROVE  Stragglers(e)' = Stragglers(e) \ {s}
    BY <1>0, <1>2, <1>7 DEF Stragglers
  <1>8. ASSUME NEW e, run[s].stopped = "no"
        PROVE  Stragglers(e)' = Stragglers(e)
    BY <1>0, <1>2, <1>8 DEF Stragglers
  <1>9. ASSUME s = active, NEW e
        PROVE  /\ Removing(e)' <=> r.pc = "dequeue" /\ r.entry = e
               /\ Sending(e)' <=> r.pc = "send" /\ r.entry = e
               /\ Removing(e) <=> run[s].pc = "dequeue" /\ run[s].entry = e
               /\ Sending(e) <=> run[s].pc = "send" /\ run[s].entry = e
    BY <1>0, <1>2, <1>9 DEF Removing, Sending
  <1> QED
    BY <1>3, <1>4, <1>5, <1>6, <1>7, <1>8, <1>9

\* A step of a scrobbler that neither had nor takes a row.
LEMMA QuietMove ==
  ASSUME Typed, Accounts, NEW s \in Scrobbler, NEW r \in RunState, Set(s, r),
         r.stopped = run[s].stopped, run[s].pc # "off", r.pc = "off" => r.stopped = "yes",
         run[s].pc \notin {"send", "dequeue"}, r.pc \notin {"send", "dequeue"},
         mishaps' \in Nat, mishaps' >= mishaps,
         UNCHANGED <<buffered, entries, plugin, active, sent>>
  PROVE  Accounts'
  <1>0. UNCHANGED active
    OBVIOUS
  <1>1. OneLive'
    BY <1>0, OneMoves
  <1>2. ASSUME NEW e \in Entry PROVE PaidFor(e)'
    <2>1. Stragglers(e)' = Stragglers(e)
      <3>1. s \notin Stragglers(e)
        BY DEF Stragglers
      <3> QED
        BY <1>0, <3>1, OneMoves
    <2>2. Removing(e)' = Removing(e) /\ Sending(e)' = Sending(e)
      <3>1. run[s].stopped \in {"yes", "no"}
        BY DEF Typed, TypeOK
      <3> QED
        BY <1>0, <3>1, OneMoves DEF Removing, Sending
    <2>3. Ahead(e)' = Ahead(e) /\ Due' = Due
      BY <2>2 DEF Ahead, Due
    <2> QED
      BY <2>1, <2>3, Parts DEF PaidFor
  <1>3. plugin' = "out" => mishaps' > 0
    BY BoundAssumption DEF Accounts, Typed, TypeOK
  <1> QED
    BY <1>1, <1>2, <1>3 DEF Accounts

LEMMA MishapCounts ==
  ASSUME Typed, Mishap \/ UNCHANGED mishaps
  PROVE  mishaps' \in Nat /\ mishaps' >= mishaps
  BY BoundAssumption DEF Typed, TypeOK, Mishap

LEMMA SendPaid ==
  ASSUME Typed, Accounts, NEW s \in Scrobbler, Send(s)
  PROVE  Accounts'
  <1> DEFINE deq == [run[s] EXCEPT !.pc = "dequeue", !.inst = "live"]
  <1>0. /\ UNCHANGED <<row, buffered, entries, plugin, active, started, handler, astray>>
        /\ UNCHANGED active
        /\ run[s].pc = "send" /\ run[s].stopped \in {"yes", "no"}
        /\ mishaps' \in Nat /\ mishaps' >= mishaps
    BY MishapCounts DEF Send, Typed, TypeOK
  <1>1. PICK e \in Entry : e = run[s].entry /\ e \in 1..entries
    BY <1>0, BoundAssumption DEF Typed, TypeOK, RowsInHand, Entry
  <1>2. PICK r \in RunState :
          /\ Set(s, r) /\ r.stopped = run[s].stopped
          /\ \/ r.pc = "dequeue" /\ r.entry = e /\ mishaps' = mishaps
             \/ r.pc = "user" /\ (mishaps' = mishaps + 1 \/ sent' = sent)
    <2>1. run[s] \in RunState
      BY DEF Typed, TypeOK, RunState
    <2>2. deq \in RunState /\ deq.stopped = run[s].stopped /\ deq.pc = "dequeue" /\ deq.entry = e
      BY <1>1, <2>1 DEF RunState
    <2>3. PutOff(s) \in RunState /\ PutOff(s).stopped = run[s].stopped /\ PutOff(s).pc = "user"
      BY Moves DEF PutOff, Typed
    <2>4. \/ Set(s, deq) /\ mishaps' = mishaps
          \/ Set(s, PutOff(s)) /\ (mishaps' = mishaps + 1 \/ sent' = sent)
      BY DEF Send, Mishap
    <2> HIDE DEF deq
    <2> QED
      BY <2>2, <2>3, <2>4
  <1>3. sent \in [Entry -> Nat] /\ (sent' = sent \/ Arrive(e))
    BY <1>1 DEF Send, Typed, TypeOK
  <1>4. OneLive'
    BY <1>0, <1>2, OneMoves
  <1>5. ASSUME NEW x \in Entry, x # e PROVE PaidFor(x)'
    <2>1. Stragglers(x)' = Stragglers(x)
      <3>1. s \notin Stragglers(x)
        BY <1>1, <1>5 DEF Stragglers
      <3>2. Stragglers(x)' = Stragglers(x) \ {s}
        BY <1>0, <1>2, OneMoves
      <3> QED
        BY <3>1, <3>2
    <2>2. Removing(x)' = Removing(x) /\ Sending(x)' = Sending(x)
      <3>1. CASE run[s].stopped = "yes"
        BY <1>0, <1>2, <3>1, OneMoves
      <3>2. CASE run[s].stopped = "no"
        <4>1. s = active
          BY <1>0, <1>2, <3>2, OneMoves
        <4>2. ~Removing(x)' /\ ~Removing(x) /\ ~Sending(x)' /\ ~Sending(x)
          BY <1>0, <1>1, <1>2, <1>5, <4>1, OneMoves
        <4> QED
          BY <4>2 DEF Removing, Sending
      <3> QED
        BY <1>0, <3>1, <3>2
    <2>3. Ahead(x)' = Ahead(x) /\ Due' = Due
      BY <1>0, <2>2 DEF Ahead, Due
    <2>4. sent'[x] = sent[x]
      BY <1>3, <1>5 DEF Arrive
    <2> QED
      BY <1>0, <2>1, <2>3, <2>4, Parts DEF PaidFor
  <1>6. PaidFor(e)'
    <2>0. Due' = Due /\ sent'[e] \in {sent[e], sent[e] + 1} /\ Ahead(e)' \in {0, 1}
      BY <1>0, <1>1, <1>3 DEF Due, Arrive, Ahead
    <2>1. CASE run[s].stopped = "yes"
      <3>1. s \in Stragglers(e)
        BY <1>0, <1>1, <2>1 DEF Stragglers
      <3>2. Stragglers(e)' = Stragglers(e) \ {s}
        BY <1>0, <1>2, OneMoves
      <3>3. Cardinality(Stragglers(e)') = Cardinality(Stragglers(e)) - 1
        BY <3>1, <3>2, StragglersFinite
      <3>4. Removing(e)' = Removing(e) /\ Sending(e)' = Sending(e)
        BY <1>0, <1>2, <2>1, OneMoves
      <3>5. Ahead(e)' = Ahead(e)
        BY <1>0, <3>4 DEF Ahead
      <3> QED
        BY <1>0, <1>1, <2>0, <3>3, <3>5, Parts DEF PaidFor
    <2>2. CASE run[s].stopped = "no"
      <3>1. s = active /\ Stragglers(e)' = Stragglers(e)
        BY <1>0, <1>2, <2>2, OneMoves
      <3>2. Sending(e) /\ ~ Removing(e)
        BY <1>0, <1>1, <1>2, <3>1, OneMoves
      <3>3. Ahead(e) = 1
        BY <3>2 DEF Ahead
      <3>4. r.pc = "dequeue" /\ r.entry = e => Ahead(e)' = 0
        BY <1>0, <1>1, <1>2, <3>1, OneMoves DEF Ahead
      <3>5. CASE r.pc = "dequeue" /\ r.entry = e /\ mishaps' = mishaps
        BY <1>1, <2>0, <3>1, <3>3, <3>4, <3>5, Parts DEF PaidFor
      <3>6. CASE mishaps' = mishaps + 1
        BY <1>1, <2>0, <3>1, <3>3, <3>6, Parts DEF PaidFor
      <3>7. CASE sent' = sent
        BY <1>0, <1>1, <2>0, <3>1, <3>3, <3>7, Parts DEF PaidFor
      <3> QED
        BY <1>2, <3>5, <3>6, <3>7
    <2> QED
      BY <1>0, <2>1, <2>2
  <1>7. \A x \in Entry : x > entries' => sent'[x] = 0
    BY <1>0, <1>1, <1>3 DEF Accounts, Arrive, Typed, TypeOK
  <1>8. plugin' = "out" => mishaps' > 0
    BY <1>0, BoundAssumption DEF Accounts, Typed, TypeOK
  <1> QED
    BY <1>4, <1>5, <1>6, <1>7, <1>8 DEF Accounts

LEMMA DequeuePaid ==
  ASSUME Typed, Accounts, NEW s \in Scrobbler, Dequeue(s)
  PROVE  Accounts'
  <1> DEFINE done == [run[s] EXCEPT !.pc = "user"]
  <1>0. /\ UNCHANGED <<row, entries, plugin, active, started, handler, sent>>
        /\ UNCHANGED active
        /\ run[s].pc = "dequeue" /\ run[s].stopped \in {"yes", "no"}
        /\ mishaps' \in Nat /\ mishaps' >= mishaps
    BY MishapCounts DEF Dequeue, Failing, Working, Typed, TypeOK, histories
  <1>1. PICK e \in Entry : e = run[s].entry
    BY <1>0, BoundAssumption DEF Typed, TypeOK, RowsInHand, Entry
  <1>2. PICK r \in RunState :
          /\ Set(s, r) /\ r.stopped = run[s].stopped /\ r.pc = "user"
          /\ \/ Working(s) /\ buffered' = buffered \ {e}
             \/ Failing(s) /\ buffered' = buffered
    <2>1. run[s] \in RunState
      BY DEF Typed, TypeOK, RunState
    <2>2. done \in RunState /\ done.stopped = run[s].stopped /\ done.pc = "user"
      BY <2>1 DEF RunState
    <2>3. /\ GivenUp(s, run[s].user) \in RunState /\ GivenUp(s, run[s].user).pc = "user"
          /\ GivenUp(s, run[s].user).stopped = run[s].stopped
      BY Moves DEF Typed
    <2> HIDE DEF done
    <2> QED
      BY <1>1, <2>2, <2>3 DEF Dequeue, done
  <1>3. OneLive'
    BY <1>0, <1>2, OneMoves
  <1>4. ASSUME NEW x \in Entry PROVE PaidFor(x)'
    <2>1. Stragglers(x)' = Stragglers(x) /\ Due' = Due /\ sent'[x] = sent[x]
      <3>1. s \notin Stragglers(x)
        BY <1>0 DEF Stragglers
      <3>2. Stragglers(x)' = Stragglers(x) \ {s}
        BY <1>0, <1>2, OneMoves
      <3> QED
        BY <1>0, <3>1, <3>2 DEF Due
    <2>2. CASE run[s].stopped = "yes"
      <3>1. Removing(x)' = Removing(x) /\ Sending(x)' = Sending(x) /\ buffered' = buffered
        BY <1>0, <1>2, <2>2, OneMoves DEF Working
      <3>2. Ahead(x)' = Ahead(x)
        BY <3>1 DEF Ahead
      <3> QED
        BY <1>0, <2>1, <3>2, Parts DEF PaidFor
    <2>3. CASE run[s].stopped = "no"
      <3>1. s = active /\ ~Removing(x)' /\ ~Sending(x)' /\ ~Sending(x) /\ (Removing(x) <=> x = e)
        BY <1>0, <1>1, <1>2, <2>3, OneMoves
      <3>2. Ahead(x)' \in {0, 1}
        BY DEF Ahead
      <3>3. CASE buffered' = buffered \ {e}
        <4>1. Ahead(x)' = Ahead(x)
          BY <3>1, <3>3 DEF Ahead
        <4> QED
          BY <1>0, <2>1, <4>1, Parts DEF PaidFor
      <3>4. CASE Failing(s) /\ buffered' = buffered
        <4>1. mishaps' = mishaps + 1
          BY <2>3, <3>4 DEF Failing, Mishap
        <4> QED
          BY <1>0, <2>1, <3>2, <4>1, Parts DEF PaidFor
      <3> QED
        BY <1>2, <3>3, <3>4
    <2> QED
      BY <1>0, <2>2, <2>3
  <1>5. plugin' = "out" => mishaps' > 0
    BY <1>0, BoundAssumption DEF Accounts, Typed, TypeOK
  <1> QED
    BY <1>0, <1>3, <1>4, <1>5 DEF Accounts

\* A scrobbler takes the row e: it is the registered one, and e was ahead of it.
LEMMA TakePaid ==
  ASSUME Typed, Accounts, NEW s \in Scrobbler, NEW r \in RunState, Set(s, r),
         run[s].pc = "user", run[s].stopped = "no", r.stopped = "no",
         r.pc = "send", r.entry \in buffered,
         UNCHANGED <<buffered, entries, plugin, active, sent, mishaps>>
  PROVE  Accounts'
  <1>0. UNCHANGED active /\ run[s].pc # "off" /\ r.pc # "off" /\ r.stopped = run[s].stopped
    OBVIOUS
  <1>1. OneLive' /\ s = active
    BY <1>0, OneMoves
  <1>2. ASSUME NEW e \in Entry PROVE PaidFor(e)'
    <2>1. Stragglers(e)' = Stragglers(e)
      BY <1>0, OneMoves
    <2>2. /\ ~Removing(e)' /\ ~Removing(e) /\ ~Sending(e)
          /\ Sending(e)' <=> r.entry = e
      BY <1>0, <1>1, OneMoves
    <2>3. Ahead(e)' = Ahead(e) /\ Due' = Due
      BY <2>2 DEF Ahead, Due
    <2> QED
      BY <2>1, <2>3, Parts DEF PaidFor
  <1> QED
    BY <1>1, <1>2 DEF Accounts

\* refreshPluginScrobblers: a new scrobbler has no row; a stopped one may still
\* send the row it has, which is what unloading the plugin has paid for.
LEMMA RefreshPaid ==
  ASSUME Typed, Accounts, Refresh,
         UNCHANGED <<buffered, entries, plugin, sent, mishaps>>
  PROVE  Accounts'
  <1>0. /\ run \in [Scrobbler -> RunState] /\ active \in Scrobbler \cup {None} /\ None \notin Scrobbler
        /\ OneLive /\ started \in Nat
    BY DEF Typed, TypeOK, RunState, Scrobbler, None, Accounts
  <1>1. CASE /\ plugin = "in" /\ active = None /\ started < MaxScrobblers
             /\ started' = started + 1 /\ active' = started + 1
             /\ run' = [run EXCEPT ![started + 1] = [Off EXCEPT !.pc = "list"]]
    <2> DEFINE r == [Off EXCEPT !.pc = "list"]
    <2>1. r.pc = "list" /\ r.stopped = "no"
      BY DEF Off
    <2> HIDE DEF r
    <2>2. PICK n \in Scrobbler : n = started + 1
      BY <1>0, <1>1, BoundAssumption DEF Scrobbler
    <2>3. run' = [run EXCEPT ![n] = r] /\ active' = n
      BY <1>1, <2>2 DEF r
    <2>4. OneLive'
      BY <1>0, <1>1, <2>1, <2>3 DEF OneLive
    <2>5. ASSUME NEW e \in Entry PROVE PaidFor(e)'
      <3>1. n \notin Stragglers(e)' /\ \A s : s \in Stragglers(e)' => s \in Stragglers(e)
        BY <1>0, <2>1, <2>3 DEF Stragglers
      <3>2. Cardinality(Stragglers(e)') \in Nat /\ Cardinality(Stragglers(e)') <= Cardinality(Stragglers(e))
        <4>1. Stragglers(e)' \subseteq Stragglers(e)
          BY <3>1
        <4> QED
          BY <4>1, StragglersFinite, FS_Subset, FS_CardinalityType
      <3>3. ~Removing(e)' /\ ~Removing(e) /\ ~Sending(e)' /\ ~Sending(e)
        BY <1>0, <1>1, <2>1, <2>3 DEF Removing, Sending
      <3>4. Ahead(e)' = Ahead(e) /\ Due' = 0
        BY <1>1, <3>3 DEF Ahead, Due
      <3> QED
        BY <3>2, <3>4, Parts DEF PaidFor
    <2> QED
      BY <2>4, <2>5 DEF Accounts
  <1>2. CASE /\ plugin = "out" /\ active # None
             /\ run' = [run EXCEPT ![active].stopped = "yes"]
             /\ active' = None /\ UNCHANGED started
    <2>1. PICK s \in Scrobbler : s = active
      BY <1>0, <1>2
    <2> DEFINE r == [run[s] EXCEPT !.stopped = "yes"]
    <2>2. r.stopped = "yes" /\ r.pc = run[s].pc /\ r.entry = run[s].entry
      BY <1>0 DEF RunState
    <2> HIDE DEF r
    <2>3. run' = [run EXCEPT ![s] = r] /\ active' = None
      BY <1>2, <2>1 DEF r
    <2>4. OneLive'
      BY <1>0, <2>1, <2>2, <2>3 DEF OneLive
    <2>5. run[s].stopped = "no"
      BY <1>0, <1>2, <2>1 DEF OneLive
    <2>6. ASSUME NEW e \in Entry PROVE PaidFor(e)'
      <3>1. ~Removing(e)' /\ ~Sending(e)' /\ Due = 1 /\ Due' = 0
        BY <1>2, <2>3 DEF Removing, Sending, Due
      <3>2. Ahead(e)' \in {0, 1} /\ Ahead(e)' = IF e \in buffered THEN 1 ELSE 0
        BY <3>1 DEF Ahead
      <3>3. CASE run[s].pc = "send" /\ run[s].entry = e
        <4>1. Stragglers(e)' = Stragglers(e) \cup {s} /\ s \notin Stragglers(e)
          BY <1>0, <2>2, <2>3, <2>5, <3>3 DEF Stragglers
        <4>2. Cardinality(Stragglers(e)') = Cardinality(Stragglers(e)) + 1
          BY <4>1, StragglersFinite, FS_AddElement
        <4>3. Ahead(e) = 1
          BY <1>2, <2>1, <3>3 DEF Ahead, Removing, Sending
        <4> QED
          BY <3>1, <3>2, <4>2, <4>3, Parts DEF PaidFor
      <3>4. CASE ~(run[s].pc = "send" /\ run[s].entry = e)
        <4>1. Stragglers(e)' = Stragglers(e)
          BY <1>0, <2>2, <2>3, <2>5, <3>4 DEF Stragglers
        <4> QED
          BY <3>1, <3>2, <4>1, Parts DEF PaidFor
      <3> QED
        BY <3>3, <3>4
    <2> QED
      BY <2>4, <2>6 DEF Accounts
  <1>3. CASE (plugin = "in" <=> active # None) /\ UNCHANGED <<active, started, run>>
    BY <1>3 DEF Accounts, OneLive, PaidFor, Stragglers, Ahead, Due, Removing, Sending
  <1> QED
    BY <1>1, <1>2, <1>3 DEF Refresh

\* Steps that leave the scrobblers as they are, but for a wake-up.
LEMMA SurroundingsPaid ==
  ASSUME Typed, Accounts, UNCHANGED <<active, sent>>,
         \A s \in Scrobbler : run'[s].pc = run[s].pc /\ run'[s].entry = run[s].entry
                              /\ run'[s].stopped = run[s].stopped,
         mishaps' \in Nat, mishaps' >= mishaps, entries' \in Nat, entries' >= entries,
         (Due' <= Due \/ mishaps' = mishaps + 1), Due' \in {0, 1}, plugin' = "out" => mishaps' > 0,
         buffered' \subseteq buffered
  PROVE  Accounts'
  <1>0. active \in Scrobbler \cup {None}
    BY DEF Typed, TypeOK
  <1>1. OneLive'
    BY <1>0 DEF Accounts, OneLive
  <1>2. ASSUME NEW e \in Entry PROVE PaidFor(e)'
    <2>1. Stragglers(e)' = Stragglers(e)
      BY DEF Stragglers
    <2>2. (Removing(e)' <=> Removing(e)) /\ (Sending(e)' <=> Sending(e))
      BY <1>0 DEF Removing, Sending
    <2>3. Ahead(e)' <= Ahead(e) /\ Ahead(e)' \in {0, 1}
      BY <2>2 DEF Ahead
    <2> QED
      BY <2>1, <2>3, Parts DEF PaidFor
  <1>3. \A e \in Entry : e > entries' => sent'[e] = 0
    BY BoundAssumption DEF Accounts, Typed, TypeOK, Entry
  <1> QED
    BY <1>1, <1>2, <1>3 DEF Accounts

\* A new row has neither been sent nor taken.
LEMMA EnqueuePaid ==
  ASSUME Typed, Accounts, NEW h \in Handler, Enqueue(h)
  PROVE  Accounts'
  <1>0. /\ UNCHANGED <<plugin, active, started, run, sent>>
        /\ mishaps' \in Nat /\ mishaps' >= mishaps
        /\ entries \in Nat /\ active \in Scrobbler \cup {None}
    BY MishapCounts DEF Enqueue, Typed, TypeOK, histories
  <1>1. CASE UNCHANGED <<buffered, entries>>
    <2>1. Due' = Due /\ Due \in {0, 1} /\ (plugin' = "out" => mishaps' > 0)
      BY <1>0, BoundAssumption DEF Due, Accounts, Typed, TypeOK
    <2> QED
      <3>1. Due' <= Due /\ entries' >= entries /\ entries' \in Nat
        BY <1>0, <1>1, <2>1
      <3> QED
        BY <1>0, <1>1, <2>1, <3>1, SurroundingsPaid
  <1>2. CASE buffered' = buffered \cup {entries + 1} /\ entries' = entries + 1 /\ mishaps' = mishaps
    <2>1. OneLive' /\ Due' = Due /\ Due \in {0, 1} /\ (plugin' = "out" => mishaps' > 0)
      BY <1>0, <1>2 DEF Accounts, OneLive, Due
    <2>2. ASSUME NEW e \in Entry PROVE PaidFor(e)'
      <3>1. /\ Stragglers(e)' = Stragglers(e) /\ sent'[e] = sent[e]
            /\ Removing(e)' <=> Removing(e)
            /\ Sending(e)' <=> Sending(e)
        BY <1>0 DEF Stragglers, Removing, Sending
      <3>2. CASE e = entries + 1
        <4>1. sent[e] = 0
          BY <1>0, <3>2 DEF Accounts
        <4>2. Stragglers(e) = {}
          BY <1>0, <3>2 DEF Stragglers, Typed, RowsInHand
        <4>3. Cardinality(Stragglers(e)) = 0
          BY <4>2, FS_EmptySet
        <4>4. Ahead(e)' \in {0, 1}
          BY DEF Ahead
        <4>5. Due <= mishaps /\ mishaps \in Nat
          BY BoundAssumption DEF Due, Accounts, Typed, TypeOK
        <4> QED
          BY <1>2, <2>1, <3>1, <4>1, <4>3, <4>4, <4>5 DEF PaidFor
      <3>3. CASE e # entries + 1
        <4>1. Ahead(e)' = Ahead(e)
          BY <1>2, <3>1, <3>3 DEF Ahead
        <4> QED
          BY <1>2, <2>1, <3>1, <4>1, Parts DEF PaidFor
      <3> QED
        BY <3>2, <3>3
    <2>3. \A e \in Entry : e > entries' => sent'[e] = 0
      BY <1>0, <1>2, BoundAssumption DEF Accounts, Entry
    <2> QED
      BY <2>1, <2>2, <2>3 DEF Accounts
  <1> QED
    BY <1>1, <1>2 DEF Enqueue

LEMMA CrashPaid ==
  ASSUME Typed, Accounts, Crash
  PROVE  Accounts'
  <1>0. UNCHANGED <<row, buffered, entries, plugin, started, sent>> /\ mishaps \in Nat
        /\ mishaps' = mishaps + 1 /\ active' = None
    BY BoundAssumption DEF Crash, Mishap, Typed, TypeOK, histories
  <1>1. \A s \in Scrobbler : run'[s].pc = "off" /\ run'[s].stopped = "no"
    BY Idle DEF Crash
  <1>2. ASSUME NEW e \in Entry PROVE PaidFor(e)'
    <2>1. Stragglers(e)' = {}
      BY <1>1 DEF Stragglers
    <2>2. Cardinality(Stragglers(e)') = 0
      BY <2>1, FS_EmptySet
    <2>3. Due' = 0 /\ Ahead(e)' \in {0, 1} /\ sent'[e] = sent[e]
      BY <1>0 DEF Due, Ahead
    <2> QED
      BY <1>0, <2>2, <2>3, Parts DEF PaidFor
  <1>3. OneLive'
    BY <1>0, <1>1 DEF OneLive
  <1> QED
    BY <1>0, <1>2, <1>3 DEF Accounts

LEMMA AccountsStep == Typed /\ Accounts /\ [Next]_vars => Accounts'
  <1> SUFFICES ASSUME Typed, Accounts, [Next]_vars PROVE Accounts'
    OBVIOUS
  <1>0. /\ run \in [Scrobbler -> RunState] /\ TypeOK
        /\ entries \in Nat /\ mishaps \in Nat /\ Due \in {0, 1}
    BY BoundAssumption DEF Typed, TypeOK, RunState, Due
  <1>1. ASSUME NEW h \in Handler, DispatchScrobble(h) PROVE Accounts'
    BY <1>1, RefreshPaid DEF DispatchScrobble, histories
  <1>2. ASSUME NEW h \in Handler, Enqueue(h) PROVE Accounts'
    BY <1>2, EnqueuePaid
  <1>3. ASSUME NEW h \in Handler, SendWakeSignal(h) PROVE Accounts'
    <2>1. PICK w \in {0, 1} : run' = [run EXCEPT ![handler[h].to].wake = w]
      BY <1>3 DEF SendWakeSignal
    <2>2. \A t \in Scrobbler : run'[t].pc = run[t].pc /\ run'[t].entry = run[t].entry
                               /\ run'[t].stopped = run[t].stopped
      BY <1>0, <2>1 DEF RunState
    <2>3. UNCHANGED <<active, sent, entries, mishaps, plugin, buffered>> /\ Due' = Due
      BY <1>3 DEF SendWakeSignal, Due
    <2> QED
      BY <1>0, <2>2, <2>3, SurroundingsPaid DEF Accounts
  <1>4. ASSUME NEW s \in Scrobbler, UserIDs(s) PROVE Accounts'
    <2> DEFINE all == {row[e].user : e \in buffered}
               r1 == [run[s] EXCEPT !.pc = "user", !.ok = "yes", !.todo = all]
               r2 == [run[s] EXCEPT !.pc = "sleep", !.ok = "no"]
    <2>1. all \in SUBSET User
      BY <1>0, Plain, BoundAssumption DEF TypeOK, Entry
    <2>2. r1 \in RunState /\ r1.pc = "user" /\ r1.stopped = run[s].stopped
      BY <1>0, <2>1 DEF RunState
    <2>3. r2 \in RunState /\ r2.pc = "sleep" /\ r2.stopped = run[s].stopped
      BY <1>0 DEF RunState
    <2>4. Set(s, r1) \/ Set(s, r2)
      BY <1>4 DEF UserIDs
    <2>5. run[s].pc = "list" /\ UNCHANGED <<buffered, entries, plugin, active, sent>>
          /\ mishaps' \in Nat /\ mishaps' >= mishaps
      BY <1>4, MishapCounts DEF UserIDs, Working, Failing, histories
    <2> HIDE DEF r1, r2
    <2> QED
      BY <2>2, <2>3, <2>4, <2>5, QuietMove
  <1>5. ASSUME NEW s \in Scrobbler, NEW u \in User, NextEntry(s, u) PROVE Accounts'
    <2> DEFINE r1 == [run[s] EXCEPT !.todo = @ \ {u}, !.user = AnyUser, !.entry = None]
    <2>1. run[s].pc = "user" /\ UNCHANGED <<buffered, entries, plugin, active, sent>>
          /\ mishaps' \in Nat /\ mishaps' >= mishaps
      BY <1>5, MishapCounts DEF NextEntry, Working, Failing, histories
    <2>2. r1 \in RunState /\ r1.pc = "user" /\ r1.stopped = run[s].stopped
      BY <1>0, <2>1, Idle DEF RunState
    <2>3. CASE Set(s, r1)
      <3> HIDE DEF r1
      <3> QED
        BY <2>1, <2>2, <2>3, QuietMove
    <2>4. CASE Set(s, GivenUp(s, u))
      BY <1>0, <2>1, <2>4, Moves, QuietMove
    <2>5. ASSUME NEW e \in Of(u), Working(s),
                 Set(s, [run[s] EXCEPT !.pc = "send", !.user = u, !.entry = e])
          PROVE  Accounts'
      <3> DEFINE r == [run[s] EXCEPT !.pc = "send", !.user = u, !.entry = e]
      <3>1. e \in buffered /\ e \in Entry
        BY <1>0, BoundAssumption DEF Of, TypeOK, Entry
      <3>2. r \in RunState /\ r.entry = e /\ r.pc = "send" /\ r.stopped = run[s].stopped
        BY <1>0, <3>1 DEF RunState
      <3> HIDE DEF r
      <3>3. Set(s, r) /\ run[s].stopped = "no" /\ UNCHANGED mishaps
        BY <2>5 DEF r, Working
      <3> QED
        BY <2>1, <3>1, <3>2, <3>3, TakePaid
    <2> QED
      BY <1>5, <2>3, <2>4, <2>5 DEF NextEntry
  <1>6. ASSUME NEW s \in Scrobbler, Send(s) \/ Dequeue(s) PROVE Accounts'
    BY <1>6, SendPaid, DequeuePaid
  <1>7. ASSUME NEW s \in Scrobbler, Served(s) \/ Select(s) PROVE Accounts'
    <2>1. PICK r \in RunState :
            /\ Set(s, r) /\ r.pc \in {"list", "off", "sleep"} /\ r.stopped = run[s].stopped
            /\ r.pc = "off" => r.stopped = "yes"
      <3> DEFINE r1 == [run[s] EXCEPT !.pc = "sleep"]
                 r2 == [run[s] EXCEPT !.pc = "list", !.wake = 0]
                 r3 == [run[s] EXCEPT !.pc = "list"]
                 r4 == [Off EXCEPT !.stopped = "yes"]
      <3>1. /\ r1 \in RunState /\ r1.pc = "sleep" /\ r1.stopped = run[s].stopped
            /\ r2 \in RunState /\ r2.pc = "list" /\ r2.stopped = run[s].stopped
            /\ r3 \in RunState /\ r3.pc = "list" /\ r3.stopped = run[s].stopped
        BY <1>0 DEF RunState
      <3>2. r4 \in RunState /\ r4.pc = "off" /\ r4.stopped = "yes"
        BY Idle DEF Off
      <3>3. \/ Set(s, r1) \/ Set(s, r2) \/ Set(s, r3)
            \/ Set(s, r4) /\ run[s].stopped = "yes"
        BY <1>7 DEF Served, Select
      <3> HIDE DEF r1, r2, r3, r4
      <3> QED
        BY <3>1, <3>2, <3>3
    <2>2. run[s].pc \in {"user", "sleep"} /\ UNCHANGED <<buffered, entries, plugin, active, sent, mishaps>>
      BY <1>7 DEF Served, Select, histories
    <2> QED
      BY <1>0, <2>1, <2>2, QuietMove
  <1>8. CASE ReportPlayback
    BY <1>8, RefreshPaid DEF ReportPlayback, histories
  <1>9. CASE Unload \/ Load \/ Discard
    <2>0. \A s \in Scrobbler : run'[s].pc = run[s].pc /\ run'[s].entry = run[s].entry
                               /\ run'[s].stopped = run[s].stopped
      BY <1>9, UnloadMoves DEF Load, Discard
    <2>1. UNCHANGED <<active, sent, entries>> /\ buffered' \subseteq buffered
      BY <1>9 DEF Unload, Load, Discard, histories
    <2>2. /\ mishaps' \in Nat /\ mishaps' >= mishaps /\ (plugin' = "out" => mishaps' > 0)
          /\ (Due' <= Due \/ mishaps' = mishaps + 1) /\ Due' \in {0, 1}
      BY <1>0, <1>9 DEF Unload, Load, Discard, Mishap, Due, Accounts
    <2> QED
      BY <1>0, <2>0, <2>1, <2>2, SurroundingsPaid
  <1>10. CASE Crash
    BY <1>10, CrashPaid
  <1>11. CASE UNCHANGED vars
    BY <1>11 DEF vars, Accounts, OneLive, PaidFor, Stragglers, Ahead, Due, Removing, Sending
  <1> QED
    BY <1>1, <1>2, <1>3, <1>4, <1>5, <1>6, <1>7, <1>8, <1>9, <1>10, <1>11 DEF Next, RunStep

\* A scrobble reaches the service more than once only by a mishap: one for
\* every send past the first, however scrobblers replace one another.
THEOREM RepeatsPaidFor == Spec => []RepeatedOnlyByMishap
  <1>1. Typed /\ Accounts => RepeatedOnlyByMishap
    BY Parts DEF RepeatedOnlyByMishap
  <1> QED
    BY <1>1, AccountsInit, AccountsStep, ScrobblingTyped, PTL DEF Spec
=============================================================================
