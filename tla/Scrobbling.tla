----------------------------- MODULE Scrobbling -----------------------------
(***************************************************************************)
(* Buffered scrobbling (core/scrobbler): a scrobble for a service is       *)
(* stored in the table scrobble_buffer and a goroutine of the service's    *)
(* bufferedScrobbler sends it, at once or when a retry is due.  The        *)
(* service is a plugin: its scrobbler is created and stopped as the plugin *)
(* comes and goes (refreshPluginScrobblers), so that two of them may be at *)
(* work on the same rows.  The table survives a crash of the process.      *)
(*                                                                         *)
(* Abstractions: the delays between retries are left out, a timer that is  *)
(* armed may go off at any time; users are taken in any order; what the    *)
(* service answers is chosen freely.                                       *)
(***************************************************************************)
EXTENDS Integers, FiniteSets

CONSTANTS
    User,
    Blocked,      \* users whose scrobbles the service always puts off
    Time,         \* play times
    Plays,        \* the users and play times scrobbles may have
    Handler,      \* goroutines that report playback
    MaxEntries,   \* bound: scrobbles ever buffered
    MaxScrobblers,\* bound: buffered scrobblers ever created for the plugin
    MaxMishaps    \* bound: failed statements and answers, crashes, unloads

ASSUME BlockedAssumption == Blocked \subseteq User
ASSUME TimeAssumption == Time \subseteq Nat /\ Time # {}
ASSUME PlaysAssumption == Plays \subseteq [user : User, time : Time] /\ Plays # {}
ASSUME BoundAssumption == MaxEntries \in Nat /\ MaxScrobblers \in Nat /\ MaxMishaps \in Nat

Entry == 1..MaxEntries        \* rows, in the order of their insertion
Scrobbler == 1..MaxScrobblers
None == 0

VARIABLES
    row,       \* scrobble_buffer: user and play_time of each row
    buffered,  \* the rows in the table
    entries,   \* number of rows ever inserted
    plugin,    \* "in" when the plugin is loaded, else "out"
    active,    \* the plugin's entry of pluginScrobblers
    started,   \* number of scrobblers created
    run,       \* the goroutines bufferedScrobbler.run
    handler,   \* dispatchScrobble under way
    mishaps,
    sent,      \* history: times each row reached the service
    refused,   \* history: rows the plugin would not have, or discarded with it
    severed,   \* history: rows whose call failed as the plugin was unloaded under it
    astray     \* history: rows whose wake-up went to a stopped scrobbler

vars == <<row, buffered, entries, plugin, active, started, run, handler, mishaps,
          sent, refused, severed, astray>>
histories == <<sent, refused, severed, astray>>

AnyUser == CHOOSE u \in User : TRUE
AnyPlay == CHOOSE p \in Plays : TRUE

\* ok is the result of processQueue so far, todo the users it has yet to serve,
\* inst the plugin instance it calls: "closed" when unloaded since it was got.
Off == [pc |-> "off", todo |-> {}, user |-> AnyUser, entry |-> None, ok |-> "yes",
        wake |-> 0, stopped |-> "no", inst |-> "live"]
NoReport == [pc |-> "idle", play |-> AnyPlay, to |-> None, entry |-> None]

Init ==
    /\ row = [e \in Entry |-> AnyPlay]
    /\ buffered = {} /\ entries = 0
    /\ plugin = "in" /\ active = None /\ started = 0
    /\ run = [s \in Scrobbler |-> Off]
    /\ handler = [h \in Handler |-> NoReport]
    /\ mishaps = 0
    /\ sent = [e \in Entry |-> 0] /\ refused = {} /\ severed = {} /\ astray = {}

Mishap == mishaps < MaxMishaps /\ mishaps' = mishaps + 1

-----------------------------------------------------------------------------
(* The play tracker. *)

\* Mutant: a plugin that is listed gets a new scrobbler every time.
RefreshAlways ==
    /\ plugin = "in" /\ started < MaxScrobblers
    /\ started' = started + 1 /\ active' = started + 1
    /\ run' = [run EXCEPT ![started + 1] = [Off EXCEPT !.pc = "list"]]

\* refreshPluginScrobblers, under its lock.
Refresh ==
    \/ /\ plugin = "in" /\ active = None /\ started < MaxScrobblers
       /\ started' = started + 1 /\ active' = started + 1
       /\ run' = [run EXCEPT ![started + 1] = [Off EXCEPT !.pc = "list"]]
    \/ /\ plugin = "out" /\ active # None
       /\ run' = [run EXCEPT ![active].stopped = "yes"]
       /\ active' = None /\ UNCHANGED started
    \/ /\ plugin = "in" <=> active # None
       /\ UNCHANGED <<active, started, run>>

\* Any report on playback refreshes the scrobblers.
ReportPlayback ==
    /\ Refresh
    /\ UNCHANGED <<row, buffered, entries, plugin, handler, mishaps, histories>>

\* dispatchScrobble: the scrobblers of the moment, each asked whether it takes
\* the user's scrobbles.
DispatchScrobble(h) ==
    /\ handler[h].pc = "idle" /\ entries < MaxEntries
    /\ plugin = "in" /\ Refresh
    /\ \E p \in Plays :
          handler' = [handler EXCEPT ![h] =
              [NoReport EXCEPT !.pc = "enqueue", !.play = p, !.to = active']]
    /\ UNCHANGED <<row, buffered, entries, plugin, mishaps, histories>>

\* Scrobble of a bufferedScrobbler: first the row ...
Enqueue(h) ==
    /\ handler[h].pc = "enqueue"
    /\ \/ /\ entries < MaxEntries
          /\ entries' = entries + 1
          /\ row' = [row EXCEPT ![entries + 1] = handler[h].play]
          /\ buffered' = buffered \cup {entries + 1}
          /\ handler' = [handler EXCEPT ![h] = 
                 [NoReport EXCEPT !.pc = "wake", !.to = handler[h].to, !.entry = entries + 1]]
          /\ UNCHANGED mishaps
       \/ /\ Mishap \/ (entries = MaxEntries /\ UNCHANGED mishaps)
          /\ handler' = [handler EXCEPT ![h] = NoReport]
          /\ UNCHANGED <<row, buffered, entries>>
    /\ UNCHANGED <<plugin, active, started, run, histories>>

\* ... then the wake-up of the scrobbler it was given.
SendWakeSignal(h) ==
    LET s == handler[h].to IN
    /\ handler[h].pc = "wake"
    /\ run' = [run EXCEPT ![s].wake = IF run[s].pc = "off" THEN 0 ELSE 1]
    /\ astray' = IF run[s].stopped = "yes" THEN astray \cup {handler[h].entry} ELSE astray
    /\ handler' = [handler EXCEPT ![h] = NoReport]
    /\ UNCHANGED <<row, buffered, entries, plugin, active, started, mishaps, sent, refused, severed>>

-----------------------------------------------------------------------------
(* run of scrobbler s.  Its context is cancelled by Stop: every statement of *)
(* it fails from then on.                                                    *)

Set(s, r) == run' = [run EXCEPT ![s] = r]

\* The statement fails.
Failing(s) == \/ run[s].stopped = "yes" /\ UNCHANGED mishaps
              \/ run[s].stopped = "no" /\ Mishap
Working(s) == run[s].stopped = "no" /\ UNCHANGED mishaps

\* UserIDs: processQueue begins.
UserIDs(s) ==
    /\ run[s].pc = "list"
    /\ \/ /\ Working(s)
          /\ Set(s, [run[s] EXCEPT !.pc = "user", !.ok = "yes",
                                   !.todo = {row[e].user : e \in buffered}])
       \/ Failing(s) /\ Set(s, [run[s] EXCEPT !.pc = "sleep", !.ok = "no"])
    /\ UNCHANGED <<row, buffered, entries, plugin, active, started, handler, histories>>

Of(u) == {e \in buffered : row[e].user = u}

\* Mutant: the latest first.
BeforeLatest(e, f) == \/ row[e].time > row[f].time
                      \/ row[e].time = row[f].time /\ e >= f

\* order by play_time, rowid
Before(e, f) == \/ row[e].time < row[f].time
                \/ row[e].time = row[f].time /\ e <= f

\* Mutant: processQueue ends with the first user it could not serve.
GivenUpAll(s, u) == [run[s] EXCEPT !.pc = "user", !.ok = "no", !.todo = {},
                                   !.user = AnyUser, !.entry = None, !.inst = "live"]

\* processUserQueue returns false; the next user is served all the same.
GivenUp(s, u) == [run[s] EXCEPT !.pc = "user", !.ok = "no", !.todo = @ \ {u},
                                !.user = AnyUser, !.entry = None, !.inst = "live"]

\* processUserQueue: the oldest row of the user, and the plugin of the moment.
NextEntry(s, u) ==
    /\ run[s].pc = "user" /\ u \in run[s].todo
    /\ run[s].entry = None \/ run[s].user = u
    /\ \/ /\ Working(s) /\ Of(u) = {}
          /\ Set(s, [run[s] EXCEPT !.todo = @ \ {u}, !.user = AnyUser, !.entry = None])
       \/ /\ Working(s) /\ plugin = "in"
          /\ \E e \in Of(u) : /\ \A f \in Of(u) : Before(e, f)
                              /\ Set(s, [run[s] EXCEPT !.pc = "send", !.user = u, !.entry = e])
       \/ Working(s) /\ plugin = "out" /\ Of(u) # {} /\ Set(s, GivenUp(s, u))
       \/ Failing(s) /\ Set(s, GivenUp(s, u))
    /\ UNCHANGED <<row, buffered, entries, plugin, active, started, handler, histories>>

Arrive(e) == sent' = [sent EXCEPT ![e] = @ + 1]

\* Mutant: what is put off goes the way of what is refused.
PutOffDropped(s) == [run[s] EXCEPT !.pc = "dequeue", !.inst = "live"]

\* ErrRetryLater
PutOff(s) == GivenUp(s, run[s].user)

\* The service takes the scrobble, or puts it off, or its plugin refuses it: any
\* other error of the call is ErrUnrecoverable.  An answer may be lost.  The
\* call of a plugin unloaded meanwhile, or of a stopped scrobbler, fails too.
Send(s) ==
    LET e == run[s].entry  deq == [run[s] EXCEPT !.pc = "dequeue", !.inst = "live"] IN
    /\ run[s].pc = "send"
    /\ \/ /\ run[s].user \notin Blocked /\ Arrive(e) /\ Set(s, deq)
          /\ UNCHANGED <<mishaps, refused, severed>>
       \/ /\ run[s].user \in Blocked /\ Set(s, PutOff(s))
          /\ UNCHANGED <<sent, mishaps, refused, severed>>
       \/ /\ run[s].user \notin Blocked
          /\ Mishap /\ (Arrive(e) \/ UNCHANGED sent)
          /\ Set(s, PutOff(s)) /\ UNCHANGED <<refused, severed>>
       \/ refused' = refused \cup {e} /\ Set(s, deq) /\ UNCHANGED <<sent, mishaps, severed>>
       \/ /\ run[s].inst = "closed" /\ severed' = severed \cup {e} /\ Set(s, deq)
          /\ UNCHANGED <<sent, mishaps, refused>>
       \/ run[s].stopped = "yes" /\ Set(s, deq) /\ UNCHANGED <<sent, mishaps, refused, severed>>
    /\ UNCHANGED <<row, buffered, entries, plugin, active, started, handler, astray>>

Dequeue(s) ==
    /\ run[s].pc = "dequeue"
    /\ \/ /\ Working(s)
          /\ buffered' = buffered \ {run[s].entry}
          /\ Set(s, [run[s] EXCEPT !.pc = "user"])
       \/ Failing(s) /\ Set(s, GivenUp(s, run[s].user)) /\ UNCHANGED buffered
    /\ UNCHANGED <<row, entries, plugin, active, started, handler, histories>>

\* processQueue is done: the timer is armed unless all went well.
Served(s) ==
    /\ run[s].pc = "user" /\ run[s].todo = {}
    /\ Set(s, [run[s] EXCEPT !.pc = "sleep"])
    /\ UNCHANGED <<row, buffered, entries, plugin, active, started, handler, mishaps, histories>>

\* select: the wake-up, the timer, or the end.
Select(s) ==
    /\ run[s].pc = "sleep"
    /\ \/ run[s].wake = 1 /\ Set(s, [run[s] EXCEPT !.pc = "list", !.wake = 0])
       \/ run[s].ok = "no" /\ Set(s, [run[s] EXCEPT !.pc = "list"])
       \/ run[s].stopped = "yes" /\ Set(s, [Off EXCEPT !.stopped = "yes"])
    /\ UNCHANGED <<row, buffered, entries, plugin, active, started, handler, mishaps, histories>>

RunStep(s) ==
    \/ UserIDs(s) \/ Send(s) \/ Dequeue(s) \/ Served(s) \/ Select(s)
    \/ \E u \in User : NextEntry(s, u)

-----------------------------------------------------------------------------
(* The surroundings. *)

\* unloadPlugin: the calls under way have lost their instance.
Unload ==
    /\ plugin = "in" /\ Mishap
    /\ plugin' = "out"
    /\ run' = [s \in Scrobbler |->
                 IF run[s].pc = "send" THEN [run[s] EXCEPT !.inst = "closed"] ELSE run[s]]
    /\ UNCHANGED <<row, buffered, entries, active, started, handler, histories>>

Load ==
    /\ plugin = "out"
    /\ plugin' = "in"
    /\ UNCHANGED <<row, buffered, entries, active, started, run, handler, mishaps, histories>>

\* The plugin is removed for good: Discard empties its buffer.
Discard ==
    /\ plugin = "out" /\ buffered # {}
    /\ buffered' = {}
    /\ refused' = refused \cup buffered
    /\ UNCHANGED <<row, entries, plugin, active, started, run, handler, mishaps, sent, severed, astray>>

Crash ==
    /\ Mishap
    /\ active' = None
    /\ run' = [s \in Scrobbler |-> Off]
    /\ handler' = [h \in Handler |-> NoReport]
    /\ UNCHANGED <<row, buffered, entries, plugin, started, histories>>

Next ==
    \/ \E h \in Handler : DispatchScrobble(h) \/ Enqueue(h) \/ SendWakeSignal(h)
    \/ \E s \in Scrobbler : RunStep(s)
    \/ ReportPlayback \/ Unload \/ Load \/ Discard \/ Crash

Spec == Init /\ [][Next]_vars

\* Goroutines go on, and a request that has stored a scrobble wakes its sender.
FairSpec ==
    /\ Spec
    /\ \A s \in Scrobbler : WF_vars(RunStep(s))
    /\ \A h \in Handler : WF_vars(SendWakeSignal(h))

-----------------------------------------------------------------------------
(* Properties. *)

TypeOK ==
    /\ row \in [Entry -> Plays]
    /\ buffered \subseteq 1..entries /\ entries \in 0..MaxEntries
    /\ plugin \in {"in", "out"}
    /\ active \in Scrobbler \cup {None} /\ started \in 0..MaxScrobblers
    /\ run \in [Scrobbler -> [pc : {"off", "list", "user", "send", "dequeue", "sleep"},
                              todo : SUBSET User, user : User, entry : Entry \cup {None},
                              ok : {"yes", "no"}, wake : {0, 1}, stopped : {"yes", "no"},
                              inst : {"live", "closed"}]]
    /\ handler \in [Handler -> [pc : {"idle", "enqueue", "wake"}, play : Plays,
                                to : Scrobbler \cup {None}, entry : Entry \cup {None}]]
    /\ mishaps \in 0..MaxMishaps
    /\ sent \in [Entry -> Nat] /\ refused \subseteq Entry /\ severed \subseteq Entry
    /\ astray \subseteq Entry

\* A scrobble that was stored is in the table until the service has taken it,
\* the plugin has refused it or has been removed for good, whatever fails,
\* crashes or is reloaded meanwhile.  The one exception is the scrobble whose
\* call was under way when the plugin was unloaded: the error of the lost
\* instance is taken for a refusal (mapScrobblerError) and the row is dropped
\* although the service never had it.
NoScrobbleLost ==
    \A e \in 1..entries : e \in buffered \cup refused \cup severed \/ sent[e] > 0

\* A scrobble reaches the service again only after a mishap: the failed removal
\* of its row, a lost answer, a crash, or a plugin that was unloaded, whose old
\* and new scrobbler work on the same rows.
RepeatedOnlyByMishap == \A e \in Entry : sent[e] <= 1 + mishaps

\* A user's scrobbles arrive in the order of their play times: none is sent
\* past one stored before it and played no later, which may have been put off.
SentInOrder ==
    [][\A e, f \in Entry :
          /\ sent'[e] > sent[e] /\ f \in buffered /\ f < e
          /\ row[f].user = row[e].user
          => row[f].time > row[e].time]_vars

\* A stored scrobble is sent although the service puts off those of another
\* user, while the plugin has a scrobbler; only a wake-up given to a scrobbler
\* that has been replaced meanwhile may strand it until the next one.
UserServed ==
    \A e \in Entry :
        e \in buffered /\ row[e].user \notin Blocked ~>
            \/ e \notin buffered \/ e \in astray
            \/ plugin = "out" \/ active = None
=============================================================================
