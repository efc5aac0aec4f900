---------------------------- MODULE BrowseStore ----------------------------
(***************************************************************************)
(* The MCP server's table of live browse sessions                          *)
(* (crates/bouncy-mcp/src/browse_store.rs): a mutex-protected map with a   *)
(* hard cap, an idle expiry and a background reaper.                       *)
(*                                                                         *)
(* Every section the code runs under the mutex is one action.  Opening a   *)
(* session is two such sections with an await between them, a reap is a    *)
(* clock read followed by one such section, so other clients interleave.   *)
(*                                                                         *)
(* Instants are kept as ages: age[s] is the number of ticks since          *)
(* entry.last_used, and the reaper's cutoff is "window" ticks before the   *)
(* moment it read the clock, itself reaper.t ticks ago.  This keeps the    *)
(* state space finite without bounding time.                               *)
(*                                                                         *)
(* Answers that change nothing (AtCapacity on the first check, NotFound,   *)
(* a close that finds nothing) are stuttering steps.                       *)
(***************************************************************************)
EXTENDS Integers, FiniteSets

CONSTANTS
    Clients,        \* concurrent MCP tool calls
    Sessions,       \* session ids; a UUID is never issued twice
    NoSession,      \* "this task holds no session handle"
    MaxSessions,    \* max_sessions
    IdleTimeout,    \* idle_timeout, in ticks
    ReapInterval,   \* the interval given to spawn_reaper, in ticks
    Slack,          \* how late the reaper's timer may fire and how long it
                    \* may wait for the mutex, in ticks
    UnsignedClock   \* TRUE: an Instant before boot is not representable

ASSUME StoreAssumption ==
    /\ NoSession \notin Sessions
    /\ MaxSessions \in Nat
    /\ IdleTimeout \in Nat
    /\ ReapInterval \in Nat
    /\ Slack \in Nat
    /\ UnsignedClock \in BOOLEAN

VARIABLES
    store,   \* the ids in the map
    age,     \* ticks since the entry's last_used (0 when not in the map)
    actor,   \* the session's actor thread, which owns a V8 isolate
    task,    \* what each client is doing and the session handle it holds
    reaper,  \* the reaper task
    uptime   \* ticks since boot, up to IdleTimeout

vars == <<store, age, actor, task, reaper, uptime>>

Idle == [pc |-> "idle", s |-> NoSession]

TaskState ==
    {Idle} \cup [pc : {"opening", "running"}, s : Sessions]

ReaperState ==
    [pc : {"asleep", "sweeping"}, t : Nat, window : {0, IdleTimeout}]

TypeOK ==
    /\ store \in SUBSET Sessions
    /\ age \in [Sessions -> Nat]
    /\ actor \in [Sessions -> {"unused", "live", "gone"}]
    /\ task \in [Clients -> TaskState]
    /\ reaper \in ReaperState
    /\ uptime \in 0..IdleTimeout

\* Seeded bug for the runs: the actor keeps a clone of its own sender.
ReferencedBySelf(s) == s \in store \/ actor[s] = "live"

\* Seeded bug for the runs: the clones that tasks hold are not counted.
ReferencedByMap(s) == s \in store

\* The senders of s's command channel: the map entry and the clones of the
\* Arc (or, while opening, the BrowseSession itself) that tasks hold.
Referenced(s) == s \in store \/ \E c \in Clients : task[c].s = s

AtCapacity == Cardinality(store) >= MaxSessions

Init ==
    /\ store = {}
    /\ age = [s \in Sessions |-> 0]
    /\ actor = [s \in Sessions |-> "unused"]
    /\ task = [c \in Clients |-> Idle]
    /\ reaper = [pc |-> "asleep", t |-> 0, window |-> IdleTimeout]
    /\ uptime \in 0..IdleTimeout

----------------------------------------------------------------------------
(* open_with_secrets *)

\* Seeded bug for the runs: no capacity check after the await.
WonRaceUnchecked == TRUE

\* The re-check after the await.
WonRace == ~AtCapacity

\* First capacity check; then the lock is released and BrowseSession::open
\* spawns the actor.
OpenBegin(c) ==
    /\ task[c] = Idle
    /\ ~AtCapacity
    /\ \E s \in Sessions :
          /\ actor[s] = "unused"
          /\ actor' = [actor EXCEPT ![s] = "live"]
          /\ task' = [task EXCEPT ![c] = [pc |-> "opening", s |-> s]]
    /\ UNCHANGED <<store, age, reaper, uptime>>

\* BrowseSession::open failed: its handle is dropped with the error.
OpenFail(c) ==
    /\ task[c].pc = "opening"
    /\ task' = [task EXCEPT ![c] = Idle]
    /\ UNCHANGED <<store, age, actor, reaper, uptime>>

\* The re-check lost the race: the new session is dropped.
OpenRefused(c) ==
    /\ task[c].pc = "opening"
    /\ ~WonRace
    /\ task' = [task EXCEPT ![c] = Idle]
    /\ UNCHANGED <<store, age, actor, reaper, uptime>>

OpenInsert(c) ==
    /\ task[c].pc = "opening"
    /\ WonRace
    /\ store' = store \cup {task[c].s}
    /\ age' = [age EXCEPT ![task[c].s] = 0]
    /\ task' = [task EXCEPT ![c] = Idle]
    /\ UNCHANGED <<actor, reaper, uptime>>

----------------------------------------------------------------------------
(* Use of an open session *)

\* touch / touch_with_secrets on an id that is present; the tool then runs
\* its command on the cloned handle.
Touch(c, s) ==
    /\ task[c] = Idle
    /\ s \in store
    /\ age' = [age EXCEPT ![s] = 0]
    /\ task' = [task EXCEPT ![c] = [pc |-> "running", s |-> s]]
    /\ UNCHANGED <<store, actor, reaper, uptime>>

\* The command was answered and the tool returns, dropping its clone.
Finish(c) ==
    /\ task[c].pc = "running"
    /\ task' = [task EXCEPT ![c] = Idle]
    /\ UNCHANGED <<store, age, actor, reaper, uptime>>

Close(s) ==
    /\ s \in store
    /\ store' = store \ {s}
    /\ age' = [age EXCEPT ![s] = 0]
    /\ UNCHANGED <<actor, task, reaper, uptime>>

\* The last sender is gone: recv returns None, the actor thread ends and the
\* isolate is freed.
ActorExit(s) ==
    /\ actor[s] = "live"
    /\ ~Referenced(s)
    /\ actor' = [actor EXCEPT ![s] = "gone"]
    /\ UNCHANGED <<store, age, task, reaper, uptime>>

----------------------------------------------------------------------------
(* spawn_reaper and reap_expired *)

\* now - idle_timeout, or now itself when the clock cannot go back that far.
CutoffWindow ==
    IF UnsignedClock /\ uptime < IdleTimeout THEN 0 ELSE IdleTimeout

\* sleep(interval) returned; the cutoff is computed before the lock is taken.
ReapCutoff ==
    /\ reaper.pc = "asleep"
    /\ reaper.t >= ReapInterval
    /\ reaper' = [pc |-> "sweeping", t |-> 0, window |-> CutoffWindow]
    /\ UNCHANGED <<store, age, actor, task, uptime>>

\* Seeded bugs for the runs: comparison turned around, and made strict.
KeptOlder(s) == age[s] >= reaper.t + reaper.window
KeptStrict(s) == age[s] < reaper.t + reaper.window

\* last_used >= cutoff, in ages.
Kept(s) == age[s] <= reaper.t + reaper.window

ReapSweep ==
    /\ reaper.pc = "sweeping"
    /\ store' = {s \in store : Kept(s)}
    /\ age' = [s \in Sessions |-> IF s \in store /\ ~Kept(s) THEN 0 ELSE age[s]]
    /\ reaper' = [pc |-> "asleep", t |-> 0, window |-> IdleTimeout]
    /\ UNCHANGED <<actor, task, uptime>>

----------------------------------------------------------------------------
(* Time.  The reaper's next step is at most Slack ticks late. *)

\* uptime is only compared with IdleTimeout.
Later(u) == IF u < IdleTimeout THEN u + 1 ELSE u

ReaperDue ==
    reaper.t >= (IF reaper.pc = "asleep" THEN ReapInterval + Slack ELSE Slack)

Tick ==
    /\ ~ReaperDue
    /\ age' = [s \in Sessions |-> IF s \in store THEN age[s] + 1 ELSE age[s]]
    /\ reaper' = [reaper EXCEPT !.t = @ + 1]
    /\ uptime' = Later(uptime)
    /\ UNCHANGED <<store, actor, task>>

Next ==
    \/ \E c \in Clients :
          \/ OpenBegin(c) \/ OpenFail(c) \/ OpenRefused(c) \/ OpenInsert(c)
          \/ Finish(c)
          \/ \E s \in Sessions : Touch(c, s)
    \/ \E s \in Sessions : Close(s) \/ ActorExit(s)
    \/ ReapCutoff \/ ReapSweep \/ Tick

\* The server's own progress: commands and opens come back, unreferenced
\* actors notice, the reaper loops, time passes.  Clients owe nothing.
Fairness ==
    /\ \A c \in Clients : WF_vars(OpenFail(c) \/ OpenRefused(c) \/ OpenInsert(c))
    /\ \A c \in Clients : WF_vars(Finish(c))
    /\ \A s \in Sessions : WF_vars(ActorExit(s))
    /\ WF_vars(ReapCutoff) /\ WF_vars(ReapSweep) /\ WF_vars(Tick)

Spec == Init /\ [][Next]_vars

FairSpec == Spec /\ Fairness

----------------------------------------------------------------------------
(* Properties *)

\* The hard cap: opens that race between the check and the insert never push
\* the map above max_sessions (the re-check after the await).
CapRespected == Cardinality(store) <= MaxSessions

\* An Arc a tool still holds, or a map entry, always has a running actor
\* behind it: a close or a reap during a command does not stop that command.
HandlesAlive ==
    \A s \in Sessions :
        (s \in store \/ \E c \in Clients : task[c].s = s) => actor[s] = "live"

\* How stale an entry can get before the reaper removes it: the timeout, one
\* interval, and the slack of two mutex waits and one late timer.
EvictionDeadline ==
    \A s \in store : age[s] <= IdleTimeout + ReapInterval + 3 * Slack

\* The reaper never removes a session used after it read the clock, although
\* it takes the lock only later, and one used within idle_timeout only where the
\* clock could not go back that far.
ReapsOnlyIdle ==
    [][reaper.pc = "sweeping" /\ reaper'.pc = "asleep"
          => \A s \in store \ store' :
                /\ age[s] > reaper.t
                /\ age[s] > IdleTimeout \/ (UnsignedClock /\ reaper.window = 0)]_vars

\* A session nobody keeps using is freed, isolate included: either it is
\* touched again and again, or its live actor eventually exits.
AbandonedIsFreed ==
    \A s \in Sessions :
        \/ []<><<\E c \in Clients : Touch(c, s)>>_vars
        \/ (actor[s] = "live") ~> (actor[s] = "gone")
============================================================================
