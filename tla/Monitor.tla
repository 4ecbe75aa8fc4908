------------------------------- MODULE Monitor -------------------------------
(***************************************************************************)
(* The state monitor of the Linux daemon (smbpal/state/monitor.py): one    *)
(* thread that polls the config and the kernel, tells the clients what     *)
(* changed, and "primes" a connection by starting its mount unit, at most  *)
(* a few times and never again once the mount was seen.                    *)
(*                                                                         *)
(* It shares the config and its own memory with the IPC threads that run   *)
(* the handlers of smbpal/daemon/handlers.py, and the units with systemd   *)
(* and the person at the machine.  A poll takes no lock across its steps,  *)
(* so each read of shared state is a step of its own here:                 *)
(*                                                                         *)
(*   check -> clear -> load -> { look -> unit -> prime                     *)
(*        [-> decide -> note] }* -> publish -> farewell -> wait -> check   *)
(*                                                                         *)
(* A connection's share and mountpoint are fixed by its id, as the daemon  *)
(* derives the id from them, so a prime target is a host.  Logging, and    *)
(* the `_declined` memory that only decides what is logged, are left out.  *)
(* No foreign filesystem sits on a mountpoint in this module.              *)
(***************************************************************************)
EXTENDS ConnectionState

CONSTANTS
    Ids,            \* connection ids
    Hosts,          \* host names and recorded fallback addresses
    Modes,          \* the auto_connect values commands use
    Handlers,       \* IPC threads that run commands
    PrimeAttempts,  \* _PRIME_ATTEMPTS
    MaxCommands,    \* bound: commands clients send
    MaxEvents,      \* bound: mounts opened or ejected, servers lost or back,
                    \*        restarts of the daemon
    MaxFaults       \* bound: systemctl, journalctl or file operations failing

ASSUME PrimeAttemptsAssumption == PrimeAttempts \in Nat \ {0}
ASSUME ModesAssumption == Modes \subseteq Autos
ASSUME BoundsAssumption == MaxCommands \in Nat /\ MaxEvents \in Nat /\ MaxFaults \in Nat
ASSUME NoneAssumption ==
    /\ None \notin Hosts \cup Ids
    /\ None \notin [host : Hosts, fallback : Hosts \cup {None}, auto : Autos]
    /\ None \notin [target : Hosts, count : Nat]
    /\ None \notin Verdicts

Connection == [host : Hosts, fallback : Hosts \cup {None}, auto : Autos]
Document   == [Ids -> Connection \cup {None}]
Attempt    == [target : Hosts, count : Nat]

Configured(doc) == { id \in Ids : doc[id] # None }

VARIABLES
    \* --- what the machine holds
    config,     \* the config file
    unitFile,   \* id -> the host its .mount unit names, or None
    armed,      \* id -> the automount trigger is in place
    unit,       \* id -> what systemd is doing with the .mount unit
    journal,    \* id -> the last errno in the unit's journal, or Noise
    up,         \* host -> it answers on port 445
    accepts,    \* id -> the server accepts the stored credential
    \* --- the handlers
    task,       \* handler thread -> the command it runs and how far it is
    \* --- the monitor's memory, shared with the handlers through forget()
    primed, attempted, wake, stopping,
    \* --- the poll in progress, private to the monitor thread
    pc, polled, servers, todo, cur, table, verdict, queued, refused,
    current, gone,
    \* --- what it published, and what a client that followed the events shows
    states, view,
    \* --- bounds
    commands, events, faults,
    \* --- history, read by no action: see the properties
    seen, starts, dirty

machine == <<config, unitFile, armed, unit, journal, up, accepts>>
memory  == <<primed, attempted>>
inHand  == <<cur, table, verdict, queued, refused>>
poll    == <<polled, servers, todo, current, gone>>
bounds  == <<commands, events, faults>>
history == <<seen, starts, dirty>>

vars == <<machine, task, memory, wake, stopping, pc, poll, inHand,
          states, view, bounds, history>>

UnitStates  == { "inactive", "queued", "activating", "active", "failed" }
Stages      == { "idle", "save", "units", "arm", "undo", "forget", "nudge" }
Operations  == { "add", "remove", "set_credentials", "use_fallback", "apply" }
Points      == { "check", "clear", "load", "look", "unit", "prime", "decide", "note",
                 "publish", "farewell", "wait", "exited" }
InHandPoints == { "unit", "prime", "decide", "note" }

NoTask  == [op |-> "apply", id |-> None, stage |-> "idle",
            previous |-> [id \in Ids |-> None], updated |-> [id \in Ids |-> None]]
NoTable == [mounted |-> FALSE, armed |-> FALSE]
NothingKnown == [id \in Ids |-> None]
NothingSeen  == [id \in Ids |-> "no"]
NoServers    == [host \in Hosts |-> FALSE]

\* The connections a command can make or a config hold.
Offered == { c \in Connection : c.auto \in Modes /\ c.fallback # c.host }

\* The daemon starts with its config applied, and with nothing mounted yet.
Init ==
    /\ config \in [Ids -> Offered \cup {None}]
    /\ unitFile = [id \in Ids |-> IF config[id] = None THEN None ELSE config[id].host]
    /\ armed = [id \in Ids |-> config[id] # None /\ config[id].auto # "never"]
    /\ unit = [id \in Ids |-> "inactive"]
    /\ journal = [id \in Ids |-> Noise]
    /\ up \in [Hosts -> BOOLEAN]
    /\ accepts \in [Ids -> BOOLEAN]
    /\ task = [h \in Handlers |-> NoTask]
    /\ primed = NothingKnown /\ attempted = NothingKnown
    /\ wake = FALSE /\ stopping = "no"
    /\ pc = "check" /\ polled = NothingKnown /\ servers = NoServers
    /\ todo = {} /\ cur = None /\ table = NoTable /\ verdict = None
    /\ queued = 0 /\ refused = FALSE
    /\ current = NothingKnown /\ gone = {}
    /\ states = NothingKnown /\ view = NothingKnown
    /\ commands = 0 /\ events = 0 /\ faults = 0
    /\ seen = NothingSeen
    /\ starts = [id \in Ids |-> 0] /\ dirty = FALSE

-----------------------------------------------------------------------------
(***************************************************************************)
(* systemd, the servers and the person at the machine.  A start job waits  *)
(* in systemd's queue before the unit is activating (After=network-online);*)
(* a failed mount stays failed until reset-failed or a new start.          *)
(***************************************************************************)
Event == events < MaxEvents /\ events' = events + 1

BeginMount(id) ==
    /\ unit[id] = "queued"
    /\ unit' = [unit EXCEPT ![id] = "activating"]
    /\ UNCHANGED <<config, unitFile, armed, journal, up, accepts>>

FinishMount(id) ==
    /\ unit[id] = "activating"
    /\ LET answers == unitFile[id] # None /\ up[unitFile[id]]
       IN  /\ unit' = [unit EXCEPT ![id] =
                           IF answers /\ accepts[id] THEN "active" ELSE "failed"]
           /\ journal' = [journal EXCEPT ![id] =
                           IF ~answers THEN 112 ELSE IF ~accepts[id] THEN 13 ELSE @]
    /\ UNCHANGED <<config, unitFile, armed, up, accepts>>

Systemd(id) ==
    /\ BeginMount(id) \/ FinishMount(id)
    /\ UNCHANGED <<task, memory, wake, stopping, pc, poll, inHand, states, view,
                   bounds, history>>

\* Somebody opens the path: the automount triggers the mount unit.
OpenPath(id) ==
    /\ armed[id] /\ unit[id] \in { "inactive", "failed" }
    /\ unit' = [unit EXCEPT ![id] = "activating"]
    /\ UNCHANGED <<config, unitFile, armed, journal, up, accepts>>

\* The file manager's eject, `umount`, or connection.disconnect.
Eject(id) ==
    /\ unit[id] = "active"
    /\ unit' = [unit EXCEPT ![id] = "inactive"]
    /\ UNCHANGED <<config, unitFile, armed, journal, up, accepts>>

ServerFlips(host) ==
    /\ up' = [up EXCEPT ![host] = ~@]
    /\ UNCHANGED <<config, unitFile, armed, unit, journal, accepts>>

Environment ==
    /\ Event
    /\ \/ \E id \in Ids : OpenPath(id) \/ Eject(id)
       \/ \E host \in Hosts : ServerFlips(host)
    /\ UNCHANGED <<task, memory, wake, stopping, pc, poll, inHand, states, view,
                   commands, faults, history>>

-----------------------------------------------------------------------------
(***************************************************************************)
(* The handlers.  `_commit` saves, applies, and undoes both if applying    *)
(* fails; the handler then calls forget(), which drops what priming        *)
(* remembers and wakes the monitor.                                        *)
(***************************************************************************)
Fault == faults < MaxFaults /\ faults' = faults + 1

\* What an operation makes of the config it loaded.  An add chooses where the
\* connection points and what its auto_connect is.
Updates(op, id, doc) ==
    CASE op = "add" ->
            { [doc EXCEPT ![id] = c] : c \in Offered }
      [] op = "remove" -> { [doc EXCEPT ![id] = None] }
      [] op = "use_fallback" ->
            IF doc[id].fallback = None THEN {}
            ELSE { [doc EXCEPT ![id] = [@ EXCEPT !.host = doc[id].fallback,
                                                 !.fallback = doc[id].host]] }
      [] OTHER -> { doc }

\* A command arrives and its handler loads the config; a password that comes
\* with it is written to the credentials file before anything is saved.
BeginCommand(h) ==
    /\ task[h].stage = "idle"
    /\ commands < MaxCommands /\ commands' = commands + 1
    /\ \E op \in Operations, id \in Ids :
        /\ op # "apply" => (op = "add") = (config[id] = None)
        /\ \E updated \in Updates(op, id, config) :
            task' = [task EXCEPT ![h] =
                [op |-> op, id |-> id, previous |-> config, updated |-> updated,
                 stage |-> IF op = "apply" THEN "units" ELSE "save"]]
        /\ IF op \in { "add", "set_credentials" }
           THEN \E ok \in BOOLEAN : accepts' = [accepts EXCEPT ![id] = ok]
           ELSE accepts' = accepts
    /\ UNCHANGED <<config, unitFile, armed, unit, journal, up, memory, wake,
                   events, faults, seen, starts, dirty>>

\* connection.connect: reset-failed, then start.
Connect(id) ==
    /\ commands < MaxCommands /\ commands' = commands + 1
    /\ config[id] # None /\ unitFile[id] # None
    /\ unit' = [unit EXCEPT ![id] = IF @ = "active" THEN @ ELSE "activating"]
    /\ UNCHANGED <<config, unitFile, armed, journal, up, accepts, task, memory, wake,
                   events, faults, history>>

Moves(h, stage) ==
    task' = [task EXCEPT ![h] = IF stage = "idle" THEN NoTask
                                ELSE [@ EXCEPT !.stage = stage]]

Save(h) ==
    /\ task[h].stage = "save"
    /\ config' = task[h].updated
    /\ Moves(h, "units")
    /\ UNCHANGED <<unitFile, armed, unit, journal, up, accepts, memory, wake,
                   bounds, history>>

\* The connections whose units `_remove_stale_units` takes away: a commit may
\* only remove what it dropped, `smbpal apply` sweeps everything.
Stale(t) ==
    IF t.op = "apply" THEN Ids \ Configured(t.updated)
    ELSE Configured(t.previous) \ Configured(t.updated)

\* First half of Mounter.apply: write the units of `written`, take the stale ones
\* away (a mount in `busy` is in use: it stays, with its unit), daemon-reload.
WriteUnits(doc, written, old, busy) ==
    /\ unitFile' = [id \in Ids |->
            IF id \in written THEN doc[id].host
            ELSE IF id \in old \ busy THEN None ELSE unitFile[id]]
    /\ armed' = [id \in Ids |-> armed[id] /\ id \notin old]
    /\ unit' = [id \in Ids |->
            IF id \in old \ busy /\ unit[id] # "failed" THEN "inactive" ELSE unit[id]]
    /\ UNCHANGED <<config, journal, up, accepts>>

\* Second half, for the connections in `done`: disable, or reset-failed and
\* enable --now.
ArmUnits(doc, done) ==
    /\ armed' = [id \in Ids |->
            IF doc[id] # None /\ id \in done THEN doc[id].auto # "never" ELSE armed[id]]
    /\ unit' = [id \in Ids |->
            IF doc[id] # None /\ id \in done /\ doc[id].auto # "never" /\ unit[id] = "failed"
            THEN "inactive" ELSE unit[id]]
    /\ UNCHANGED <<config, unitFile, journal, up, accepts>>

\* Where a command goes when applying raised: a commit undoes its save; a plain
\* `apply` has nothing to undo, and a failing rollback is only logged.
AfterFailure(t) == IF t.op \in { "apply", "rollback" } THEN "idle" ELSE "undo"

\* It raises when a unit cannot be written, the stale ones then being untouched,
\* or when the daemon-reload that follows fails.
ApplyUnits(h) ==
    /\ task[h].stage = "units"
    /\ LET old   == Stale(task[h])
           inUse == { id \in old : unit[id] = "active" }
           doc   == task[h].updated
       IN  \/ /\ WriteUnits(doc, Configured(doc), old, {})
              /\ Moves(h, "arm") /\ UNCHANGED faults
           \/ /\ inUse # {}
              /\ WriteUnits(doc, Configured(doc), old, inUse)
              /\ Moves(h, "arm") /\ Fault
           \/ /\ \/ WriteUnits(doc, Configured(doc), old, {})
                 \/ \E written \in SUBSET Configured(doc) : WriteUnits(doc, written, {}, {})
              /\ Moves(h, AfterFailure(task[h])) /\ Fault
    /\ UNCHANGED <<memory, wake, commands, events, history>>

\* use_fallback, apply and a rollback do not tell the monitor; the other
\* commands do.
AfterArming(t) == IF t.op \in { "use_fallback", "apply", "rollback" } THEN "idle" ELSE "forget"

Arm(h) ==
    /\ task[h].stage = "arm"
    /\ \/ ArmUnits(task[h].updated, Ids) /\ Moves(h, AfterArming(task[h])) /\ UNCHANGED faults
       \/ \E done \in SUBSET Configured(task[h].updated) :
            /\ done # Configured(task[h].updated)
            /\ ArmUnits(task[h].updated, done)
            /\ Moves(h, AfterFailure(task[h])) /\ Fault
    /\ UNCHANGED <<memory, wake, commands, events, history>>

\* `_commit` raised: the previous config is saved again and re-applied, the
\* updated one being what it replaces.
UndoSave(h) ==
    /\ task[h].stage = "undo"
    /\ config' = task[h].previous
    /\ task' = [task EXCEPT ![h] =
            [op |-> "rollback", id |-> None, stage |-> "units",
             previous |-> @.updated, updated |-> @.previous]]
    /\ UNCHANGED <<unitFile, armed, unit, journal, up, accepts, memory, wake,
                   bounds, history>>

\* `StateMonitor.forget`, first half: under the lock, drop what is remembered.
DropMemory(id) ==
    /\ primed' = [primed EXCEPT ![id] = None]
    /\ attempted' = [attempted EXCEPT ![id] = None]
    /\ seen' = [seen EXCEPT ![id] = "no"]
    /\ starts' = [starts EXCEPT ![id] = 0]

Forget(h) ==
    /\ task[h].stage = "forget"
    /\ DropMemory(task[h].id)
    /\ Moves(h, "nudge")
    /\ UNCHANGED <<machine, wake, dirty, bounds>>

\* `StateMonitor.nudge`, after the lock is released.
Nudge(h) ==
    /\ task[h].stage = "nudge"
    /\ wake' = TRUE /\ dirty' = TRUE
    /\ Moves(h, "idle")
    /\ UNCHANGED <<machine, memory, seen, starts, bounds>>

HandlerStep(h) ==
    /\ Save(h) \/ ApplyUnits(h) \/ Arm(h) \/ UndoSave(h) \/ Forget(h) \/ Nudge(h)
    /\ UNCHANGED <<stopping, pc, poll, inHand, states, view>>

Command ==
    /\ (\E h \in Handlers : BeginCommand(h)) \/ (\E id \in Ids : Connect(id))
    /\ UNCHANGED <<stopping, pc, poll, inHand, states, view>>

-----------------------------------------------------------------------------
(***************************************************************************)
(* The monitor thread: `_loop` and `poll`.                                 *)
(***************************************************************************)
Target == polled[cur].host

\* `while not self._stop.is_set()`.
Check ==
    /\ pc = "check"
    /\ pc' = IF stopping = "no" THEN "clear" ELSE "exited"
    /\ UNCHANGED <<memory, wake, poll, inHand, states, view, unit, faults, history>>

ClearWake ==
    /\ pc = "clear"
    /\ wake' = FALSE
    /\ pc' = "load"
    /\ UNCHANGED <<memory, poll, inHand, states, view, unit, faults, history>>

\* History: a connection that points elsewhere than at the last poll, or is
\* new, counts as a new connection.
Moved(id) == config[id] = None \/ polled[id] = None \/ config[id].host # polled[id].host

\* (bug) the list of connections is read a second time, from a newer config
LoadTwice ==
    /\ servers' = up
    /\ todo' = Configured(config)
    /\ current' = NothingKnown
    /\ pc' = IF Configured(config) = {} THEN "publish" ELSE "look"
    /\ UNCHANGED <<polled, faults, seen, starts>>

Load ==
    /\ polled' = config /\ servers' = up
    /\ todo' = Configured(config)
    /\ current' = NothingKnown
    /\ pc' = IF Configured(config) = {} THEN "publish" ELSE "look"
    /\ seen' = [id \in Ids |-> IF Moved(id) THEN "no" ELSE seen[id]]
    /\ starts' = [id \in Ids |-> IF Moved(id) THEN 0 ELSE starts[id]]
    /\ UNCHANGED faults

\* The poll raised: the loop logs it and waits for the next one.
LoadFails ==
    /\ Fault
    /\ pc' = "wait"
    /\ UNCHANGED <<polled, servers, todo, current, seen, starts>>

LoadConfig ==
    /\ pc = "load"
    /\ Load \/ LoadFails
    /\ dirty' = FALSE
    /\ UNCHANGED <<memory, wake, inHand, gone, states, view, unit>>

\* `_state_of`, first reads: the kernel's mount table.
Look(id) ==
    /\ pc = "look" /\ id \in todo
    /\ cur' = id
    /\ table' = [mounted |-> unit[id] = "active", armed |-> armed[id]]
    /\ pc' = "unit"
    /\ UNCHANGED <<memory, wake, poll, verdict, queued, refused, states, view, unit,
                   faults, seen, starts, dirty>>

\* What `systemctl show` prints of a unit: a queued job does not show.
ActiveState(id) == IF unit[id] = "queued" THEN "inactive" ELSE unit[id]

\* `showed` and `heard`: systemctl and journalctl answered.
ReadingOf(showed, heard) ==
    LET failed == showed /\ ActiveState(cur) = "failed" IN
    [ auto      |-> polled[cur].auto,
      occupied  |-> FALSE,
      mounted   |-> table.mounted,
      answering |-> servers[Target],
      readOnly  |-> FALSE,
      active    |-> IF showed THEN ActiveState(cur) ELSE None,
      result    |-> IF failed THEN "exit-code" ELSE "success",
      cause     |-> IF failed /\ ~table.mounted /\ heard
                    THEN TranslateJournal(<<journal[cur]>>) ELSE NoCause,
      armed     |-> table.armed ]

\* `_state_of`, the rest: the unit, the journal of a unit that failed, and what
\* they add up to.
ReadUnit ==
    /\ pc = "unit"
    /\ \/ verdict' = Derive(ReadingOf(TRUE, TRUE)) /\ UNCHANGED faults
       \/ verdict' = Derive(ReadingOf(FALSE, TRUE)) /\ Fault
       \/ verdict' = Derive(ReadingOf(TRUE, FALSE)) /\ Fault
    /\ pc' = "prime"
    /\ LET connected == verdict'.state = CONNECTED
       IN  /\ seen' = [seen EXCEPT ![cur] = IF connected THEN "connected"
                                            ELSE IF table.mounted /\ @ = "no" THEN "mounted"
                                            ELSE @]
           /\ starts' = [starts EXCEPT ![cur] = IF connected THEN 0 ELSE @]
    /\ UNCHANGED <<memory, wake, poll, cur, table, queued, refused, states, view,
                   unit, dirty>>

\* The connection in hand is done with: on to the next, or to the end.
Conclude ==
    /\ current' = [current EXCEPT ![cur] = verdict]
    /\ todo' = todo \ {cur}
    /\ pc' = IF todo = {cur} THEN "publish" ELSE "look"
    /\ cur' = None /\ table' = NoTable /\ verdict' = None
    /\ queued' = 0 /\ refused' = FALSE
    /\ UNCHANGED <<polled, servers, gone, wake, states, view,
                   seen, starts, dirty>>

\* `_latch`: stop priming this connection.
Latch ==
    /\ primed' = [primed EXCEPT ![cur] = Target]
    /\ attempted' = [attempted EXCEPT ![cur] = None]

\* `_maybe_prime`, the branches that return before anything is started.
\* (bug) a connection found mounted by somebody else is not latched
PrimeMountedForgets ==
    /\ pc = "prime" /\ verdict.state = CONNECTED
    /\ Conclude
    /\ UNCHANGED <<memory, unit, faults>>

PrimeMounted ==
    /\ pc = "prime" /\ verdict.state = CONNECTED
    /\ Latch /\ Conclude
    /\ UNCHANGED <<unit, faults>>

Eligible ==
    /\ primed[cur] # Target
    /\ verdict.state = IDLE
    /\ polled[cur].auto # "never"
    /\ polled[cur].auto = "on_this_network" => up[Target]

Decline ==
    /\ pc = "prime" /\ verdict.state # CONNECTED /\ ~Eligible
    /\ Conclude
    /\ UNCHANGED <<memory, unit, faults>>

\* Otherwise: how many starts are outstanding, and, if any is, what the journal
\* says of them.
RefusedBy(lines) == ~TranslateJournal(lines).retryable

Consider ==
    /\ pc = "prime" /\ verdict.state # CONNECTED /\ Eligible
    /\ queued' = IF attempted[cur] # None /\ attempted[cur].target = Target
                 THEN attempted[cur].count ELSE 0
    /\ \/ refused' = (queued' > 0 /\ RefusedBy(<<journal[cur]>>)) /\ UNCHANGED faults
       \/ queued' > 0 /\ refused' = FALSE /\ Fault
    /\ pc' = "decide"
    /\ UNCHANGED <<memory, wake, poll, cur, table, verdict, states, view, unit, history>>

\* A refused credential is not tried again, and an unexplained failure only a
\* few times.
\* (bug) one start too many
MustGiveUpLate == refused \/ queued > PrimeAttempts

MustGiveUp == refused \/ queued >= PrimeAttempts

\* (bug) giving up is logged but not latched
GiveUpForgets ==
    /\ pc = "decide" /\ MustGiveUp
    /\ Conclude
    /\ UNCHANGED <<memory, unit, faults>>

GiveUp ==
    /\ pc = "decide" /\ MustGiveUp
    /\ Latch /\ Conclude
    /\ UNCHANGED <<unit, faults>>

\* `systemctl start --no-block`: accepted, the job is queued.
StartMount ==
    /\ pc = "decide" /\ ~MustGiveUp /\ unitFile[cur] # None
    /\ unit' = [unit EXCEPT ![cur] = CASE @ = "inactive" -> "queued"
                                       [] @ = "failed" -> "activating"
                                       [] OTHER -> @]
    /\ starts' = [starts EXCEPT ![cur] = @ + 1]
    /\ pc' = "note"
    /\ UNCHANGED <<memory, wake, poll, inHand, states, view, faults,
                   seen, dirty>>

StartFails ==
    /\ pc = "decide" /\ ~MustGiveUp
    /\ IF unitFile[cur] # None THEN Fault ELSE UNCHANGED faults
    /\ Conclude
    /\ UNCHANGED <<memory, unit>>

NoteAttempt ==
    /\ pc = "note"
    /\ attempted' = [attempted EXCEPT ![cur] = [target |-> Target, count |-> queued + 1]]
    /\ Conclude
    /\ UNCHANGED <<primed, unit, faults>>

\* What differs from the last poll, and what is gone since.  state.changed goes
\* out for the first, which a client that listens folds into what it shows.
Changed == { id \in Configured(polled) :
                states[id] = None \/ Differs(states[id], current[id]) }

Publish ==
    /\ pc = "publish"
    /\ states' = current
    /\ gone' = { id \in Ids : states[id] # None /\ current[id] = None }
    /\ view' = [id \in Ids |-> IF id \in Changed THEN current[id] ELSE view[id]]
    /\ servers' = NoServers /\ current' = NothingKnown
    /\ pc' = "farewell"
    /\ UNCHANGED <<memory, wake, polled, todo, inHand, unit, faults, history>>

\* A connection that left the config: forget(), then connection.removed.
\* (bug) the poll tells that a connection is gone but keeps what it remembers
FarewellKeeps(id) ==
    /\ pc = "farewell" /\ id \in gone
    /\ view' = [view EXCEPT ![id] = None]
    /\ gone' = gone \ {id}
    /\ UNCHANGED <<memory, wake, pc, polled, servers, todo, current, inHand, states, unit,
                   faults, history>>

\* (bug) the connection is forgotten and nobody is told
FarewellSilent(id) ==
    /\ pc = "farewell" /\ id \in gone
    /\ DropMemory(id)
    /\ wake' = TRUE /\ dirty' = TRUE
    /\ gone' = gone \ {id}
    /\ UNCHANGED <<pc, polled, servers, todo, current, inHand, states, view, unit, faults>>

Farewell(id) ==
    /\ pc = "farewell" /\ id \in gone
    /\ DropMemory(id)
    /\ wake' = TRUE /\ dirty' = TRUE
    /\ view' = [view EXCEPT ![id] = None]
    /\ gone' = gone \ {id}
    /\ UNCHANGED <<pc, polled, servers, todo, current, inHand, states, unit, faults>>

\* (bug) the event is cleared once the poll is over
EndPollClears ==
    /\ pc = "farewell" /\ gone = {}
    /\ wake' = FALSE
    /\ pc' = "wait"
    /\ UNCHANGED <<memory, poll, inHand, states, view, unit, faults, history>>

EndPoll ==
    /\ pc = "farewell" /\ gone = {}
    /\ pc' = "wait"
    /\ UNCHANGED <<memory, wake, poll, inHand, states, view, unit, faults, history>>

\* `self._wake.wait(interval)` returns because the event is set, or because the
\* interval is up.
Woken ==
    /\ pc = "wait" /\ wake
    /\ pc' = "check"
    /\ UNCHANGED <<memory, wake, poll, inHand, states, view, unit, faults, history>>

IntervalOver ==
    /\ pc = "wait" /\ ~wake
    /\ pc' = "check"
    /\ UNCHANGED <<memory, wake, poll, inHand, states, view, unit, faults, history>>

PrimeStep ==
    \/ PrimeMounted \/ Decline \/ Consider \/ GiveUp
    \/ StartMount \/ StartFails \/ NoteAttempt

MonitorStep ==
    /\ \/ Check \/ ClearWake \/ LoadConfig \/ \E id \in Ids : Look(id)
       \/ ReadUnit \/ PrimeStep
       \/ Publish \/ \E id \in Ids : Farewell(id)
       \/ EndPoll \/ Woken
    /\ UNCHANGED <<config, unitFile, armed, journal, up, accepts, task, stopping,
                   commands, events>>

Timer ==
    /\ IntervalOver
    /\ UNCHANGED <<machine, task, stopping, bounds>>

\* `StateMonitor.stop`: `_stop` is set, then `_wake`.
Stop ==
    /\ \/ stopping = "no" /\ stopping' = "set" /\ Event /\ UNCHANGED wake
       \/ stopping = "set" /\ stopping' = "woken" /\ wake' = TRUE /\ UNCHANGED events
    /\ UNCHANGED <<machine, task, memory, pc, poll, inHand, states, view,
                   commands, faults, history>>

\* The daemon dies or is stopped, and a new one starts.  The config, the units
\* and the mounts survive; what the threads knew does not, and the clients
\* start from nothing again.
Restart ==
    /\ Event
    /\ task' = [h \in Handlers |-> NoTask]
    /\ primed' = NothingKnown /\ attempted' = NothingKnown
    /\ wake' = FALSE /\ stopping' = "no"
    /\ pc' = "check" /\ polled' = NothingKnown /\ todo' = {}
    /\ cur' = None /\ table' = NoTable /\ verdict' = None
    /\ queued' = 0 /\ refused' = FALSE
    /\ current' = NothingKnown /\ gone' = {}
    /\ states' = NothingKnown /\ view' = NothingKnown
    /\ seen' = NothingSeen
    /\ starts' = [id \in Ids |-> 0] /\ dirty' = FALSE
    /\ servers' = NoServers
    /\ UNCHANGED <<machine, commands, faults>>

Next ==
    \/ \E id \in Ids : Systemd(id)
    \/ Environment
    \/ Command
    \/ \E h \in Handlers : HandlerStep(h)
    \/ MonitorStep
    \/ Timer
    \/ Stop
    \/ Restart

Spec == Init /\ [][Next]_vars

\* Threads are scheduled, systemd runs its jobs and the interval runs out; no
\* person, server or fault is obliged to do anything.
Fairness ==
    /\ WF_vars(MonitorStep)
    /\ WF_vars(Timer)
    /\ \A h \in Handlers : WF_vars(HandlerStep(h))
    /\ \A id \in Ids : WF_vars(Systemd(id))

FairSpec == Spec /\ Fairness

-----------------------------------------------------------------------------
(***************************************************************************)
(* Properties.                                                             *)
(***************************************************************************)
TaskType == [op : Operations \cup {"rollback"}, id : Ids \cup {None}, stage : Stages,
             previous : Document, updated : Document]

\* Every variable the daemon's threads read or write keeps its type.
TypeOK ==
    /\ config \in Document /\ polled \in Document
    /\ unitFile \in [Ids -> Hosts \cup {None}]
    /\ armed \in [Ids -> BOOLEAN] /\ accepts \in [Ids -> BOOLEAN]
    /\ unit \in [Ids -> UnitStates] /\ journal \in [Ids -> {Noise, 13, 112}]
    /\ up \in [Hosts -> BOOLEAN] /\ servers \in [Hosts -> BOOLEAN]
    /\ task \in [Handlers -> TaskType]
    /\ primed \in [Ids -> Hosts \cup {None}]
    /\ attempted \in [Ids -> Attempt \cup {None}]
    /\ wake \in BOOLEAN /\ stopping \in { "no", "set", "woken" }
    /\ pc \in Points
    /\ todo \subseteq Configured(polled)
    /\ cur \in Ids \cup {None} /\ (pc \in InHandPoints => cur \in todo)
    /\ table \in [mounted : BOOLEAN, armed : BOOLEAN]
    /\ queued \in Nat /\ refused \in BOOLEAN
    /\ gone \subseteq Ids
    /\ seen \in [Ids -> { "no", "mounted", "connected" }]
    /\ starts \in [Ids -> Nat]
    /\ dirty \in BOOLEAN

\* The monitor never queues more than _PRIME_ATTEMPTS starts for a connection
\* that stays where it is, is not seen mounted and is not forgotten, however
\* forget(), config changes and failing commands interleave with the poll
\* (monitor.py: "queueing a start every five seconds for ever").
StartBudget == \A id \in Ids : starts[id] <= PrimeAttempts

\* A connection the monitor has seen connected and that was not forgotten since
\* is never started by it again: an unmount after that is somebody's choice
\* (monitor.py: "mounting it straight back would be arguing with them").
EjectRespected ==
    [][pc = "decide" /\ pc' = "note" => seen[cur] # "connected"]_vars

\* A nudge is never lost: whoever nudged after the last poll read the config
\* finds the loop awake, or not yet waiting (monitor.py `_loop`: "A nudge that
\* arrives while `poll()` is running has to survive into the next pass").
NudgeNotLost == pc = "wait" /\ dirty => wake

\* What priming remembers is about connections the monitor still publishes:
\* a removed connection leaves nothing behind once the poll that missed it is
\* over, in whatever order forget() and that poll ran.
MemoryIsOfPublished ==
    pc = "wait" => \A id \in Ids :
        primed[id] # None \/ attempted[id] # None => states[id] # None

\* What a fresh look at the machine would say of a connection.
FreshReading(id) ==
    LET failed == ActiveState(id) = "failed" IN
    [ auto |-> config[id].auto, occupied |-> FALSE,
      mounted |-> unit[id] = "active", answering |-> up[config[id].host],
      readOnly |-> FALSE, active |-> ActiveState(id),
      result |-> IF failed THEN "exit-code" ELSE "success",
      cause |-> IF failed THEN TranslateJournal(<<journal[id]>>) ELSE NoCause,
      armed |-> armed[id] ]

Truth(id) == IF config[id] = None THEN None ELSE Derive(FreshReading(id))

\* When commands, people and servers come to rest, what is published, and what
\* a client shows, becomes and stays the truth, unless the monitor was stopped.
Converges ==
    <>[](stopping # "no" \/ \A id \in Ids : states[id] = Truth(id) /\ view[id] = Truth(id))

\* No connection is left waiting in silence: one that stays idle with its server
\* there ends up latched, and so mounted before, refused, or given up on.
IdleIsResolved ==
    <>[](stopping # "no" \/ \A id \in Ids :
            config[id] # None /\ Truth(id).state = IDLE /\ up[config[id].host]
                => primed[id] = config[id].host)
=============================================================================
