----------------------------- MODULE Reconnector -----------------------------
(***************************************************************************)
(* The macOS agent of one person: the reconnect loop of                    *)
(* smbpal/agent/reconnect.py, the mount methods of agent/handlers.py it    *)
(* shares a lock with, and the daemon handlers that ask for a connect, a   *)
(* disconnect or a removal (daemon/handlers.py, the `_via_agent` half).    *)
(*                                                                         *)
(* Three threads of control work on the same shares: the loop, the agent's *)
(* link thread, which performs one daemon request at a time, and the       *)
(* daemon's handlers, which wait for its answer and then write the config. *)
(* The loop takes its lock only around the bookkeeping of one connection:  *)
(* the list, the mount table and the mount itself are steps of their own:  *)
(*                                                                         *)
(*   start -> list -> table -> { consider [-> lock [-> netfs] -> landed] }*)
(*         -> report -> wait -> list ...                                   *)
(*                                                                         *)
(* A connection stands for its share: no two point at the same one, and    *)
(* none is re-pointed here.  Times are abstract: a backoff or a window is  *)
(* open until a step of time closes it.                                    *)
(***************************************************************************)
EXTENDS Integers, FiniteSets, Sequences

CONSTANTS
    None,
    Ids,            \* this person's connections
    Spots,          \* the paths below /Volumes macOS can choose, always one to spare
    Modes,          \* the auto_connect values in use
    Handlers,       \* daemon threads that run commands
    MaxCommands,    \* bound: commands clients send
    MaxEvents,      \* bound: what people, servers, the kernel and launchd do
    MaxFaults       \* bound: calls that fail or are not answered in time


Mount      == [id : Ids, spot : Spots, ours : BOOLEAN]
Connection == [auto : Modes, disconnected : BOOLEAN, recorded : Spots]
Holds      == { "disconnected", "ejected", "refused" }
Statuses   == Holds \cup { "unknown", "connected", "reconnecting", "disabled" }
Track      == [mountedAt : Spots \cup {None}, lastAt : Spots \cup {None},
               held : Holds \cup {None}, waiting : BOOLEAN, status : Statuses]

ASSUME NoneAssumption ==
    /\ None \notin Ids \cup Spots \cup Track
    /\ None \notin { "loop", "link", "temporary", "disconnected", "ejected", "refused" }
ASSUME OutcomeAssumption == { "refused", "temporary" } \cap Spots = {}

VARIABLES
    \* --- the Mac and the servers
    mounts,     \* this person's SMB mounts; `ours`: the ledger holds it
    up,         \* id -> its server is there
    accepts,    \* id -> its server accepts the credential in the Keychain
    \* --- the daemon
    config,     \* id -> its record, or None
    call,       \* handler thread -> the command it runs
    \* --- the agent: what the link thread performs, and the mount lock
    inbox, job, lock,
    \* --- the reconnect loop
    pc, tracks, listed, table, todo, cur, landing, trouble, window, eager,
    flags,      \* what the loop has not been told yet: volume events, a sleep
    reported,   \* what it last told the daemon
    \* --- bounds
    commands, events, faults,
    \* --- history, read by no action: see the properties
    refused, ejected, away

world   == <<mounts, up, accepts>>
daemon  == <<config, call>>
link    == <<inbox, job>>
pass    == <<listed, table, todo, cur, landing, trouble, window, eager>>
loop    == <<pc, pass, reported>>
bounds  == <<commands, events, faults>>
history == <<refused, ejected, away>>

vars == <<world, daemon, link, lock, loop, tracks, flags, bounds, history>>

Configured(doc) == { id \in Ids : doc[id] # None }
MountsOf(id)    == { m \in mounts : m.id = id }
SpotsOf(id)     == { m.spot : m \in MountsOf(id) }
FreeSpots       == Spots \ { m.spot : m \in mounts }

NoCall  == [op |-> "connect", id |-> None, rid |-> 0, stage |-> "idle",
            recorded |-> None, landed |-> None]
NoTrack == [mountedAt |-> None, lastAt |-> None, held |-> None, waiting |-> FALSE,
            status |-> "unknown"]
Nothing == [id \in Ids |-> None]

Init ==
    /\ mounts = {} /\ up \in [Ids -> BOOLEAN] /\ accepts \in [Ids -> BOOLEAN]
    /\ config \in [Ids -> Connection \cup {None}]
    /\ call = [h \in Handlers |-> NoCall]
    /\ inbox = <<>> /\ job = None /\ lock = None
    /\ pc = "start" /\ tracks = Nothing /\ listed = Nothing /\ table = Nothing
    /\ todo = {} /\ cur = None /\ landing = None
    /\ trouble = FALSE /\ window = FALSE /\ eager = FALSE
    /\ flags = {} /\ reported = Nothing
    /\ commands = 0 /\ events = 0 /\ faults = 0
    /\ refused = {} /\ ejected = {} /\ away = Nothing

Event == events < MaxEvents /\ events' = events + 1
Fault == faults < MaxFaults /\ faults' = faults + 1

\* History: a mount of `id` that is there again settles what was held against it.
Settle(id) ==
    /\ refused' = refused \ {id}
    /\ ejected' = ejected \ {id}
    /\ away' = [away EXCEPT ![id] = None]

-----------------------------------------------------------------------------
(***************************************************************************)
(* People, servers and the kernel.                                         *)
(***************************************************************************)
FinderMount(id) ==
    /\ up[id] /\ MountsOf(id) = {}
    /\ \E spot \in FreeSpots :
        mounts' = mounts \cup {[id |-> id, spot |-> spot, ours |-> FALSE]}
    /\ Settle(id)
    /\ UNCHANGED <<up, accepts, flags>>

\* History: the last mount of a share the loop knows is ejected, before a pass
\* reads the mount table, and nothing suggests that a server went away.
Unexplained ==
    /\ pc \in { "wait", "list", "table" }
    /\ ~window /\ ~trouble /\ flags \cap { "slept", "trouble" } = {}

Eject(m) ==
    /\ mounts' = mounts \ {m}
    /\ ejected' = IF /\ MountsOf(m.id) = {m} /\ Unexplained
                     /\ listed[m.id] # None
                     /\ tracks[m.id] # None /\ tracks[m.id].mountedAt # None
                  THEN ejected \cup {m.id} ELSE ejected
    /\ UNCHANGED <<up, accepts, flags, refused, away>>

ServerFlips(id) ==
    /\ up' = [up EXCEPT ![id] = ~@]
    /\ UNCHANGED <<mounts, accepts, flags, history>>

PasswordChanges(id) ==
    /\ accepts' = [accepts EXCEPT ![id] = ~@]
    /\ UNCHANGED <<mounts, up, flags, history>>

\* The Mac slept, or the kernel reports a volume not responding: either
\* explains a disappearance from now on.
Explains(flag) ==
    /\ flag = "trouble" => \E m \in mounts : ~up[m.id]
    /\ flags' = flags \cup {flag}
    /\ ejected' = {}
    /\ UNCHANGED <<world, refused, away>>

NetworkChanges ==
    /\ flags' = flags \cup {"network"}
    /\ UNCHANGED <<world, history>>

Environment ==
    /\ Event
    /\ \/ \E id \in Ids : FinderMount(id) \/ ServerFlips(id) \/ PasswordChanges(id)
       \/ \E m \in mounts : Eject(m)
       \/ \E flag \in { "slept", "trouble" } : Explains(flag)
       \/ NetworkChanges
    /\ UNCHANGED <<daemon, link, lock, loop, tracks, commands, faults>>

\* macOS drops a mount whose server has gone, some time after.
Drop(m) ==
    /\ ~up[m.id]
    /\ mounts' = mounts \ {m}
    /\ UNCHANGED <<up, accepts, daemon, link, lock, loop, tracks, flags, bounds, history>>

BackoffOver(id) ==
    /\ tracks[id] # None /\ tracks[id].waiting
    /\ tracks' = [tracks EXCEPT ![id].waiting = FALSE]
    /\ UNCHANGED <<world, daemon, link, lock, loop, flags, bounds, history>>

\* TROUBLE_WINDOW and RETRY_AFTER_WAKE run out.
WindowOver ==
    /\ \/ window /\ window' = FALSE /\ UNCHANGED eager
       \/ eager /\ eager' = FALSE /\ UNCHANGED window
    /\ UNCHANGED <<world, daemon, link, lock, pc, listed, table, todo, cur, landing,
                   trouble, reported, tracks, flags, bounds, history>>

-----------------------------------------------------------------------------
(***************************************************************************)
(* The daemon's handlers: one agent request each, then the config.         *)
(***************************************************************************)
Command == commands < MaxCommands /\ commands' = commands + 1

\* `LinkedAgent._call`: the request goes down the link, the handler waits.
Ask(h, op, id, recorded) ==
    /\ call' = [call EXCEPT ![h] =
            [op |-> op, id |-> id, rid |-> commands', stage |-> "waiting",
             recorded |-> recorded, landed |-> None]]
    /\ inbox' = Append(inbox,
            [op |-> op, id |-> id, by |-> h, rid |-> commands', stage |-> "ask",
             recorded |-> recorded, targets |-> {}, landed |-> None])

\* History: a connect takes back an earlier disconnect as soon as it is asked.
ConnectOrDisconnect(h, op, id) ==
    /\ call[h].stage = "idle" /\ config[id] # None
    /\ Command
    /\ Ask(h, op, id, config[id].recorded)
    /\ away' = IF op = "connect" THEN [away EXCEPT ![id] = None] ELSE away
    /\ UNCHANGED <<config, refused, ejected>>

\* connection.remove: the record goes first, then the mounts SMBPal made.
Remove(h, id) ==
    /\ call[h].stage = "idle" /\ config[id] # None
    /\ Command
    /\ config' = [config EXCEPT ![id] = None]
    /\ Ask(h, "release", id, config[id].recorded)
    /\ refused' = refused \ {id} /\ ejected' = ejected \ {id}
    /\ UNCHANGED away

\* The mountpoint a client names, or the one derived from the share, is only
\* where macOS may put it.
Add(id) ==
    /\ config[id] = None
    /\ Command
    /\ \E c \in Connection : ~c.disconnected /\ config' = [config EXCEPT ![id] = c]
    /\ Settle(id)
    /\ UNCHANGED <<call, inbox>>

Client ==
    /\ \/ \E id \in Ids, h \in Handlers :
            \/ \E op \in { "connect", "disconnect" } : ConnectOrDisconnect(h, op, id)
            \/ Remove(h, id)
       \/ \E id \in Ids : Add(id)
    /\ UNCHANGED <<world, job, lock, loop, tracks, flags, events, faults>>

Finish(h) == call' = [call EXCEPT ![h] = NoCall]

\* The agent did not answer within the timeout: the command fails, and what
\* the agent does about it later is not undone.
GiveUp(h) ==
    /\ call[h].stage = "waiting" /\ Fault /\ Finish(h)
    /\ UNCHANGED <<config, commands, events>>

\* `_set_disconnected`, and after a connect `_record_where_it_landed`.  A
\* connection that has gone since is in no row, so nothing is written.
Record(h) ==
    LET id   == call[h].id
        gone == config[id] = None
        mark == call[h].op = "disconnect"
    IN  /\ call[h].stage = "answered"
        /\ config' = IF gone THEN config ELSE [config EXCEPT ![id].disconnected = mark]
        /\ call' = IF mark \/ call[h].landed = call[h].recorded
                   THEN [call EXCEPT ![h] = NoCall]
                   ELSE [call EXCEPT ![h].stage = "where"]
        /\ UNCHANGED bounds

RecordWhere(h) ==
    LET id == call[h].id IN
    /\ call[h].stage = "where"
    /\ config' = IF config[id] = None THEN config
                 ELSE [config EXCEPT ![id].recorded = call[h].landed]
    /\ Finish(h)
    /\ UNCHANGED bounds

Handler(h) ==
    /\ GiveUp(h) \/ Record(h) \/ RecordWhere(h)
    /\ UNCHANGED <<world, link, lock, loop, tracks, flags, history>>

-----------------------------------------------------------------------------
(***************************************************************************)
(* NetFS, called with the mount lock held: by the loop and by agent.mount. *)
(* A mount that lands goes into the ledger.                                *)
(***************************************************************************)
NetFSMounts(id, spot) ==
    /\ up[id] /\ accepts[id] /\ spot \in FreeSpots
    /\ mounts' = mounts \cup {[id |-> id, spot |-> spot, ours |-> TRUE]}
    /\ UNCHANGED <<up, accepts, faults>>

\* What it answers when it does not mount: a refused credential is final, a
\* server that is away, or anything else, is temporary.
NetFSRefuses(id) == up[id] /\ ~accepts[id] /\ UNCHANGED <<world, faults>>

NetFSFails(id) ==
    /\ IF up[id] THEN Fault ELSE UNCHANGED faults
    /\ UNCHANGED world

-----------------------------------------------------------------------------
(***************************************************************************)
(* The agent's link thread: one request at a time.                         *)
(***************************************************************************)
TakeRequest ==
    /\ job = None /\ inbox # <<>>
    /\ job' = Head(inbox) /\ inbox' = Tail(inbox)
    /\ UNCHANGED <<world, call, lock, tracks, faults, history>>

AtStage(op, stage) == job # None /\ job.op = op /\ job.stage = stage

\* (bug) the mount table is not asked first
LinkAskBlindly ==
    /\ AtStage("connect", "ask") /\ lock = None
    /\ lock' = "link" /\ job' = [job EXCEPT !.stage = "netfs"]
    /\ UNCHANGED <<world, inbox, call, tracks, faults, history>>

\* `mount_url` under `_mount_lock`: a share already mounted is answered with
\* where it is; otherwise the lock is kept while NetFS mounts it.
LinkAsk ==
    /\ AtStage("connect", "ask") /\ lock = None
    /\ \/ \E spot \in SpotsOf(job.id) :
            /\ job' = [job EXCEPT !.stage = "tell", !.landed = spot]
            /\ UNCHANGED lock
       \/ /\ SpotsOf(job.id) = {}
          /\ lock' = "link" /\ job' = [job EXCEPT !.stage = "netfs"]
    /\ UNCHANGED <<world, inbox, call, tracks, faults, history>>

\* (bug) the lock is kept when the mount fails
LinkMountKeepsLock ==
    /\ AtStage("connect", "netfs")
    /\ \/ \E spot \in Spots :
            /\ NetFSMounts(job.id, spot)
            /\ job' = [job EXCEPT !.stage = "tell", !.landed = spot]
            /\ Settle(job.id) /\ lock' = None
       \/ /\ NetFSRefuses(job.id) \/ NetFSFails(job.id)
          /\ job' = [job EXCEPT !.stage = "failed"]
          /\ UNCHANGED <<lock, history>>
    /\ UNCHANGED <<inbox, call, tracks>>

LinkMount ==
    /\ AtStage("connect", "netfs")
    /\ \/ \E spot \in Spots :
            /\ NetFSMounts(job.id, spot)
            /\ job' = [job EXCEPT !.stage = "tell", !.landed = spot]
            /\ Settle(job.id)
       \/ /\ NetFSRefuses(job.id) \/ NetFSFails(job.id)
          /\ job' = [job EXCEPT !.stage = "failed"]
          /\ UNCHANGED history
    /\ lock' = None
    /\ UNCHANGED <<inbox, call, tracks>>

\* `Reconnector.connected`.
Connected ==
    /\ AtStage("connect", "tell")
    /\ tracks' = IF tracks[job.id] = None THEN tracks
                 ELSE [tracks EXCEPT ![job.id] =
                         [@ EXCEPT !.mountedAt = job.landed, !.lastAt = job.landed,
                                   !.held = None, !.waiting = FALSE]]
    /\ job' = [job EXCEPT !.stage = "done"]
    /\ Settle(job.id)
    /\ UNCHANGED <<world, inbox, call, lock, faults>>

\* `_unmount`: every mount of the share, or else whatever is at the recorded
\* path.
Target ==
    /\ AtStage("disconnect", "ask")
    /\ job' = [job EXCEPT !.stage = "unmount",
            !.targets = IF SpotsOf(job.id) # {} THEN SpotsOf(job.id) ELSE {job.recorded}]
    /\ UNCHANGED <<world, inbox, call, lock, tracks, faults, history>>

\* A mount in use raises: the ones before it are unmounted, and the loop is
\* told nothing.
Unmount ==
    /\ AtStage("disconnect", "unmount")
    /\ LET there == { m \in mounts : m.spot \in job.targets } IN
       \/ /\ mounts' = mounts \ there
          /\ job' = [job EXCEPT !.stage = "tell"]
          /\ UNCHANGED faults
       \/ /\ \E some \in SUBSET there : some # there /\ mounts' = mounts \ some
          /\ job' = [job EXCEPT !.stage = "failed"]
          /\ Fault
    /\ UNCHANGED <<up, accepts, inbox, call, lock, tracks, history>>

\* `Reconnector.released`, for the recorded path and every target.
\* History: from here on the person has asked for this share to stay away.
Released ==
    /\ AtStage("disconnect", "tell")
    /\ LET where == job.targets \cup {job.recorded} IN
       tracks' = [id \in Ids |->
            IF tracks[id] # None /\ {tracks[id].mountedAt, tracks[id].lastAt} \cap where # {}
            THEN [tracks[id] EXCEPT !.mountedAt = None, !.held = "disconnected"]
            ELSE tracks[id]]
    /\ job' = [job EXCEPT !.stage = "done"]
    /\ away' = [away EXCEPT ![job.id] = "disconnected"]
    /\ UNCHANGED <<world, inbox, call, lock, faults, refused, ejected>>

\* `_release`: the mounts the ledger holds, those in use excepted.
\* History: what it unmounted belongs to no connection any more.
ReleaseMounts ==
    /\ AtStage("release", "ask")
    /\ LET made == { m \in MountsOf(job.id) : m.ours } IN
       /\ \/ mounts' = mounts \ made /\ UNCHANGED faults
          \/ \E some \in SUBSET made : some # made /\ mounts' = mounts \ some /\ Fault
       /\ away' = [away EXCEPT ![job.id] =
              IF mounts' # mounts /\ config[job.id] = None THEN "removed" ELSE @]
    /\ job' = [job EXCEPT !.stage = "done"]
    /\ UNCHANGED <<up, accepts, inbox, call, lock, tracks, refused, ejected>>

\* `agent.reply`: taken by the handler that waits for this very request, if it
\* still does.  A release has nothing more to do, a failure is only passed on.
Reply ==
    /\ job # None /\ job.stage \in { "done", "failed" }
    /\ LET waits == call[job.by].rid = job.rid /\ call[job.by].stage = "waiting"
           ends  == job.stage = "failed" \/ job.op = "release"
       IN  call' = IF ~waits THEN call
                   ELSE [call EXCEPT ![job.by] =
                           IF ends THEN NoCall
                           ELSE [@ EXCEPT !.stage = "answered", !.landed = job.landed]]
    /\ job' = None
    /\ UNCHANGED <<world, inbox, lock, tracks, faults, history>>

LinkThread ==
    /\ \/ TakeRequest \/ LinkAsk \/ LinkMount \/ Connected
       \/ Target \/ Unmount \/ Released \/ ReleaseMounts \/ Reply
    /\ UNCHANGED <<config, loop, flags, commands, events>>

-----------------------------------------------------------------------------
(***************************************************************************)
(* The loop: `tick`, `_consider`, `_failed`.                               *)
(***************************************************************************)
\* The clocks and what `events.wait` returned.  The first pass is given no
\* flags, and has no earlier clock to measure a sleep against.
StartPass ==
    /\ pc \in { "start", "wait" }
    /\ LET heard == IF pc = "start" THEN {} ELSE flags
           hurry == "network" \in heard \/ eager'
       IN  /\ flags' = IF pc = "start" THEN flags \ {"slept"} ELSE {}
           /\ window' = (window \/ heard \cap { "slept", "trouble" } # {})
           /\ eager' = (eager \/ "slept" \in heard)
           /\ trouble' = window'
           /\ tracks' = [id \in Ids |->
                IF hurry /\ tracks[id] # None /\ tracks[id].held = None
                         /\ tracks[id].mountedAt = None
                THEN [tracks[id] EXCEPT !.waiting = FALSE] ELSE tracks[id]]
    /\ pc' = "list"
    /\ UNCHANGED <<world, lock, listed, table, todo, cur, landing, reported, faults, history>>

\* (bug) a daemon that cannot be asked is taken for one that lists nothing
ReadListOrNothing ==
    /\ pc = "list"
    /\ \/ listed' = config /\ UNCHANGED faults
       \/ listed' = Nothing /\ Fault
    /\ pc' = "table"
    /\ UNCHANGED <<world, lock, table, todo, cur, landing, trouble, window, eager,
                   reported, tracks, flags, history>>

\* `_read_connections`: the daemon's list, or the last one it gave.
ReadList ==
    /\ pc = "list"
    /\ \/ listed' = config /\ UNCHANGED faults
       \/ listed' = listed /\ Fault
    /\ pc' = "table"
    /\ UNCHANGED <<world, lock, table, todo, cur, landing, trouble, window, eager,
                   reported, tracks, flags, history>>

TableIsRead ==
    table' \in { t \in [Ids -> Spots \cup {None}] :
            \A id \in Ids : IF SpotsOf(id) = {} THEN t[id] = None ELSE t[id] \in SpotsOf(id) }

\* (bug) the connections are those configured by now, not those of the list read
ReadTableAndList ==
    /\ pc = "table"
    /\ TableIsRead
    /\ todo' = Configured(config)
    /\ pc' = IF Configured(config) = {} THEN "report" ELSE "consider"
    /\ UNCHANGED <<world, lock, listed, cur, landing, trouble, window, eager,
                   reported, tracks, flags, faults, history>>

\* The mount table, by share: of two mounts of one share the later row wins.
ReadTable ==
    /\ pc = "table"
    /\ TableIsRead
    /\ todo' = Configured(listed)
    /\ pc' = IF Configured(listed) = {} THEN "report" ELSE "consider"
    /\ UNCHANGED <<world, lock, listed, cur, landing, trouble, window, eager,
                   reported, tracks, flags, faults, history>>

Known(id) == IF tracks[id] = None THEN NoTrack ELSE tracks[id]

Sighted(id) ==
    [Known(id) EXCEPT !.mountedAt = table[id], !.lastAt = table[id], !.held = None,
                      !.waiting = FALSE, !.status = "connected"]

\* (bug) a disappearance is never taken for an eject
MissingIsLost(id) ==
    LET known == Known(id)
        gone  == IF known.mountedAt = None THEN known
                 ELSE [known EXCEPT !.mountedAt = None, !.status = "reconnecting"]
    IN  IF listed[id].disconnected THEN [gone EXCEPT !.held = "disconnected"] ELSE gone

\* A mount that has disappeared: lost when something explains it, and otherwise
\* ejected; then what the daemon has recorded.
Missing(id) ==
    LET known == Known(id)
        gone  == IF known.mountedAt = None THEN known
                 ELSE IF trouble
                 THEN [known EXCEPT !.mountedAt = None, !.status = "reconnecting"]
                 ELSE [known EXCEPT !.mountedAt = None, !.held = "ejected"]
    IN  IF listed[id].disconnected THEN [gone EXCEPT !.held = "disconnected"] ELSE gone

\* `_consider`, under the lock: nothing to mount, and why.
LeaveAlone(id) ==
    /\ pc = "consider" /\ id \in todo
    /\ LET t == Missing(id) IN
       \/ table[id] # None /\ tracks' = [tracks EXCEPT ![id] = Sighted(id)]
       \/ /\ table[id] = None /\ t.held # None
          /\ tracks' = [tracks EXCEPT ![id] = [t EXCEPT !.status = t.held]]
       \/ /\ table[id] = None /\ t.held = None /\ listed[id].auto = "never"
          /\ tracks' = [tracks EXCEPT ![id] = [t EXCEPT !.status = "disabled"]]
       \/ /\ table[id] = None /\ t.held = None /\ listed[id].auto # "never" /\ t.waiting
          /\ tracks' = [tracks EXCEPT ![id] = t]
    /\ todo' = todo \ {id}
    /\ pc' = IF todo = {id} THEN "report" ELSE "consider"
    /\ UNCHANGED <<world, lock, listed, table, cur, landing, trouble, window, eager,
                   reported, flags, faults, history>>

Attempt(id) ==
    /\ pc = "consider" /\ id \in todo
    /\ table[id] = None /\ Missing(id).held = None
    /\ listed[id].auto # "never" /\ ~Missing(id).waiting
    /\ tracks' = [tracks EXCEPT ![id] = Missing(id)]
    /\ cur' = id /\ pc' = "lock"
    /\ UNCHANGED <<world, lock, listed, table, todo, landing, trouble, window, eager,
                   reported, flags, faults, history>>

\* The loop's own `mount_url`.
LoopAsk ==
    /\ pc = "lock" /\ lock = None
    /\ \/ landing' \in SpotsOf(cur) /\ pc' = "landed" /\ UNCHANGED lock
       \/ SpotsOf(cur) = {} /\ lock' = "loop" /\ pc' = "netfs" /\ UNCHANGED landing
    /\ UNCHANGED <<world, listed, table, todo, cur, trouble, window, eager, reported,
                   tracks, flags, faults, history>>

LoopMount ==
    /\ pc = "netfs"
    /\ \/ /\ landing' \in Spots /\ NetFSMounts(cur, landing')
          /\ Settle(cur)
       \/ /\ NetFSRefuses(cur) /\ landing' = "refused"
          /\ refused' = IF MountsOf(cur) = {} THEN refused \cup {cur} ELSE refused
          /\ UNCHANGED <<ejected, away>>
       \/ NetFSFails(cur) /\ landing' = "temporary" /\ UNCHANGED history
    /\ lock' = None /\ pc' = "landed"
    /\ UNCHANGED <<listed, table, todo, cur, trouble, window, eager, reported,
                   tracks, flags>>

\* What a mount that landed, a refusal and a temporary failure leave behind;
\* the first says nothing of a hold that came in the meantime.
Outcome(track) ==
    CASE landing \in Spots ->
            [track EXCEPT !.mountedAt = landing, !.lastAt = landing, !.waiting = FALSE,
                          !.status = "connected"]
      [] landing = "refused"   -> [track EXCEPT !.held = "refused", !.status = "refused"]
      [] landing = "temporary" -> [track EXCEPT !.waiting = TRUE, !.status = "reconnecting"]

Landed ==
    /\ pc = "landed"
    /\ tracks' = [tracks EXCEPT ![cur] = Outcome(@)]
    /\ todo' = todo \ {cur}
    /\ pc' = IF todo = {cur} THEN "report" ELSE "consider"
    /\ cur' = None /\ landing' = None
    /\ UNCHANGED <<world, lock, listed, table, trouble, window, eager, reported,
                   flags, faults, history>>

\* (bug) a connection that has left the list is still reported
EndPassKeepsGone ==
    /\ pc = "report"
    /\ tracks' = tracks
    /\ reported' = [id \in Ids |->
            IF tracks[id] = None THEN None
            ELSE [status |-> tracks[id].status, mountpoint |-> tracks[id].mountedAt]]
    /\ table' = Nothing /\ trouble' = FALSE
    /\ pc' = "wait"
    /\ UNCHANGED <<world, lock, listed, todo, cur, landing, window, eager, flags,
                   faults, history>>

\* What has left the list is dropped, and the states go to the daemon.
EndPass ==
    /\ pc = "report"
    /\ tracks' = [id \in Ids |-> IF listed[id] = None THEN None ELSE tracks[id]]
    /\ reported' = [id \in Ids |->
            IF tracks'[id] = None THEN None
            ELSE [status |-> tracks'[id].status, mountpoint |-> tracks'[id].mountedAt]]
    /\ table' = Nothing /\ trouble' = FALSE
    /\ pc' = "wait"
    /\ UNCHANGED <<world, lock, listed, todo, cur, landing, window, eager, flags,
                   faults, history>>

Loop ==
    /\ \/ StartPass \/ ReadList \/ ReadTable
       \/ \E id \in Ids : LeaveAlone(id) \/ Attempt(id)
       \/ LoopAsk \/ LoopMount \/ Landed \/ EndPass
    /\ UNCHANGED <<daemon, link, commands, events>>

-----------------------------------------------------------------------------
\* launchd starts the agent again: the mounts stay, what its threads knew does
\* not, and the daemon fails whatever it had asked of the old one.
AgentRestarts ==
    /\ Event
    /\ call' = [h \in Handlers |-> IF call[h].stage = "waiting" THEN NoCall ELSE call[h]]
    /\ inbox' = <<>> /\ job' = None /\ lock' = None
    /\ pc' = "start" /\ tracks' = Nothing /\ listed' = Nothing /\ table' = Nothing
    /\ todo' = {} /\ cur' = None /\ landing' = None
    /\ trouble' = FALSE /\ window' = FALSE /\ eager' = FALSE
    /\ flags' = {} /\ reported' = Nothing
    /\ refused' = {} /\ ejected' = {}
    /\ UNCHANGED <<world, config, commands, faults, away>>

Next ==
    \/ Environment
    \/ \E m \in mounts : Drop(m)
    \/ \E id \in Ids : BackoffOver(id)
    \/ WindowOver
    \/ Client
    \/ \E h \in Handlers : Handler(h)
    \/ LinkThread
    \/ Loop
    \/ AgentRestarts

Spec == Init /\ [][Next]_vars

\* The agent's threads and the daemon's are scheduled, NetFS answers, and
\* backoffs run out; nobody is obliged to ask, mount, eject or fail.
Fairness ==
    /\ WF_vars(Loop)
    /\ WF_vars(LinkThread)
    /\ \A h \in Handlers : WF_vars(Handler(h))
    /\ \A id \in Ids : WF_vars(BackoffOver(id))

FairSpec == Spec /\ Fairness

-----------------------------------------------------------------------------
(***************************************************************************)
(* Properties.                                                             *)
(***************************************************************************)
CallType == [op : { "connect", "disconnect", "release" }, id : Ids \cup {None},
             rid : Nat, stage : { "idle", "waiting", "answered", "where" },
             recorded : Spots \cup {None}, landed : Spots \cup {None}]
JobType  == [op : { "connect", "disconnect", "release" }, id : Ids, by : Handlers,
             rid : Nat, recorded : Spots, targets : SUBSET Spots,
             stage : { "ask", "netfs", "tell", "unmount", "done", "failed" },
             landed : Spots \cup {None}]

\* A request that waits in the link has not been begun.
RequestType == { r \in JobType : r.stage = "ask" }

\* Every variable keeps its type: a mount is at one path, the connection in hand
\* is one the pass is about and knows, and an answer names where a mount landed.
TypeOK ==
    /\ mounts \subseteq Mount
    /\ up \in [Ids -> BOOLEAN] /\ accepts \in [Ids -> BOOLEAN]
    /\ config \in [Ids -> Connection \cup {None}]
    /\ listed \in [Ids -> Connection \cup {None}]
    /\ call \in [Handlers -> CallType]
    /\ inbox \in Seq(RequestType) /\ job \in JobType \cup {None}
    /\ lock \in { None, "loop", "link" }
    /\ pc \in { "start", "list", "table", "consider", "lock", "netfs", "landed",
                "report", "wait" }
    /\ tracks \in [Ids -> Track \cup {None}]
    /\ table \in [Ids -> Spots \cup {None}]
    /\ todo \subseteq Configured(listed)
    /\ pc \in { "start", "list", "table", "report", "wait" } => todo = {}
    /\ cur \in Ids \cup {None}
    /\ pc \in { "lock", "netfs", "landed" } => cur \in todo /\ tracks[cur] # None
    /\ landing \in Spots \cup { None, "refused", "temporary" }
    /\ pc = "landed" => landing # None
    /\ trouble \in BOOLEAN /\ window \in BOOLEAN /\ eager \in BOOLEAN
    /\ flags \subseteq { "slept", "trouble", "network" }
    /\ refused \subseteq Ids /\ ejected \subseteq Ids /\ commands \in Nat

\* SMBPal never mounts a share a second time beside its own mount of it,
\* however the loop and a connect from the daemon meet (agent/handlers.py:
\* "both find a share unmounted and both mount it").
MountedOnce ==
    \A m, n \in mounts : m.id = n.id /\ m.ours /\ n.ours => m = n

\* A credential that was refused is not tried again by the loop until somebody
\* mounts the share, connects it, or it is configured anew: not after a wake, a
\* change of network, or a daemon that was restarting ("retrying one is how
\* accounts get locked out").
RefusedIsNotRetried == [][pc = "lock" /\ pc' = "netfs" => cur \notin refused]_vars

\* A share the loop knew mounted, and that went between its looks at the mount
\* table while nothing suggested its server had, is not mounted by the loop again until somebody mounts or
\* connects it, or something does suggest that ("taken as a person's choice").
EjectIsHeld == [][pc = "lock" /\ pc' = "netfs" => cur \notin ejected]_vars

\* When everybody rests, a connection that could be mounted is mounted, or is
\* held for a reason the person is told.
Settles ==
    <>[](\A id \in Ids :
        (/\ config[id] # None /\ config[id].auto # "never" /\ ~config[id].disconnected
         /\ up[id] /\ accepts[id])
            => MountsOf(id) # {} \/ (tracks[id] # None /\ tracks[id].held # None))

\* When everybody rests, what the agent has told the daemon is so: a share is
\* reported connected, and where, exactly when it is mounted there.
ReportsSettle ==
    <>[](\A id \in Ids :
        IF config[id] = None THEN reported[id] = None
        ELSE /\ reported[id] # None
             /\ IF MountsOf(id) = {}
                THEN reported[id].status # "connected" /\ reported[id].mountpoint = None
                ELSE reported[id].status = "connected")

\* The loop does not mount a removed connection after its mounts were released
\* (handlers.py `_connection_remove`: "so the reconnect loop cannot see the share
\* unmounted and put it back in between").
RemovedStaysAway == [][pc = "netfs" /\ landing' \in Spots => away[cur] # "removed"]_vars
=============================================================================
