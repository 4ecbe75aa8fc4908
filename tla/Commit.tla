------------------------------- MODULE Commit -------------------------------
(***************************************************************************)
(* What the daemon does to a Linux machine: the mutating handlers of       *)
(* daemon/handlers.py over the config file (config/store.py,               *)
(* config/operations.py), the Samba applier (samba/), the mounter of       *)
(* systemd units (mounts/apply.py) and the credentials files.              *)
(*                                                                         *)
(* Each client has a thread of its own in the daemon (ipc/server.py), so   *)
(* two handlers interleave between any two calls that reach the machine.   *)
(* A connection stands for its mountpoint, its two units and its           *)
(* credentials file too: all four are derived from it.                     *)
(***************************************************************************)
EXTENDS Naturals, FiniteSets

CONSTANTS
    Handlers,       \* threads that serve requests
    Shares,         \* names of shares
    HandWritten,    \* shares that somebody else wrote in smb.conf
    Theirs,         \* shares of a directory that exists and is not the user's
    Conns,          \* connections
    Manual,         \* connections with auto_connect = never
    Strangers,      \* mountpoints of an earlier SMBPal with another config
    Requests,       \* what clients may ask: records of op, on, pw
    MaxRequests,    \* bound: requests
    MaxFaults,      \* bound: commands and writes that fail
    MaxCrashes,     \* bound: deaths of the daemon
    MaxPlugs,       \* bound: sticks that udisks2 mounts on a mountpoint
    MaxBusy,        \* bound: unmounts that find the mount in use
    MaxTroubles     \* bound: all of these but the requests together

ASSUME CommitBounds ==
    {MaxRequests, MaxFaults, MaxCrashes, MaxPlugs, MaxBusy, MaxTroubles} \subseteq Nat
ASSUME ConstantsAreParts ==
    /\ HandWritten \union Theirs \subseteq Shares
    /\ Manual \subseteq Conns /\ Strangers \intersect Conns = {}

ShareOps   == {"share.add", "share.remove", "share.make_writable"}
ConnOps    == {"connection.add", "connection.remove", "connection.set_credentials", "connection.use_fallback"}
MachineOps == {"apply", "teardown"}
ASSUME RequestsAreKnown ==
    Requests \subseteq [op : ShareOps, on : Shares, pw : BOOLEAN]
                       \union [op : ConnOps, on : Conns, pw : BOOLEAN]
                       \union [op : MachineOps, on : Shares \union Conns, pw : BOOLEAN]

VARIABLES
    config,     \* the file: shares, and per connection what it records
    smbConf, published, served, advertised, dirs,
    units, mounts, creds,
    handlers,
    \* --- history: whether the last change had the machine to itself and ran
    \*     to its end, whether the last sweep did, and what they left alone
    current, swept, left,
    requests, faults, crashes, plugs, inUse

samba   == <<smbConf, published, served, advertised, dirs>>
machine == <<samba, units, mounts, creds>>
history == <<current, swept, left>>
bounds  == <<requests, faults, crashes, plugs, inUse>>
vars    == <<config, machine, handlers, history, bounds>>

Points == Conns \union Strangers
Happens == faults + crashes + plugs + inUse < MaxTroubles

\* A connection as recorded: whether it names a credentials file, and whether
\* its two addresses are swapped.
Unrecorded  == [there |-> FALSE, ref |-> FALSE, swapped |-> FALSE]
Recorded(r) == [there |-> TRUE, ref |-> r, swapped |-> FALSE]
EmptyConfig == [shares |-> {}, conns |-> [c \in Conns |-> Unrecorded]]
Configured(doc) == {c \in Conns : doc.conns[c].there}

\* The units of a mountpoint: the marked .mount and .automount files, the
\* automount armed, and what the .mount file says.
NoUnit     == [mount |-> FALSE, auto |-> FALSE, armed |-> FALSE, ref |-> FALSE, swapped |-> FALSE]
StrayUnit  == [NoUnit EXCEPT !.mount = TRUE, !.auto = TRUE, !.armed = TRUE]

\* inventory.survey: what bears our marker and is in no connection, and what is
\* mounted and bears none.
Marked    == {p \in Points : units[p].mount \/ units[p].auto}
Orphaned  == Marked \ Configured(config)
Unmanaged == {p \in Points : mounts[p] = "ours"} \ (Marked \union Configured(config))

Idle(reply) == [pc |-> "idle", req |-> [op |-> "none"], prev |-> EmptyConfig, next |-> EmptyConfig,
                rolling |-> FALSE, alone |-> FALSE, blocked |-> {}, reply |-> reply]
Busy == {h \in Handlers : handlers[h].pc # "idle"}

Init ==
    /\ config = EmptyConfig
    /\ smbConf \in {"plain", "missing"} /\ published = {} /\ served = {}
    /\ advertised = FALSE /\ dirs = [s \in Shares |-> IF s \in Theirs THEN "theirs" ELSE "absent"]
    /\ units = [p \in Points |-> IF p \in Strangers THEN StrayUnit ELSE NoUnit]
    /\ mounts = [p \in Points |-> "none"] /\ creds = {}
    /\ handlers = [h \in Handlers |-> Idle("none")]
    /\ current = FALSE /\ swept = FALSE /\ left = {}
    /\ requests = 0 /\ faults = 0 /\ crashes = 0 /\ plugs = 0 /\ inUse = 0

-----------------------------------------------------------------------------
(***************************************************************************)
(* The request: what it refuses, and the document it makes.                *)
(***************************************************************************)
\* What testparm lists: it reads the files, not the running smbd.
Effective == HandWritten \union (IF smbConf = "included" THEN {x.share : x \in published} ELSE {})

\* A section of that name that SMBPal did not write would be shadowed.
Shadows(s, doc) == s \in Effective \ doc.shares

AddShare(doc, s)         == [doc EXCEPT !.shares = @ \union {s}]
RemoveShare(doc, s)      == [doc EXCEPT !.shares = @ \ {s}]
AddConnection(doc, c, r) == [doc EXCEPT !.conns[c] = Recorded(r)]
RemoveConnection(doc, c) == [doc EXCEPT !.conns[c] = Unrecorded]
SetCredentials(doc, c)   == [doc EXCEPT !.conns[c].ref = TRUE]
UseFallback(doc, c)      == [doc EXCEPT !.conns[c].swapped = ~@]

Refused(r, doc) ==
    \/ r.op = "share.add" /\ (r.on \in doc.shares \/ Shadows(r.on, doc))
    \/ r.op \in {"share.remove", "share.make_writable"} /\ r.on \notin doc.shares
    \/ r.op = "connection.add" /\ r.on \in Configured(doc)
    \/ r.op \in {"connection.remove", "connection.set_credentials", "connection.use_fallback"}
       /\ r.on \notin Configured(doc)

Change(r, doc) ==
    CASE r.op = "share.add"         -> AddShare(doc, r.on)
      [] r.op = "share.remove"      -> RemoveShare(doc, r.on)
      [] r.op = "connection.add"    -> AddConnection(doc, r.on, r.pw)
      [] r.op = "connection.remove" -> RemoveConnection(doc, r.on)
      [] r.op = "connection.set_credentials" -> SetCredentials(doc, r.on)
      [] r.op = "connection.use_fallback"    -> UseFallback(doc, r.on)
      [] OTHER -> doc

Commits(r) == r.op \notin {"apply", "teardown", "share.make_writable"}

\* Where a request that is not refused goes first: the password is written
\* before the connection is saved.
FirstStep(r) ==
    CASE r.op = "apply"               -> "publish"
      [] r.op = "teardown"            -> "unserve"
      [] r.op = "share.make_writable" -> "chown"
      [] r.op = "connection.set_credentials" \/ (r.op = "connection.add" /\ r.pw) -> "password"
      [] OTHER                        -> "save"

\* A request arrives: the handler loads the config, once.
Start(h, r) ==
    /\ handlers[h].pc = "idle" /\ requests < MaxRequests
    /\ requests' = requests + 1
    /\ IF Refused(r, config)
       THEN handlers' = [handlers EXCEPT ![h] = Idle("error")] /\ UNCHANGED history
       ELSE /\ handlers' = [g \in Handlers |->
                IF g = h THEN [Idle("none") EXCEPT !.pc = FirstStep(r), !.req = r, !.prev = config,
                                  !.next = Change(r, config), !.alone = (Busy = {})]
                ELSE [handlers[g] EXCEPT !.alone = FALSE]]
            /\ current' = (current /\ Busy = {}) /\ swept' = (swept /\ Busy = {})
            /\ UNCHANGED left
    /\ UNCHANGED <<config, machine, faults, crashes, plugs, inUse>>

Goes(h, pc)  == handlers' = [handlers EXCEPT ![h].pc = pc]
At(h, pc)    == handlers[h].pc = pc
Req(h)       == handlers[h].req
\* The document a handler is applying.
Doc(h)       == IF handlers[h].rolling THEN handlers[h].prev ELSE handlers[h].next
\* (bug) A commit sweeps as an explicit apply does.
SweepsAll(h) == Points
\* (bug) A commit may remove what its own document names.
EntitledNext(h) == IF Commits(Req(h)) THEN Configured(handlers[h].next) ELSE Points
\* The mountpoints that a change may remove: Mounter._untouched.
Entitled(h)  == IF Commits(Req(h)) THEN Configured(handlers[h].prev) \union Configured(handlers[h].next)
                ELSE Points

WritePassword(h) ==
    /\ At(h, "password") /\ creds' = creds \union {Req(h).on} /\ Goes(h, "save")
    /\ UNCHANGED <<config, samba, units, mounts, history, bounds>>

\* _commit saves first; and saves what was there before it undoes anything.
Save(h) ==
    /\ At(h, "save") /\ config' = Doc(h) /\ Goes(h, "publish")
    /\ UNCHANGED <<machine, history, bounds>>

-----------------------------------------------------------------------------
(***************************************************************************)
(* samba/apply.py                                                          *)
(***************************************************************************)
\* A directory that SMBPal makes belongs to the share's user.
Made(doc) == [s \in Shares |-> IF s \in doc.shares /\ dirs[s] = "absent" THEN "ours" ELSE dirs[s]]

\* The sections of smbpal.conf: read-only where the user cannot write.
Writable(dir)         == dir = "ours"
Sections(doc, folders) == {[share |-> s, writable |-> Writable(folders[s])] : s \in doc.shares}

Publish(h) ==
    /\ At(h, "publish") /\ dirs' = Made(Doc(h))
    /\ published' = Sections(Doc(h), dirs') /\ Goes(h, "include")
    /\ UNCHANGED <<config, smbConf, served, advertised, units, mounts, creds, history, bounds>>

\* insert_include and remove_include, on a smb.conf that is there.
WithBlock(conf)    == IF conf = "missing" THEN conf ELSE "included"
WithoutBlock(conf) == IF conf = "included" THEN "plain" ELSE conf
Advertises(doc)    == doc.shares # {}
AfterServing(h)    == IF Req(h).op = "share.make_writable" THEN "done" ELSE "units"

\* _ensure_include, then reload_config: smbd reads what the files say.
Reload(h) ==
    /\ At(h, "include") /\ smbConf # "missing" /\ smbConf' = WithBlock(smbConf)
    /\ served' = published /\ Goes(h, "verify")
    /\ UNCHANGED <<config, published, advertised, dirs, units, mounts, creds, history, bounds>>

\* verify_present, then the advertisement.
Verify(h) ==
    /\ At(h, "verify") /\ Doc(h).shares \subseteq Effective
    /\ advertised' = Advertises(Doc(h)) /\ Goes(h, AfterServing(h))
    /\ UNCHANGED <<config, smbConf, published, served, dirs, units, mounts, creds, history, bounds>>

TakeOwnership(h) ==
    /\ At(h, "chown") /\ dirs[Req(h).on] # "absent"
    /\ dirs' = [dirs EXCEPT ![Req(h).on] = "ours"] /\ Goes(h, "publish")
    /\ UNCHANGED <<config, smbConf, published, served, advertised, units, mounts, creds, history, bounds>>

\* Applier.teardown.  A Samba that will not reload does not fail it.
Unserve(h) ==
    /\ At(h, "unserve")
    /\ smbConf' = WithoutBlock(smbConf)
    /\ published' = {} /\ advertised' = FALSE
    /\ \/ served' = {} /\ UNCHANGED faults
       \/ Happens /\ faults < MaxFaults /\ faults' = faults + 1 /\ UNCHANGED served
    /\ Goes(h, "disarm")
    /\ UNCHANGED <<config, dirs, units, mounts, creds, history, requests, crashes, plugs, inUse>>

-----------------------------------------------------------------------------
(***************************************************************************)
(* mounts/apply.py                                                         *)
(***************************************************************************)
\* The mountpoints the document wants a unit for; a teardown wants none.
Wanted(h) == IF Req(h).op = "teardown" THEN {} ELSE Configured(Doc(h))
Occupied  == {p \in Points : mounts[p] = "theirs"}

\* (bug) A unit that is there is taken for the right one.
UnitOnce(c, doc) ==
    IF units[c].mount THEN units[c]
    ELSE [units[c] EXCEPT !.mount = TRUE, !.auto = TRUE,
                          !.ref = doc.conns[c].ref /\ c \in creds, !.swapped = doc.conns[c].swapped]

\* Both files, as the config and the credentials files make them.
UnitFor(c, doc) ==
    [units[c] EXCEPT !.mount = TRUE, !.auto = TRUE,
                     !.ref = doc.conns[c].ref /\ c \in creds, !.swapped = doc.conns[c].swapped]

\* A connection whose mountpoint somebody holds keeps its units, unwritten.
Blocked(h) == Wanted(h) \intersect Occupied

WriteUnits(h) ==
    /\ At(h, "units")
    /\ LET todo == Wanted(h) \ Occupied IN
       /\ units' = [p \in Points |-> IF p \in todo THEN UnitFor(p, Doc(h)) ELSE units[p]]
       /\ left' = (left \ todo) \union Blocked(h)
    /\ handlers' = [handlers EXCEPT ![h].pc = "disarm", ![h].blocked = Blocked(h)]
    /\ UNCHANGED <<config, samba, mounts, creds, current, swept, bounds>>

Stale(h) == (Entitled(h) \ Wanted(h)) \intersect Marked

\* _remove_stale_units, where ".automount" sorts before ".mount".
Disarm(h) ==
    /\ At(h, "disarm")
    /\ units' = [p \in Points |-> IF p \in Stale(h) THEN [units[p] EXCEPT !.auto = FALSE, !.armed = FALSE]
                                  ELSE units[p]]
    /\ Goes(h, "unlink")
    /\ UNCHANGED <<config, samba, mounts, creds, history, bounds>>

\* `systemctl stop` of a mount unit unmounts whatever is at its path.
Stopped(points) == [p \in Points |-> IF p \in points THEN "none" ELSE mounts[p]]
Mounted         == {p \in Points : mounts[p] # "none"}
AfterSweep(h)   == Goes(h, IF Req(h).op = "teardown" THEN "done" ELSE "arm")

\* (bug) The unit file goes whether or not the unmount took.
UnlinkAll(h) ==
    /\ At(h, "unlink")
    /\ \E busy \in SUBSET (Stale(h) \intersect Mounted) :
       /\ busy # {} => (Happens /\ inUse + Cardinality(busy) <= MaxBusy)
       /\ inUse' = inUse + Cardinality(busy)
       /\ mounts' = Stopped(Stale(h) \ busy)
       /\ units' = [p \in Points |-> IF p \in Stale(h) THEN NoUnit ELSE units[p]]
       /\ left' = (left \ Stale(h)) \union busy
    /\ AfterSweep(h)
    /\ UNCHANGED <<config, samba, creds, current, swept, requests, faults, crashes, plugs>>

\* What is in use is not unmounted, and keeps the file that marks it as ours.
Unlink(h) ==
    /\ At(h, "unlink")
    /\ \E busy \in SUBSET (Stale(h) \intersect Mounted) :
       /\ busy # {} => (Happens /\ inUse + Cardinality(busy) <= MaxBusy)
       /\ inUse' = inUse + Cardinality(busy)
       /\ mounts' = Stopped(Stale(h) \ busy)
       /\ units' = [p \in Points |-> IF p \in Stale(h) \ busy THEN NoUnit ELSE units[p]]
       /\ left' = (left \ Stale(h)) \union busy
    /\ AfterSweep(h)
    /\ UNCHANGED <<config, samba, creds, current, swept, requests, faults, crashes, plugs>>

\* An automount whose file another handler took away cannot be enabled.
Arm(h) ==
    /\ At(h, "arm")
    /\ LET todo == Wanted(h) \ handlers[h].blocked IN
       /\ \A c \in todo \ Manual : units[c].auto
       /\ units' = [p \in Points |-> IF p \in todo THEN [units[p] EXCEPT !.armed = p \notin Manual]
                                     ELSE units[p]]
    /\ Goes(h, "done")
    /\ UNCHANGED <<config, samba, mounts, creds, history, bounds>>

-----------------------------------------------------------------------------
(***************************************************************************)
(* How a handler ends.                                                     *)
(***************************************************************************)
\* connection.remove forgets the password after the commit; an addition that
\* failed forgets the one it wrote.
Forgets(h, ok) == IF (ok /\ Req(h).op = "connection.remove") \/ (~ok /\ Req(h).op = "connection.add")
                  THEN {Req(h).on} ELSE {}

Whole(h) == Req(h).op # "teardown" /\ Req(h).op # "share.make_writable"

Finish(h) ==
    /\ At(h, "done")
    /\ creds' = creds \ Forgets(h, ~handlers[h].rolling)
    /\ current' = IF Whole(h) THEN handlers[h].alone ELSE current /\ Req(h).op # "teardown"
    /\ swept' = IF Req(h).op \in {"apply", "teardown"} THEN handlers[h].alone ELSE swept
    /\ handlers' = [handlers EXCEPT ![h] = Idle(IF handlers[h].rolling THEN "error" ELSE "ok")]
    /\ UNCHANGED <<config, samba, units, mounts, left, bounds>>

\* (bug) Only the failures that were anticipated are undone.
JustFails(h) ==
    /\ handlers' = [handlers EXCEPT ![h] = Idle("error")]
    /\ current' = FALSE /\ UNCHANGED <<creds, swept, left>>

\* _commit undoes whatever stopped it, once; a failure to restore is logged.
\* Nothing is undone for a request that commits nothing, and the password that
\* set_credentials wrote stays written.
Undo(h) ==
    IF Commits(Req(h)) /\ ~handlers[h].rolling /\ handlers[h].pc \notin {"password", "save"}
    THEN /\ handlers' = [handlers EXCEPT ![h].pc = "save", ![h].rolling = TRUE]
         /\ UNCHANGED <<creds, history>>
    ELSE /\ handlers' = [handlers EXCEPT ![h] = Idle("error")]
         /\ creds' = (IF handlers[h].pc = "password" THEN creds ELSE creds \ Forgets(h, FALSE))
         /\ LET untouched == handlers[h].pc \in {"password", "save", "chown"} /\ ~handlers[h].rolling
                stored == At(h, "save") /\ Req(h).op = "connection.set_credentials" IN
            current' = (current /\ untouched /\ ~stored) /\ swept' = (swept /\ untouched)
         /\ UNCHANGED left

\* Samba is not installed; the share is not in the effective configuration;
\* the directory or the automount is not there.
CannotGoOn(h) ==
    \/ At(h, "include") /\ smbConf = "missing"
    \/ At(h, "verify") /\ ~(Doc(h).shares \subseteq Effective)
    \/ At(h, "chown") /\ dirs[Req(h).on] = "absent"
    \/ At(h, "arm") /\ \E c \in (Wanted(h) \ handlers[h].blocked) \ Manual : ~units[c].auto

Fail(h) ==
    /\ CannotGoOn(h) /\ Undo(h)
    /\ UNCHANGED <<config, samba, units, mounts, bounds>>

\* A write or a command fails; of the units, some may be written by then.
Fault(h) ==
    /\ handlers[h].pc \in {"password", "save", "publish", "include", "verify", "units", "arm"}
    /\ Happens /\ faults < MaxFaults /\ faults' = faults + 1 /\ Undo(h)
    /\ IF At(h, "units")
       THEN \E some \in SUBSET (Wanted(h) \ Occupied) :
            units' = [p \in Points |-> IF p \in some THEN UnitFor(p, Doc(h)) ELSE units[p]]
       ELSE UNCHANGED units
    /\ UNCHANGED <<config, samba, mounts, requests, crashes, plugs, inUse>>

\* The daemon dies, and starts again: it applies nothing by itself but the
\* advertisement.
Crash ==
    /\ Happens /\ crashes < MaxCrashes /\ crashes' = crashes + 1
    /\ handlers' = [h \in Handlers |-> Idle("none")]
    /\ advertised' = Advertises(config)
    /\ current' = (current /\ Busy = {}) /\ swept' = (swept /\ Busy = {})
    /\ UNCHANGED <<config, smbConf, published, served, dirs, units, mounts, creds, left,
                   requests, faults, plugs, inUse>>

-----------------------------------------------------------------------------
(***************************************************************************)
(* The machine: what an automount, a person and udisks2 do to mountpoints. *)
(***************************************************************************)
\* Somebody opens the folder; or connection.connect starts the mount.
Mount(p) ==
    /\ mounts[p] = "none" /\ units[p].mount
    /\ units[p].armed \/ config.conns[p].there
    /\ mounts' = [mounts EXCEPT ![p] = "ours"]
    /\ UNCHANGED <<config, samba, units, creds, handlers, history, bounds>>

\* connection.disconnect, a commit of nothing, stops the mount.
Unmount(c) ==
    /\ config.conns[c].there /\ mounts[c] # "none" /\ mounts' = Stopped({c})
    /\ UNCHANGED <<config, samba, units, creds, handlers, history, bounds>>

Plug(c) ==
    /\ mounts[c] = "none" /\ Happens /\ plugs < MaxPlugs /\ plugs' = plugs + 1
    /\ mounts' = [mounts EXCEPT ![c] = "theirs"]
    /\ UNCHANGED <<config, samba, units, creds, handlers, history, requests, faults, crashes, inUse>>

Unplug(c) ==
    /\ mounts[c] = "theirs" /\ mounts' = Stopped({c})
    /\ UNCHANGED <<config, samba, units, creds, handlers, history, bounds>>

Next ==
    \/ \E h \in Handlers, r \in Requests : Start(h, r)
    \/ \E h \in Handlers :
          \/ WritePassword(h) \/ Save(h) \/ Publish(h) \/ Reload(h) \/ Verify(h)
          \/ TakeOwnership(h) \/ Unserve(h) \/ WriteUnits(h) \/ Disarm(h) \/ Unlink(h)
          \/ Arm(h) \/ Finish(h) \/ Fail(h) \/ Fault(h)
    \/ \E c \in Conns : Mount(c) \/ Unmount(c) \/ Plug(c) \/ Unplug(c)
    \/ Crash

Spec == Init /\ [][Next]_vars

-----------------------------------------------------------------------------
\* Every variable holds what the code can put in it.
TypeOK ==
    /\ config.shares \subseteq Shares
    /\ config.conns \in [Conns -> [there : BOOLEAN, ref : BOOLEAN, swapped : BOOLEAN]]
    /\ smbConf \in {"plain", "missing", "included"} /\ advertised \in BOOLEAN
    /\ published \union served \subseteq [share : Shares, writable : BOOLEAN]
    /\ dirs \in [Shares -> {"absent", "ours", "theirs"}] /\ creds \subseteq Conns
    /\ units \in [Points -> [mount : BOOLEAN, auto : BOOLEAN, armed : BOOLEAN,
                             ref : BOOLEAN, swapped : BOOLEAN]]
    /\ mounts \in [Points -> {"none", "ours", "theirs"}] /\ left \subseteq Points
    /\ \A h \in Handlers : /\ handlers[h].blocked \subseteq
                                 Configured(handlers[h].prev) \union Configured(handlers[h].next)
                           /\ handlers[h].reply \in {"none", "ok", "error"}

\* `_commit`: "being in the config means being applied".  After a change that
\* ran to its end, whether it was made or undone, and with no other meanwhile,
\* the machine serves the shares of the config, as writable as their folders
\* allow, and each connection has the units the config describes, unless its
\* mountpoint was somebody else's.
ConfigIsApplied ==
    (Busy = {} /\ current) =>
        /\ served = published /\ {x.share : x \in served} = config.shares
        /\ \A x \in served : x.writable = Writable(dirs[x.share])
        /\ advertised = Advertises(config)
        /\ \A c \in Configured(config) \ left :
              /\ units[c].mount /\ units[c].auto /\ units[c].armed = (c \notin Manual)
              /\ units[c].swapped = config.conns[c].swapped
              /\ units[c].ref = (config.conns[c].ref /\ c \in creds)

\* `smbpal apply` (and teardown) leaves no unit of ours but for a connection of
\* the config, or at a mountpoint that was in use when it came by; and no later
\* commit, made or undone, leaves one either.
NothingIsLeftOver == (Busy = {} /\ swept) => Orphaned \subseteq left

\* Mounter._remove_stale_units: the marker in the unit file is the only evidence
\* that a mount is ours, so no mount of ours is ever without its file, and the
\* survey never calls one a stranger's.
MountsAreMarked ==
    /\ Unmanaged = {}
    /\ \A p \in Points : mounts[p] = "ours" => units[p].mount

\* Mounter.apply: a commit against a config that never mentioned the units on
\* the disk does not reap them.  Only an apply or a teardown that somebody asked
\* for does.
StrangersStay ==
    [][\A p \in Strangers : units[p] # units'[p] =>
          \E h \in Handlers : handlers[h].pc \in {"disarm", "unlink"}
                              /\ Req(h).op \in {"apply", "teardown"}]_vars

\* The reply is true of the config: a handler that had the daemon to itself says
\* "ok" with its change in the file, and "error" with the file as it was, unless
\* it is the undoing save that failed.
AnswerIsTrue ==
    [][\A h \in Handlers :
          (handlers[h].pc # "idle" /\ handlers[h].alone /\ handlers'[h].pc = "idle") =>
             /\ handlers'[h].reply = "ok" => config' = handlers[h].next
             /\ (handlers'[h].reply = "error" /\ handlers[h].pc # "save") => config' = handlers[h].prev]_vars

\* Dispatcher._config_get: the daemon is the only writer, so the file and memory
\* cannot disagree.  A change is lost when two handlers made one each.
AnswerIsKept ==
    [][\A h \in Handlers :
          (handlers[h].pc # "idle" /\ handlers'[h].reply = "ok" /\ handlers[h].req.op = "connection.add")
             => config'.conns[handlers[h].req.on].there]_vars

=============================================================================
