-------------------------------- MODULE Links --------------------------------
(***************************************************************************)
(* The connection a macOS agent holds open to the daemon, both ends of it: *)
(* DaemonLink (smbpal/agent/link.py), which dials, registers, answers one  *)
(* request at a time and passes on the reports of the reconnect loop, and  *)
(* AgentLinks (smbpal/agent/client.py) with the handlers that use it       *)
(* (daemon/handlers.py: _agent_link, _agent_state, disconnected), one      *)
(* reader thread per connection and one thread per waiting handler.        *)
(*                                                                         *)
(* One person: the registry is keyed by uid and its entries do not meet.   *)
(* A daemon that restarts numbers its requests from 1 again, so a request  *)
(* has a number on the wire (`rid`) and an identity of its own (`of`).     *)
(***************************************************************************)
EXTENDS Naturals, Sequences, FiniteSets, Functions

CONSTANTS
    None,
    Handlers,       \* daemon threads that ask something of the agent
    MaxDials,       \* bound: connections the agent makes
    MaxRequests,    \* bound: requests the handlers make
    MaxReports,     \* bound: reports of the reconnect loop
    MaxFaults       \* bound: daemon restarts and agent restarts

Conns    == 1..MaxDials
Requests == 1..MaxRequests
Reports  == 1..MaxReports

ASSUME BoundsAssumption ==
    /\ {MaxDials, MaxRequests, MaxReports, MaxFaults} \subseteq Nat
    /\ None \notin Nat

VARIABLES
    \* --- the wire, per connection
    upward, downward,       \* frames to the daemon, frames to the agent
    agentEnd, daemonEnd,    \* an end is open
    \* --- the daemon
    daemonUp, registered, states, shown, counter, pending, caller, reader,
    \* --- the agent: the link thread, and the thread of the reconnect loop
    pc, client, joined, early, hand, latest, sender, carried,
    \* --- bounds
    dials, requests, reports, faults,
    \* --- history: what handlers were told, what agents have done
    outcome, heard, runs

wire   == <<upward, downward, agentEnd, daemonEnd>>
table  == <<registered, states, shown, counter, pending>>
daemon == <<daemonUp, table, caller, reader>>
agent  == <<pc, client, joined, early, hand, latest, sender, carried>>
bounds == <<dials, requests, reports, faults>>
calls  == <<outcome, heard, runs>>
vars   == <<wire, daemon, agent, bounds, calls>>

Idle     == [pc |-> "idle", of |-> None, rid |-> 0, conn |-> None]
NoReader == [pc |-> "gone", arg |-> None]
Reading  == [pc |-> "read", arg |-> None]

Init ==
    /\ upward = [c \in Conns |-> <<>>] /\ downward = [c \in Conns |-> <<>>]
    /\ agentEnd = [c \in Conns |-> FALSE] /\ daemonEnd = [c \in Conns |-> FALSE]
    /\ daemonUp = TRUE /\ registered = None /\ states = None /\ shown = None
    /\ counter = 0 /\ pending = [rid \in Requests |-> None]
    /\ caller = [h \in Handlers |-> Idle] /\ reader = [c \in Conns |-> NoReader]
    /\ pc = "dial" /\ client = None /\ joined = FALSE /\ early = <<>> /\ hand = None
    /\ latest = None /\ sender = "idle" /\ carried = None
    /\ dials = 0 /\ requests = 0 /\ reports = 0 /\ faults = 0
    /\ outcome = [r \in Requests |-> "waiting"] /\ heard = [r \in Requests |-> None]
    /\ runs = [r \in Requests |-> 0]

Fault == faults < MaxFaults /\ faults' = faults + 1

\* A frame sent on a connection that either end has left goes nowhere.
Alive(c)       == agentEnd[c] /\ daemonEnd[c]
ToDaemon(c, f) == upward' = [upward EXCEPT ![c] = IF Alive(c) THEN Append(@, f) ELSE @]
ToAgent(c, f)  == downward' = [downward EXCEPT ![c] = IF Alive(c) THEN Append(@, f) ELSE @]

-----------------------------------------------------------------------------
(***************************************************************************)
(* The agent: DaemonLink._loop and _session.  A dial that fails is tried   *)
(* again after a delay and changes nothing.                                *)
(***************************************************************************)
Dial ==
    /\ pc = "dial" /\ daemonUp /\ dials < MaxDials
    /\ LET c == dials + 1 IN
        /\ dials' = c /\ client' = c
        /\ agentEnd' = [agentEnd EXCEPT ![c] = TRUE]
        /\ daemonEnd' = [daemonEnd EXCEPT ![c] = TRUE]
        /\ upward' = [upward EXCEPT ![c] = <<[op |-> "register"]>>]
        /\ reader' = [reader EXCEPT ![c] = Reading]
    /\ pc' = "register"
    /\ UNCHANGED <<downward, daemonUp, table, caller, joined, early, hand, latest,
                   sender, carried, requests, reports, faults, calls>>

\* The session is over: the `finally` of _loop.
Leave ==
    /\ pc' = "dial" /\ client' = None /\ joined' = FALSE
    /\ early' = <<>> /\ hand' = None
    /\ agentEnd' = [agentEnd EXCEPT ![client] = FALSE]
    /\ downward' = [downward EXCEPT ![client] = <<>>]

LinkHangsUp ==
    /\ pc \in { "register", "serve" } /\ ~daemonEnd[client]
    /\ downward[client] = <<>> /\ (pc = "serve" => early = <<>>)
    /\ Leave
    /\ UNCHANGED <<upward, daemonEnd, daemon, latest, sender, carried, bounds, calls>>

\* A request can come before the answer to `agent.register`: it is kept.
ReadWhileRegistering ==
    /\ pc = "register" /\ downward[client] # <<>>
    /\ LET frame == Head(downward[client]) IN
        \/ /\ frame.op = "request" /\ early' = Append(early, frame)
           /\ UNCHANGED <<pc, joined>>
        \/ /\ frame.op = "registered" /\ joined' = TRUE /\ pc' = "resend"
           /\ UNCHANGED early
    /\ downward' = [downward EXCEPT ![client] = Tail(@)]
    /\ UNCHANGED <<upward, agentEnd, daemonEnd, daemon, client, hand, latest, sender,
                   carried, bounds, calls>>

\* (bug) a link that is back leaves the report to the next change.
ReadStatesNever ==
    /\ pc = "resend" /\ pc' = "serve"
    /\ UNCHANGED <<wire, daemon, client, joined, early, hand, latest, sender, carried,
                   bounds, calls>>

\* _send_states of the link thread: read the states, then send what was read.
ReadStates ==
    /\ pc = "resend"
    /\ hand' = IF latest = None THEN None ELSE [op |-> "state", value |-> latest]
    /\ pc' = IF latest = None THEN "serve" ELSE "resending"
    /\ UNCHANGED <<wire, daemon, client, joined, early, latest, sender, carried,
                   bounds, calls>>

SendStates ==
    /\ pc = "resending"
    /\ ToDaemon(client, hand)
    /\ hand' = None /\ pc' = "serve"
    /\ UNCHANGED <<downward, agentEnd, daemonEnd, daemon, client, joined, early,
                   latest, sender, carried, bounds, calls>>

TakeRequest ==
    /\ pc = "serve"
    /\ \/ /\ early # <<>> /\ hand' = Head(early) /\ early' = Tail(early)
          /\ UNCHANGED downward
       \/ /\ early = <<>> /\ downward[client] # <<>>
          /\ hand' = Head(downward[client])
          /\ downward' = [downward EXCEPT ![client] = Tail(@)]
          /\ UNCHANGED early
    /\ pc' = "perform"
    /\ UNCHANGED <<upward, agentEnd, daemonEnd, daemon, client, joined, latest, sender,
                   carried, bounds, calls>>

PerformRequest ==
    /\ pc = "perform"
    /\ runs' = [runs EXCEPT ![hand.of] = @ + 1]
    /\ pc' = "answer"
    /\ UNCHANGED <<wire, daemon, client, joined, early, hand, latest, sender, carried,
                   bounds, outcome, heard>>

\* Done or refused, the daemon hears something -- if it is still there.
SendReply ==
    /\ pc = "answer"
    /\ \/ /\ Alive(client)
          /\ ToDaemon(client, [op |-> "reply", rid |-> hand.rid, of |-> hand.of])
          /\ hand' = None /\ pc' = "serve"
          /\ UNCHANGED <<downward, agentEnd, client, joined, early>>
       \/ /\ ~Alive(client) /\ Leave /\ UNCHANGED upward
    /\ UNCHANGED <<daemonEnd, daemon, latest, sender, carried, bounds, calls>>

-----------------------------------------------------------------------------
(***************************************************************************)
(* The reconnect loop's thread: DaemonLink.report, then its _send_states.  *)
(***************************************************************************)
Report ==
    /\ sender = "idle" /\ reports < MaxReports
    /\ reports' = reports + 1 /\ latest' = reports + 1
    /\ sender' = "look"
    /\ UNCHANGED <<wire, daemon, pc, client, joined, early, hand, carried, dials,
                   requests, faults, calls>>

\* Without a registered link the report waits for the session that registers next.
LookForLink ==
    /\ sender = "look"
    /\ IF client = None \/ ~joined
       THEN sender' = "idle" /\ UNCHANGED carried
       ELSE sender' = "send" /\ carried' = [conn |-> client, value |-> latest]
    /\ UNCHANGED <<wire, daemon, pc, client, joined, early, hand, latest, bounds, calls>>

SendReport ==
    /\ sender = "send"
    /\ ToDaemon(carried.conn, [op |-> "state", value |-> carried.value])
    /\ sender' = "idle" /\ carried' = None
    /\ UNCHANGED <<downward, agentEnd, daemonEnd, daemon, pc, client, joined, early,
                   hand, latest, bounds, calls>>

-----------------------------------------------------------------------------
(***************************************************************************)
(* The daemon's reader thread of connection c (ipc/server.py,              *)
(* _serve_client): it handles one frame after another, and a handler's     *)
(* steps meet those of the other threads.  What it acknowledges is skipped *)
(* by the agent and left out.                                              *)
(***************************************************************************)
Then(c, next, arg) == reader' = [reader EXCEPT ![c] = [pc |-> next, arg |-> arg]]

HandleFrame(c) ==
    /\ reader[c].pc = "read" /\ upward[c] # <<>>
    /\ LET frame == Head(upward[c]) IN
        \/ /\ frame.op = "register"
           /\ registered' = c
           /\ Then(c, "welcome", None)
        \/ /\ frame.op = "state"
           /\ Then(c, IF registered = c THEN "store" ELSE "read",
                      IF registered = c THEN frame ELSE None)
           /\ UNCHANGED registered
        \/ /\ frame.op = "reply"
           /\ LET waiting == pending[frame.rid] # None /\ pending[frame.rid].conn = c IN
                Then(c, IF waiting THEN "deliver" ELSE "read",
                        IF waiting THEN frame ELSE None)
           /\ UNCHANGED registered
    /\ upward' = [upward EXCEPT ![c] = Tail(@)]
    /\ UNCHANGED <<downward, agentEnd, daemonEnd, daemonUp, states, shown, counter,
                   pending, caller, agent, bounds, calls>>

\* The answer to `agent.register`, after the connection has been filed.
Welcome(c) ==
    /\ reader[c].pc = "welcome"
    /\ ToAgent(c, [op |-> "registered"])
    /\ Then(c, "read", None)
    /\ UNCHANGED <<upward, agentEnd, daemonEnd, daemonUp, table, caller, agent, bounds,
                   calls>>

\* set_states files the report whoever is registered by now, and a changed one
\* is pushed to the clients that watch.
StoreStates(c) ==
    /\ reader[c].pc = "store"
    /\ states' = reader[c].arg.value
    /\ Then(c, IF states = states' THEN "read" ELSE "push", reader[c].arg)
    /\ UNCHANGED <<wire, daemonUp, registered, shown, counter, pending, caller, agent,
                   bounds, calls>>

PushState(c) ==
    /\ reader[c].pc = "push"
    /\ shown' = reader[c].arg.value
    /\ Then(c, "read", None)
    /\ UNCHANGED <<wire, daemonUp, registered, states, counter, pending, caller, agent,
                   bounds, calls>>

\* AgentLinks.reply, once it has found the request: its handler may have gone.
DeliverReply(c) ==
    /\ reader[c].pc = "deliver"
    /\ LET rid == reader[c].arg.rid IN
        pending' = IF pending[rid] = None THEN pending
                   ELSE [pending EXCEPT ![rid].got = reader[c].arg.of, ![rid].done = TRUE]
    /\ Then(c, "read", None)
    /\ UNCHANGED <<wire, daemonUp, registered, states, shown, counter, caller, agent,
                   bounds, calls>>

HangUp(c) ==
    /\ reader[c].pc = "read" /\ upward[c] = <<>> /\ ~agentEnd[c]
    /\ daemonEnd' = [daemonEnd EXCEPT ![c] = FALSE]
    /\ Then(c, "drop", None)
    /\ UNCHANGED <<upward, downward, agentEnd, daemonUp, table, caller, agent, bounds,
                   calls>>

FailWaiting(c) ==
    pending' = [rid \in Requests |->
                  IF pending[rid] # None /\ pending[rid].conn = c
                  THEN [pending[rid] EXCEPT !.done = TRUE] ELSE pending[rid]]

\* (bug) forgets the agent of the uid, whichever connection closed.
DropOfUid(c) ==
    /\ reader[c].pc = "drop"
    /\ registered' = None /\ states' = None /\ Then(c, "farewell", None)
    /\ FailWaiting(c)
    /\ UNCHANGED <<wire, daemonUp, shown, counter, caller, agent, bounds, calls>>

\* (bug) leaves the handlers that wait on the closed connection to their timeout.
DropOnly(c) ==
    /\ reader[c].pc = "drop"
    /\ Then(c, "gone", None)
    /\ UNCHANGED <<wire, daemonUp, table, caller, agent, bounds, calls>>

\* AgentLinks.drop: only the connection that is registered is forgotten.
Drop(c) ==
    /\ reader[c].pc = "drop"
    /\ IF registered = c
       THEN registered' = None /\ states' = None /\ Then(c, "farewell", None)
       ELSE UNCHANGED <<registered, states>> /\ Then(c, "gone", None)
    /\ FailWaiting(c)
    /\ UNCHANGED <<wire, daemonUp, shown, counter, caller, agent, bounds, calls>>

\* `disconnected` then says what this person's connections are, read afresh.
Farewell(c) ==
    /\ reader[c].pc = "farewell"
    /\ shown' = states
    /\ Then(c, "gone", None)
    /\ UNCHANGED <<wire, daemonUp, registered, states, counter, pending, caller, agent,
                   bounds, calls>>

-----------------------------------------------------------------------------
(***************************************************************************)
(* The daemon's handlers: AgentLinks.request.  Waking, taking the request  *)
(* out of the table and reading its answer are one step: what is delivered *)
(* in between reaches nobody.                                              *)
(***************************************************************************)
AskAgent(h) ==
    /\ daemonUp /\ caller[h].pc = "idle" /\ requests < MaxRequests
    /\ requests' = requests + 1
    /\ IF registered = None
       THEN /\ outcome' = [outcome EXCEPT ![requests + 1] = "failed"]
            /\ UNCHANGED <<counter, pending, caller>>
       ELSE /\ counter' = counter + 1
            /\ pending' = [pending EXCEPT ![counter + 1] =
                            [conn |-> registered, done |-> FALSE, got |-> None]]
            /\ caller' = [caller EXCEPT ![h] = [pc |-> "send", of |-> requests + 1,
                            rid |-> counter + 1, conn |-> registered]]
            /\ UNCHANGED outcome
    /\ UNCHANGED <<wire, daemonUp, registered, states, shown, reader, agent, dials,
                   reports, faults, heard, runs>>

SendRequest(h) ==
    /\ caller[h].pc = "send"
    /\ ToAgent(caller[h].conn, [op |-> "request", rid |-> caller[h].rid, of |-> caller[h].of])
    /\ caller' = [caller EXCEPT ![h].pc = "wait"]
    /\ UNCHANGED <<upward, agentEnd, daemonEnd, daemonUp, table, reader, agent, bounds,
                   calls>>

\* (bug) takes a handler woken by the end of the connection for an answered one.
ConcludeWoken(h, got) ==
    LET of == caller[h].of IN
    /\ caller' = [caller EXCEPT ![h] = Idle]
    /\ outcome' = [outcome EXCEPT ![of] = IF pending[caller[h].rid].done
                                           THEN "answered" ELSE "failed"]
    /\ pending' = [pending EXCEPT ![caller[h].rid] = None]
    /\ heard' = [heard EXCEPT ![of] = got]
    /\ UNCHANGED <<wire, daemonUp, registered, states, shown, counter, reader, agent,
                   bounds, runs>>

\* What the handler is told: the result it was given, or that there is none.
Conclude(h, got) ==
    LET of == caller[h].of IN
    /\ caller' = [caller EXCEPT ![h] = Idle]
    /\ pending' = [pending EXCEPT ![caller[h].rid] = None]
    /\ outcome' = [outcome EXCEPT ![of] = IF got = None THEN "failed" ELSE "answered"]
    /\ heard' = [heard EXCEPT ![of] = got]
    /\ UNCHANGED <<wire, daemonUp, registered, states, shown, counter, reader, agent,
                   bounds, runs>>

Answered(h) ==
    /\ caller[h].pc = "wait" /\ pending[caller[h].rid].done
    /\ Conclude(h, pending[caller[h].rid].got)

TimesOut(h) ==
    /\ caller[h].pc = "wait" /\ ~pending[caller[h].rid].done
    /\ Conclude(h, None)

-----------------------------------------------------------------------------
(***************************************************************************)
(* Restarts.  A daemon that ends takes its tables, its threads and its     *)
(* ends of the connections with it, and its clients' calls fail; an agent  *)
(* that ends is started again by launchd and knows no states yet.  launchd *)
(* waits seconds before it does, and the daemon reads a frame at once: the *)
(* one a dead agent registered with has been read by then.                 *)
(***************************************************************************)
DaemonEnds ==
    /\ daemonUp /\ Fault
    /\ daemonUp' = FALSE
    /\ upward' = [c \in Conns |-> <<>>] /\ daemonEnd' = [c \in Conns |-> FALSE]
    /\ registered' = None /\ states' = None /\ shown' = None /\ counter' = 0
    /\ pending' = [rid \in Requests |-> None]
    /\ caller' = [h \in Handlers |-> Idle] /\ reader' = [c \in Conns |-> NoReader]
    /\ outcome' = [r \in Requests |->
                    IF \E h \in Handlers : caller[h].of = r THEN "failed" ELSE outcome[r]]
    /\ UNCHANGED <<downward, agentEnd, agent, dials, requests, reports, heard, runs>>

DaemonStarts ==
    /\ ~daemonUp /\ daemonUp' = TRUE
    /\ UNCHANGED <<wire, table, caller, reader, agent, bounds, calls>>

AgentRestarts ==
    /\ Fault
    /\ \A c \in Conns : [op |-> "register"] \notin Range(upward[c])
    /\ pc' = "dial" /\ client' = None /\ joined' = FALSE /\ early' = <<>> /\ hand' = None
    /\ latest' = None /\ sender' = "idle" /\ carried' = None
    /\ agentEnd' = [c \in Conns |-> FALSE] /\ downward' = [c \in Conns |-> <<>>]
    /\ UNCHANGED <<upward, daemonEnd, daemon, dials, requests, reports, calls>>

Link ==
    \/ Dial \/ LinkHangsUp \/ ReadWhileRegistering \/ ReadStates \/ SendStates
    \/ TakeRequest \/ PerformRequest \/ SendReply

Loop == LookForLink \/ SendReport

Reader(c) ==
    \/ HandleFrame(c) \/ Welcome(c) \/ StoreStates(c) \/ PushState(c)
    \/ DeliverReply(c) \/ HangUp(c) \/ Drop(c) \/ Farewell(c)

Caller(h) == SendRequest(h) \/ Answered(h) \/ TimesOut(h)

Next ==
    \/ Link \/ Loop \/ Report
    \/ \E c \in Conns : Reader(c)
    \/ \E h \in Handlers : AskAgent(h) \/ Caller(h)
    \/ DaemonEnds \/ DaemonStarts \/ AgentRestarts

Spec == Init /\ [][Next]_vars

\* Threads that can run do, a wait for an answer has its timeout, and launchd
\* starts a daemon that has ended.  Nobody has to ask, to report or to restart.
Fairness ==
    /\ WF_vars(Link) /\ WF_vars(Loop) /\ WF_vars(DaemonStarts)
    /\ \A c \in Conns : WF_vars(Reader(c))
    /\ \A h \in Handlers : WF_vars(Caller(h))

FairSpec == Spec /\ Fairness
-----------------------------------------------------------------------------
(***************************************************************************)
(* Properties.                                                             *)
(***************************************************************************)
RequestFrames == [op : {"request"}, rid : Requests, of : Requests]
ReplyFrames   == [op : {"reply"}, rid : Requests, of : Requests]
StateFrames   == [op : {"state"}, value : Reports]
UpFrames      == [op : {"register"}] \cup StateFrames \cup ReplyFrames
DownFrames    == [op : {"registered"}] \cup RequestFrames

WireTypes ==
    /\ upward \in [Conns -> Seq(UpFrames)] /\ downward \in [Conns -> Seq(DownFrames)]
    /\ agentEnd \in [Conns -> BOOLEAN] /\ daemonEnd \in [Conns -> BOOLEAN]

Pendings == [conn : Conns, done : BOOLEAN, got : Requests \cup {None}]
Callers  == [pc : {"send", "wait"}, of : Requests, rid : Requests, conn : Conns]
Readers  == [pc : {"gone", "read", "welcome", "drop", "farewell"}, arg : UpFrames \cup {None}]
            \cup [pc : {"store", "push"}, arg : StateFrames]
            \cup [pc : {"deliver"}, arg : ReplyFrames]

\* A number without an entry in the table is told from one with an entry.
ASSUME NoneIsNoEntry == None \notin Pendings

DaemonTypes ==
    /\ daemonUp \in BOOLEAN /\ registered \in Conns \cup {None}
    /\ states \in Reports \cup {None} /\ shown \in Reports \cup {None}
    /\ pending \in [Requests -> Pendings \cup {None}]
    /\ caller \in [Handlers -> Callers \cup {Idle}] /\ reader \in [Conns -> Readers]

\* What the link thread has in hand, and the loop's thread to carry, is what
\* their next step needs.
AgentTypes ==
    /\ early \in Seq(RequestFrames) /\ joined \in BOOLEAN /\ latest \in Reports \cup {None}
    /\ pc \in {"dial", "register", "resend", "resending", "serve", "perform", "answer"}
    /\ pc = "dial" => client = None /\ early = <<>>
    /\ pc # "dial" => client \in Conns
    /\ pc = "resending" => hand \in StateFrames
    /\ pc \in {"perform", "answer"} => hand \in RequestFrames
    /\ pc \in {"dial", "register", "resend", "serve"} => hand = None
    /\ sender \in {"idle", "look", "send"}
    /\ sender = "look" => latest # None
    /\ sender = "send" => carried \in [conn : Conns, value : Reports]
    /\ sender # "send" => carried = None

CountTypes ==
    /\ dials \in 0..MaxDials /\ requests \in 0..MaxRequests /\ counter \in 0..requests
    /\ reports \in 0..MaxReports /\ faults \in 0..MaxFaults
    /\ outcome \in [Requests -> {"waiting", "answered", "failed"}]
    /\ heard \in [Requests -> Requests \cup {None}] /\ runs \in [Requests -> Nat]

TypeOK == WireTypes /\ DaemonTypes /\ AgentTypes /\ CountTypes

Call == INSTANCE AgentCall WITH
            status <- [r \in Requests |-> IF r > requests THEN "new" ELSE outcome[r]]

\* A handler that asks its agent is told the result of its own request, performed
\* once and before, or that it failed, and is told so in the end: through early
\* requests, timeouts, late answers, numbers used again and both restarts.
RequestsAreCalls == Call!Spec

\* The late end of a replaced connection takes nothing from the agent that
\* registered in the meantime, and the end of the registered one leaves it out.
RegistryFollowsTheLink ==
    [][registered # None /\ registered' = None =>
        ~daemonUp' \/ reader[registered].pc = "drop"]_vars

\* A connection the registry names is one its reader still serves.
RegisteredIsServed ==
    registered # None => daemonUp /\ reader[registered].pc \notin {"gone", "farewell"}

\* With no more restarts the agent is registered, on the connection it reads, and
\* the daemon has a report if there is one: none is lost to a link that was down
\* or to a daemon that was starting.
LinkHeals ==
    <>[](/\ registered # None /\ registered = client /\ joined
         /\ latest # None => states # None)

=============================================================================
