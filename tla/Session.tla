------------------------------ MODULE Session ------------------------------
(***************************************************************************)
(* A window of SMBPal and the daemon it talks to: the worker and listener  *)
(* threads of gui/session.py over ipc/client.py, the main loop with what   *)
(* gui/window.py does in it, and the transport of the daemon               *)
(* (ipc/server.py) with its accept loop, its thread per client, its        *)
(* broadcast and its shutdown.                                             *)
(*                                                                         *)
(* One row is on the screen.  A version number stands for what the daemon  *)
(* says of it; version Absent is a row that is not there.  Its button is   *)
(* Remove, the action whose repetition is an error.                        *)
(***************************************************************************)
EXTENDS Naturals, Sequences, FiniteSets, FiniteSetsExt

CONSTANTS
    MaxSocks,       \* bound: connections open at one time
    MaxPresses,     \* bound: presses of the row's button
    MaxChanges,     \* bound: changes the state monitor sees
    MaxRestarts,    \* bound: times the daemon ends
    MaxTimeouts,    \* bound: replies the worker stops waiting for
    MaxEvents       \* bound: all of these and the closing of the window together

ASSUME SessionBounds ==
    {MaxSocks, MaxPresses, MaxChanges, MaxRestarts, MaxTimeouts, MaxEvents} \subseteq Nat

Socks    == 1..MaxSocks
NoSock   == 0
Absent   == 0
Versions == 0..(MaxChanges + 1)

VARIABLES
    \* --- the daemon: its transport, and per connection the serving thread,
    \*     the frame to serve, the reply in hand and the frames sent
    phase, server, request, reply, wire,
    truth, published, executed,
    \* --- the session
    stopping, live, swept, woken, jobs, lost, posted, worker, listener,
    \* --- the window
    screen, held, sensitive, banner, closing,
    \* --- bounds
    presses, changes, restarts, timeouts

conn    == <<server, request, reply, wire>>
world   == <<truth, published, executed>>
daemon  == <<phase, conn, world>>
stops   == <<stopping, live, swept, woken>>
session == <<stops, jobs, lost, posted, worker, listener>>
window  == <<screen, held, sensitive, banner, closing>>
bounds  == <<presses, changes, restarts, timeouts>>
vars    == <<daemon, session, window, bounds>>

Message(k, v) == [kind |-> k, value |-> v]
Nothing       == Message("none", Absent)
\* The worker holds a job, whether it tries for the second time, and whether
\* the connection it tries on was there before.
IdleWorker(s) == [pc |-> "idle", job |-> "none", sock |-> s, second |-> FALSE, reusing |-> FALSE]

\* Application.do_activate: the window, then start(), then refresh().
Init ==
    /\ phase = "up" /\ truth = 1 /\ published = 1 /\ executed = 0
    /\ server = [s \in Socks |-> "closed"] /\ request = [s \in Socks |-> "none"]
    /\ reply = [s \in Socks |-> Nothing] /\ wire = [s \in Socks |-> <<>>]
    /\ stopping = FALSE /\ live = {} /\ swept = {} /\ woken = {}
    /\ jobs = <<"status">> /\ lost = FALSE /\ posted = <<>>
    /\ worker = IdleWorker(NoSock)
    /\ listener = [pc |-> "dial", sock |-> NoSock]
    /\ screen = Absent /\ held = FALSE /\ sensitive = FALSE /\ banner = "none"
    /\ closing = "no" /\ presses = 0 /\ changes = 0 /\ restarts = 0 /\ timeouts = 0

\* What people and machines do, besides what the program does about it.
Happens ==
    presses + changes + restarts + timeouts + (IF closing = "no" THEN 0 ELSE 1) < MaxEvents

Holders == {worker.sock, listener.sock}
Post(m) == posted' = Append(posted, m)

-----------------------------------------------------------------------------
(***************************************************************************)
(* The daemon: UnixSocketTransport, and the handlers behind it.            *)
(***************************************************************************)
\* (bug) Registered without a look at `_stopping`.
RegisterBlindly(s) ==
    /\ server[s] = "accepted" /\ server' = [server EXCEPT ![s] = "served"]
    /\ UNCHANGED <<phase, request, reply, wire, world, session, window, bounds>>

\* The accept loop and _serve_client: a client that shutdown() can have missed
\* is closed at once, as one still in the backlog is when the listener closes.
Register(s) ==
    /\ server[s] = "accepted"
    /\ server' = [server EXCEPT ![s] = IF phase = "up" THEN "served" ELSE "closed"]
    /\ UNCHANGED <<phase, request, reply, wire, world, session, window, bounds>>

\* The handler.  A removal can be refused; a row that has gone is an error.
Execute(s) ==
    /\ server[s] \in { "served", "swept" } /\ reply[s] = Nothing
    /\ request' = [request EXCEPT ![s] = "none"]
    /\ \/ /\ request[s] = "status" /\ UNCHANGED <<truth, executed>>
          /\ reply' = [reply EXCEPT ![s] = Message("screen", truth)]
       \/ /\ request[s] = "remove"
          /\ executed' = executed + 1 /\ truth' = Absent
          /\ reply' = [reply EXCEPT ![s] =
                Message(IF truth = Absent THEN "failed" ELSE "done", Absent)]
       \/ /\ request[s] = "remove" /\ UNCHANGED <<truth, executed>>
          /\ reply' = [reply EXCEPT ![s] = Message("failed", Absent)]
    /\ UNCHANGED <<phase, server, wire, published, session, window, bounds>>

\* UnixSocketConnection.send: nothing reaches a connection that is closed.
Sent(s, m) == IF server[s] = "served" /\ s \in Holders THEN Append(wire[s], m) ELSE wire[s]

Reply(s) ==
    /\ reply[s] # Nothing
    /\ wire' = [wire EXCEPT ![s] = Sent(s, reply[s])]
    /\ reply' = [reply EXCEPT ![s] = Nothing]
    /\ UNCHANGED <<phase, server, request, world, session, window, bounds>>

\* read_frames ends: the client has gone, or shutdown() closed the connection.
ClientGone(s) ==
    /\ reply[s] = Nothing
    /\ \/ server[s] = "served" /\ s \notin Holders /\ request[s] = "none"
       \/ server[s] = "swept"
    /\ server' = [server EXCEPT ![s] = "closed"] /\ request' = [request EXCEPT ![s] = "none"]
    /\ UNCHANGED <<phase, reply, wire, world, session, window, bounds>>

\* Something changes on the machine, and the monitor's next poll says so.  The
\* copy for the command connection, which _call_once skips, is left out.
Change ==
    /\ truth \in Versions \ {Absent} /\ truth' = truth + 1
    /\ changes < MaxChanges /\ changes' = changes + 1 /\ Happens
    /\ UNCHANGED <<phase, conn, published, executed, session, window, presses, restarts, timeouts>>

Broadcast ==
    /\ phase = "up" /\ truth \notin { published, Absent } /\ published' = truth
    /\ wire' = [s \in Socks |->
                  IF s = worker.sock THEN wire[s] ELSE Sent(s, Message("event", truth))]
    /\ UNCHANGED <<phase, server, request, reply, truth, executed, session, window, bounds>>

\* shutdown(): the flag, the wake-up and the listener.
ShutDown ==
    /\ phase = "up" /\ restarts < MaxRestarts /\ restarts' = restarts + 1 /\ Happens
    /\ phase' = "stopping"
    /\ UNCHANGED <<conn, world, session, window, presses, changes, timeouts>>

\* shutdown(): every registered connection is closed, its thread joined later.
Sweep ==
    /\ phase = "stopping" /\ phase' = "swept"
    /\ server' = [s \in Socks |-> IF server[s] = "served" THEN "swept" ELSE server[s]]
    /\ UNCHANGED <<request, reply, wire, world, session, window, bounds>>

\* The process is gone, after shutdown() or without it, and all it held.
DaemonEnds ==
    /\ \/ phase = "swept" /\ UNCHANGED restarts
       \/ phase = "up" /\ restarts < MaxRestarts /\ restarts' = restarts + 1 /\ Happens
    /\ phase' = "down"
    /\ server' = [s \in Socks |-> "closed"] /\ request' = [s \in Socks |-> "none"]
    /\ reply' = [s \in Socks |-> Nothing]
    /\ UNCHANGED <<wire, world, session, window, presses, changes, timeouts>>

\* bind() clears the stale socket and listens; the monitor knows nothing yet.
DaemonStarts ==
    /\ phase = "down" /\ phase' = "up" /\ published' = Absent
    /\ UNCHANGED <<conn, truth, executed, session, window, bounds>>

-----------------------------------------------------------------------------
(***************************************************************************)
(* What both threads do: Client.connect, and the check under _clients_lock *)
(* that stop() also takes.                                                 *)
(***************************************************************************)
FreeSocks ==
    { s \in Socks : server[s] = "closed" /\ s \notin Holders /\ reply[s] = Nothing }

\* Client.connect: a listening daemon has room for one more.
Dialled(s) ==
    /\ phase = "up" /\ FreeSocks # {} /\ s = Min(FreeSocks)
    /\ server' = [server EXCEPT ![s] = "accepted"] /\ wire' = [wire EXCEPT ![s] = <<>>]
    /\ UNCHANGED <<phase, request, reply, world>>

\* (bug) The socket is tracked although stop() has swept.
NeverTooLate == FALSE

\* _connect, under the lock: stop() has swept and would not wake this socket.
TooLate == stopping

\* The reader comes to the end: the daemon has closed and its last frame is
\* read, or interrupt() has shut the socket down.
Over(s) == wire[s] = <<>> /\ (server[s] \in { "closed", "swept" } \/ s \in woken)

-----------------------------------------------------------------------------
(***************************************************************************)
(* The worker: Session._work, _run and _call.                              *)
(***************************************************************************)
TakeJob ==
    /\ worker.pc = "idle" /\ jobs # <<>> /\ jobs' = Tail(jobs)
    /\ IF Head(jobs) = "stop" \/ stopping
       THEN /\ worker' = [IdleWorker(NoSock) EXCEPT !.pc = "ended"]
            /\ live' = live \ {worker.sock}
       ELSE /\ worker' = [worker EXCEPT !.job = Head(jobs), !.second = FALSE,
                              !.pc = IF worker.sock = NoSock THEN "dial" ELSE "send",
                              !.reusing = worker.sock # NoSock]
            /\ UNCHANGED live
    /\ UNCHANGED <<daemon, stopping, swept, woken, lost, posted, listener, window, bounds>>

WorkerDials ==
    /\ worker.pc = "dial"
    /\ \E s \in Socks :
        Dialled(s) /\ worker' = [worker EXCEPT !.pc = "track", !.sock = s]
    /\ UNCHANGED <<stops, jobs, lost, posted, listener, window, bounds>>

\* The except of _call: dropped, and tried once more on a fresh connection
\* when the one that failed had been held since an earlier job.
Fail ==
    /\ worker' = IF worker.reusing /\ ~worker.second
                 THEN [worker EXCEPT !.pc = "dial", !.sock = NoSock,
                                     !.second = TRUE, !.reusing = FALSE]
                 ELSE [worker EXCEPT !.pc = "report", !.sock = NoSock]
    /\ live' = live \ {worker.sock}

WorkerIsRefused ==
    /\ worker.pc = "dial" /\ phase # "up" /\ Fail
    /\ UNCHANGED <<daemon, stopping, swept, woken, jobs, lost, posted, listener, window, bounds>>

WorkerTracks ==
    /\ worker.pc = "track"
    /\ IF TooLate THEN Fail
       ELSE live' = live \union {worker.sock} /\ worker' = [worker EXCEPT !.pc = "send"]
    /\ UNCHANGED <<daemon, stopping, swept, woken, jobs, lost, posted, listener, window, bounds>>

\* _call_once: a daemon that has gone is found out by the send.
WorkerSends ==
    /\ worker.pc = "send"
    /\ LET s == worker.sock IN
       IF server[s] \in { "closed", "swept" } \/ s \in woken
       THEN Fail /\ UNCHANGED request
       ELSE /\ request' = [request EXCEPT ![s] = worker.job]
            /\ worker' = [worker EXCEPT !.pc = "wait"] /\ UNCHANGED live
    /\ UNCHANGED <<phase, server, reply, wire, world, stopping, swept, woken, jobs, lost, posted,
                   listener, window, bounds>>

\* The reply goes to the main loop with its callback.
WorkerReads ==
    /\ worker.pc = "wait" /\ wire[worker.sock] # <<>>
    /\ Post(Head(wire[worker.sock])) /\ worker' = IdleWorker(worker.sock)
    /\ wire' = [wire EXCEPT ![worker.sock] = Tail(@)]
    /\ UNCHANGED <<phase, server, request, reply, world, stops, jobs, lost, listener, window,
                   bounds>>

WorkerLosesReply ==
    /\ worker.pc = "wait" /\ Over(worker.sock) /\ Fail
    /\ UNCHANGED <<daemon, stopping, swept, woken, jobs, lost, posted, listener, window, bounds>>

WorkerTimesOut ==
    /\ worker.pc = "wait" /\ wire[worker.sock] = <<>>
    /\ timeouts < MaxTimeouts /\ timeouts' = timeouts + 1 /\ Happens /\ Fail
    /\ UNCHANGED <<daemon, stopping, swept, woken, jobs, lost, posted, listener, window,
                   presses, changes, restarts>>

\* (bug) Said once until the listener is back, as the listener says it.
WorkerReportsOnce ==
    /\ worker.pc = "report" /\ lost' = TRUE
    /\ worker' = IF lost THEN IdleWorker(NoSock) ELSE [worker EXCEPT !.pc = "say"]
    /\ UNCHANGED <<daemon, stops, jobs, posted, listener, window, bounds>>

\* _report(lost=True): the flag, then the callback.
WorkerReports ==
    /\ worker.pc = "report" /\ lost' = TRUE
    /\ worker' = [worker EXCEPT !.pc = "say"]
    /\ UNCHANGED <<daemon, stops, jobs, posted, listener, window, bounds>>

WorkerSays ==
    /\ worker.pc = "say" /\ Post(Message("lost", Absent)) /\ worker' = IdleWorker(NoSock)
    /\ UNCHANGED <<daemon, stops, jobs, lost, listener, window, bounds>>

Worker ==
    \/ TakeJob \/ WorkerDials \/ WorkerIsRefused \/ WorkerTracks \/ WorkerSends
    \/ WorkerReads \/ WorkerLosesReply \/ WorkerReports \/ WorkerSays

-----------------------------------------------------------------------------
(***************************************************************************)
(* The listener: Session._listen.                                          *)
(***************************************************************************)
At(pc) == listener' = [listener EXCEPT !.pc = pc]

ListenerDials ==
    /\ listener.pc = "dial"
    /\ \E s \in Socks : Dialled(s) /\ listener' = [pc |-> "track", sock |-> s]
    /\ UNCHANGED <<stops, jobs, lost, posted, worker, window, bounds>>

ListenerTracks ==
    /\ listener.pc = "track"
    /\ IF TooLate THEN listener' = [pc |-> "ended", sock |-> NoSock] /\ UNCHANGED live
       ELSE At("back") /\ live' = live \union {listener.sock}
    /\ UNCHANGED <<daemon, stopping, swept, woken, jobs, lost, posted, worker, window, bounds>>

\* _marshal_back: a recovery only after a loss.
Back ==
    /\ listener.pc = "back" /\ At(IF lost THEN "hail" ELSE "read") /\ lost' = FALSE
    /\ UNCHANGED <<daemon, stops, jobs, posted, worker, window, bounds>>

Hail ==
    /\ listener.pc = "hail" /\ Post(Message("back", Absent)) /\ At("read")
    /\ UNCHANGED <<daemon, stops, jobs, lost, worker, window, bounds>>

ListenerReads ==
    /\ listener.pc = "read" /\ wire[listener.sock] # <<>>
    /\ wire' = [wire EXCEPT ![listener.sock] = Tail(@)]
    /\ IF stopping
       THEN /\ listener' = [pc |-> "ended", sock |-> NoSock]
            /\ live' = live \ {listener.sock} /\ UNCHANGED posted
       ELSE Post(Head(wire[listener.sock])) /\ UNCHANGED <<listener, live>>
    /\ UNCHANGED <<phase, server, request, reply, world, stopping, swept, woken, jobs, lost,
                   worker, window, bounds>>

\* The loss is said once, however often the daemon is tried meanwhile.
ListenerLoses ==
    /\ \/ listener.pc = "read" /\ Over(listener.sock)
       \/ listener.pc = "dial" /\ phase # "up"
    /\ live' = live \ {listener.sock}
    /\ IF stopping THEN listener' = [pc |-> "ended", sock |-> NoSock] /\ UNCHANGED lost
       ELSE /\ lost' = TRUE
            /\ listener' = [pc |-> IF lost THEN "rest" ELSE "say", sock |-> NoSock]
    /\ UNCHANGED <<daemon, stopping, swept, woken, jobs, posted, worker, window, bounds>>

ListenerSays ==
    /\ listener.pc = "say" /\ Post(Message("lost", Absent)) /\ At("rest")
    /\ UNCHANGED <<daemon, stops, jobs, lost, worker, window, bounds>>

\* (bug) A daemon that is not there yet ends the listener.
ListenerRestsOnce ==
    /\ listener.pc = "rest" /\ At(IF stopping \/ phase # "up" THEN "ended" ELSE "dial")
    /\ UNCHANGED <<daemon, stops, jobs, lost, posted, worker, window, bounds>>

\* `_stopping.wait(retry_seconds)`.
ListenerRests ==
    /\ listener.pc = "rest" /\ At(IF stopping THEN "ended" ELSE "dial")
    /\ UNCHANGED <<daemon, stops, jobs, lost, posted, worker, window, bounds>>

Listener ==
    \/ ListenerDials \/ ListenerTracks \/ Back \/ Hail \/ ListenerReads
    \/ ListenerLoses \/ ListenerSays \/ ListenerRests

-----------------------------------------------------------------------------
(***************************************************************************)
(* The main loop: the callbacks in the order they were posted, the person, *)
(* and stop() when the window is closed.                                   *)
(***************************************************************************)
\* What a callback does to the window, and the jobs it submits.
OnScreen(v) == screen' = v /\ sensitive' = ~held /\ UNCHANGED <<held, banner, jobs>>
OnEvent(v)  == OnScreen(IF screen = Absent THEN Absent ELSE v)
OnLost      == banner' = "lost" /\ UNCHANGED <<screen, held, sensitive, jobs>>
OnBack      == /\ banner' = "none" /\ jobs' = Append(jobs, "status")
               /\ UNCHANGED <<screen, held, sensitive>>
OnDone      == /\ held' = FALSE /\ jobs' = Append(jobs, "status")
               /\ UNCHANGED <<screen, sensitive, banner>>
OnFailed    == /\ held' = FALSE /\ sensitive' = (screen # Absent) /\ banner' = "error"
               /\ UNCHANGED <<screen, jobs>>

Dispatch ==
    /\ closing = "no" /\ posted # <<>> /\ posted' = Tail(posted)
    /\ LET m == Head(posted) IN
        \/ m.kind = "screen" /\ OnScreen(m.value)
        \/ m.kind = "event" /\ OnEvent(m.value)
        \/ m.kind = "lost" /\ OnLost
        \/ m.kind = "back" /\ OnBack
        \/ m.kind = "done" /\ OnDone
        \/ m.kind = "failed" /\ OnFailed
    /\ UNCHANGED <<daemon, stops, lost, worker, listener, closing, bounds>>

\* _send: one call per row at a time.
Press ==
    /\ closing = "no" /\ screen # Absent /\ sensitive /\ ~held
    /\ presses < MaxPresses /\ presses' = presses + 1 /\ Happens
    /\ banner' = "none" /\ held' = TRUE /\ sensitive' = FALSE
    /\ jobs' = Append(jobs, "remove")
    /\ UNCHANGED <<daemon, stops, lost, posted, worker, listener, screen, closing, changes,
                   restarts, timeouts>>

\* do_shutdown, stop(): the flag and the list of sockets under the lock ...
Close ==
    /\ closing = "no" /\ closing' = "waking" /\ Happens
    /\ stopping' = TRUE /\ swept' = live
    /\ UNCHANGED <<daemon, live, woken, jobs, lost, posted, worker, listener, screen, held,
                   sensitive, banner, bounds>>

\* ... then the worker's end and the readers'.
Wake ==
    /\ closing = "waking" /\ closing' = "joining"
    /\ jobs' = Append(jobs, "stop") /\ woken' = swept
    /\ UNCHANGED <<daemon, stopping, live, swept, lost, posted, worker, listener, screen, held,
                   sensitive, banner, bounds>>

-----------------------------------------------------------------------------
Serve(s) == Register(s) \/ Execute(s) \/ Reply(s) \/ ClientGone(s)

Next ==
    \/ \E s \in Socks : Serve(s)
    \/ Change \/ Broadcast \/ ShutDown \/ Sweep \/ DaemonEnds \/ DaemonStarts
    \/ Worker \/ WorkerTimesOut \/ Listener \/ Dispatch \/ Press \/ Close \/ Wake

Spec == Init /\ [][Next]_vars

\* Threads that can run do, a handler ends and a shutdown goes on to its end.
\* Nobody need press, close, change anything, or start the daemon again.
Fairness ==
    /\ \A s \in Socks : WF_vars(Serve(s))
    /\ WF_vars(Broadcast) /\ WF_vars(Sweep) /\ WF_vars(DaemonEnds /\ phase = "swept")
    /\ WF_vars(Worker) /\ WF_vars(Listener) /\ WF_vars(Dispatch) /\ WF_vars(Wake)

FairSpec == Spec /\ Fairness

-----------------------------------------------------------------------------
(***************************************************************************)
(* Properties.                                                             *)
(***************************************************************************)
Jobs == { "status", "remove", "stop" }
Messages == [kind : { "none", "screen", "event", "lost", "back", "done", "failed" },
             value : Versions]
WorkerPCs == { "idle", "dial", "track", "send", "wait", "report", "say", "ended" }
ListenerPCs == { "dial", "track", "back", "hail", "read", "say", "rest", "ended" }

\* Every variable keeps its type, what `_clients` holds is a socket in use,
\* and a row that is held has a dead button (Session._release, Window._hold).
TypeOK ==
    /\ phase \in { "up", "stopping", "swept", "down" }
    /\ server \in [Socks -> { "closed", "accepted", "served", "swept" }]
    /\ request \in [Socks -> { "none", "status", "remove" }] /\ reply \in [Socks -> Messages]
    /\ \A s \in Socks : wire[s] \in Seq(Messages)
    /\ truth \in Versions /\ published \in Versions /\ executed \in Nat
    /\ stopping \in BOOLEAN /\ lost \in BOOLEAN /\ {swept, woken} \subseteq SUBSET Socks
    /\ live \subseteq Holders \ {NoSock}
    /\ jobs \in Seq(Jobs) /\ posted \in Seq(Messages)
    /\ worker \in [pc : WorkerPCs, job : Jobs \union {"none"}, sock : Socks \union {NoSock},
                    second : BOOLEAN, reusing : BOOLEAN]
    /\ listener \in [pc : ListenerPCs, sock : Socks \union {NoSock}]
    /\ screen \in Versions /\ held \in BOOLEAN /\ sensitive \in BOOLEAN /\ ~(held /\ sensitive)
    /\ banner \in { "none", "lost", "error" } /\ closing \in { "no", "waking", "joining" }
    /\ presses \in 0..MaxPresses /\ changes \in 0..MaxChanges /\ restarts \in 0..MaxRestarts /\ timeouts \in 0..MaxTimeouts

\* A transport that has swept its connections serves nobody: a client
\* accepted a moment before shutdown() is closed by its own thread
\* (UnixSocketTransport._serve_client).
NobodyIsMissed == phase \in { "swept", "down" } => \A s \in Socks : server[s] # "served"

\* A window that is closed ends both its threads, whatever they are waiting
\* for and whatever the daemon does: no socket is parked on that stop() did
\* not wake (Session.stop, Session._connect).
StopEndsThreads == stopping ~> (worker.pc = "ended" /\ listener.pc = "ended")

\* While the daemon is there to be reached the listener comes back to it,
\* with nobody pressing anything: "that is how the window survives `systemctl
\* restart smbpald`" (Session._listen).
ListenerHeals == (phase = "up") ~> (listener.pc = "read" \/ phase # "up" \/ stopping)

\* A request under way ends with its answer or with the banner that says the
\* daemon is gone: "a failed job is reported" (Session._run, _report).
UnderWay == worker.job = "remove" \/ \E i \in DOMAIN jobs : jobs[i] = "remove"

PressIsAnswered == UnderWay ~> (~held \/ banner = "lost" \/ stopping)

\* A press is performed once at most.  gui/session.py says of the second
\* attempt of _call: "The retry is for the socket, not for the request."
PressIsOnce == executed <= presses

=============================================================================
