---------------------------- MODULE SessionProofs ----------------------------
(***************************************************************************)
(* Theorems about Session, for any number of connections and every bound:  *)
(* its variables keep their types, a daemon that is going down leaves no   *)
(* client served, and a window that is closed leaves no thread asleep on a *)
(* socket.                                                                 *)
(***************************************************************************)
EXTENDS Session, WellFoundedInduction, TLAPS

USE SessionBounds
USE DEF Socks, NoSock, Absent, conn, world, daemon, stops, session, window, bounds

-----------------------------------------------------------------------------
(***************************************************************************)
(* The inductive invariants.                                               *)
(***************************************************************************)
\* The daemon's transport: who is served, and by whom.
TransportInv ==
    /\ phase \in { "up", "stopping", "swept", "down" }
    /\ server \in [Socks -> { "closed", "accepted", "served", "swept" }]
    /\ NobodyIsMissed

\* A row's version counts the changes there have been.
WorldInv ==
    /\ truth \in Versions /\ truth <= changes + 1 /\ published \in Versions /\ executed \in Nat
    /\ presses \in 0..MaxPresses /\ changes \in 0..MaxChanges
    /\ restarts \in 0..MaxRestarts /\ timeouts \in 0..MaxTimeouts

\* What is on its way, in either direction.
TrafficInv ==
    /\ request \in [Socks -> { "none", "status", "remove" }]
    /\ reply \in [Socks -> Messages]
    /\ wire \in [Socks -> Seq(Messages)]
    /\ jobs \in Seq(Jobs) /\ posted \in Seq(Messages)

\* The worker has a socket from the moment it has dialled until it drops it,
\* and a job other than its own end until it has said what became of it.
WorkerInv ==
    /\ worker \in [pc : WorkerPCs, job : Jobs \union {"none"}, sock : Socks \union {NoSock},
                   second : BOOLEAN, reusing : BOOLEAN]
    /\ worker.pc \in { "track", "send", "wait" } => worker.sock # NoSock
    /\ worker.pc \in { "dial", "report", "say", "ended" } => worker.sock = NoSock
    /\ worker.pc \in { "dial", "track", "send", "wait", "report", "say" } =>
           worker.job \in { "status", "remove" }

\* So has the listener, until it is told that the daemon is gone.
ListenerInv ==
    /\ listener \in [pc : ListenerPCs, sock : Socks \union {NoSock}]
    /\ listener.sock = NoSock <=> listener.pc \in { "dial", "say", "rest", "ended" }

\* The sockets that stop() would wake are the threads' own, and only after
\* _connect has put them on the list.
LiveInv ==
    /\ \A s \in live : \/ s = worker.sock /\ worker.pc # "track"
                       \/ s = listener.sock /\ listener.pc # "track"
    /\ live \subseteq Socks /\ swept \subseteq Socks /\ woken \subseteq Socks
    /\ stopping \in BOOLEAN /\ lost \in BOOLEAN

\* The window: a row that is held has a dead button.
WindowInv ==
    /\ screen \in Versions /\ held \in BOOLEAN /\ sensitive \in BOOLEAN /\ ~(held /\ sensitive)
    /\ banner \in { "none", "lost", "error" } /\ closing \in { "no", "waking", "joining" }

SessionInv ==
    /\ TransportInv /\ WorldInv /\ TrafficInv /\ WorkerInv /\ ListenerInv /\ LiveInv /\ WindowInv

\* The steps of the daemon, of the two threads, and of the main loop.
DaemonNext ==
    \/ \E s \in Socks : Serve(s)
    \/ Change \/ Broadcast \/ ShutDown \/ Sweep \/ DaemonEnds \/ DaemonStarts
WorkerNext == Worker \/ WorkerTimesOut
MainNext   == Dispatch \/ Press \/ Close \/ Wake

-----------------------------------------------------------------------------
(***************************************************************************)
(* Who is served.                                                          *)
(***************************************************************************)
\* Nothing is served at first.
LEMMA InitTransport == Init => TransportInv
  BY DEF Init, TransportInv, NobodyIsMissed

\* Only Register makes a client served, and looks whether the daemon is up;
\* the sweep and the end of the process leave nobody.
LEMMA NextTransport == TransportInv /\ [Next]_vars => TransportInv'
<1> SUFFICES ASSUME TransportInv, [Next]_vars PROVE TransportInv'
  OBVIOUS
<1> USE DEF TransportInv, NobodyIsMissed
<1>1. CASE UNCHANGED <<phase, server>>
  BY <1>1
<1>2. ASSUME NEW s \in Socks, Serve(s) PROVE TransportInv'
  BY <1>2 DEF Serve, Register, Execute, Reply, ClientGone
<1>3. CASE Change \/ Broadcast \/ ShutDown
  BY <1>3 DEF Change, Broadcast, ShutDown
<1>4. CASE Sweep
  BY <1>4 DEF Sweep
<1>5. CASE DaemonEnds \/ DaemonStarts
  BY <1>5 DEF DaemonEnds, DaemonStarts
<1>6. ASSUME NEW s, Dialled(s) PROVE TransportInv'
  BY <1>6 DEF Dialled
<1>7. CASE WorkerDials \/ ListenerDials
  BY <1>6, <1>7 DEF WorkerDials, ListenerDials
<1>8. CASE WorkerNext /\ ~WorkerDials
  BY <1>1, <1>8 DEF WorkerNext, Worker, TakeJob, WorkerIsRefused, WorkerTracks, WorkerSends,
     WorkerReads, WorkerLosesReply, WorkerReports, WorkerSays, WorkerTimesOut
<1>9. CASE Listener /\ ~ListenerDials
  BY <1>1, <1>9 DEF Listener, ListenerTracks, Back, Hail, ListenerReads, ListenerLoses,
     ListenerSays, ListenerRests
<1>10. CASE MainNext
  BY <1>1, <1>10 DEF MainNext, Dispatch, Press, Close, Wake
<1> QED
  BY <1>1, <1>2, <1>3, <1>4, <1>5, <1>7, <1>8, <1>9, <1>10
  DEF Next, WorkerNext, MainNext, vars

\* UnixSocketTransport.shutdown and _serve_client: once the connections are
\* swept, and while the daemon is down, no client is served, not even one that
\* was accepted just before.
THEOREM NobodyIsServedByTheDead == Spec => []NobodyIsMissed
<1>1. TransportInv => NobodyIsMissed
  BY DEF TransportInv
<1> QED
  BY <1>1, InitTransport, NextTransport, PTL DEF Spec

-----------------------------------------------------------------------------
(***************************************************************************)
(* What the variables hold.                                                *)
(***************************************************************************)
\* A message is of its kind and about a version.
LEMMA MessageType ==
    ASSUME NEW k \in { "none", "screen", "event", "lost", "back", "done", "failed" }, NEW v \in Versions
    PROVE  Message(k, v) \in Messages
  BY DEF Message, Messages

\* A row that is not there is one of its versions.
LEMMA AbsentType == Absent \in Versions /\ 1 \in Versions
  BY DEF Versions

\* Job for job, and message for message.
LEMMA AppendType ==
    ASSUME NEW S, NEW q \in Seq(S), NEW x \in S
    PROVE  Append(q, x) \in Seq(S)
  OBVIOUS

\* The window is opened, nothing is under way but the first look.
LEMMA InitSession == Init => SessionInv
<1> SUFFICES ASSUME Init PROVE SessionInv
  OBVIOUS
<1>1. WorldInv
  BY DEF Init, WorldInv, Versions
<1>2. TrafficInv
  BY MessageType, AbsentType DEF Init, TrafficInv, Nothing, Jobs
<1>3. WorkerInv /\ ListenerInv
  BY DEF Init, WorkerInv, ListenerInv, IdleWorker, WorkerPCs, ListenerPCs
<1>4. LiveInv /\ WindowInv
  BY AbsentType DEF Init, LiveInv, WindowInv
<1> QED
  BY <1>1, <1>2, <1>3, <1>4, InitTransport DEF SessionInv

\* What is sent to a connection is added to its wire, or nothing is.
LEMMA SentType ==
    ASSUME TrafficInv, NEW s \in Socks, NEW m \in Messages
    PROVE  Sent(s, m) \in Seq(Messages)
<1>1. wire[s] \in Seq(Messages)
  BY DEF TrafficInv
<1> QED
  BY <1>1 DEF Sent

\* A new connection has an empty wire, and is nobody's before.
LEMMA DialledTraffic ==
    ASSUME TrafficInv, NEW s \in Socks, Dialled(s), UNCHANGED <<jobs, posted>>
    PROVE  TrafficInv'
  BY DEF TrafficInv, Dialled

-----------------------------------------------------------------------------
(***************************************************************************)
(* The daemon's steps.                                                     *)
(***************************************************************************)
\* The handlers, the broadcast, and the daemon's end and start.
LEMMA DaemonSession == SessionInv /\ DaemonNext => SessionInv'
<1> SUFFICES ASSUME SessionInv, DaemonNext PROVE SessionInv'
  OBVIOUS
<1>1. UNCHANGED <<session, window>>
  BY DEF DaemonNext, Serve, Register, Execute, Reply, ClientGone, Change, Broadcast, ShutDown, Sweep,
     DaemonEnds, DaemonStarts
<1>2. TransportInv'
  BY NextTransport DEF DaemonNext, Next, SessionInv
<1>3. WorkerInv' /\ ListenerInv' /\ LiveInv' /\ WindowInv'
  BY <1>1 DEF SessionInv, WorkerInv, ListenerInv, LiveInv, WindowInv
<1>4. WorldInv'
  <2> USE DEF SessionInv, WorldInv, Versions
  <2>1. ASSUME NEW s \in Socks, Serve(s) PROVE WorldInv'
    BY <2>1 DEF Serve, Register, Execute, Reply, ClientGone
  <2>2. CASE Change
    BY <2>2 DEF Change
  <2>3. CASE Broadcast \/ ShutDown \/ Sweep
    BY <2>3, SMTT(30) DEF Broadcast, ShutDown, Sweep
  <2>4. CASE DaemonEnds \/ DaemonStarts
    BY <2>4, SMTT(30) DEF DaemonEnds, DaemonStarts
  <2> QED
    BY <2>1, <2>2, <2>3, <2>4 DEF DaemonNext
<1>5. TrafficInv'
  <2> USE DEF SessionInv
  <2>1. ASSUME NEW s \in Socks, Serve(s) PROVE TrafficInv'
    <3>1. CASE Register(s) \/ ClientGone(s)
      BY <2>1, <3>1 DEF Register, ClientGone, TrafficInv
    <3>2. CASE Execute(s)
      <4>1. PICK m \in Messages : reply' = [reply EXCEPT ![s] = m]
        BY <3>2, MessageType, AbsentType DEF Execute, WorldInv
      <4> QED
        BY <2>1, <3>2, <4>1 DEF Execute, TrafficInv
    <3>3. CASE Reply(s)
      <4>1. reply[s] \in Messages /\ Nothing \in Messages
        BY MessageType, AbsentType DEF TrafficInv, Nothing
      <4>2. PICK f : f = Sent(s, reply[s])
        OBVIOUS
      <4>3. f \in Seq(Messages)
        BY <4>1, <4>2, SentType
      <4>4. wire' = [wire EXCEPT ![s] = f]
        BY <3>3, <4>2 DEF Reply
      <4> QED
        BY <2>1, <3>3, <4>1, <4>3, <4>4 DEF Reply, TrafficInv
    <3> QED
      BY <2>1, <3>1, <3>2, <3>3 DEF Serve
  <2>2. CASE Change \/ ShutDown \/ Sweep
    BY <2>2 DEF Change, ShutDown, Sweep, TrafficInv
  <2>3. CASE Broadcast
    <3>1. \A s \in Socks : Sent(s, Message("event", truth)) \in Seq(Messages)
      BY MessageType, SentType DEF WorldInv
    <3>2. wire' \in [Socks -> Seq(Messages)]
      BY <2>3, <3>1 DEF Broadcast, TrafficInv
    <3> QED
      BY <2>3, <3>2 DEF Broadcast, TrafficInv
  <2>4. CASE DaemonEnds \/ DaemonStarts
    BY <2>4, MessageType, AbsentType DEF DaemonEnds, DaemonStarts, TrafficInv, Nothing
  <2> QED
    BY <2>1, <2>2, <2>3, <2>4 DEF DaemonNext
<1> QED
  BY <1>2, <1>3, <1>4, <1>5 DEF SessionInv

-----------------------------------------------------------------------------
(***************************************************************************)
(* The worker's steps.                                                     *)
(***************************************************************************)
\* `_clients` stays right when the worker drops its socket, when it had none
\* on the list, and when it goes on with the one it has.
LEMMA LiveByWorker ==
    ASSUME LiveInv, UNCHANGED <<listener, stopping, swept, woken>>, lost' \in BOOLEAN,
           \/ live' = live \ {worker.sock}
           \/ live' = live /\ (worker.pc = "track" \/ worker.sock = NoSock)
           \/ /\ worker'.sock = worker.sock /\ worker'.pc # "track"
              /\ \/ live' = live
                 \/ live' = live \union {worker.sock} /\ worker.sock \in Socks
    PROVE  LiveInv'
<1>1. live' \subseteq Socks /\ swept' \subseteq Socks /\ woken' \subseteq Socks
      /\ stopping' \in BOOLEAN
  BY DEF LiveInv
<1>2. listener' = listener /\ NoSock \notin live
  BY DEF LiveInv
<1>3. ASSUME NEW s \in live'
      PROVE  \/ s = worker'.sock /\ worker'.pc # "track"
             \/ s = listener'.sock /\ listener'.pc # "track"
  <2>1. CASE s \in live /\ s # worker.sock
    BY <1>2, <2>1 DEF LiveInv
  <2>2. CASE s \in live /\ s = worker.sock
    BY <1>2, <1>3, <2>2 DEF LiveInv
  <2>3. CASE s \notin live
    BY <1>3, <2>3
  <2> QED
    BY <2>1, <2>2, <2>3
<1>4. lost' \in BOOLEAN
  OBVIOUS
<1> QED
  BY <1>1, <1>3, <1>4 DEF LiveInv

\* The same of the listener.
LEMMA LiveByListener ==
    ASSUME LiveInv, UNCHANGED <<worker, stopping, swept, woken>>, lost' \in BOOLEAN,
           \/ live' = live \ {listener.sock}
           \/ live' = live /\ (listener.pc = "track" \/ listener.sock = NoSock)
           \/ /\ listener'.sock = listener.sock /\ listener'.pc # "track"
              /\ \/ live' = live
                 \/ live' = live \union {listener.sock} /\ listener.sock \in Socks
    PROVE  LiveInv'
<1>1. live' \subseteq Socks /\ swept' \subseteq Socks /\ woken' \subseteq Socks
      /\ stopping' \in BOOLEAN
  BY DEF LiveInv
<1>2. worker' = worker /\ NoSock \notin live
  BY DEF LiveInv
<1>3. ASSUME NEW s \in live'
      PROVE  \/ s = worker'.sock /\ worker'.pc # "track"
             \/ s = listener'.sock /\ listener'.pc # "track"
  <2>1. CASE s \in live /\ s # listener.sock
    BY <1>2, <2>1 DEF LiveInv
  <2>2. CASE s \in live /\ s = listener.sock
    BY <1>2, <1>3, <2>2 DEF LiveInv
  <2>3. CASE s \notin live
    BY <1>3, <2>3
  <2> QED
    BY <2>1, <2>2, <2>3
<1>4. lost' \in BOOLEAN
  OBVIOUS
<1> QED
  BY <1>1, <1>3, <1>4 DEF LiveInv

\* Where a failed call leaves the worker: with its second attempt or with a
\* report to make, and without a socket.
LEMMA FailedWorker ==
    ASSUME WorkerInv, LiveInv, Fail, worker.pc \in { "dial", "track", "send", "wait" },
           UNCHANGED <<listener, stopping, swept, woken, lost>>
    PROVE  WorkerInv' /\ LiveInv'
<1>1. worker' \in {[worker EXCEPT !.pc = "dial", !.sock = NoSock, !.second = TRUE, !.reusing = FALSE],
                   [worker EXCEPT !.pc = "report", !.sock = NoSock]}
  BY DEF Fail
<1>2. WorkerInv' /\ worker'.sock = NoSock
  BY <1>1 DEF WorkerInv, WorkerPCs
<1>3. LiveInv'
  BY LiveByWorker DEF Fail, LiveInv
<1> QED
  BY <1>2, <1>3

\* _run, _connect and _call keep the worker's own state.
LEMMA WorkerKeepsItself ==
    ASSUME SessionInv, WorkerNext
    PROVE  WorkerInv' /\ LiveInv'
<1> USE DEF SessionInv
<1>1. CASE TakeJob
  <2>1. Head(jobs) \in Jobs
    BY <1>1 DEF TakeJob, TrafficInv
  <2>2. CASE Head(jobs) = "stop" \/ stopping
    <3>1. worker' = [IdleWorker(NoSock) EXCEPT !.pc = "ended"] /\ live' = live \ {worker.sock}
      BY <1>1, <2>2 DEF TakeJob
    <3>2. WorkerInv'
      BY <3>1 DEF IdleWorker, WorkerInv, WorkerPCs
    <3> QED
      BY <1>1, <3>1, <3>2, LiveByWorker DEF TakeJob, LiveInv
  <2>3. CASE ~(Head(jobs) = "stop" \/ stopping)
    <3>1. PICK j \in { "status", "remove" } : j = Head(jobs)
      BY <2>1, <2>3 DEF Jobs
    <3>2. PICK pc : pc = IF worker.sock = NoSock THEN "dial" ELSE "send"
      OBVIOUS
    <3>3. PICK b \in BOOLEAN : b = (worker.sock # NoSock)
      OBVIOUS
    <3>4. worker' = [worker EXCEPT !.job = j, !.second = FALSE, !.pc = pc, !.reusing = b]
      BY <1>1, <2>3, <3>1, <3>2, <3>3 DEF TakeJob
    <3>5. WorkerInv' /\ worker'.sock = worker.sock /\ worker'.pc # "track"
      BY <3>2, <3>4 DEF WorkerInv, WorkerPCs, Jobs
    <3> QED
      BY <1>1, <2>3, <3>5, LiveByWorker DEF TakeJob, LiveInv
  <2> QED
    BY <2>2, <2>3
<1>2. CASE WorkerDials
  <2>1. PICK s \in Socks : worker' = [worker EXCEPT !.pc = "track", !.sock = s]
    BY <1>2 DEF WorkerDials
  <2>2. worker.pc = "dial" /\ UNCHANGED <<stops, lost, listener>>
    BY <1>2 DEF WorkerDials
  <2>3. worker.sock = NoSock /\ worker.job \in { "status", "remove" }
    BY <2>2 DEF WorkerInv
  <2>4. worker' = [pc |-> "track", job |-> worker.job, sock |-> s, second |-> worker.second,
                   reusing |-> worker.reusing]
    BY <2>1 DEF WorkerInv
  <2>5. WorkerInv'
    BY <2>3, <2>4 DEF WorkerInv, WorkerPCs
  <2>6. LiveInv'
    BY <2>2, <2>3, LiveByWorker DEF LiveInv
  <2> QED
    BY <2>5, <2>6
<1>3. CASE WorkerIsRefused \/ WorkerLosesReply
  BY <1>3, FailedWorker DEF WorkerIsRefused, WorkerLosesReply
<1>4. CASE WorkerTimesOut
  BY <1>4, FailedWorker DEF WorkerTimesOut
<1>5. CASE WorkerTracks
  <2>1. CASE TooLate
    BY <1>5, <2>1, FailedWorker DEF WorkerTracks
  <2>2. CASE ~TooLate
    <3>1. worker' = [worker EXCEPT !.pc = "send"] /\ worker.pc = "track"
      BY <1>5, <2>2 DEF WorkerTracks
    <3>2. WorkerInv' /\ worker'.sock = worker.sock /\ worker'.pc # "track" /\ worker.sock \in Socks
      BY <3>1 DEF WorkerInv, WorkerPCs
    <3> QED
      BY <1>5, <2>2, <3>2, LiveByWorker DEF WorkerTracks, LiveInv
  <2> QED
    BY <2>1, <2>2
<1>6. CASE WorkerSends
  <2>1. CASE Fail
    BY <1>6, <2>1, FailedWorker DEF WorkerSends
  <2>2. CASE worker' = [worker EXCEPT !.pc = "wait"] /\ UNCHANGED live
    <3>1. WorkerInv' /\ worker'.sock = worker.sock /\ worker'.pc # "track"
      BY <1>6, <2>2 DEF WorkerSends, WorkerInv, WorkerPCs
    <3> QED
      BY <1>6, <2>2, <3>1, LiveByWorker DEF WorkerSends, LiveInv
  <2> QED
    BY <1>6, <2>1, <2>2 DEF WorkerSends
<1>7. CASE WorkerReads
  <2>1. worker' = IdleWorker(worker.sock)
    BY <1>7 DEF WorkerReads
  <2>2. WorkerInv' /\ worker'.sock = worker.sock /\ worker'.pc # "track"
    BY <2>1 DEF IdleWorker, WorkerInv, WorkerPCs
  <2> QED
    BY <1>7, <2>2, LiveByWorker DEF WorkerReads, LiveInv
<1>8. CASE WorkerReports
  <2>1. worker' = [worker EXCEPT !.pc = "say"]
    BY <1>8 DEF WorkerReports
  <2>2. WorkerInv' /\ worker'.sock = worker.sock /\ worker'.pc # "track"
    BY <1>8, <2>1 DEF WorkerReports, WorkerInv, WorkerPCs
  <2> QED
    BY <1>8, <2>2, LiveByWorker DEF WorkerReports
<1>9. CASE WorkerSays
  <2>1. WorkerInv' /\ worker'.sock = worker.sock /\ worker'.pc # "track"
    BY <1>9 DEF WorkerSays, IdleWorker, WorkerInv, WorkerPCs
  <2> QED
    BY <1>9, <2>1, LiveByWorker DEF WorkerSays, LiveInv
<1> QED
  BY <1>1, <1>2, <1>3, <1>4, <1>5, <1>6, <1>7, <1>8, <1>9 DEF WorkerNext, Worker

\* What the worker sends, reads and posts is a job or a message.
LEMMA WorkerTraffic ==
    ASSUME SessionInv, WorkerNext
    PROVE  TrafficInv'
<1> USE DEF SessionInv
<1>1. CASE UNCHANGED <<request, reply, wire, jobs, posted>>
  BY <1>1 DEF TrafficInv
<1>2. CASE TakeJob
  BY <1>2 DEF TakeJob, TrafficInv
<1>3. CASE WorkerDials
  BY <1>3, DialledTraffic DEF WorkerDials
<1>4. CASE WorkerSends
  <2>1. worker.sock \in Socks /\ worker.job \in { "status", "remove" }
    BY <1>4 DEF WorkerSends, WorkerInv
  <2>2. PICK j \in { "status", "remove" } : j = worker.job
    BY <2>1
  <2>3. request' = [request EXCEPT ![worker.sock] = j] \/ UNCHANGED request
    BY <1>4, <2>2 DEF WorkerSends
  <2> QED
    BY <1>4, <2>1, <2>3 DEF WorkerSends, TrafficInv
<1>5. CASE WorkerReads
  <2>1. PICK s \in Socks : s = worker.sock
    BY <1>5 DEF WorkerReads, WorkerInv
  <2>2. wire[s] \in Seq(Messages) /\ wire[s] # <<>>
    BY <1>5, <2>1 DEF WorkerReads, TrafficInv
  <2>3. wire' = [wire EXCEPT ![s] = Tail(wire[s])] /\ posted' = Append(posted, Head(wire[s]))
    BY <1>5, <2>1 DEF WorkerReads, Post
  <2>4. Tail(wire[s]) \in Seq(Messages) /\ Head(wire[s]) \in Messages
    BY <2>2
  <2>5. wire' \in [Socks -> Seq(Messages)]
    BY <2>3, <2>4 DEF TrafficInv
  <2>6. posted' \in Seq(Messages)
    BY <2>3, <2>4 DEF TrafficInv
  <2> QED
    BY <1>5, <2>5, <2>6 DEF WorkerReads, TrafficInv
<1>6. CASE WorkerSays
  BY <1>6, MessageType, AbsentType DEF WorkerSays, Post, TrafficInv
<1> QED
  BY <1>1, <1>2, <1>3, <1>4, <1>5, <1>6
  DEF WorkerNext, Worker, WorkerIsRefused, WorkerTracks, WorkerLosesReply, WorkerReports,
      WorkerTimesOut

\* Session._work as a whole.
LEMMA WorkerSession == SessionInv /\ WorkerNext => SessionInv'
<1> SUFFICES ASSUME SessionInv, WorkerNext PROVE SessionInv'
  OBVIOUS
<1>1. TransportInv'
  BY NextTransport DEF WorkerNext, Next, SessionInv
<1>2. UNCHANGED <<world, listener, window, presses, changes, restarts>>
      /\ timeouts' \in {timeouts, timeouts + 1} /\ (timeouts' # timeouts => timeouts < MaxTimeouts)
  BY DEF WorkerNext, Worker, TakeJob, WorkerDials, Dialled, WorkerIsRefused, WorkerTracks, WorkerSends,
     WorkerReads, WorkerLosesReply, WorkerReports, WorkerSays, WorkerTimesOut
<1>3. WorldInv' /\ ListenerInv' /\ WindowInv'
  BY <1>2 DEF SessionInv, WorldInv, ListenerInv, WindowInv
<1> QED
  BY <1>1, <1>3, WorkerKeepsItself, WorkerTraffic DEF SessionInv

-----------------------------------------------------------------------------
(***************************************************************************)
(* The listener's steps.                                                   *)
(***************************************************************************)
\* _listen keeps the listener's own state.
LEMMA ListenerKeepsItself ==
    ASSUME SessionInv, Listener
    PROVE  ListenerInv' /\ LiveInv'
<1> USE DEF SessionInv
<1>1. CASE ListenerDials
  <2>1. PICK s \in Socks : listener' = [pc |-> "track", sock |-> s]
    BY <1>1 DEF ListenerDials
  <2>2. listener.pc = "dial" /\ UNCHANGED <<stops, lost, worker>>
    BY <1>1 DEF ListenerDials
  <2>3. ListenerInv' /\ listener.sock = NoSock
    BY <2>1, <2>2 DEF ListenerInv, ListenerPCs
  <2> QED
    BY <2>2, <2>3, LiveByListener DEF LiveInv
<1>2. CASE ListenerTracks
  <2>1. CASE TooLate
    <3>1. listener' = [pc |-> "ended", sock |-> NoSock] /\ UNCHANGED <<stops, lost, worker>>
      BY <1>2, <2>1 DEF ListenerTracks, TooLate
    <3>2. ListenerInv'
      BY <3>1 DEF ListenerInv, ListenerPCs
    <3>3. listener.pc = "track"
      BY <1>2 DEF ListenerTracks
    <3> QED
      BY <3>1, <3>2, <3>3, LiveByListener DEF LiveInv
  <2>2. CASE ~TooLate
    <3>1. listener' = [listener EXCEPT !.pc = "back"] /\ live' = live \union {listener.sock}
      BY <1>2, <2>2 DEF ListenerTracks, At
    <3>2. ListenerInv' /\ listener'.sock = listener.sock /\ listener'.pc # "track"
          /\ listener.sock \in Socks
      BY <1>2, <3>1 DEF ListenerTracks, ListenerInv, ListenerPCs
    <3> QED
      BY <1>2, <3>1, <3>2, LiveByListener DEF ListenerTracks, LiveInv
  <2> QED
    BY <2>1, <2>2
<1>3. CASE Back \/ Hail
  <2>1. PICK pc \in { "hail", "read" } : listener' = [listener EXCEPT !.pc = pc]
    BY <1>3 DEF Back, Hail, At
  <2>2. ListenerInv' /\ listener'.sock = listener.sock /\ listener'.pc # "track"
    BY <1>3, <2>1 DEF Back, Hail, ListenerInv, ListenerPCs
  <2>3. lost' \in BOOLEAN /\ UNCHANGED <<worker, stops>>
    BY <1>3 DEF Back, Hail, LiveInv
  <2> QED
    BY <2>2, <2>3, LiveByListener
<1>4. CASE ListenerReads
  <2>1. CASE stopping
    <3>1. listener' = [pc |-> "ended", sock |-> NoSock] /\ live' = live \ {listener.sock}
      BY <1>4, <2>1 DEF ListenerReads
    <3>2. ListenerInv'
      BY <3>1 DEF ListenerInv, ListenerPCs
    <3> QED
      BY <1>4, <3>1, <3>2, LiveByListener DEF ListenerReads, LiveInv
  <2>2. CASE ~stopping
    <3>1. UNCHANGED <<listener, live, worker, stopping, swept, woken, lost>>
      BY <1>4, <2>2 DEF ListenerReads
    <3> QED
      BY <3>1 DEF ListenerInv, LiveInv
  <2> QED
    BY <2>1, <2>2
<1>5. CASE ListenerLoses
  <2>1. PICK pc \in { "rest", "say", "ended" } : listener' = [pc |-> pc, sock |-> NoSock]
    BY <1>5 DEF ListenerLoses
  <2>2. ListenerInv'
    BY <2>1 DEF ListenerInv, ListenerPCs
  <2>3. LiveInv'
    BY <1>5, LiveByListener DEF ListenerLoses, LiveInv
  <2> QED
    BY <2>2, <2>3
<1>6. CASE ListenerSays \/ ListenerRests
  <2>1. PICK pc \in { "rest", "dial", "ended" } : listener' = [listener EXCEPT !.pc = pc]
    BY <1>6 DEF ListenerSays, ListenerRests, At
  <2>2. ListenerInv' /\ listener'.sock = listener.sock /\ listener'.pc # "track"
    BY <1>6, <2>1 DEF ListenerSays, ListenerRests, ListenerInv, ListenerPCs
  <2>3. lost' \in BOOLEAN /\ UNCHANGED <<worker, stops>>
    BY <1>6 DEF ListenerSays, ListenerRests, LiveInv
  <2> QED
    BY <2>2, <2>3, LiveByListener
<1> QED
  BY <1>1, <1>2, <1>3, <1>4, <1>5, <1>6 DEF Listener

\* What the listener reads and posts is a message.
LEMMA ListenerTraffic ==
    ASSUME SessionInv, Listener
    PROVE  TrafficInv'
<1> USE DEF SessionInv
<1>1. CASE UNCHANGED <<request, reply, wire, jobs, posted>>
  BY <1>1 DEF TrafficInv
<1>2. CASE ListenerDials
  BY <1>2, DialledTraffic DEF ListenerDials
<1>3. CASE Hail \/ ListenerSays
  <2>1. PICK m \in Messages : posted' = Append(posted, m)
    BY <1>3, MessageType, AbsentType DEF Hail, ListenerSays, Post
  <2> QED
    BY <1>3, <2>1 DEF Hail, ListenerSays, TrafficInv
<1>4. CASE ListenerReads
  <2>1. PICK s \in Socks : s = listener.sock
    BY <1>4 DEF ListenerReads, ListenerInv
  <2>2. Tail(wire[s]) \in Seq(Messages) /\ Head(wire[s]) \in Messages
    BY <1>4, <2>1 DEF ListenerReads, TrafficInv
  <2>3. wire' = [wire EXCEPT ![s] = Tail(wire[s])]
    BY <1>4, <2>1 DEF ListenerReads
  <2>4. posted' = Append(posted, Head(wire[s])) \/ UNCHANGED posted
    BY <1>4, <2>1 DEF ListenerReads, Post
  <2>5. wire' \in [Socks -> Seq(Messages)]
    BY <2>2, <2>3 DEF TrafficInv
  <2>6. posted' \in Seq(Messages)
    BY <2>2, <2>4, AppendType DEF TrafficInv
  <2>7. UNCHANGED <<request, reply, jobs>>
    BY <1>4 DEF ListenerReads
  <2> QED
    BY <2>5, <2>6, <2>7 DEF TrafficInv
<1> QED
  BY <1>1, <1>2, <1>3, <1>4 DEF Listener, ListenerTracks, Back, ListenerLoses, ListenerRests

\* Session._listen as a whole.
LEMMA ListenerSession == SessionInv /\ Listener => SessionInv'
<1> SUFFICES ASSUME SessionInv, Listener PROVE SessionInv'
  OBVIOUS
<1>1. TransportInv'
  BY NextTransport DEF Next, SessionInv
<1>2. UNCHANGED <<world, worker, window, bounds>>
  BY DEF Listener, ListenerDials, Dialled, ListenerTracks, Back, Hail, ListenerReads, ListenerLoses,
     ListenerSays, ListenerRests
<1>3. WorldInv' /\ WorkerInv' /\ WindowInv'
  BY <1>2 DEF SessionInv, WorldInv, WorkerInv, WindowInv
<1> QED
  BY <1>1, <1>3, ListenerKeepsItself, ListenerTraffic DEF SessionInv

-----------------------------------------------------------------------------
(***************************************************************************)
(* The main loop's steps.                                                  *)
(***************************************************************************)
\* A callback, a press, and the closing of the window.
LEMMA MainSession == SessionInv /\ MainNext => SessionInv'
<1> SUFFICES ASSUME SessionInv, MainNext PROVE SessionInv'
  OBVIOUS
<1>1. TransportInv'
  BY NextTransport DEF MainNext, Next, SessionInv
<1>2. UNCHANGED <<daemon, worker, listener, lost, live, changes, restarts, timeouts>>
  BY DEF MainNext, Dispatch, Press, Close, Wake
<1>3. WorkerInv' /\ ListenerInv'
  BY <1>2 DEF SessionInv, WorkerInv, ListenerInv
<1>4. WorldInv'
  <2>1. presses' = presses \/ (presses < MaxPresses /\ presses' = presses + 1)
    BY DEF MainNext, Dispatch, Press, Close, Wake
  <2> QED
    BY <1>2, <2>1 DEF SessionInv, WorldInv
<1>5. LiveInv'
  <2>1. live \subseteq Socks
    BY DEF SessionInv, LiveInv
  <2>2. /\ stopping' \in {stopping, TRUE} /\ swept' \in {swept, live} /\ woken' \in {woken, swept}
    BY DEF MainNext, Dispatch, Press, Close, Wake
  <2> QED
    BY <1>2, <2>1, <2>2 DEF SessionInv, LiveInv
<1>6. TrafficInv' /\ WindowInv'
  <2> USE DEF SessionInv
  <2>1. CASE Dispatch
    <3>1. PICK m \in Messages : m = Head(posted)
      BY <2>1 DEF Dispatch, TrafficInv
    <3>2. posted' \in Seq(Messages)
      BY <2>1 DEF Dispatch, TrafficInv
    <3>3. m.value \in Versions /\ Absent \in Versions
      BY <3>1, AbsentType DEF Messages
    <3>4. \/ OnScreen(m.value) \/ OnEvent(m.value) \/ OnLost \/ OnBack \/ OnDone \/ OnFailed
      BY <2>1, <3>1 DEF Dispatch
    <3>5. jobs' \in Seq(Jobs)
      <4>1. jobs' = jobs \/ jobs' = Append(jobs, "status")
        BY <3>4 DEF OnScreen, OnEvent, OnLost, OnBack, OnDone, OnFailed
      <4>2. jobs \in Seq(Jobs) /\ "status" \in Jobs
        BY DEF TrafficInv, Jobs
      <4> QED
        BY <4>1, <4>2, AppendType
    <3>6. TrafficInv'
      BY <1>2, <3>2, <3>5 DEF TrafficInv
    <3>7. screen' \in Versions /\ banner' \in { "none", "lost", "error" } /\ closing' = closing
      <4>1. screen' \in {screen, m.value, Absent} /\ banner' \in {banner, "none", "lost", "error"}
        BY <3>4 DEF OnScreen, OnEvent, OnLost, OnBack, OnDone, OnFailed
      <4> QED
        BY <2>1, <3>3, <4>1 DEF Dispatch, WindowInv
    <3>8. held' \in BOOLEAN /\ sensitive' \in BOOLEAN /\ ~(held' /\ sensitive')
      <4>1. CASE OnScreen(m.value) \/ OnEvent(m.value)
        <5>1. sensitive' = ~held /\ held' = held
          BY <4>1 DEF OnScreen, OnEvent
        <5> QED
          BY <5>1, Zenon DEF WindowInv
      <4>2. CASE OnLost \/ OnBack
        BY <4>2 DEF OnLost, OnBack, WindowInv
      <4>3. CASE OnDone \/ OnFailed
        BY <4>3 DEF OnDone, OnFailed, WindowInv
      <4> QED
        BY <3>4, <4>1, <4>2, <4>3
    <3>9. WindowInv'
      BY <3>7, <3>8 DEF WindowInv
    <3> QED
      BY <3>6, <3>9
  <2>2. CASE Press
    <3>1. TrafficInv'
      BY <1>2, <2>2 DEF Press, TrafficInv, Jobs
    <3>2. WindowInv'
      BY <2>2 DEF Press, WindowInv
    <3> QED
      BY <3>1, <3>2
  <2>3. CASE Close \/ Wake
    <3>1. TrafficInv'
      <4>1. UNCHANGED <<request, reply, wire, posted>> /\ jobs' \in {jobs, Append(jobs, "stop")}
        BY <2>3 DEF Close, Wake
      <4>2. jobs \in Seq(Jobs) /\ "stop" \in Jobs
        BY DEF TrafficInv, Jobs
      <4> QED
        BY <4>1, <4>2, AppendType DEF TrafficInv
    <3>2. UNCHANGED <<screen, held, sensitive, banner>> /\ closing' \in { "waking", "joining" }
      BY <2>3 DEF Close, Wake
    <3>3. WindowInv'
      BY <3>2 DEF WindowInv
    <3> QED
      BY <3>1, <3>3
  <2> QED
    BY <2>1, <2>2, <2>3 DEF MainNext
<1> QED
  BY <1>1, <1>3, <1>4, <1>5, <1>6 DEF SessionInv

-----------------------------------------------------------------------------
(***************************************************************************)
(* The theorem.                                                            *)
(***************************************************************************)
\* Whoever takes the step, and when nobody does.
LEMMA NextSession == SessionInv /\ [Next]_vars => SessionInv'
<1> SUFFICES ASSUME SessionInv, [Next]_vars PROVE SessionInv'
  OBVIOUS
<1>1. CASE Next
  BY <1>1, DaemonSession, WorkerSession, ListenerSession, MainSession
  DEF Next, DaemonNext, WorkerNext, MainNext
<1>2. CASE UNCHANGED vars
  <2>1. TransportInv' /\ WorldInv' /\ TrafficInv'
    BY <1>2, NextTransport DEF vars, SessionInv, WorldInv, TrafficInv
  <2>2. WorkerInv' /\ ListenerInv' /\ LiveInv'
    BY <1>2 DEF vars, SessionInv, WorkerInv, ListenerInv, LiveInv
  <2>3. WindowInv'
    BY <1>2 DEF vars, SessionInv, WindowInv
  <2> QED
    BY <2>1, <2>2, <2>3 DEF SessionInv
<1> QED
  BY <1>1, <1>2

\* Session and Window: every variable keeps its type; the sockets `_clients`
\* holds are in use by a thread, and a row that waits for its answer has a
\* dead button.
THEOREM TypeCorrect == Spec => []TypeOK
<1>1. SessionInv => TypeOK
  <2> SUFFICES ASSUME SessionInv PROVE TypeOK
    OBVIOUS
  <2>1. live \subseteq Holders \ {NoSock}
    BY DEF SessionInv, LiveInv, Holders
  <2>2. \A s \in Socks : wire[s] \in Seq(Messages)
    BY DEF SessionInv, TrafficInv
  <2>3. WindowInv /\ WorkerInv /\ ListenerInv
    BY DEF SessionInv
  <2> QED
    BY <2>1, <2>2, <2>3 DEF SessionInv, TransportInv, WorldInv, TrafficInv, WorkerInv, ListenerInv,
       LiveInv, WindowInv, TypeOK
<1> QED
  BY <1>1, InitSession, NextSession, PTL DEF Spec

-----------------------------------------------------------------------------
(***************************************************************************)
(* What stop() reaches.                                                    *)
(***************************************************************************)
\* stop() has swept and woken: a thread that is about to use a socket, or waits on
\* one, has it woken; and a worker that waits for a job will find one.
StopReaches ==
    closing = "joining" =>
        /\ worker.pc \in { "send", "wait" } => worker.sock \in woken
        /\ worker.pc = "idle" => jobs # <<>>
        /\ listener.pc \in { "back", "hail", "read" } => listener.sock \in woken

\* Tracked: a socket that _connect has put on the list is on it until it is
\* dropped, and on the list that stop() swept when stop() was quicker.
Tracked(thread) == thread.sock # NoSock /\ thread.pc # "track"
Reached(thread) == Tracked(thread) => thread.sock \in live /\ (stopping => thread.sock \in swept)

StopInv ==
    /\ worker.sock # NoSock => worker.sock # listener.sock
    /\ stopping <=> closing # "no"
    /\ Reached(worker) /\ Reached(listener)
    /\ closing = "joining" => woken = swept /\ (worker.pc = "ended" \/ jobs # <<>>)

\* The least of a set of numbers is in it.
LEMMA LeastIsIn ==
    ASSUME NEW S \in SUBSET Nat, S # {}
    PROVE  Min(S) \in S
<1>1. PICK R : R = OpToRel(<, Nat)
  OBVIOUS
<1>2. IsWellFoundedOn(R, Nat) /\ \A i, j \in Nat : i < j => <<i, j>> \in R
  BY <1>1, NatLessThanWellFounded DEF OpToRel
<1>3. IsWellFoundedOn(R, Nat)
  BY <1>2
<1>4. \E x \in S : \A y \in S : ~ (<<y, x>> \in R)
  BY <1>3, WFMin
<1>5. PICK x \in S : \A y \in S : <<y, x>> \notin R
  BY <1>4
<1>6. ASSUME NEW y \in S PROVE x <= y
  <2>1. ~(y < x)
    BY <1>2, <1>5
  <2> QED
    BY <2>1
<1> QED
  BY <1>6 DEF Min

\* A connection that was dialled is nobody's yet.
LEMMA DialledIsNew ==
    ASSUME NEW s, Dialled(s)
    PROVE  s # worker.sock /\ s # listener.sock
<1>1. FreeSocks \in SUBSET Nat /\ FreeSocks # {}
  BY DEF FreeSocks, Dialled
<1>2. s \in FreeSocks
  BY <1>1, LeastIsIn DEF Dialled
<1> QED
  BY <1>2 DEF FreeSocks, Holders

\* A step of the worker: it drops its socket, dials, keeps the one it has on the
\* list, or puts it there before stop() has swept.
LEMMA StopByWorker ==
    ASSUME StopInv, UNCHANGED <<listener, stopping, swept, woken, closing>>,
           NoSock \notin live, live \ {worker.sock} \subseteq live',
           jobs' = jobs \/ worker'.pc = "ended" \/ ~stopping, worker.pc = "ended" => worker'.pc = "ended",
           \/ worker'.sock = NoSock
           \/ worker'.pc = "track" /\ worker'.sock # listener.sock
           \/ worker'.sock = worker.sock /\ Tracked(worker) /\ live' = live
           \/ worker'.sock = worker.sock /\ worker.sock \in live' /\ ~stopping
    PROVE  StopInv'
<1>1. worker'.sock # NoSock => worker'.sock # listener'.sock
  BY DEF StopInv
<1>2. Reached(worker)'
  BY DEF StopInv, Reached, Tracked
<1>3. Reached(listener)'
  <2>1. Tracked(listener) => listener.sock # worker.sock
    BY DEF StopInv, Tracked
  <2> QED
    BY <2>1 DEF StopInv, Reached, Tracked
<1>4. stopping' <=> closing' # "no"
  BY DEF StopInv
<1>5. closing' = "joining" => woken' = swept' /\ (worker'.pc = "ended" \/ jobs' # <<>>)
  BY DEF StopInv
<1> QED
  BY <1>1, <1>2, <1>3, <1>4, <1>5 DEF StopInv

\* The same of the listener.
LEMMA StopByListener ==
    ASSUME StopInv, UNCHANGED <<worker, stopping, swept, woken, closing, jobs>>,
           NoSock \notin live, live \ {listener.sock} \subseteq live',
           \/ listener'.sock = NoSock
           \/ listener'.pc = "track" /\ listener'.sock # worker.sock
           \/ listener'.sock = listener.sock /\ Tracked(listener) /\ live' = live
           \/ listener'.sock = listener.sock /\ listener.sock \in live' /\ ~stopping
    PROVE  StopInv'
<1>1. worker'.sock # NoSock => worker'.sock # listener'.sock
  BY DEF StopInv
<1>2. Reached(listener)'
  BY DEF StopInv, Reached, Tracked
<1>3. Reached(worker)'
  <2>1. Tracked(worker) => worker.sock # listener.sock
    BY DEF StopInv, Tracked
  <2> QED
    BY <2>1 DEF StopInv, Reached, Tracked
<1> QED
  BY <1>1, <1>2, <1>3 DEF StopInv

\* A failed call drops the worker's socket.
LEMMA FailStop ==
    ASSUME StopInv, WorkerInv, LiveInv, Fail, UNCHANGED <<listener, stopping, swept, woken, closing, jobs>>,
           worker.pc # "ended"
    PROVE  StopInv'
<1>1. worker' \in {[worker EXCEPT !.pc = "dial", !.sock = NoSock, !.second = TRUE, !.reusing = FALSE],
                   [worker EXCEPT !.pc = "report", !.sock = NoSock]}
  BY DEF Fail
<1>2. worker'.sock = NoSock
  BY <1>1 DEF WorkerInv
<1>3. NoSock \notin live /\ live' = live \ {worker.sock}
  BY DEF Fail, LiveInv
<1> QED
  BY <1>2, <1>3, StopByWorker

\* What the worker leaves alone, and the jobs of which it only takes one.
LEMMA WorkerLeaves ==
    ASSUME WorkerNext
    PROVE  /\ UNCHANGED <<stopping, swept, woken, closing, listener>>
           /\ TakeJob \/ (jobs' = jobs /\ worker.pc # "ended")
<1>1. CASE TakeJob
  BY <1>1 DEF TakeJob
<1>2. CASE WorkerDials
  BY <1>2 DEF WorkerDials
<1>3. CASE WorkerIsRefused \/ WorkerTracks
  BY <1>3 DEF WorkerIsRefused, WorkerTracks
<1>4. CASE WorkerSends \/ WorkerReads
  BY <1>4 DEF WorkerSends, WorkerReads
<1>5. CASE WorkerLosesReply \/ WorkerTimesOut
  BY <1>5 DEF WorkerLosesReply, WorkerTimesOut
<1>6. CASE WorkerReports \/ WorkerSays
  BY <1>6 DEF WorkerReports, WorkerSays
<1> QED
  BY <1>1, <1>2, <1>3, <1>4, <1>5, <1>6 DEF WorkerNext, Worker

\* Session._work.
LEMMA WorkerStop == ASSUME SessionInv, StopInv, WorkerNext PROVE StopInv'
<1> USE DEF SessionInv
<1>1. UNCHANGED <<stopping, swept, woken, closing, listener>> /\ NoSock \notin live
  BY WorkerLeaves DEF LiveInv
<1>2. CASE TakeJob
  <2>1. CASE Head(jobs) = "stop" \/ stopping
    <3>1. worker' = [IdleWorker(NoSock) EXCEPT !.pc = "ended"] /\ live' = live \ {worker.sock}
      BY <1>2, <2>1 DEF TakeJob
    <3>2. worker'.sock = NoSock /\ worker'.pc = "ended"
      BY <3>1 DEF IdleWorker
    <3> QED
      BY <1>1, <3>1, <3>2, StopByWorker
  <2>2. CASE ~(Head(jobs) = "stop" \/ stopping)
    <3>1. worker.pc = "idle" /\ live' = live /\ ~stopping
      BY <1>2, <2>2 DEF TakeJob
    <3>2. worker'.sock = worker.sock
      <4>1. PICK j, pc, b : worker' = [worker EXCEPT !.job = j, !.second = FALSE, !.pc = pc, !.reusing = b]
        BY <1>2, <2>2 DEF TakeJob
      <4> QED
        BY <4>1 DEF WorkerInv
    <3>3. worker.sock = NoSock \/ Tracked(worker)
      BY <3>1 DEF Tracked
    <3> QED
      BY <1>1, <3>1, <3>2, <3>3, StopByWorker
  <2> QED
    BY <2>1, <2>2
<1>3. CASE WorkerDials
  <2>1. PICK s \in Socks : Dialled(s) /\ worker' = [worker EXCEPT !.pc = "track", !.sock = s]
    BY <1>3 DEF WorkerDials
  <2>2. worker.pc = "dial" /\ live' = live /\ jobs' = jobs
    BY <1>3 DEF WorkerDials
  <2>3. worker'.pc = "track" /\ worker'.sock = s
    BY <2>1 DEF WorkerInv
  <2>4. s # listener.sock
    BY <2>1, DialledIsNew
  <2> QED
    BY <1>1, <2>2, <2>3, <2>4, StopByWorker
<1>4. CASE Fail /\ ~TakeJob
  BY <1>1, <1>4, WorkerLeaves, FailStop
<1>5. CASE WorkerTracks /\ ~TooLate
  <2>1. worker' = [worker EXCEPT !.pc = "send"] /\ live' = live \union {worker.sock} /\ jobs' = jobs
        /\ worker.pc = "track" /\ ~stopping
    BY <1>5 DEF WorkerTracks, TooLate
  <2>2. worker'.sock = worker.sock
    BY <2>1 DEF WorkerInv
  <2> QED
    BY <1>1, <2>1, <2>2, StopByWorker
<1>6. CASE WorkerSends /\ ~Fail
  <2>1. worker' = [worker EXCEPT !.pc = "wait"] /\ live' = live /\ jobs' = jobs /\ worker.pc = "send"
    BY <1>6 DEF WorkerSends
  <2>2. worker'.sock = worker.sock /\ Tracked(worker)
    BY <2>1 DEF WorkerInv, Tracked
  <2> QED
    BY <1>1, <2>1, <2>2, StopByWorker
<1>7. CASE WorkerReads
  <2>1. worker' = IdleWorker(worker.sock) /\ live' = live /\ jobs' = jobs /\ worker.pc = "wait"
    BY <1>7 DEF WorkerReads
  <2>2. worker'.sock = worker.sock /\ Tracked(worker)
    BY <2>1 DEF WorkerInv, Tracked, IdleWorker
  <2> QED
    BY <1>1, <2>1, <2>2, StopByWorker
<1>8. CASE WorkerReports \/ WorkerSays
  <2>1. live' = live /\ jobs' = jobs /\ worker.pc \in { "report", "say" }
    BY <1>8 DEF WorkerReports, WorkerSays
  <2>2. worker' \in {[worker EXCEPT !.pc = "say"], IdleWorker(NoSock)}
    BY <1>8 DEF WorkerReports, WorkerSays
  <2>3. worker'.sock = NoSock
    BY <2>1, <2>2 DEF WorkerInv, IdleWorker
  <2> QED
    BY <1>1, <2>1, <2>3, StopByWorker
<1> QED
  BY <1>2, <1>3, <1>4, <1>5, <1>6, <1>7, <1>8
  DEF WorkerNext, Worker, WorkerIsRefused, WorkerTracks, WorkerLosesReply, WorkerTimesOut

\* Session._listen.
LEMMA ListenerStop == ASSUME SessionInv, StopInv, Listener PROVE StopInv'
<1> USE DEF SessionInv
<1>1. UNCHANGED <<stopping, swept, woken, closing, worker, jobs>> /\ NoSock \notin live
  BY DEF Listener, ListenerDials, Dialled, ListenerTracks, Back, Hail, ListenerReads, ListenerLoses,
     ListenerSays, ListenerRests, LiveInv
<1>2. CASE ListenerDials
  <2>1. PICK s \in Socks : Dialled(s) /\ listener' = [pc |-> "track", sock |-> s]
    BY <1>2 DEF ListenerDials
  <2>2. listener'.pc = "track" /\ listener'.sock # worker.sock
    BY <2>1, DialledIsNew
  <2>3. live' = live
    BY <1>2 DEF ListenerDials
  <2> QED
    BY <1>1, <2>2, <2>3, StopByListener
<1>3. CASE ListenerTracks
  <2>1. CASE TooLate
    <3>1. listener'.sock = NoSock /\ live' = live
      BY <1>3, <2>1 DEF ListenerTracks
    <3> QED
      BY <1>1, <3>1, StopByListener
  <2>2. CASE ~TooLate
    <3>1. listener' = [listener EXCEPT !.pc = "back"] /\ live' = live \union {listener.sock} /\ ~stopping
      BY <1>3, <2>2 DEF ListenerTracks, At, TooLate
    <3>2. listener'.sock = listener.sock
      BY <3>1 DEF ListenerInv
    <3> QED
      BY <1>1, <3>1, <3>2, StopByListener
  <2> QED
    BY <2>1, <2>2
<1>4. CASE Back \/ Hail
  <2>1. \E pc : listener' = [listener EXCEPT !.pc = pc]
    BY <1>4 DEF Back, Hail, At
  <2>2. listener.pc \in { "back", "hail" } /\ live' = live
    BY <1>4 DEF Back, Hail
  <2>3. listener'.sock = listener.sock /\ Tracked(listener)
    BY <2>1, <2>2 DEF ListenerInv, Tracked
  <2> QED
    BY <1>1, <2>2, <2>3, StopByListener
<1>5. CASE ListenerReads
  <2>1. CASE stopping
    <3>1. listener'.sock = NoSock /\ live' = live \ {listener.sock}
      BY <1>5, <2>1 DEF ListenerReads
    <3> QED
      BY <1>1, <3>1, StopByListener
  <2>2. CASE ~stopping
    <3>1. listener.pc = "read" /\ listener' = listener /\ live' = live
      BY <1>5, <2>2 DEF ListenerReads
    <3>2. Tracked(listener)
      BY <3>1 DEF ListenerInv, Tracked
    <3> QED
      BY <1>1, <3>1, <3>2, StopByListener
  <2> QED
    BY <2>1, <2>2
<1>6. CASE ListenerLoses
  <2>1. listener'.sock = NoSock /\ live' = live \ {listener.sock}
    BY <1>6 DEF ListenerLoses
  <2> QED
    BY <1>1, <2>1, StopByListener
<1>7. CASE ListenerSays \/ ListenerRests
  <2>1. \E pc : listener' = [listener EXCEPT !.pc = pc]
    BY <1>7 DEF ListenerSays, ListenerRests, At
  <2>2. listener.pc \in { "say", "rest" } /\ live' = live
    BY <1>7 DEF ListenerSays, ListenerRests
  <2>3. listener'.sock = NoSock
    BY <2>1, <2>2 DEF ListenerInv
  <2> QED
    BY <1>1, <2>2, <2>3, StopByListener
<1> QED
  BY <1>2, <1>3, <1>4, <1>5, <1>6, <1>7 DEF Listener

\* The main loop: stop() sweeps what is on the list, and then wakes it.
LEMMA MainStop == ASSUME SessionInv, StopInv, MainNext PROVE StopInv'
<1>1. UNCHANGED <<worker, listener, live>>
  BY DEF MainNext, Dispatch, Press, Close, Wake
<1>2. CASE Dispatch \/ Press
  <2>1. UNCHANGED <<stopping, swept, woken, closing>> /\ closing = "no"
    BY <1>2 DEF Dispatch, Press
  <2> QED
    BY <1>1, <2>1 DEF StopInv, Reached, Tracked
<1>3. CASE Close
  <2>1. stopping' = TRUE /\ swept' = live /\ closing' = "waking"
    BY <1>3 DEF Close
  <2> QED
    BY <1>1, <2>1 DEF StopInv, Reached, Tracked
<1>4. CASE Wake
  <2>1. UNCHANGED <<stopping, swept>> /\ closing = "waking" /\ closing' = "joining" /\ woken' = swept
    BY <1>4 DEF Wake
  <2>2. jobs' # <<>>
    <3>1. jobs \in Seq(Jobs) /\ jobs' = Append(jobs, "stop")
      BY <1>4 DEF Wake, SessionInv, TrafficInv
    <3>2. Len(jobs') > 0
      BY <3>1
    <3> QED
      BY <3>2
  <2> QED
    BY <1>1, <2>1, <2>2 DEF StopInv, Reached, Tracked
<1> QED
  BY <1>2, <1>3, <1>4 DEF MainNext

\* Session.stop and _connect: once stop() has swept and woken, no thread sends or
\* waits on a socket that was not woken, wherever it was between its connect and
\* its registration; and the worker's queue holds what ends it.  It is why both
\* threads can end; that they do, TLC checks.
THEOREM StopIsHeard == Spec => []StopReaches
<1>1. Init => StopInv
  BY DEF Init, StopInv, Reached, Tracked, IdleWorker
<1>2. SessionInv /\ StopInv /\ [Next]_vars => StopInv'
  <2> SUFFICES ASSUME SessionInv, StopInv, [Next]_vars PROVE StopInv'
    OBVIOUS
  <2>1. CASE UNCHANGED <<session, window>>
    BY <2>1 DEF StopInv, Reached, Tracked
  <2>2. CASE DaemonNext
    <3>1. UNCHANGED <<session, window>>
      BY <2>2 DEF DaemonNext, Serve, Register, Execute, Reply, ClientGone, Change, Broadcast, ShutDown,
         Sweep, DaemonEnds, DaemonStarts
    <3> QED
      BY <2>1, <3>1
  <2> QED
    BY <2>1, <2>2, WorkerStop, ListenerStop, MainStop DEF Next, DaemonNext, WorkerNext, MainNext, vars
<1>3. SessionInv /\ StopInv => StopReaches
  <2> SUFFICES ASSUME SessionInv, StopInv, closing = "joining" PROVE StopReaches
    BY DEF StopReaches
  <2>1. stopping /\ woken = swept /\ (worker.pc = "ended" \/ jobs # <<>>)
    BY DEF StopInv
  <2>2. worker.pc \in { "send", "wait" } => Tracked(worker)
    BY DEF SessionInv, WorkerInv, Tracked
  <2>3. listener.pc \in { "back", "hail", "read" } => Tracked(listener)
    BY DEF SessionInv, ListenerInv, Tracked
  <2> QED
    BY <2>1, <2>2, <2>3 DEF StopInv, Reached, StopReaches
<1> QED
  BY <1>1, <1>2, <1>3, InitSession, NextSession, PTL DEF Spec
=============================================================================
