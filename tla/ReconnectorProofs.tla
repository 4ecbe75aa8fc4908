-------------------------- MODULE ReconnectorProofs --------------------------
(***************************************************************************)
(* Theorems about Reconnector, for every set of connections, paths and     *)
(* handler threads, and every bound.                                       *)
(***************************************************************************)
EXTENDS Reconnector, TLAPS

USE NoneAssumption, OutcomeAssumption
USE DEF world, daemon, link, pass, loop, bounds, history

-----------------------------------------------------------------------------
(***************************************************************************)
(* Type correctness: one lemma per actor.                                  *)
(***************************************************************************)

\* An agent that has just started knows nothing and runs nothing.
LEMMA InitIsTyped == Init => TypeOK
<1> SUFFICES ASSUME Init PROVE TypeOK
  OBVIOUS
<1>1. call \in [Handlers -> CallType]
  BY DEF Init, NoCall, CallType
<1>2. inbox \in Seq(RequestType)
  BY DEF Init
<1> QED
  BY <1>1, <1>2 DEF Init, TypeOK, Nothing

\* A track that is changed is still a track, and one that is known stays known.
LEMMA TracksStay ==
    ASSUME NEW t \in Track
    PROVE  /\ t # None
           /\ [t EXCEPT !.waiting = FALSE] \in Track
           /\ [t EXCEPT !.mountedAt = None, !.held = "disconnected"] \in Track
           /\ \A spot \in Spots :
                [t EXCEPT !.mountedAt = spot, !.lastAt = spot,
                          !.held = None, !.waiting = FALSE] \in Track
BY DEF Track, Holds, Statuses

\* People, servers, the kernel and time leave everything well typed.
LEMMA EnvironmentIsTyped ==
    ASSUME TypeOK,
           \/ Environment
           \/ \E m \in mounts : Drop(m)
           \/ \E id \in Ids : BackoffOver(id)
           \/ WindowOver
    PROVE  TypeOK'
<1>1. CASE Environment
  <2>1. ASSUME NEW id \in Ids, FinderMount(id)
        PROVE  mounts' \subseteq Mount /\ refused' \subseteq Ids /\ ejected' \subseteq Ids
    <3>1. PICK spot \in Spots :
            mounts' = mounts \cup {[id |-> id, spot |-> spot, ours |-> FALSE]}
      BY <2>1 DEF FinderMount, FreeSpots
    <3>2. [id |-> id, spot |-> spot, ours |-> FALSE] \in Mount
      BY DEF Mount
    <3> QED
      BY <2>1, <3>1, <3>2 DEF FinderMount, Settle, TypeOK
  <2>2. ASSUME NEW m \in mounts, Eject(m)
        PROVE  mounts' \subseteq Mount /\ refused' \subseteq Ids /\ ejected' \subseteq Ids
    <3>1. m.id \in Ids
      BY DEF TypeOK, Mount
    <3>2. ejected' \subseteq ejected \cup {m.id}
      BY <2>2 DEF Eject
    <3> QED
      BY <2>2, <3>1, <3>2 DEF Eject, TypeOK
  <2>3. mounts' \subseteq Mount /\ refused' \subseteq Ids /\ ejected' \subseteq Ids
    BY <1>1, <2>1, <2>2 DEF Environment, ServerFlips, PasswordChanges, Explains,
       NetworkChanges, TypeOK
  <2>4. up' \in [Ids -> BOOLEAN] /\ accepts' \in [Ids -> BOOLEAN]
    BY <1>1 DEF Environment, FinderMount, Eject, ServerFlips, PasswordChanges, Explains,
       NetworkChanges, TypeOK
  <2>5. flags' \subseteq { "slept", "trouble", "network" }
    BY <1>1 DEF Environment, FinderMount, Eject, ServerFlips, PasswordChanges, Explains,
       NetworkChanges, TypeOK
  <2> QED
    BY <1>1, <2>3, <2>4, <2>5 DEF Environment, TypeOK, Configured
<1>2. CASE \E m \in mounts : Drop(m)
  BY <1>2 DEF Drop, TypeOK, Configured
<1>3. ASSUME NEW id \in Ids, BackoffOver(id)
      PROVE  TypeOK'
  <2>1. tracks[id] \in Track
    BY <1>3 DEF BackoffOver, TypeOK
  <2>2. [tracks[id] EXCEPT !.waiting = FALSE] \in Track
    BY <2>1, TracksStay
  <2>3. tracks' = [tracks EXCEPT ![id] = [tracks[id] EXCEPT !.waiting = FALSE]]
    BY <1>3 DEF BackoffOver
  <2>4. tracks' \in [Ids -> Track \cup {None}]
    BY <2>2, <2>3 DEF TypeOK
  <2>5. \A i \in Ids : tracks[i] # None => tracks'[i] # None
    BY <2>2, <2>3, TracksStay DEF TypeOK
  <2> QED
    BY <1>3, <2>4, <2>5 DEF BackoffOver, TypeOK, Configured
<1>4. CASE WindowOver
  <2>1. window' \in BOOLEAN /\ eager' \in BOOLEAN
    BY <1>4 DEF WindowOver, TypeOK
  <2> QED
    BY <1>4, <2>1 DEF WindowOver, TypeOK, Configured
<1> QED
  BY <1>1, <1>2, <1>3, <1>4

\* A command that arrives is a well typed call and a well typed request.
LEMMA AskIsTyped ==
    ASSUME TypeOK, Command,
           NEW h \in Handlers, NEW op \in { "connect", "disconnect", "release" },
           NEW id \in Ids, NEW recorded \in Spots, Ask(h, op, id, recorded)
    PROVE  /\ call' \in [Handlers -> CallType]
           /\ inbox' \in Seq(RequestType)
           /\ commands' \in Nat
<1>1. commands' \in Nat
  BY DEF Command, TypeOK
<1>2. [op |-> op, id |-> id, by |-> h, rid |-> commands', stage |-> "ask",
       recorded |-> recorded, targets |-> {}, landed |-> None] \in RequestType
  BY <1>1 DEF RequestType, JobType
<1>3. inbox' \in Seq(RequestType)
  BY <1>2 DEF Ask, TypeOK
<1>4. call' \in [Handlers -> CallType]
  BY <1>1 DEF Ask, TypeOK, CallType
<1> QED
  BY <1>1, <1>3, <1>4

\* Clients' commands leave everything well typed.
LEMMA ClientIsTyped == ASSUME TypeOK, Client PROVE TypeOK'
<1>1. ASSUME NEW id \in Ids, NEW h \in Handlers, NEW op \in { "connect", "disconnect" },
             ConnectOrDisconnect(h, op, id)
      PROVE  TypeOK'
  <2>1. config[id].recorded \in Spots
    BY <1>1 DEF ConnectOrDisconnect, TypeOK, Connection
  <2>2. /\ call' \in [Handlers -> CallType] /\ inbox' \in Seq(RequestType)
        /\ commands' \in Nat
    BY <1>1, <2>1, AskIsTyped DEF ConnectOrDisconnect
  <2> QED
    BY <1>1, <2>2 DEF Client, ConnectOrDisconnect, TypeOK, Configured
<1>2. ASSUME NEW id \in Ids, NEW h \in Handlers, Remove(h, id)
      PROVE  TypeOK'
  <2>1. config[id].recorded \in Spots
    BY <1>2 DEF Remove, TypeOK, Connection
  <2>2. /\ call' \in [Handlers -> CallType] /\ inbox' \in Seq(RequestType)
        /\ commands' \in Nat
    BY <1>2, <2>1, AskIsTyped DEF Remove
  <2> QED
    BY <1>2, <2>2 DEF Client, Remove, TypeOK, Configured
<1>3. ASSUME NEW id \in Ids, Add(id)
      PROVE  TypeOK'
  BY <1>3 DEF Client, Add, Command, Settle, TypeOK, Configured
<1> QED
  BY <1>1, <1>2, <1>3 DEF Client

\* What keeps answers and requests together: a request is numbered once, so the
\* call that waits under its number asked for the same thing, and a connect is
\* answered with a place.
Matches(request, calls, count) ==
    /\ request.rid <= count
    /\ LET c == calls[request.by] IN
       c.stage = "waiting" /\ c.rid = request.rid => c.op = request.op

AnswersInv ==
    /\ \A i \in DOMAIN inbox : Matches(inbox[i], call, commands)
    /\ job # None => Matches(job, call, commands)
    /\ job # None /\ job.op = "connect" /\ job.stage \in { "tell", "done" }
            => job.landed \in Spots
    /\ \A h \in Handlers :
        /\ call[h].stage \in { "answered", "where" } =>
                \/ call[h].op = "connect" /\ call[h].landed \in Spots
                \/ call[h].op = "disconnect"
        /\ call[h].stage = "where" => call[h].op = "connect"

\* A daemon handler writes a connection that is still there.
LEMMA HandlerIsTyped ==
    ASSUME TypeOK, AnswersInv, NEW h \in Handlers, Handler(h)
    PROVE  TypeOK'
<1>1. NoCall \in CallType
  BY DEF NoCall, CallType
<1>2. CASE GiveUp(h)
  BY <1>1, <1>2 DEF GiveUp, Handler, Finish, TypeOK, Configured
<1>3. CASE Record(h)
  <2>1. call' \in [Handlers -> CallType]
    <3>0. call[h] \in CallType
      BY DEF TypeOK
    <3>1. [call[h] EXCEPT !.stage = "where"] \in CallType
      BY <3>0 DEF CallType
    <3>2. \/ call' = [call EXCEPT ![h] = NoCall]
          \/ call' = [call EXCEPT ![h] = [call[h] EXCEPT !.stage = "where"]]
      BY <1>3 DEF Record
    <3> QED
      BY <1>1, <3>1, <3>2 DEF TypeOK
  <2>2. config' \in [Ids -> Connection \cup {None}]
    <3> DEFINE id == call[h].id
               mark == call[h].op = "disconnect"
    <3>1. CASE config[id] = None
      BY <1>3, <3>1 DEF Record, TypeOK
    <3>2. CASE config[id] # None
      <4>1. config' = [config EXCEPT ![id] = [config[id] EXCEPT !.disconnected = mark]]
        BY <1>3, <3>2 DEF Record
      <4>2. config[id] \in Connection \/ id \notin Ids
        BY <3>2 DEF TypeOK
      <4>3. id \in Ids => [config[id] EXCEPT !.disconnected = mark] \in Connection
        BY <4>2, mark \in BOOLEAN DEF Connection
      <4> QED
        BY <4>1, <4>3, ZenonT(30) DEF TypeOK
    <3> QED
      BY <3>1, <3>2
  <2> QED
    BY <1>3, <2>1, <2>2 DEF Record, Handler, TypeOK, Configured
<1>4. CASE RecordWhere(h)
  <2>1. config' \in [Ids -> Connection \cup {None}]
    <3> DEFINE id == call[h].id
    <3>1. call[h].landed \in Spots
      BY <1>4 DEF RecordWhere, AnswersInv
    <3>2. CASE config[id] = None
      BY <1>4, <3>2 DEF RecordWhere, TypeOK
    <3>3. CASE config[id] # None
      <4>1. config' = [config EXCEPT ![id] = [config[id] EXCEPT !.recorded = call[h].landed]]
        BY <1>4, <3>3 DEF RecordWhere
      <4>2. id \in Ids => [config[id] EXCEPT !.recorded = call[h].landed] \in Connection
        BY <3>1, <3>3 DEF TypeOK, Connection
      <4> QED
        BY <4>1, <4>2 DEF TypeOK
    <3> QED
      BY <3>2, <3>3
  <2> QED
    BY <1>1, <1>4, <2>1 DEF RecordWhere, Handler, Finish, TypeOK, Configured
<1> QED
  BY <1>2, <1>3, <1>4 DEF Handler

\* What the link thread performs keeps the mounts, the tracks and the calls what
\* they are.
LEMMA LinkIsTyped == ASSUME TypeOK, AnswersInv, LinkThread PROVE TypeOK'
<1> USE DEF AtStage
<1>1. CASE TakeRequest
  <2>1. Head(inbox) \in RequestType /\ Tail(inbox) \in Seq(RequestType)
    BY <1>1 DEF TakeRequest, TypeOK
  <2> QED
    BY <1>1, <2>1 DEF TakeRequest, LinkThread, RequestType, TypeOK, Configured
<1>2. CASE LinkAsk
  <2>1. job \in JobType
    BY <1>2 DEF LinkAsk, TypeOK
  <2>2. job' \in JobType /\ lock' \in { None, "loop", "link" }
    <3>1. SpotsOf(job.id) \subseteq Spots
      BY DEF SpotsOf, MountsOf, TypeOK, Mount
    <3>2. [job EXCEPT !.stage = "netfs"] \in JobType
      BY <2>1 DEF JobType
    <3>3. \A spot \in Spots : [job EXCEPT !.stage = "tell", !.landed = spot] \in JobType
      BY <2>1 DEF JobType
    <3>4. job' \in JobType
      BY <1>2, <3>1, <3>2, <3>3 DEF LinkAsk
    <3>5. lock' \in { None, "loop", "link" }
      BY <1>2 DEF LinkAsk, TypeOK
    <3> QED
      BY <3>4, <3>5
  <2> QED
    BY <1>2, <2>2, ZenonT(30) DEF LinkAsk, LinkThread, TypeOK, Configured
<1>3. CASE LinkMount
  <2>1. job \in JobType
    BY <1>3 DEF LinkMount, TypeOK
  <2>2. job' \in JobType
    <3>1. /\ [job EXCEPT !.stage = "failed"] \in JobType
          /\ \A spot \in Spots : [job EXCEPT !.stage = "tell", !.landed = spot] \in JobType
      BY <2>1 DEF JobType
    <3> QED
      BY <1>3, <3>1 DEF LinkMount
  <2>3. mounts' \subseteq Mount
    <3>1. CASE UNCHANGED mounts
      BY <3>1 DEF TypeOK
    <3>2. ASSUME NEW spot \in Spots,
                 mounts' = mounts \cup {[id |-> job.id, spot |-> spot, ours |-> TRUE]}
          PROVE  mounts' \subseteq Mount
      <4>1. [id |-> job.id, spot |-> spot, ours |-> TRUE] \in Mount
        BY <2>1 DEF Mount, JobType
      <4> QED
        BY <3>2, <4>1 DEF TypeOK
    <3>3. \/ UNCHANGED mounts
          \/ \E spot \in Spots :
                mounts' = mounts \cup {[id |-> job.id, spot |-> spot, ours |-> TRUE]}
      BY <1>3 DEF LinkMount, NetFSMounts, NetFSRefuses, NetFSFails
    <3> QED
      BY <3>1, <3>2, <3>3
  <2>4. refused' \subseteq Ids /\ ejected' \subseteq Ids
    BY <1>3 DEF LinkMount, Settle, TypeOK
  <2>5. UNCHANGED <<up, accepts>>
    BY <1>3 DEF LinkMount, NetFSMounts, NetFSRefuses, NetFSFails
  <2> QED
    BY <1>3, <2>2, <2>3, <2>4, <2>5, ZenonT(30) DEF LinkMount, LinkThread, TypeOK, Configured
<1>4. CASE Connected
  <2>1. job \in JobType /\ job.landed \in Spots
    BY <1>4 DEF Connected, TypeOK, AnswersInv
  <2>2. job' \in JobType
    BY <1>4, <2>1 DEF Connected, JobType
  <2>3. /\ tracks' \in [Ids -> Track \cup {None}]
        /\ \A id \in Ids : tracks[id] # None => tracks'[id] # None
    <3> DEFINE t == tracks[job.id]
    <3>1. CASE t = None
      BY <1>4, <3>1 DEF Connected, TypeOK
    <3>2. CASE t # None
      <4>1. t \in Track
        BY <2>1, <3>2 DEF TypeOK, JobType
      <4>2. tracks' = [tracks EXCEPT ![job.id] =
                [t EXCEPT !.mountedAt = job.landed, !.lastAt = job.landed,
                          !.held = None, !.waiting = FALSE]]
        BY <1>4, <3>2 DEF Connected
      <4> QED
        BY <2>1, <4>1, <4>2, TracksStay DEF TypeOK
    <3> QED
      BY <3>1, <3>2
  <2>4. refused' \subseteq Ids /\ ejected' \subseteq Ids
    BY <1>4 DEF Connected, Settle, TypeOK
  <2> QED
    BY <1>4, <2>2, <2>3, <2>4 DEF Connected, LinkThread, TypeOK, Configured
<1>5. CASE Target
  <2>1. job \in JobType
    BY <1>5 DEF Target, TypeOK
  <2>2. job.recorded \in Spots /\ SpotsOf(job.id) \subseteq Spots
    BY <2>1 DEF SpotsOf, MountsOf, TypeOK, Mount, JobType
  <2>3. job' \in JobType
    BY <1>5, <2>1, <2>2 DEF Target, JobType
  <2> QED
    BY <1>5, <2>3 DEF Target, LinkThread, TypeOK, Configured
<1>6. CASE Unmount
  <2>1. job' \in JobType /\ mounts' \subseteq mounts
    BY <1>6 DEF Unmount, TypeOK, JobType
  <2> QED
    BY <1>6, <2>1 DEF Unmount, LinkThread, TypeOK, Configured
<1>7. CASE Released
  <2>1. job' \in JobType
    BY <1>7 DEF Released, TypeOK, JobType
  <2>2. \A id \in Ids :
            \/ tracks'[id] = tracks[id]
            \/ /\ tracks[id] # None
               /\ tracks'[id] = [tracks[id] EXCEPT !.mountedAt = None, !.held = "disconnected"]
    BY <1>7 DEF Released
  <2>3. \A id \in Ids : tracks[id] # None => tracks[id] \in Track
    BY DEF TypeOK
  <2>4. DOMAIN tracks' = Ids /\ tracks' = [id \in Ids |-> tracks'[id]]
    BY <1>7 DEF Released
  <2>5. ASSUME NEW id \in Ids
        PROVE  /\ tracks'[id] \in Track \cup {None}
               /\ tracks[id] # None => tracks'[id] # None
    <3>1. CASE tracks'[id] = tracks[id]
      BY <3>1 DEF TypeOK
    <3>2. CASE /\ tracks[id] # None
               /\ tracks'[id] = [tracks[id] EXCEPT !.mountedAt = None, !.held = "disconnected"]
      BY <2>3, <3>2, TracksStay
    <3> QED
      BY <2>2, <3>1, <3>2
  <2>6. tracks' \in [Ids -> Track \cup {None}]
    BY <2>4, <2>5
  <2>7. UNCHANGED <<world, daemon, inbox, lock, loop, flags, commands, refused, ejected>>
    BY <1>7 DEF Released, LinkThread
  <2> QED
    BY <2>1, <2>5, <2>6, <2>7 DEF TypeOK, Configured
<1>8. CASE ReleaseMounts
  <2>1. job' \in JobType /\ mounts' \subseteq mounts
    BY <1>8 DEF ReleaseMounts, TypeOK, JobType
  <2> QED
    BY <1>8, <2>1 DEF ReleaseMounts, LinkThread, TypeOK, Configured
<1>9. CASE Reply
  <2>1. NoCall \in CallType /\ job \in JobType
    BY <1>9 DEF Reply, TypeOK, NoCall, CallType
  <2>2. call[job.by] \in CallType
    BY <2>1 DEF TypeOK, JobType
  <2>3. [call[job.by] EXCEPT !.stage = "answered", !.landed = job.landed] \in CallType
    BY <2>1, <2>2 DEF CallType, JobType
  <2>4. \/ call' = call
        \/ call' = [call EXCEPT ![job.by] = NoCall]
        \/ call' = [call EXCEPT ![job.by] =
                [call[job.by] EXCEPT !.stage = "answered", !.landed = job.landed]]
    BY <1>9 DEF Reply
  <2>5. call' \in [Handlers -> CallType]
    BY <2>1, <2>3, <2>4 DEF TypeOK
  <2> QED
    BY <1>9, <2>5 DEF Reply, LinkThread, TypeOK, Configured
<1> QED
  BY <1>1, <1>2, <1>3, <1>4, <1>5, <1>6, <1>7, <1>8, <1>9 DEF LinkThread

\* What a look at the mount table, a missing mount or the outcome of a mount
\* leaves behind is a track.
LEMMA LoopTracks ==
    ASSUME TypeOK, NEW id \in Ids, listed[id] # None
    PROVE  /\ Known(id) \in Track
           /\ Missing(id) \in Track
           /\ table[id] # None => Sighted(id) \in Track
           /\ \A t \in Track :
                /\ t.held # None => [t EXCEPT !.status = t.held] \in Track
                /\ [t EXCEPT !.status = "disabled"] \in Track
                /\ pc = "landed" => Outcome(t) \in Track
<1>1. Known(id) \in Track
  BY DEF TypeOK, Known, NoTrack, Track, Holds, Statuses
<1>2. \A t \in Track :
        /\ [t EXCEPT !.mountedAt = None, !.status = "reconnecting"] \in Track
        /\ [t EXCEPT !.mountedAt = None, !.held = "ejected"] \in Track
        /\ [t EXCEPT !.held = "disconnected"] \in Track
  BY DEF Track, Holds, Statuses
<1>3. Missing(id) \in Track
  BY <1>1, <1>2 DEF Missing
<1>4. table[id] # None => Sighted(id) \in Track
  <2> HAVE table[id] # None
  <2>1. table[id] \in Spots
    BY DEF TypeOK
  <2> QED
    BY <1>1, <2>1 DEF Sighted, Track, Holds, Statuses
<1>5. ASSUME NEW t \in Track
      PROVE  /\ t.held # None => [t EXCEPT !.status = t.held] \in Track
             /\ [t EXCEPT !.status = "disabled"] \in Track
             /\ pc = "landed" => Outcome(t) \in Track
  <2>1. [t EXCEPT !.status = "disabled"] \in Track
    BY DEF Track, Holds, Statuses
  <2>2. t.held # None => [t EXCEPT !.status = t.held] \in Track
    BY DEF Track, Holds, Statuses
  <2>3. ASSUME pc = "landed" PROVE Outcome(t) \in Track
    <3>1. landing \in Spots \cup { "refused", "temporary" }
      BY <2>3 DEF TypeOK
    <3>2. CASE landing \in Spots
      BY <3>2 DEF Outcome, Track, Holds, Statuses
    <3>3. CASE landing = "refused"
      BY <3>3 DEF Outcome, Track, Holds, Statuses
    <3>4. CASE landing = "temporary"
      BY <3>4 DEF Outcome, Track, Holds, Statuses
    <3> QED
      BY <3>1, <3>2, <3>3, <3>4
  <2> QED
    BY <2>1, <2>2, <2>3
<1> QED
  BY <1>1, <1>3, <1>4, <1>5

\* A pass of the loop keeps its bookkeeping well typed, and the connection in
\* hand one of those the pass is about.
LEMMA LoopIsTyped == ASSUME TypeOK, Loop PROVE TypeOK'
<1>1. CASE StartPass
  <2>1. /\ flags' \subseteq { "slept", "trouble", "network" }
        /\ window' \in BOOLEAN /\ eager' \in BOOLEAN /\ trouble' \in BOOLEAN
        /\ pc \in { "start", "wait" }
    BY <1>1 DEF StartPass, TypeOK
  <2>2. tracks' \in [Ids -> Track \cup {None}]
    <3>1. DOMAIN tracks' = Ids /\ tracks' = [id \in Ids |-> tracks'[id]]
      BY <1>1 DEF StartPass
    <3>2. ASSUME NEW id \in Ids PROVE tracks'[id] \in Track \cup {None}
      <4>1. \/ tracks'[id] = tracks[id]
            \/ tracks[id] # None /\ tracks'[id] = [tracks[id] EXCEPT !.waiting = FALSE]
        BY <1>1 DEF StartPass
      <4>2. tracks[id] # None => tracks[id] \in Track
        BY DEF TypeOK
      <4> QED
        BY <4>1, <4>2, TracksStay
    <3> QED
      BY <3>1, <3>2
  <2>3. UNCHANGED <<world, daemon, link, listed, lock, table, todo, cur, landing,
                    refused, ejected, commands>> /\ pc' = "list"
    BY <1>1 DEF StartPass, Loop
  <2> QED
    BY <2>1, <2>2, <2>3 DEF TypeOK, Configured
<1>2. CASE ReadList
  <2>1. listed' \in [Ids -> Connection \cup {None}]
    BY <1>2 DEF ReadList, TypeOK
  <2> QED
    BY <1>2, <2>1 DEF ReadList, Loop, TypeOK, Configured
<1>3. CASE ReadTable
  <2>1. table' \in [Ids -> Spots \cup {None}]
    BY <1>3 DEF ReadTable, TableIsRead
  <2>2. /\ todo' = Configured(listed)
        /\ pc' = IF Configured(listed) = {} THEN "report" ELSE "consider"
    BY <1>3 DEF ReadTable
  <2>3. UNCHANGED <<world, daemon, link, listed, lock, cur, landing, trouble, window,
                    eager, tracks, flags, refused, ejected, commands>>
    BY <1>3 DEF ReadTable, Loop
  <2> QED
    BY <2>1, <2>2, <2>3 DEF TypeOK, Configured
<1>4. ASSUME NEW id \in Ids, LeaveAlone(id)
      PROVE  TypeOK'
  <2>1. listed[id] # None
    BY <1>4 DEF LeaveAlone, TypeOK, Configured
  <2>2. tracks' \in [Ids -> Track \cup {None}]
    <3>1. \E t \in Track : tracks' = [tracks EXCEPT ![id] = t]
      <4>1. Missing(id) \in Track /\ (table[id] # None => Sighted(id) \in Track)
        BY <2>1, LoopTracks
      <4>2. LET t == Missing(id) IN
            /\ t.held # None => [t EXCEPT !.status = t.held] \in Track
            /\ [t EXCEPT !.status = "disabled"] \in Track
        BY <2>1, <4>1, LoopTracks
      <4> QED
        BY <1>4, <4>1, <4>2 DEF LeaveAlone
    <3> QED
      BY <3>1 DEF TypeOK
  <2>3. /\ todo' = todo \ {id}
        /\ pc' = IF todo = {id} THEN "report" ELSE "consider"
        /\ pc = "consider"
    BY <1>4 DEF LeaveAlone
  <2>4. UNCHANGED <<world, daemon, link, listed, lock, table, cur, landing, trouble,
                    window, eager, flags, refused, ejected, commands>>
    BY <1>4 DEF LeaveAlone, Loop
  <2> QED
    BY <2>2, <2>3, <2>4 DEF TypeOK, Configured
<1>5. ASSUME NEW id \in Ids, Attempt(id)
      PROVE  TypeOK'
  <2>1. listed[id] # None
    BY <1>5 DEF Attempt, TypeOK, Configured
  <2>2. Missing(id) \in Track /\ Missing(id) # None
    BY <2>1, LoopTracks, TracksStay
  <2>3. tracks' \in [Ids -> Track \cup {None}] /\ tracks'[id] # None
    BY <1>5, <2>2 DEF Attempt, TypeOK
  <2>4. id \in todo /\ cur' = id /\ pc' = "lock"
    BY <1>5 DEF Attempt
  <2>5. UNCHANGED <<world, daemon, link, listed, lock, table, todo, landing, trouble,
                    window, eager, flags, refused, ejected, commands>>
    BY <1>5 DEF Attempt, Loop
  <2> QED
    BY <2>3, <2>4, <2>5 DEF TypeOK, Configured
<1>6. CASE LoopAsk
  <2>1. /\ landing' \in Spots \cup { None, "refused", "temporary" }
        /\ pc' = "landed" => landing' # None
        /\ pc' \in { "landed", "netfs" } /\ pc = "lock"
        /\ lock' \in { None, "loop", "link" }
    <3>1. SpotsOf(cur) \subseteq Spots
      BY DEF SpotsOf, MountsOf, TypeOK, Mount
    <3> QED
      BY <1>6, <3>1 DEF LoopAsk, TypeOK
  <2>2. UNCHANGED <<world, daemon, link, listed, table, todo, cur, trouble, window,
                    eager, tracks, flags, refused, ejected, commands>>
    BY <1>6 DEF LoopAsk, Loop
  <2> QED
    BY <2>1, <2>2 DEF TypeOK, Configured
<1>7. CASE LoopMount
  <2>1. cur \in Ids
    BY <1>7 DEF LoopMount, TypeOK, Configured
  <2>2. mounts' \subseteq Mount
    <3>1. \/ UNCHANGED mounts
          \/ \E spot \in Spots :
                mounts' = mounts \cup {[id |-> cur, spot |-> spot, ours |-> TRUE]}
      BY <1>7 DEF LoopMount, NetFSMounts, NetFSRefuses, NetFSFails
    <3>2. \A spot \in Spots : [id |-> cur, spot |-> spot, ours |-> TRUE] \in Mount
      BY <2>1 DEF Mount
    <3> QED
      BY <3>1, <3>2 DEF TypeOK
  <2>3. refused' \subseteq Ids /\ ejected' \subseteq Ids
    BY <1>7, <2>1 DEF LoopMount, Settle, TypeOK
  <2>4. landing' \in Spots \cup { "refused", "temporary" }
    BY <1>7 DEF LoopMount
  <2>5. pc' = "landed" /\ pc = "netfs" /\ lock' = None
    BY <1>7 DEF LoopMount
  <2>6. UNCHANGED <<up, accepts, daemon, link, listed, table, todo, cur, trouble, window,
                    eager, tracks, flags, commands>>
    BY <1>7 DEF LoopMount, Loop, NetFSMounts, NetFSRefuses, NetFSFails
  <2> QED
    BY <2>2, <2>3, <2>4, <2>5, <2>6 DEF TypeOK, Configured
<1>8. CASE Landed
  <2>1. cur \in Ids /\ listed[cur] # None /\ tracks[cur] \in Track
    BY <1>8 DEF Landed, TypeOK, Configured
  <2>2. tracks' \in [Ids -> Track \cup {None}]
    BY <1>8, <2>1, LoopTracks DEF Landed, TypeOK
  <2>3. /\ todo' = todo \ {cur} /\ cur' = None /\ landing' = None
        /\ pc' = IF todo = {cur} THEN "report" ELSE "consider"
    BY <1>8 DEF Landed
  <2>4. UNCHANGED <<world, daemon, link, listed, lock, table, trouble, window, eager,
                    flags, refused, ejected, commands>>
    BY <1>8 DEF Landed, Loop
  <2> QED
    BY <2>2, <2>3, <2>4 DEF TypeOK, Configured
<1>9. CASE EndPass
  <2>1. tracks' \in [Ids -> Track \cup {None}] /\ table' \in [Ids -> Spots \cup {None}]
    BY <1>9 DEF EndPass, TypeOK, Nothing
  <2>2. pc = "report" /\ pc' = "wait" /\ trouble' = FALSE
    BY <1>9 DEF EndPass
  <2>3. UNCHANGED <<world, daemon, link, listed, lock, todo, cur, landing, window, eager,
                    flags, refused, ejected, commands>>
    BY <1>9 DEF EndPass, Loop
  <2> QED
    BY <2>1, <2>2, <2>3 DEF TypeOK, Configured
<1> QED
  BY <1>1, <1>2, <1>3, <1>4, <1>5, <1>6, <1>7, <1>8, <1>9 DEF Loop

\* A new agent starts from nothing.
LEMMA RestartIsTyped == ASSUME TypeOK, AgentRestarts PROVE TypeOK'
<1>1. call' \in [Handlers -> CallType]
  BY DEF AgentRestarts, TypeOK, NoCall, CallType
<1>2. inbox' \in Seq(RequestType)
  BY DEF AgentRestarts
<1> QED
  BY <1>1, <1>2 DEF AgentRestarts, TypeOK, Nothing, Configured

-----------------------------------------------------------------------------
(***************************************************************************)
(* Answers: a reply reaches only the handler that waits for that request.  *)
(***************************************************************************)

\* A new request, numbered past all the others, matches the call that waits for
\* it, and takes no earlier request's call away.
LEMMA AskMatches ==
    ASSUME TypeOK, AnswersInv, Command,
           NEW h \in Handlers, NEW op \in { "connect", "disconnect", "release" },
           NEW id \in Ids, NEW recorded \in Spots, Ask(h, op, id, recorded),
           job' = job
    PROVE  AnswersInv'
<1>1. commands' = commands + 1 /\ commands \in Nat
  BY DEF Command, TypeOK
<1>2. \A k \in Handlers : call'[k] =
        IF k = h THEN [op |-> op, id |-> id, rid |-> commands', stage |-> "waiting",
                       recorded |-> recorded, landed |-> None] ELSE call[k]
  BY DEF Ask, TypeOK
<1>3. ASSUME NEW r \in JobType, Matches(r, call, commands)
      PROVE  Matches(r, call', commands')
  <2>1. r.by \in Handlers /\ r.rid \in Nat
    BY DEF JobType
  <2>2. r.rid # commands'
    BY <1>1, <1>3, <2>1 DEF Matches
  <2> QED
    BY <1>1, <1>2, <1>3, <2>1, <2>2 DEF Matches
<1> DEFINE new == [op |-> op, id |-> id, by |-> h, rid |-> commands', stage |-> "ask",
                   recorded |-> recorded, targets |-> {}, landed |-> None]
<1>4. new.rid = commands' /\ new.by = h /\ new.op = op
  OBVIOUS
<1>5. Matches(new, call', commands')
  BY <1>1, <1>2, <1>4 DEF Matches
<1>6. \A i \in DOMAIN inbox' : Matches(inbox'[i], call', commands')
  <2>1. inbox' = Append(inbox, new) /\ inbox \in Seq(JobType)
    BY DEF Ask, TypeOK, RequestType
  <2>2. TAKE i \in DOMAIN inbox'
  <2>3. (i \in DOMAIN inbox /\ inbox'[i] = inbox[i]) \/ inbox'[i] = new
    BY <2>1
  <2>4. i \in DOMAIN inbox => inbox[i] \in JobType
    BY <2>1
  <2>5. CASE i \in DOMAIN inbox /\ inbox'[i] = inbox[i]
    <3>1. Matches(inbox[i], call, commands)
      BY <2>5 DEF AnswersInv
    <3> QED
      BY <1>3, <2>4, <2>5, <3>1 DEF Matches
  <2>6. CASE inbox'[i] = new
    BY <1>5, <2>6 DEF Matches
  <2> QED
    BY <2>3, <2>5, <2>6
<1>7. job # None => Matches(job, call', commands')
  BY <1>3 DEF AnswersInv, TypeOK
<1> QED
  BY <1>2, <1>6, <1>7 DEF AnswersInv, Matches

\* A call that stops waiting, or a request that is taken, leaves the others
\* matched.
LEMMA MatchesStay ==
    ASSUME TypeOK, AnswersInv, commands' = commands,
           \A h \in Handlers : call'[h] = call[h] \/ call'[h].stage # "waiting",
           NEW r \in JobType, Matches(r, call, commands)
    PROVE  Matches(r, call', commands')
<1>1. r.by \in Handlers
  BY DEF JobType
<1> QED
  BY <1>1 DEF Matches

\* Everyone but the link thread.
LEMMA OthersAnswer ==
    ASSUME TypeOK, AnswersInv, Next, ~LinkThread
    PROVE  AnswersInv'
<1>1. ASSUME UNCHANGED <<call, inbox, job, commands>>
      PROVE  AnswersInv'
  BY <1>1 DEF AnswersInv, Matches
<1>2. CASE Client
  <2>1. ASSUME NEW id \in Ids, NEW h \in Handlers, NEW op \in { "connect", "disconnect" },
               ConnectOrDisconnect(h, op, id)
        PROVE  AnswersInv'
    <3>1. config[id].recorded \in Spots
      BY <2>1 DEF ConnectOrDisconnect, TypeOK, Connection
    <3> QED
      BY <1>2, <2>1, <3>1, AskMatches DEF ConnectOrDisconnect, Client
  <2>2. ASSUME NEW id \in Ids, NEW h \in Handlers, Remove(h, id)
        PROVE  AnswersInv'
    <3>1. config[id].recorded \in Spots
      BY <2>2 DEF Remove, TypeOK, Connection
    <3> QED
      BY <1>2, <2>2, <3>1, AskMatches DEF Remove, Client
  <2>3. ASSUME NEW id \in Ids, Add(id)
        PROVE  AnswersInv'
    <3>1. UNCHANGED <<call, inbox, job>> /\ commands' = commands + 1
      BY <1>2, <2>3 DEF Add, Client, Command
    <3>2. \A r \in JobType : Matches(r, call, commands) => Matches(r, call', commands')
      BY <3>1 DEF TypeOK, Matches, JobType
    <3>3. \A i \in DOMAIN inbox : inbox[i] \in JobType
      BY DEF TypeOK, RequestType
    <3> QED
      BY <3>1, <3>2, <3>3 DEF AnswersInv, TypeOK
  <2> QED
    BY <1>2, <2>1, <2>2, <2>3 DEF Client
<1>3. ASSUME NEW h \in Handlers, Handler(h)
      PROVE  AnswersInv'
  <2>1. UNCHANGED <<inbox, job, commands>>
    BY <1>3 DEF Handler, GiveUp, Record, RecordWhere
  <2>2. \/ call' = [call EXCEPT ![h] = NoCall]
        \/ /\ call[h].stage = "answered" /\ call[h].op # "disconnect"
           /\ call' = [call EXCEPT ![h] = [call[h] EXCEPT !.stage = "where"]]
    BY <1>3 DEF Handler, GiveUp, Record, RecordWhere, Finish
  <2>3. \A k \in Handlers : call[k] \in CallType
    BY DEF TypeOK
  <2>4. \A k \in Handlers : call'[k] = call[k] \/ call'[k].stage # "waiting"
    BY <2>2, <2>3 DEF TypeOK, NoCall, CallType
  <2>5. \A k \in Handlers :
        /\ call'[k].stage \in { "answered", "where" } =>
                \/ call'[k].op = "connect" /\ call'[k].landed \in Spots
                \/ call'[k].op = "disconnect"
        /\ call'[k].stage = "where" => call'[k].op = "connect"
    <3>1. CASE call' = [call EXCEPT ![h] = NoCall]
      BY <3>1 DEF AnswersInv, TypeOK, NoCall
    <3>2. CASE /\ call[h].stage = "answered" /\ call[h].op # "disconnect"
               /\ call' = [call EXCEPT ![h] = [call[h] EXCEPT !.stage = "where"]]
      <4>1. call[h].op = "connect" /\ call[h].landed \in Spots
        BY <3>2 DEF AnswersInv
      <4>2. /\ call'[h].op = "connect" /\ call'[h].landed = call[h].landed
        BY <2>3, <3>2, <4>1 DEF TypeOK, CallType
      <4>3. \A k \in Handlers : k # h => call'[k] = call[k]
        BY <3>2 DEF TypeOK
      <4> QED
        BY <4>1, <4>2, <4>3 DEF AnswersInv
    <3> QED
      BY <2>2, <3>1, <3>2
  <2>6. /\ \A i \in DOMAIN inbox : inbox[i] \in JobType
        /\ job # None => job \in JobType
    BY DEF TypeOK, RequestType
  <2> QED
    BY <2>1, <2>4, <2>5, <2>6, MatchesStay DEF AnswersInv
<1>4. CASE AgentRestarts
  <2>1. inbox' = <<>> /\ job' = None
    BY <1>4 DEF AgentRestarts
  <2>2. \A h \in Handlers : call'[h] = call[h] \/ call'[h] = NoCall
    BY <1>4 DEF AgentRestarts
  <2> QED
    BY <2>1, <2>2 DEF AnswersInv, NoCall
<1>5. CASE Environment \/ WindowOver \/ Loop
  BY <1>1, <1>5 DEF Environment, WindowOver, Loop
<1>6. CASE \E m \in mounts : Drop(m)
  BY <1>1, <1>6 DEF Drop
<1>7. CASE \E id \in Ids : BackoffOver(id)
  BY <1>1, <1>7 DEF BackoffOver
<1> QED
  BY <1>2, <1>3, <1>4, <1>5, <1>6, <1>7 DEF Next

\* The link thread: a request keeps its number and its command from the inbox to
\* its reply.
LEMMA LinkAnswers ==
    ASSUME TypeOK, AnswersInv, LinkThread
    PROVE  AnswersInv'
<1> USE DEF AtStage
<1>0. commands' = commands
  BY DEF LinkThread
<1>1. CASE TakeRequest
  <2>1. inbox # <<>> /\ inbox \in Seq(RequestType)
    BY <1>1 DEF TakeRequest, TypeOK
  <2>2. job' = inbox[1] /\ job'.stage = "ask"
    BY <1>1, <2>1 DEF TakeRequest, RequestType
  <2>3. \A i \in DOMAIN inbox' : i + 1 \in DOMAIN inbox /\ inbox'[i] = inbox[i + 1]
    BY <1>1, <2>1 DEF TakeRequest
  <2>4. UNCHANGED <<call, commands>> /\ 1 \in DOMAIN inbox
    BY <1>0, <1>1, <2>1 DEF TakeRequest
  <2> QED
    BY <2>2, <2>3, <2>4 DEF AnswersInv
<1>2. ASSUME UNCHANGED <<call, inbox>>, job # None,
             job'.by = job.by, job'.rid = job.rid, job'.op = job.op,
             job'.op = "connect" /\ job'.stage \in { "tell", "done" } => job'.landed \in Spots
      PROVE  AnswersInv'
  BY <1>0, <1>2 DEF AnswersInv, Matches
<1>3. CASE LinkAsk
  <2>1. SpotsOf(job.id) \subseteq Spots /\ job \in JobType
    <3>1. SpotsOf(job.id) \subseteq Spots
      BY DEF SpotsOf, MountsOf, TypeOK, Mount
    <3> QED
      BY <1>3, <3>1 DEF LinkAsk, TypeOK
  <2>2. UNCHANGED <<call, inbox>> /\ job # None
    BY <1>3 DEF LinkAsk
  <2>3. \/ \E spot \in Spots : job' = [job EXCEPT !.stage = "tell", !.landed = spot]
        \/ job' = [job EXCEPT !.stage = "netfs"]
    BY <1>3, <2>1 DEF LinkAsk
  <2> QED
    BY <1>2, <2>1, <2>2, <2>3 DEF JobType
<1>4. CASE LinkMount
  <2>1. UNCHANGED <<call, inbox>> /\ job # None /\ job \in JobType
    BY <1>4 DEF LinkMount, TypeOK
  <2>2. \/ \E spot \in Spots : job' = [job EXCEPT !.stage = "tell", !.landed = spot]
        \/ job' = [job EXCEPT !.stage = "failed"]
    BY <1>4 DEF LinkMount
  <2> QED
    BY <1>2, <2>1, <2>2 DEF JobType
<1>5. CASE Connected
  <2>1. UNCHANGED <<call, inbox>> /\ job # None /\ job \in JobType
    BY <1>5 DEF Connected, TypeOK
  <2>2. job' = [job EXCEPT !.stage = "done"] /\ job.landed \in Spots
    BY <1>5 DEF Connected, AnswersInv
  <2> QED
    BY <1>2, <2>1, <2>2 DEF JobType
<1>6. CASE Target \/ Unmount \/ Released \/ ReleaseMounts
  <2>1. UNCHANGED <<call, inbox>> /\ job # None /\ job \in JobType
    BY <1>6 DEF Target, Unmount, Released, ReleaseMounts, TypeOK
  <2>2. job.op # "connect" /\ job'.by = job.by /\ job'.rid = job.rid /\ job'.op = job.op
    BY <1>6, <2>1 DEF Target, Unmount, Released, ReleaseMounts, JobType
  <2> QED
    BY <1>2, <2>1, <2>2
<1>7. CASE Reply
  <2>1. job \in JobType /\ job' = None /\ inbox' = inbox /\ call[job.by] \in CallType
        /\ job.stage \in { "done", "failed" } /\ job.by \in Handlers /\ job # None
    BY <1>7 DEF Reply, TypeOK, JobType
  <2>2. \/ call' = call
        \/ call' = [call EXCEPT ![job.by] = NoCall]
        \/ /\ call[job.by].rid = job.rid /\ call[job.by].stage = "waiting"
           /\ job.stage # "failed" /\ job.op # "release"
           /\ call' = [call EXCEPT ![job.by] =
                [call[job.by] EXCEPT !.stage = "answered", !.landed = job.landed]]
    BY <1>7 DEF Reply
  <2>3. /\ \A k \in Handlers : k # job.by => call'[k] = call[k]
        /\ \/ call'[job.by] = call[job.by]
           \/ call'[job.by] = NoCall
           \/ /\ call'[job.by].stage = "answered" /\ call'[job.by].op = job.op
              /\ call'[job.by].landed = job.landed /\ job.op # "release"
              /\ job.op = "connect" => job.landed \in Spots
    <3>1. CASE call' = call
      BY <3>1
    <3>2. CASE call' = [call EXCEPT ![job.by] = NoCall]
      BY <2>1, <3>2 DEF TypeOK
    <3>3. CASE /\ call[job.by].rid = job.rid /\ call[job.by].stage = "waiting"
               /\ job.stage # "failed" /\ job.op # "release"
               /\ call' = [call EXCEPT ![job.by] =
                    [call[job.by] EXCEPT !.stage = "answered", !.landed = job.landed]]
      <4>1. call[job.by].op = job.op
        BY <2>1, <3>3 DEF AnswersInv, Matches
      <4>2. job.op = "connect" => job.landed \in Spots
        BY <2>1, <3>3 DEF AnswersInv
      <4>3. /\ call'[job.by] = [call[job.by] EXCEPT !.stage = "answered", !.landed = job.landed]
            /\ \A k \in Handlers : k # job.by => call'[k] = call[k]
        BY <2>1, <3>3 DEF TypeOK
      <4> QED
        BY <2>1, <3>3, <4>1, <4>2, <4>3 DEF CallType
    <3> QED
      BY <2>2, <3>1, <3>2, <3>3
  <2>4. \A k \in Handlers : call'[k] = call[k] \/ call'[k].stage # "waiting"
    BY <2>3 DEF NoCall
  <2>5. \A k \in Handlers :
        /\ call'[k].stage \in { "answered", "where" } =>
                \/ call'[k].op = "connect" /\ call'[k].landed \in Spots
                \/ call'[k].op = "disconnect"
        /\ call'[k].stage = "where" => call'[k].op = "connect"
    BY <2>1, <2>3 DEF AnswersInv, NoCall, JobType
  <2>6. \A i \in DOMAIN inbox : inbox[i] \in JobType
    BY DEF TypeOK, RequestType
  <2> QED
    BY <1>0, <2>1, <2>4, <2>5, <2>6, MatchesStay DEF AnswersInv
<1> QED
  BY <1>1, <1>3, <1>4, <1>5, <1>6, <1>7 DEF LinkThread

\* Every variable keeps its type, and every answer its request, for every set of
\* connections, paths and handler threads, and every bound.
LEMMA TypesHold == Spec => [](TypeOK /\ AnswersInv)
<1>1. Init => TypeOK /\ AnswersInv
  <2>1. ASSUME Init PROVE AnswersInv
    BY <2>1 DEF Init, AnswersInv, NoCall
  <2> QED
    BY <2>1, InitIsTyped
<1>2. TypeOK /\ AnswersInv /\ [Next]_vars => (TypeOK /\ AnswersInv)'
  <2> SUFFICES ASSUME TypeOK, AnswersInv, [Next]_vars
               PROVE  TypeOK' /\ AnswersInv'
    OBVIOUS
  <2>1. CASE UNCHANGED vars
    BY <2>1 DEF vars, TypeOK, Configured, AnswersInv, Matches
  <2>2. CASE Next
    <3>1. TypeOK'
      BY <2>2, EnvironmentIsTyped, ClientIsTyped, HandlerIsTyped, LinkIsTyped, LoopIsTyped,
         RestartIsTyped DEF Next
    <3>2. AnswersInv'
      BY <2>2, OthersAnswer, LinkAnswers
    <3> QED
      BY <3>1, <3>2
  <2> QED
    BY <2>1, <2>2
<1> QED
  BY <1>1, <1>2, PTL DEF Spec

\* The type invariant of the runs, for every value of the constants.
THEOREM TypeCorrect == Spec => []TypeOK
BY TypesHold, PTL

-----------------------------------------------------------------------------
(***************************************************************************)
(* One mount: looking for the share and mounting it are one step of        *)
(* whoever has the lock.                                                   *)
(***************************************************************************)
LinkMounts   == job # None /\ job.op = "connect" /\ job.stage = "netfs"
NoneOurs(id) == \A m \in mounts : m.ours => m.id # id

\* MountedOnce alone is not inductive: whoever is in NetFS has the lock, and SMBPal
\* still has no mount of the share it is mounting.
MountInv ==
    /\ MountedOnce
    /\ pc = "netfs" => lock = "loop" /\ NoneOurs(cur)
    /\ LinkMounts => lock = "link" /\ NoneOurs(job.id)

\* Mounts that go, or that SMBPal did not make, change nothing of this.
LEMMA FewerMounts ==
    ASSUME MountedOnce, \A m \in mounts' : m.ours => m \in mounts
    PROVE  MountedOnce' /\ \A id : NoneOurs(id) => NoneOurs(id)'
BY DEF MountedOnce, NoneOurs

\* A mount of a share that has none is the only one.
LEMMA FirstMount ==
    ASSUME MountedOnce, NEW id \in Ids, NEW spot \in Spots, NoneOurs(id),
           NetFSMounts(id, spot)
    PROVE  MountedOnce'
<1>1. mounts' = mounts \cup {[id |-> id, spot |-> spot, ours |-> TRUE]}
  BY DEF NetFSMounts
<1>2. [id |-> id, spot |-> spot, ours |-> TRUE].id = id
  OBVIOUS
<1> QED
  BY <1>1, <1>2 DEF MountedOnce, NoneOurs

\* A share that is in no row of the mount table has no mount.
LEMMA NoSpotNoMount ==
    ASSUME NEW id, SpotsOf(id) = {}
    PROVE  NoneOurs(id)
BY DEF SpotsOf, MountsOf, NoneOurs

\* The loop: it asks under the lock, and mounts under the same.
LEMMA LoopMountsOnce == ASSUME TypeOK, MountInv, Loop PROVE MountInv'
<1>1. UNCHANGED job
  BY DEF Loop
<1>2. CASE LoopAsk
  <2>1. UNCHANGED <<mounts, cur>> /\ lock = None
    BY <1>2 DEF LoopAsk
  <2>2. ~LinkMounts
    BY <2>1 DEF MountInv
  <2>3. pc' = "netfs" => lock' = "loop" /\ NoneOurs(cur)
    BY <1>2, NoSpotNoMount DEF LoopAsk
  <2> QED
    BY <1>1, <2>1, <2>2, <2>3 DEF MountInv, MountedOnce, LinkMounts, NoneOurs
<1>3. CASE LoopMount
  <2>1. pc = "netfs" /\ pc' = "landed" /\ cur \in Ids
    BY <1>3 DEF LoopMount, TypeOK, Configured
  <2>2. ~LinkMounts
    BY <2>1 DEF MountInv
  <2>3. MountedOnce'
    <3>1. CASE \E spot \in Spots : NetFSMounts(cur, spot)
      BY <2>1, <3>1, FirstMount DEF MountInv
    <3>2. CASE UNCHANGED mounts
      BY <3>2 DEF MountInv, MountedOnce
    <3> QED
      BY <1>3, <3>1, <3>2 DEF LoopMount, NetFSRefuses, NetFSFails
  <2> QED
    BY <1>1, <2>1, <2>2, <2>3 DEF MountInv, LinkMounts
<1>4. ASSUME UNCHANGED <<mounts, lock>>, pc # "netfs", pc' # "netfs"
      PROVE  MountInv'
  BY <1>1, <1>4 DEF MountInv, MountedOnce, LinkMounts, NoneOurs
<1>5. CASE StartPass \/ ReadList \/ ReadTable \/ Landed \/ EndPass
  <2>1. UNCHANGED <<mounts, lock>> /\ pc # "netfs" /\ pc' # "netfs"
    BY <1>5 DEF StartPass, ReadList, ReadTable, Landed, EndPass
  <2> QED
    BY <1>4, <2>1
<1>6. CASE \E id \in Ids : LeaveAlone(id) \/ Attempt(id)
  <2>1. UNCHANGED <<mounts, lock>> /\ pc # "netfs" /\ pc' # "netfs"
    BY <1>6 DEF LeaveAlone, Attempt
  <2> QED
    BY <1>4, <2>1
<1> QED
  BY <1>2, <1>3, <1>5, <1>6 DEF Loop

\* The link thread, in the same way; what it unmounts only goes.
LEMMA LinkMountsOnce == ASSUME TypeOK, MountInv, LinkThread PROVE MountInv'
<1> USE DEF AtStage
<1>1. UNCHANGED <<pc, cur>>
  BY DEF LinkThread
<1>2. CASE LinkAsk
  <2>1. UNCHANGED mounts /\ lock = None
    BY <1>2 DEF LinkAsk
  <2>2. pc # "netfs"
    BY <2>1 DEF MountInv
  <2>3. LinkMounts' => lock' = "link" /\ NoneOurs(job.id) /\ job'.id = job.id
    <3>0. job \in JobType
      BY <1>2 DEF LinkAsk, TypeOK
    <3>1. CASE \E spot \in SpotsOf(job.id) :
                   job' = [job EXCEPT !.stage = "tell", !.landed = spot]
      BY <3>0, <3>1 DEF LinkMounts, JobType
    <3>2. CASE SpotsOf(job.id) = {} /\ lock' = "link" /\ job' = [job EXCEPT !.stage = "netfs"]
      BY <3>0, <3>2, NoSpotNoMount DEF JobType
    <3> QED
      BY <1>2, <3>1, <3>2 DEF LinkAsk
  <2> QED
    BY <1>1, <2>1, <2>2, <2>3 DEF MountInv, MountedOnce, NoneOurs
<1>3. CASE LinkMount
  <2>1. LinkMounts /\ job \in JobType /\ job.id \in Ids
    BY <1>3 DEF LinkMount, LinkMounts, TypeOK, JobType
  <2>2. pc # "netfs" /\ ~LinkMounts'
    <3>1. job'.stage # "netfs"
      BY <1>3, <2>1 DEF LinkMount, JobType
    <3> QED
      BY <2>1, <3>1 DEF MountInv, LinkMounts
  <2>3. MountedOnce'
    <3>1. CASE \E spot \in Spots : NetFSMounts(job.id, spot)
      BY <2>1, <3>1, FirstMount DEF MountInv
    <3>2. CASE UNCHANGED mounts
      BY <3>2 DEF MountInv, MountedOnce
    <3> QED
      BY <1>3, <3>1, <3>2 DEF LinkMount, NetFSRefuses, NetFSFails
  <2> QED
    BY <1>1, <2>2, <2>3 DEF MountInv
<1>4. ASSUME mounts' \subseteq mounts, UNCHANGED lock, ~LinkMounts'
      PROVE  MountInv'
  <2>1. MountedOnce' /\ \A id : NoneOurs(id) => NoneOurs(id)'
    BY <1>4, FewerMounts DEF MountInv
  <2> QED
    BY <1>1, <1>4, <2>1 DEF MountInv, NoneOurs
<1>5. CASE TakeRequest
  <2>1. Head(inbox) \in RequestType
    BY <1>5 DEF TakeRequest, TypeOK
  <2>2. ~LinkMounts'
    BY <1>5, <2>1 DEF TakeRequest, LinkMounts, RequestType
  <2> QED
    BY <1>4, <1>5, <2>2 DEF TakeRequest
<1>6. CASE Connected \/ Target \/ Unmount \/ Released \/ ReleaseMounts
  <2>1. job \in JobType /\ mounts' \subseteq mounts /\ UNCHANGED lock
    BY <1>6 DEF Connected, Target, Unmount, Released, ReleaseMounts, TypeOK
  <2>2. job'.stage # "netfs"
    BY <1>6, <2>1 DEF Connected, Target, Unmount, Released, ReleaseMounts, JobType
  <2> QED
    BY <1>4, <2>1, <2>2 DEF LinkMounts
<1>7. CASE Reply
  BY <1>4, <1>7 DEF Reply, LinkMounts
<1> QED
  BY <1>2, <1>3, <1>5, <1>6, <1>7 DEF LinkThread

\* Everyone else has no part in it: what the Finder mounts is not SMBPal's.
LEMMA OthersMountOnce ==
    ASSUME TypeOK, MountInv, Next, ~Loop, ~LinkThread
    PROVE  MountInv'
<1>1. ASSUME \A m \in mounts' : m.ours => m \in mounts, UNCHANGED <<pc, lock, cur, job>>
      PROVE  MountInv'
  <2>1. MountedOnce' /\ \A id : NoneOurs(id) => NoneOurs(id)'
    BY <1>1, FewerMounts DEF MountInv
  <2> QED
    BY <1>1, <2>1 DEF MountInv, LinkMounts, NoneOurs
<1>2. CASE Environment
  <2>1. UNCHANGED <<pc, lock, cur, job>>
    BY <1>2 DEF Environment
  <2>2. ASSUME NEW id \in Ids, FinderMount(id)
        PROVE  \A m \in mounts' : m.ours => m \in mounts
    BY <2>2 DEF FinderMount
  <2>3. \A m \in mounts' : m.ours => m \in mounts
    BY <1>2, <2>2 DEF Environment, Eject, ServerFlips, PasswordChanges, Explains,
       NetworkChanges
  <2> QED
    BY <1>1, <2>1, <2>3
<1>3. CASE \E m \in mounts : Drop(m)
  BY <1>1, <1>3 DEF Drop
<1>4. CASE AgentRestarts
  BY <1>4 DEF AgentRestarts, MountInv, MountedOnce, LinkMounts
<1>5. CASE \E id \in Ids : BackoffOver(id)
  BY <1>1, <1>5 DEF BackoffOver
<1>6. CASE WindowOver \/ Client
  BY <1>1, <1>6 DEF WindowOver, Client
<1>7. CASE \E h \in Handlers : Handler(h)
  BY <1>1, <1>7 DEF Handler
<1> QED
  BY <1>2, <1>3, <1>4, <1>5, <1>6, <1>7 DEF Next

\* The loop and the link thread never mount one share beside SMBPal's own mount of
\* it, for every set of connections, paths and handlers: "both find a share
\* unmounted and both mount it" (agent/handlers.py) does not happen.
THEOREM MountsAreSingle == Spec => []MountedOnce
<1>1. Init => MountInv
  BY DEF Init, MountInv, MountedOnce, LinkMounts
<1>2. TypeOK /\ MountInv /\ [Next]_vars => MountInv'
  <2> SUFFICES ASSUME TypeOK, MountInv, [Next]_vars PROVE MountInv'
    OBVIOUS
  <2>1. CASE UNCHANGED vars
    BY <2>1 DEF vars, MountInv, MountedOnce, LinkMounts, NoneOurs
  <2> QED
    BY <2>1, LoopMountsOnce, LinkMountsOnce, OthersMountOnce
<1>3. MountInv => MountedOnce
  BY DEF MountInv
<1> QED
  BY <1>1, <1>2, <1>3, TypeCorrect, PTL DEF Spec

-----------------------------------------------------------------------------
(***************************************************************************)
(* A refused credential.                                                   *)
(***************************************************************************)
Held(id) == tracks[id] # None /\ tracks[id].held # None

\* Why a refused share is not tried: its track is held, or is about to be, or the
\* loop has lost sight of a connection that is not configured any more.  What the
\* loop has read of the mount table must agree, or a look would lift the hold.
RefusedInv ==
    /\ \A id \in refused :
        /\ MountsOf(id) = {}
        /\ \/ Held(id) \/ listed[id] = None
           \/ pc = "landed" /\ cur = id /\ landing = "refused"
        /\ listed[id] = None => config[id] = None
        /\ pc \in { "consider", "lock", "netfs", "landed" } => table[id] = None
    /\ pc \in { "lock", "netfs" } => table[cur] = None /\ cur \notin refused

\* Whatever leaves the pass alone and lifts no hold of a share still refused.
LEMMA RefusedStays ==
    ASSUME RefusedInv, refused' \subseteq refused,
           UNCHANGED <<pc, cur, landing, listed, table>>,
           \A id \in refused' :
                /\ MountsOf(id)' \subseteq MountsOf(id)
                /\ Held(id) => Held(id)'
                /\ config[id] = None => config'[id] = None
    PROVE  RefusedInv'
BY DEF RefusedInv

\* A mount of one share is no mount of another.
LEMMA OtherMounts ==
    ASSUME NEW id, NEW m, mounts' \subseteq mounts \cup {m}, m.id # id
    PROVE  MountsOf(id)' \subseteq MountsOf(id)
BY DEF MountsOf

LEMMA FewerMountsOf ==
    ASSUME NEW id, mounts' \subseteq mounts
    PROVE  MountsOf(id)' \subseteq MountsOf(id)
BY DEF MountsOf

\* Everyone but the agent's own threads: what mounts a share settles its refusal.
LEMMA OthersRefuse ==
    ASSUME TypeOK, RefusedInv, Next, ~Loop, ~LinkThread
    PROVE  RefusedInv'
<1>1. ASSUME mounts' \subseteq mounts, refused' \subseteq refused, UNCHANGED <<config, tracks>>,
             UNCHANGED <<pc, cur, landing, listed, table>>
      PROVE  RefusedInv'
  BY <1>1, RefusedStays, FewerMountsOf DEF Held
<1>2. CASE Environment
  <2>1. UNCHANGED <<config, tracks, pc, cur, landing, listed, table>>
    BY <1>2 DEF Environment
  <2>2. ASSUME NEW id \in Ids, FinderMount(id)
        PROVE  RefusedInv'
    <3>1. PICK spot \in Spots :
            mounts' = mounts \cup {[id |-> id, spot |-> spot, ours |-> FALSE]}
      BY <2>2 DEF FinderMount, FreeSpots
    <3>2. refused' = refused \ {id}
      BY <2>2 DEF FinderMount, Settle
    <3>3. \A i \in refused' : MountsOf(i)' \subseteq MountsOf(i)
      BY <3>1, <3>2, OtherMounts
    <3> QED
      BY <2>1, <3>2, <3>3, RefusedStays DEF Held
  <2>3. CASE \E m \in mounts : Eject(m)
    BY <1>1, <2>1, <2>3 DEF Eject
  <2>4. CASE \E id \in Ids : ServerFlips(id) \/ PasswordChanges(id)
    BY <1>1, <2>1, <2>4 DEF ServerFlips, PasswordChanges
  <2>5. CASE NetworkChanges \/ \E flag \in { "slept", "trouble" } : Explains(flag)
    BY <1>1, <2>1, <2>5 DEF NetworkChanges, Explains
  <2> QED
    BY <1>2, <2>2, <2>3, <2>4, <2>5 DEF Environment
<1>3. CASE \E m \in mounts : Drop(m)
  BY <1>1, <1>3 DEF Drop
<1>4. CASE AgentRestarts
  BY <1>4 DEF AgentRestarts, RefusedInv
<1>5. ASSUME NEW id \in Ids, BackoffOver(id)
      PROVE  RefusedInv'
  <2>1. tracks[id] \in Track
    BY <1>5 DEF BackoffOver, TypeOK
  <2>2. [tracks[id] EXCEPT !.waiting = FALSE].held = tracks[id].held
    BY <2>1 DEF Track
  <2>3. \A i \in Ids : Held(i) => Held(i)'
    BY <1>5, <2>1, <2>2, TracksStay DEF BackoffOver, Held, TypeOK
  <2> QED
    BY <1>5, <2>3, RefusedStays, FewerMountsOf DEF BackoffOver, TypeOK
<1>6. CASE WindowOver
  BY <1>1, <1>6 DEF WindowOver
<1>7. CASE Client
  <2>1. UNCHANGED <<mounts, tracks, pc, cur, landing, listed, table>>
    BY <1>7 DEF Client
  <2>2. /\ refused' \subseteq refused
        /\ \A i \in refused' : config[i] = None => config'[i] = None
    <3>1. CASE \E id \in Ids, h \in Handlers, op \in { "connect", "disconnect" } :
                    ConnectOrDisconnect(h, op, id)
      BY <3>1 DEF ConnectOrDisconnect
    <3>2. CASE \E id \in Ids, h \in Handlers : Remove(h, id)
      BY <3>2 DEF Remove, TypeOK
    <3>3. CASE \E id \in Ids : Add(id)
      BY <3>3 DEF Add, Settle, TypeOK
    <3> QED
      BY <1>7, <3>1, <3>2, <3>3 DEF Client
  <2> QED
    BY <2>1, <2>2, RefusedStays, FewerMountsOf DEF Held
<1>8. ASSUME NEW h \in Handlers, Handler(h)
      PROVE  RefusedInv'
  <2>1. UNCHANGED <<mounts, tracks, pc, cur, landing, listed, table, refused>>
    BY <1>8 DEF Handler
  <2>2. \A i \in refused : config[i] = None => config'[i] = None
    BY <1>8 DEF Handler, GiveUp, Record, RecordWhere, TypeOK
  <2> QED
    BY <2>1, <2>2, RefusedStays, FewerMountsOf DEF Held
<1> QED
  BY <1>2, <1>3, <1>4, <1>5, <1>6, <1>7, <1>8 DEF Next

\* The link thread: a connect that lands settles, and what it holds stays held.
LEMMA LinkRefuses == ASSUME TypeOK, RefusedInv, LinkThread PROVE RefusedInv'
<1> USE DEF AtStage
<1>1. UNCHANGED <<config, pc, cur, landing, listed, table>>
  BY DEF LinkThread
<1>2. ASSUME mounts' \subseteq mounts, UNCHANGED <<tracks, refused>>
      PROVE  RefusedInv'
  BY <1>1, <1>2, RefusedStays, FewerMountsOf DEF Held
<1>3. CASE TakeRequest \/ LinkAsk \/ Target \/ Unmount \/ ReleaseMounts \/ Reply
  BY <1>2, <1>3 DEF TakeRequest, LinkAsk, Target, Unmount, ReleaseMounts, Reply
<1>4. CASE LinkMount
  <2>1. CASE \E spot \in Spots : NetFSMounts(job.id, spot) /\ Settle(job.id)
    <3>1. PICK spot \in Spots :
            mounts' = mounts \cup {[id |-> job.id, spot |-> spot, ours |-> TRUE]}
      BY <2>1 DEF NetFSMounts
    <3>2. refused' = refused \ {job.id} /\ UNCHANGED tracks
      BY <1>4, <2>1 DEF LinkMount, Settle
    <3>3. \A i \in refused' : MountsOf(i)' \subseteq MountsOf(i)
      BY <3>1, <3>2, OtherMounts
    <3> QED
      BY <1>1, <3>2, <3>3, RefusedStays DEF Held
  <2>2. CASE UNCHANGED <<mounts, history>>
    BY <1>2, <1>4, <2>2 DEF LinkMount
  <2> QED
    BY <1>4, <2>1, <2>2 DEF LinkMount, NetFSRefuses, NetFSFails
<1>5. CASE Connected
  <2>1. refused' = refused \ {job.id} /\ UNCHANGED mounts
    BY <1>5 DEF Connected, Settle
  <2>2. \A i \in Ids \ {job.id} : tracks'[i] = tracks[i]
    BY <1>5 DEF Connected, TypeOK
  <2> QED
    BY <1>1, <2>1, <2>2, RefusedStays, FewerMountsOf DEF Held, TypeOK
<1>6. CASE Released
  <2>1. UNCHANGED <<mounts, refused>>
    BY <1>6 DEF Released
  <2>2. \A i \in Ids : Held(i) => Held(i)'
    <3>1. \A i \in Ids :
            \/ tracks'[i] = tracks[i]
            \/ /\ tracks[i] # None
               /\ tracks'[i] = [tracks[i] EXCEPT !.mountedAt = None, !.held = "disconnected"]
      BY <1>6 DEF Released
    <3>2. \A t \in Track :
            /\ [t EXCEPT !.mountedAt = None, !.held = "disconnected"].held = "disconnected"
            /\ "disconnected" # None
      BY DEF Track, Holds
    <3>3. \A i \in Ids : tracks[i] # None => tracks[i] \in Track
      BY DEF TypeOK
    <3> QED
      BY <3>1, <3>2, <3>3, TracksStay DEF Held
  <2> QED
    BY <1>1, <2>1, <2>2, RefusedStays, FewerMountsOf DEF TypeOK
<1> QED
  BY <1>3, <1>4, <1>5, <1>6 DEF LinkThread

\* What _consider makes of a share that is not mounted keeps the hold on it.
LEMMA MissingHolds ==
    ASSUME TypeOK, NEW id \in Ids, Held(id)
    PROVE  Missing(id).held # None
<1>1. Known(id) \in Track /\ Known(id).held # None
  BY DEF Known, Held, TypeOK
<1>2. \A t \in Track :
        /\ [t EXCEPT !.mountedAt = None, !.status = "reconnecting"].held = t.held
        /\ [t EXCEPT !.mountedAt = None, !.held = "ejected"].held = "ejected"
        /\ [t EXCEPT !.mountedAt = None, !.status = "reconnecting"] \in Track
        /\ [t EXCEPT !.mountedAt = None, !.held = "ejected"] \in Track
        /\ [t EXCEPT !.held = "disconnected"].held = "disconnected"
  BY DEF Track, Holds, Statuses
<1>3. \E gone \in Track :
        /\ gone.held # None
        /\ Missing(id) = IF listed[id].disconnected
                         THEN [gone EXCEPT !.held = "disconnected"] ELSE gone
  <2> DEFINE known == Known(id)
             gone  == IF known.mountedAt = None THEN known
                      ELSE IF trouble
                      THEN [known EXCEPT !.mountedAt = None, !.status = "reconnecting"]
                      ELSE [known EXCEPT !.mountedAt = None, !.held = "ejected"]
  <2>1. gone \in Track /\ gone.held # None
    BY <1>1, <1>2
  <2>2. Missing(id) = IF listed[id].disconnected
                      THEN [gone EXCEPT !.held = "disconnected"] ELSE gone
    BY DEF Missing
  <2> QED
    BY <2>1, <2>2
<1> QED
  BY <1>2, <1>3

\* The loop: a pass that finds nothing mounted keeps every refusal held, and only
\* the answer of NetFS adds one.
LEMMA LoopRefuses == ASSUME TypeOK, RefusedInv, Loop PROVE RefusedInv'
<1>1. UNCHANGED config
  BY DEF Loop
<1>2. CASE StartPass
  <2>1. UNCHANGED <<mounts, refused, listed, table>> /\ pc' = "list" /\ pc # "landed"
    BY <1>2 DEF StartPass
  <2>2. \A i \in Ids : Held(i) => Held(i)'
    <3>1. \A i \in Ids :
            \/ tracks'[i] = tracks[i]
            \/ tracks[i] # None /\ tracks'[i] = [tracks[i] EXCEPT !.waiting = FALSE]
      BY <1>2 DEF StartPass
    <3>2. \A t \in Track : [t EXCEPT !.waiting = FALSE].held = t.held
      BY DEF Track
    <3>3. \A i \in Ids : tracks[i] # None => tracks[i] \in Track
      BY DEF TypeOK
    <3> QED
      BY <3>1, <3>2, <3>3, TracksStay DEF Held
  <2> QED
    BY <1>1, <2>1, <2>2 DEF RefusedInv, TypeOK, MountsOf
<1>3. CASE ReadList
  <2>1. UNCHANGED <<mounts, refused, tracks, table>> /\ pc = "list" /\ pc' = "table"
    BY <1>3 DEF ReadList
  <2>2. listed' = config \/ listed' = listed
    BY <1>3 DEF ReadList
  <2> QED
    BY <1>1, <2>1, <2>2 DEF RefusedInv, MountsOf, Held
<1>4. CASE ReadTable
  <2>1. UNCHANGED <<mounts, refused, tracks, listed>> /\ pc = "table"
        /\ pc' \in { "report", "consider" }
    BY <1>4 DEF ReadTable
  <2>2. \A i \in refused : table'[i] = None
    <3>1. \A i \in refused : SpotsOf(i) = {} /\ i \in Ids
      BY DEF RefusedInv, SpotsOf, TypeOK
    <3> QED
      BY <1>4, <3>1 DEF ReadTable, TableIsRead
  <2> QED
    BY <1>1, <2>1, <2>2 DEF RefusedInv, MountsOf, Held
<1>5. ASSUME NEW id \in Ids, LeaveAlone(id)
      PROVE  RefusedInv'
  <2>1. UNCHANGED <<mounts, refused, listed, table, cur, landing>> /\ pc = "consider"
        /\ pc' \in { "report", "consider" } /\ listed[id] # None
    BY <1>5 DEF LeaveAlone, TypeOK, Configured
  <2>2. \A i \in Ids \ {id} : tracks'[i] = tracks[i]
    BY <1>5 DEF LeaveAlone, TypeOK
  <2>3. id \in refused => Held(id)'
    <3> HAVE id \in refused
    <3>1. table[id] = None /\ Held(id)
      BY <2>1 DEF RefusedInv
    <3>2. Missing(id).held # None /\ Missing(id) \in Track
      BY <2>1, <3>1, MissingHolds, LoopTracks
    <3>3. tracks' = [tracks EXCEPT ![id] = [Missing(id) EXCEPT !.status = Missing(id).held]]
      BY <1>5, <3>1, <3>2 DEF LeaveAlone
    <3>4. [Missing(id) EXCEPT !.status = Missing(id).held] \in Track
      BY <2>1, <3>2, LoopTracks
    <3>5. [Missing(id) EXCEPT !.status = Missing(id).held].held = Missing(id).held
      BY <3>2 DEF Track
    <3> QED
      BY <3>2, <3>3, <3>4, <3>5, TracksStay DEF Held, TypeOK
  <2> QED
    BY <1>1, <2>1, <2>2, <2>3 DEF RefusedInv, MountsOf, Held, TypeOK
<1>6. ASSUME NEW id \in Ids, Attempt(id)
      PROVE  RefusedInv'
  <2>1. UNCHANGED <<mounts, refused, listed, table, landing>> /\ pc = "consider"
        /\ pc' = "lock" /\ cur' = id /\ table[id] = None /\ listed[id] # None
    BY <1>6 DEF Attempt, TypeOK, Configured
  <2>2. \A i \in Ids \ {id} : tracks'[i] = tracks[i]
    BY <1>6 DEF Attempt, TypeOK
  <2>3. id \notin refused
    <3>1. Missing(id).held = None
      BY <1>6 DEF Attempt
    <3>2. ~Held(id)
      BY <3>1, MissingHolds
    <3> QED
      BY <2>1, <3>2 DEF RefusedInv
  <2> QED
    BY <1>1, <2>1, <2>2, <2>3 DEF RefusedInv, MountsOf, Held, TypeOK
<1>7. CASE LoopAsk
  <2>1. UNCHANGED <<mounts, refused, tracks, listed, table, cur>> /\ pc = "lock"
        /\ pc' \in { "netfs", "landed" }
    BY <1>7 DEF LoopAsk
  <2> QED
    BY <1>1, <2>1 DEF RefusedInv, MountsOf, Held
<1>8. CASE LoopMount
  <2>1. UNCHANGED <<tracks, listed, table, cur>> /\ pc = "netfs" /\ pc' = "landed"
        /\ cur \in Ids /\ listed[cur] # None /\ table[cur] = None
    BY <1>8 DEF LoopMount, TypeOK, Configured, RefusedInv
  <2>2. CASE \E spot \in Spots : NetFSMounts(cur, spot) /\ Settle(cur)
    <3>1. PICK spot \in Spots :
            mounts' = mounts \cup {[id |-> cur, spot |-> spot, ours |-> TRUE]}
      BY <2>2 DEF NetFSMounts
    <3>2. refused' = refused \ {cur}
      BY <2>2 DEF Settle
    <3>3. \A i \in refused' : MountsOf(i)' \subseteq MountsOf(i)
      BY <3>1, <3>2, OtherMounts
    <3> QED
      BY <1>1, <2>1, <3>2, <3>3 DEF RefusedInv, Held
  <2>3. CASE /\ UNCHANGED mounts /\ landing' = "refused"
             /\ refused' = IF MountsOf(cur) = {} THEN refused \cup {cur} ELSE refused
    BY <1>1, <2>1, <2>3 DEF RefusedInv, Held, MountsOf
  <2>4. CASE UNCHANGED <<mounts, refused>>
    BY <1>1, <2>1, <2>4 DEF RefusedInv, Held, MountsOf
  <2> QED
    BY <1>8, <2>2, <2>3, <2>4 DEF LoopMount, NetFSRefuses, NetFSFails
<1>9. CASE Landed
  <2>1. UNCHANGED <<mounts, refused, listed, table>> /\ pc = "landed"
        /\ pc' \in { "report", "consider" } /\ cur \in Ids /\ tracks[cur] \in Track
        /\ listed[cur] # None
    BY <1>9 DEF Landed, TypeOK, Configured
  <2>2. \A i \in Ids \ {cur} : tracks'[i] = tracks[i]
    BY <1>9 DEF Landed, TypeOK
  <2>3. cur \in refused => tracks'[cur] # None /\ tracks'[cur].held # None
    <3> HAVE cur \in refused
    <3>1. Held(cur) \/ landing = "refused"
      BY <2>1 DEF RefusedInv
    <3>2. tracks'[cur] = Outcome(tracks[cur]) /\ tracks'[cur] # None
      BY <1>9, <2>1, LoopTracks, TracksStay DEF Landed, TypeOK
    <3>3. landing \in Spots \cup { "refused", "temporary" }
      BY <2>1 DEF TypeOK
    <3>4. Outcome(tracks[cur]).held = IF landing = "refused" THEN "refused"
                                      ELSE tracks[cur].held
      BY <2>1, <3>3 DEF Outcome, Track
    <3>5. Outcome(tracks[cur]).held # None
      BY <3>1, <3>4 DEF Held
    <3> QED
      BY <3>2, <3>5
  <2>4. \A i \in refused : Held(i)' \/ listed[i] = None
    <3> TAKE i \in refused
    <3>1. i \in Ids
      BY DEF TypeOK
    <3> QED
      BY <2>1, <2>2, <2>3, <3>1 DEF RefusedInv, Held
  <2> QED
    BY <1>1, <2>1, <2>4 DEF RefusedInv, MountsOf
<1>10. CASE EndPass
  <2>1. UNCHANGED <<mounts, refused, listed>> /\ pc = "report" /\ pc' = "wait"
    BY <1>10 DEF EndPass
  <2>2. \A i \in Ids : listed[i] # None => tracks'[i] = tracks[i]
    BY <1>10 DEF EndPass
  <2> QED
    BY <1>1, <2>1, <2>2 DEF RefusedInv, MountsOf, Held, TypeOK
<1> QED
  BY <1>2, <1>3, <1>4, <1>5, <1>6, <1>7, <1>8, <1>9, <1>10 DEF Loop

\* What RefusedIsNotRetried rests on: a refused share is not mounted, and its hold
\* is lifted by no look at the mount table, no wake and no list that was not read.
THEOREM RefusalsAreKept == Spec => []RefusedInv
<1>1. Init => RefusedInv
  BY DEF Init, RefusedInv
<1>2. TypeOK /\ RefusedInv /\ [Next]_vars => RefusedInv'
  <2> SUFFICES ASSUME TypeOK, RefusedInv, [Next]_vars PROVE RefusedInv'
    OBVIOUS
  <2>1. CASE UNCHANGED vars
    BY <2>1 DEF vars, RefusedInv, MountsOf, Held
  <2> QED
    BY <2>1, LoopRefuses, LinkRefuses, OthersRefuse
<1> QED
  BY <1>1, <1>2, TypeCorrect, PTL DEF Spec

\* The loop never tries a refused credential again until somebody mounts the share,
\* connects it or configures it anew, for every interleaving with the daemon's
\* commands, with the Finder, and with lists that could not be read.
THEOREM RefusedIsFinal == Spec => RefusedIsNotRetried
<1>1. RefusedInv /\ [Next]_vars => [pc = "lock" /\ pc' = "netfs" => cur \notin refused]_vars
  BY DEF RefusedInv
<1> QED
  BY <1>1, RefusalsAreKept, PTL DEF Spec, RefusedIsNotRetried

-----------------------------------------------------------------------------
(***************************************************************************)
(* An eject.                                                               *)
(***************************************************************************)
Unsuspected == ~window /\ ~trouble /\ flags \cap { "slept", "trouble" } = {}
Sighting(id) == tracks[id] # None /\ tracks[id].mountedAt # None

\* Why an ejected share is not tried: its track is held, or still says that the
\* share is mounted and will be held when the pass finds that it is not, since
\* nothing has come to explain its absence.
EjectInv ==
    /\ \A id \in ejected :
        /\ MountsOf(id) = {}
        /\ Held(id) \/ Sighting(id) \/ listed[id] = None
        /\ listed[id] = None => config[id] = None
        /\ pc \in { "consider", "lock", "netfs", "landed" } => table[id] = None
    /\ ejected # {} => Unsuspected
    /\ pc \in { "lock", "netfs", "landed" } => cur \notin ejected

\* Whatever leaves the pass alone, explains nothing, and lifts no hold of a share
\* still ejected.
LEMMA EjectStays ==
    ASSUME EjectInv, ejected' \subseteq ejected, UNCHANGED <<pc, cur, listed, table>>,
           ejected' # {} => Unsuspected',
           \A id \in ejected' :
                /\ MountsOf(id)' \subseteq MountsOf(id)
                /\ Held(id) => Held(id)'
                /\ Sighting(id) => Held(id)' \/ Sighting(id)'
                /\ config[id] = None => config'[id] = None
    PROVE  EjectInv'
BY DEF EjectInv

\* The eject that begins it.
LEMMA EjectBegins ==
    ASSUME TypeOK, EjectInv, NEW m \in mounts, Eject(m),
           UNCHANGED <<config, tracks, pc, cur, listed, table, window, trouble>>
    PROVE  EjectInv'
<1>1. CASE ejected' = ejected
  <2>1. mounts' \subseteq mounts /\ UNCHANGED flags
    BY DEF Eject
  <2> QED
    BY <1>1, <2>1, EjectStays, FewerMountsOf DEF Held, Sighting, EjectInv, Unsuspected
<1>2. CASE /\ MountsOf(m.id) = {m} /\ Unexplained /\ listed[m.id] # None
           /\ tracks[m.id] # None /\ tracks[m.id].mountedAt # None
           /\ ejected' = ejected \cup {m.id}
  <2>1. mounts' = mounts \ {m} /\ UNCHANGED flags
    BY DEF Eject
  <2>2. MountsOf(m.id)' = {}
    BY <1>2, <2>1 DEF MountsOf
  <2>3. \A id \in ejected : MountsOf(id)' = {}
    BY <2>1, FewerMountsOf DEF EjectInv
  <2>4. Unsuspected' /\ pc \in { "wait", "list", "table" }
    BY <1>2, <2>1 DEF Unexplained, Unsuspected
  <2> QED
    BY <1>2, <2>2, <2>3, <2>4 DEF EjectInv, Held, Sighting
<1> QED
  BY <1>1, <1>2 DEF Eject

\* Everyone but the agent's own threads: what mounts a share settles the eject, and
\* what explains its absence ends it.
LEMMA OthersEject ==
    ASSUME TypeOK, EjectInv, Next, ~Loop, ~LinkThread
    PROVE  EjectInv'
<1>1. ASSUME mounts' \subseteq mounts, ejected' \subseteq ejected, UNCHANGED <<config, tracks>>,
             UNCHANGED <<pc, cur, listed, table>>, ejected' # {} => Unsuspected'
      PROVE  EjectInv'
  BY <1>1, EjectStays, FewerMountsOf DEF Held, Sighting
<1>2. CASE Environment
  <2>1. UNCHANGED <<config, tracks, pc, cur, listed, table, window, trouble>>
    BY <1>2 DEF Environment
  <2>2. ASSUME NEW id \in Ids, FinderMount(id)
        PROVE  EjectInv'
    <3>1. PICK spot \in Spots :
            mounts' = mounts \cup {[id |-> id, spot |-> spot, ours |-> FALSE]}
      BY <2>2 DEF FinderMount, FreeSpots
    <3>2. ejected' = ejected \ {id} /\ UNCHANGED flags
      BY <2>2 DEF FinderMount, Settle
    <3>3. \A i \in ejected' : MountsOf(i)' \subseteq MountsOf(i)
      BY <3>1, <3>2, OtherMounts
    <3>4. ejected' # {} => Unsuspected'
      BY <2>1, <3>2 DEF EjectInv, Unsuspected
    <3> QED
      BY <2>1, <3>2, <3>3, <3>4, EjectStays DEF Held, Sighting
  <2>3. CASE \E m \in mounts : Eject(m)
    BY <2>1, <2>3, EjectBegins
  <2>4. CASE \E id \in Ids : ServerFlips(id) \/ PasswordChanges(id)
    BY <1>1, <2>1, <2>4 DEF ServerFlips, PasswordChanges, EjectInv, Unsuspected
  <2>5. CASE NetworkChanges
    <3>1. UNCHANGED <<mounts, ejected>> /\ flags' = flags \cup {"network"}
      BY <2>5 DEF NetworkChanges
    <3>2. Unsuspected => Unsuspected'
      BY <2>1, <3>1 DEF Unsuspected
    <3> QED
      BY <1>1, <2>1, <3>1, <3>2 DEF EjectInv
  <2>6. CASE \E flag \in { "slept", "trouble" } : Explains(flag)
    BY <1>1, <2>1, <2>6 DEF Explains
  <2> QED
    BY <1>2, <2>2, <2>3, <2>4, <2>5, <2>6 DEF Environment
<1>3. CASE \E m \in mounts : Drop(m)
  BY <1>1, <1>3 DEF Drop, EjectInv, Unsuspected
<1>4. CASE AgentRestarts
  BY <1>4 DEF AgentRestarts, EjectInv
<1>5. ASSUME NEW id \in Ids, BackoffOver(id)
      PROVE  EjectInv'
  <2>1. tracks[id] \in Track
    BY <1>5 DEF BackoffOver, TypeOK
  <2>2. /\ [tracks[id] EXCEPT !.waiting = FALSE].held = tracks[id].held
        /\ [tracks[id] EXCEPT !.waiting = FALSE].mountedAt = tracks[id].mountedAt
    BY <2>1 DEF Track
  <2>3. \A i \in Ids : (Held(i) => Held(i)') /\ (Sighting(i) => Sighting(i)')
    BY <1>5, <2>1, <2>2, TracksStay DEF BackoffOver, Held, Sighting, TypeOK
  <2>4. UNCHANGED <<mounts, ejected, config, pc, cur, listed, table, window, trouble, flags>>
    BY <1>5 DEF BackoffOver
  <2> QED
    BY <2>3, <2>4, EjectStays, FewerMountsOf DEF TypeOK, EjectInv, Unsuspected
<1>6. CASE WindowOver
  BY <1>1, <1>6 DEF WindowOver, EjectInv, Unsuspected
<1>7. CASE Client
  <2>1. UNCHANGED <<mounts, tracks, pc, cur, listed, table, window, trouble, flags>>
    BY <1>7 DEF Client
  <2>2. /\ ejected' \subseteq ejected
        /\ \A i \in ejected' : config[i] = None => config'[i] = None
    <3>1. CASE \E id \in Ids, h \in Handlers, op \in { "connect", "disconnect" } :
                    ConnectOrDisconnect(h, op, id)
      BY <3>1 DEF ConnectOrDisconnect
    <3>2. CASE \E id \in Ids, h \in Handlers : Remove(h, id)
      BY <3>2 DEF Remove, TypeOK
    <3>3. CASE \E id \in Ids : Add(id)
      BY <3>3 DEF Add, Settle, TypeOK
    <3> QED
      BY <1>7, <3>1, <3>2, <3>3 DEF Client
  <2>3. ejected' # {} => Unsuspected'
    BY <2>1, <2>2 DEF EjectInv, Unsuspected
  <2> QED
    BY <2>1, <2>2, <2>3, EjectStays, FewerMountsOf DEF Held, Sighting
<1>8. ASSUME NEW h \in Handlers, Handler(h)
      PROVE  EjectInv'
  <2>1. UNCHANGED <<mounts, tracks, pc, cur, listed, table, ejected, window, trouble, flags>>
    BY <1>8 DEF Handler
  <2>2. \A i \in ejected : config[i] = None => config'[i] = None
    BY <1>8 DEF Handler, GiveUp, Record, RecordWhere, TypeOK
  <2>3. ejected' # {} => Unsuspected'
    BY <2>1 DEF EjectInv, Unsuspected
  <2> QED
    BY <2>1, <2>2, <2>3, EjectStays, FewerMountsOf DEF Held, Sighting
<1> QED
  BY <1>2, <1>3, <1>4, <1>5, <1>6, <1>7, <1>8 DEF Next

\* The link thread: a connect that lands settles, a disconnect holds.
LEMMA LinkEjects == ASSUME TypeOK, EjectInv, LinkThread PROVE EjectInv'
<1> USE DEF AtStage
<1>1. /\ UNCHANGED <<config, pc, cur, listed, table>>
      /\ Unsuspected => Unsuspected'
  BY DEF LinkThread, Unsuspected
<1>2. ASSUME mounts' \subseteq mounts, UNCHANGED <<tracks, ejected>>
      PROVE  EjectInv'
  BY <1>1, <1>2, EjectStays, FewerMountsOf DEF Held, Sighting, EjectInv
<1>3. CASE TakeRequest \/ LinkAsk \/ Target \/ Unmount \/ ReleaseMounts \/ Reply
  BY <1>2, <1>3 DEF TakeRequest, LinkAsk, Target, Unmount, ReleaseMounts, Reply
<1>4. CASE LinkMount
  <2>1. CASE \E spot \in Spots : NetFSMounts(job.id, spot) /\ Settle(job.id)
    <3>1. PICK spot \in Spots :
            mounts' = mounts \cup {[id |-> job.id, spot |-> spot, ours |-> TRUE]}
      BY <2>1 DEF NetFSMounts
    <3>2. ejected' = ejected \ {job.id} /\ UNCHANGED tracks
      BY <1>4, <2>1 DEF LinkMount, Settle
    <3>3. \A i \in ejected' : MountsOf(i)' \subseteq MountsOf(i)
      BY <3>1, <3>2, OtherMounts
    <3>4. ejected' # {} => Unsuspected'
      BY <1>1, <3>2 DEF EjectInv
    <3> QED
      BY <1>1, <3>2, <3>3, <3>4, EjectStays DEF Held, Sighting
  <2>2. CASE UNCHANGED <<mounts, history>>
    BY <1>2, <1>4, <2>2 DEF LinkMount
  <2> QED
    BY <1>4, <2>1, <2>2 DEF LinkMount, NetFSRefuses, NetFSFails
<1>5. CASE Connected
  <2>1. ejected' = ejected \ {job.id} /\ UNCHANGED mounts
    BY <1>5 DEF Connected, Settle
  <2>2. \A i \in Ids \ {job.id} : tracks'[i] = tracks[i]
    BY <1>5 DEF Connected, TypeOK
  <2>3. ejected' # {} => Unsuspected'
    BY <1>1, <2>1 DEF EjectInv
  <2> QED
    BY <1>1, <2>1, <2>2, <2>3, EjectStays, FewerMountsOf DEF Held, Sighting, TypeOK
<1>6. CASE Released
  <2>1. UNCHANGED <<mounts, ejected>>
    BY <1>6 DEF Released
  <2>2. \A i \in Ids : tracks'[i] = tracks[i] \/ Held(i)'
    <3>1. \A i \in Ids :
            \/ tracks'[i] = tracks[i]
            \/ /\ tracks[i] # None
               /\ tracks'[i] = [tracks[i] EXCEPT !.mountedAt = None, !.held = "disconnected"]
      BY <1>6 DEF Released
    <3>2. \A t \in Track :
            /\ [t EXCEPT !.mountedAt = None, !.held = "disconnected"].held = "disconnected"
            /\ "disconnected" # None
      BY DEF Track, Holds
    <3>3. \A i \in Ids : tracks[i] # None => tracks[i] \in Track
      BY DEF TypeOK
    <3> QED
      BY <3>1, <3>2, <3>3, TracksStay DEF Held
  <2>3. \A i \in Ids : (Held(i) => Held(i)') /\ (Sighting(i) => Held(i)' \/ Sighting(i)')
    BY <2>2 DEF Held, Sighting
  <2> QED
    BY <1>1, <2>1, <2>3, EjectStays, FewerMountsOf DEF TypeOK, EjectInv
<1> QED
  BY <1>3, <1>4, <1>5, <1>6 DEF LinkThread

\* What _consider makes of a mount that has disappeared while nothing explains it.
LEMMA MissingEjects ==
    ASSUME TypeOK, NEW id \in Ids, Sighting(id), ~trouble
    PROVE  Missing(id).held # None
<1>1. Known(id) \in Track /\ Known(id).mountedAt # None
  BY DEF Known, Sighting, TypeOK
<1> DEFINE gone == [Known(id) EXCEPT !.mountedAt = None, !.held = "ejected"]
<1>2. gone \in Track /\ gone.held = "ejected"
  BY <1>1 DEF Track, Holds
<1>3. [gone EXCEPT !.held = "disconnected"].held = "disconnected"
  BY <1>2 DEF Track
<1>4. Missing(id) = IF listed[id].disconnected
                    THEN [gone EXCEPT !.held = "disconnected"] ELSE gone
  BY <1>1 DEF Missing
<1> QED
  BY <1>2, <1>3, <1>4

\* The loop: a pass that finds an ejected share not mounted holds it, and tries
\* nothing that is ejected.
LEMMA LoopEjects == ASSUME TypeOK, EjectInv, Loop PROVE EjectInv'
<1>1. UNCHANGED config
  BY DEF Loop
<1>0. ASSUME NEW id \in ejected, id \in todo, pc = "consider"
      PROVE  Missing(id).held # None /\ table[id] = None
  <2>1. listed[id] # None /\ id \in Ids
    BY <1>0 DEF TypeOK, Configured
  <2>2. Held(id) \/ Sighting(id)
    BY <2>1 DEF EjectInv
  <2>3. ~trouble /\ table[id] = None
    BY <1>0 DEF EjectInv, Unsuspected
  <2> QED
    BY <2>1, <2>2, <2>3, MissingHolds, MissingEjects
<1>2. CASE StartPass
  <2>1. UNCHANGED <<mounts, ejected, listed, table>> /\ pc' = "list"
    BY <1>2 DEF StartPass
  <2>2. \A i \in Ids : (Held(i) => Held(i)') /\ (Sighting(i) => Sighting(i)')
    <3>1. \A i \in Ids :
            \/ tracks'[i] = tracks[i]
            \/ tracks[i] # None /\ tracks'[i] = [tracks[i] EXCEPT !.waiting = FALSE]
      BY <1>2 DEF StartPass
    <3>2. \A t \in Track : /\ [t EXCEPT !.waiting = FALSE].held = t.held
                           /\ [t EXCEPT !.waiting = FALSE].mountedAt = t.mountedAt
      BY DEF Track
    <3>3. \A i \in Ids : tracks[i] # None => tracks[i] \in Track
      BY DEF TypeOK
    <3> QED
      BY <3>1, <3>2, <3>3, TracksStay, ZenonT(30) DEF Held, Sighting
  <2>3. Unsuspected => Unsuspected'
    <3> HAVE Unsuspected
    <3>1. /\ flags' \subseteq flags
          /\ window' = (window \/ (IF pc = "start" THEN {} ELSE flags)
                                    \cap { "slept", "trouble" } # {})
          /\ trouble' = window'
      BY <1>2 DEF StartPass
    <3> QED
      BY <3>1 DEF Unsuspected
  <2> QED
    BY <1>1, <2>1, <2>2, <2>3 DEF EjectInv, TypeOK, MountsOf
<1>3. CASE ReadList
  <2>1. UNCHANGED <<mounts, ejected, tracks, table>> /\ pc = "list" /\ pc' = "table"
    BY <1>3 DEF ReadList
  <2>2. listed' = config \/ listed' = listed
    BY <1>3 DEF ReadList
  <2>3. Unsuspected => Unsuspected'
    BY <1>3 DEF ReadList, Unsuspected
  <2> QED
    BY <1>1, <2>1, <2>2, <2>3 DEF EjectInv, MountsOf, Held, Sighting
<1>4. CASE ReadTable
  <2>1. UNCHANGED <<mounts, ejected, tracks, listed>> /\ pc' \in { "report", "consider" }
    BY <1>4 DEF ReadTable
  <2>2. \A i \in ejected : table'[i] = None
    <3>1. \A i \in ejected : SpotsOf(i) = {} /\ i \in Ids
      BY DEF EjectInv, SpotsOf, TypeOK
    <3> QED
      BY <1>4, <3>1 DEF ReadTable, TableIsRead
  <2>3. Unsuspected => Unsuspected'
    BY <1>4 DEF ReadTable, Unsuspected
  <2> QED
    BY <1>1, <2>1, <2>2, <2>3 DEF EjectInv, MountsOf, Held, Sighting
<1>5. ASSUME NEW id \in Ids, LeaveAlone(id)
      PROVE  EjectInv'
  <2>1. UNCHANGED <<mounts, ejected, listed, table, cur>> /\ pc = "consider"
        /\ pc' \in { "report", "consider" } /\ id \in todo /\ listed[id] # None
    BY <1>5 DEF LeaveAlone, TypeOK, Configured
  <2>2. \A i \in Ids \ {id} : tracks'[i] = tracks[i]
    BY <1>5 DEF LeaveAlone, TypeOK
  <2>3. id \in ejected => Held(id)'
    <3> HAVE id \in ejected
    <3>1. table[id] = None /\ Missing(id).held # None /\ Missing(id) \in Track
      BY <1>0, <2>1, LoopTracks
    <3>2. tracks' = [tracks EXCEPT ![id] = [Missing(id) EXCEPT !.status = Missing(id).held]]
      BY <1>5, <3>1 DEF LeaveAlone
    <3>3. [Missing(id) EXCEPT !.status = Missing(id).held] \in Track
      BY <2>1, <3>1, LoopTracks
    <3>4. [Missing(id) EXCEPT !.status = Missing(id).held].held = Missing(id).held
      BY <3>1 DEF Track
    <3> QED
      BY <3>1, <3>2, <3>3, <3>4, TracksStay DEF Held, TypeOK
  <2>4. Unsuspected => Unsuspected'
    BY <1>5 DEF LeaveAlone, Unsuspected
  <2> QED
    BY <1>1, <2>1, <2>2, <2>3, <2>4 DEF EjectInv, MountsOf, Held, Sighting, TypeOK
<1>6. ASSUME NEW id \in Ids, Attempt(id)
      PROVE  EjectInv'
  <2>1. UNCHANGED <<mounts, ejected, listed, table>> /\ pc = "consider"
        /\ pc' = "lock" /\ cur' = id /\ id \in todo /\ Missing(id).held = None
    BY <1>6 DEF Attempt
  <2>2. \A i \in Ids \ {id} : tracks'[i] = tracks[i]
    BY <1>6 DEF Attempt, TypeOK
  <2>3. id \notin ejected
    BY <1>0, <2>1
  <2>4. Unsuspected => Unsuspected'
    BY <1>6 DEF Attempt, Unsuspected
  <2> QED
    BY <1>1, <2>1, <2>2, <2>3, <2>4 DEF EjectInv, MountsOf, Held, Sighting, TypeOK
<1>7. CASE LoopAsk
  <2>1. UNCHANGED <<mounts, ejected, tracks, listed, table, cur>> /\ pc = "lock"
        /\ pc' \in { "netfs", "landed" }
    BY <1>7 DEF LoopAsk
  <2>2. Unsuspected => Unsuspected'
    BY <1>7 DEF LoopAsk, Unsuspected
  <2> QED
    BY <1>1, <2>1, <2>2 DEF EjectInv, MountsOf, Held, Sighting
<1>8. CASE LoopMount
  <2>1. UNCHANGED <<tracks, listed, table, cur>> /\ pc = "netfs" /\ pc' = "landed"
    BY <1>8 DEF LoopMount
  <2>2. Unsuspected => Unsuspected'
    BY <1>8 DEF LoopMount, Unsuspected
  <2>3. CASE \E spot \in Spots : NetFSMounts(cur, spot) /\ Settle(cur)
    <3>1. PICK spot \in Spots :
            mounts' = mounts \cup {[id |-> cur, spot |-> spot, ours |-> TRUE]}
      BY <2>3 DEF NetFSMounts
    <3>2. ejected' = ejected \ {cur}
      BY <2>3 DEF Settle
    <3>3. \A i \in ejected' : MountsOf(i)' \subseteq MountsOf(i)
      BY <3>1, <3>2, OtherMounts
    <3> QED
      BY <1>1, <2>1, <2>2, <3>2, <3>3 DEF EjectInv, Held, Sighting
  <2>4. CASE UNCHANGED <<mounts, ejected>>
    BY <1>1, <2>1, <2>2, <2>4 DEF EjectInv, Held, Sighting, MountsOf
  <2> QED
    BY <1>8, <2>3, <2>4 DEF LoopMount, NetFSRefuses, NetFSFails
<1>9. CASE Landed
  <2>1. UNCHANGED <<mounts, ejected, listed, table>> /\ pc = "landed"
        /\ pc' \in { "report", "consider" } /\ cur \in Ids
    BY <1>9 DEF Landed, TypeOK, Configured
  <2>2. \A i \in Ids \ {cur} : tracks'[i] = tracks[i]
    BY <1>9 DEF Landed, TypeOK
  <2>3. cur \notin ejected
    BY <2>1 DEF EjectInv
  <2>4. Unsuspected => Unsuspected'
    BY <1>9 DEF Landed, Unsuspected
  <2> QED
    BY <1>1, <2>1, <2>2, <2>3, <2>4 DEF EjectInv, MountsOf, Held, Sighting, TypeOK
<1>10. CASE EndPass
  <2>1. UNCHANGED <<mounts, ejected, listed>> /\ pc = "report" /\ pc' = "wait"
    BY <1>10 DEF EndPass
  <2>2. \A i \in Ids : listed[i] # None => tracks'[i] = tracks[i]
    BY <1>10 DEF EndPass
  <2>3. Unsuspected => Unsuspected'
    BY <1>10 DEF EndPass, Unsuspected
  <2> QED
    BY <1>1, <2>1, <2>2, <2>3 DEF EjectInv, MountsOf, Held, Sighting, TypeOK
<1> QED
  BY <1>2, <1>3, <1>4, <1>5, <1>6, <1>7, <1>8, <1>9, <1>10 DEF Loop

\* What EjectIsHeld rests on: until something explains its absence, an ejected share
\* is unmounted, and held or about to be.
THEOREM EjectsAreKept == Spec => []EjectInv
<1>1. Init => EjectInv
  BY DEF Init, EjectInv
<1>2. TypeOK /\ EjectInv /\ [Next]_vars => EjectInv'
  <2> SUFFICES ASSUME TypeOK, EjectInv, [Next]_vars PROVE EjectInv'
    OBVIOUS
  <2>1. CASE UNCHANGED vars
    BY <2>1 DEF vars, EjectInv, MountsOf, Held, Sighting, Unsuspected
  <2> QED
    BY <2>1, LoopEjects, LinkEjects, OthersEject
<1> QED
  BY <1>1, <1>2, TypeCorrect, PTL DEF Spec

\* A share somebody ejected is not mounted by the loop again until somebody mounts or
\* connects it, or a sleep or a server's trouble may explain that it went, wherever in
\* a pass the eject falls and whatever the daemon's list says meanwhile.
THEOREM EjectIsFinal == Spec => EjectIsHeld
<1>1. EjectInv /\ [Next]_vars => [pc = "lock" /\ pc' = "netfs" => cur \notin ejected]_vars
  BY DEF EjectInv
<1> QED
  BY <1>1, EjectsAreKept, PTL DEF Spec, EjectIsHeld
=============================================================================
