---------------------------- MODULE LinksProofs ----------------------------
(***************************************************************************)
(* Theorems about Links, for any number of handlers and every bound: what  *)
(* the registry names is served, and every step of the link, the daemon,   *)
(* its handlers and the restarts is a step of AgentCall or none at all.    *)
(***************************************************************************)
EXTENDS Links, SequenceTheorems, TLAPS

USE BoundsAssumption DEF Conns, Requests, Reports

-----------------------------------------------------------------------------
(***************************************************************************)
(* The inductive invariant, in parts.                                      *)
(***************************************************************************)
\* What may be in a queue, or in hand, once: a request, and either half of a
\* registration.
Marked(f) == f.op \in {"request", "register", "registered"}
Mark(f)   == IF f.op = "request" THEN f.of ELSE None
Marks(q)  == {Mark(q[i]) : i \in {j \in DOMAIN q : Marked(q[j])}}
NoRepeat(q) ==
    \A i, j \in DOMAIN q : (i # j /\ Marked(q[i]) /\ Marked(q[j])) => Mark(q[i]) # Mark(q[j])

\* The agent has made no connection past the last, and nothing is on it.
EndsInv == \A c \in Conns : c > dials => ~agentEnd[c] /\ downward[c] = <<>>

\* A connection registers once: the agent asks, the daemon is about to answer,
\* the answer is on its way, or it has been read.
Joined(c) == client = c /\ pc \notin {"dial", "register"}
RegistersOnce(c) ==
    /\ NoRepeat(upward[c])
    /\ None \in Marks(upward[c]) =>
          reader[c].pc # "welcome" /\ None \notin Marks(downward[c]) /\ ~Joined(c)
    /\ reader[c].pc = "welcome" => None \notin Marks(downward[c]) /\ ~Joined(c)
    /\ None \in Marks(downward[c]) => ~Joined(c)
WelcomeInv == \A c \in Conns : RegistersOnce(c)

\* A connection the registry names is one its reader serves, in a daemon that is up.
RegistryInv ==
    /\ \A c \in Conns : reader[c].pc # "gone" => daemonUp
    /\ RegisteredIsServed

\* Each handler that asks has an entry of its own in the table.
Asking == {h \in Handlers : caller[h].pc # "idle"}
TableInv ==
    /\ \A h \in Asking :
          /\ caller[h].of <= requests /\ caller[h].rid <= counter
          /\ pending[caller[h].rid] # None
          /\ outcome[caller[h].of] = "waiting" /\ heard[caller[h].of] = None
    /\ \A h, g \in Asking : h # g => caller[h].of # caller[g].of /\ caller[h].rid # caller[g].rid
    /\ \A r \in Requests : r > requests => outcome[r] = "waiting" /\ heard[r] = None /\ runs[r] = 0

\* A request is in one place until it is performed: with the handler that sends
\* it, on a wire, kept by a link that registers, or in the link thread's hand.
OnWire(c)  == Marks(downward[c]) \ {None}
Kept       == Marks(early)
InHand     == IF pc = "perform" THEN {hand.of} ELSE {}
Leaving(h) == IF caller[h].pc = "send" THEN {caller[h].of} ELSE {}
Unperformed == {r \in Requests : r <= requests /\ runs[r] = 0}
OnceInv ==
    /\ NoRepeat(early) /\ \A c \in Conns : NoRepeat(downward[c])
    /\ Kept \union InHand \subseteq Unperformed /\ Kept \intersect InHand = {}
    /\ \A c \in Conns : /\ OnWire(c) \subseteq Unperformed
                        /\ OnWire(c) \intersect (Kept \union InHand) = {}
    /\ \A c, d \in Conns : c # d => OnWire(c) \intersect OnWire(d) = {}
    /\ \A h \in Handlers : /\ Leaving(h) \subseteq Unperformed
                           /\ Leaving(h) \intersect (Kept \union InHand) = {}
                           /\ \A c \in Conns : OnWire(c) \intersect Leaving(h) = {}
    /\ \A h, g \in Handlers : h # g => Leaving(h) \intersect Leaving(g) = {}

\* What goes by a number on a connection that the daemon holds is of the request
\* that has this number in the daemon's table, if any has it still; and what is
\* answered has been performed.
Matches(f) ==
    /\ f.rid \in 1..counter
    /\ \A h \in Asking : caller[h].rid = f.rid => caller[h].of = f.of
AnswerInv(f) == Matches(f) /\ runs[f.of] = 1
DownNumbers ==
    \A c \in Conns : daemonEnd[c] =>
        \A f \in Range(downward[c]) : f.op = "request" => Matches(f)
HandNumbers ==
    /\ \A c \in Conns : daemonEnd[c] /\ client = c =>
          /\ \A f \in Range(early) : Matches(f)
          /\ pc \in {"perform", "answer"} => Matches(hand)
    /\ pc = "answer" => runs[hand.of] = 1
ReplyNumbers ==
    \A c \in Conns : /\ \A f \in Range(upward[c]) : f.op = "reply" => AnswerInv(f)
                     /\ reader[c].pc = "deliver" => AnswerInv(reader[c].arg)
HeardNumbers ==
    \A h \in Asking : LET got == pending[caller[h].rid].got IN
        got # None => got = caller[h].of /\ runs[got] = 1
NumberInv == DownNumbers /\ HandNumbers /\ ReplyNumbers /\ HeardNumbers

LinkInv == TypeOK /\ EndsInv /\ WelcomeInv /\ RegistryInv /\ TableInv /\ OnceInv /\ NumberInv
-----------------------------------------------------------------------------
(***************************************************************************)
(* Queues: what is in them, and what is in them once.                      *)
(***************************************************************************)
\* Nothing is in an empty queue.
LEMMA QueueEmpty == Marks(<<>>) = {} /\ NoRepeat(<<>>) /\ Range(<<>>) = {}
  BY DEF Marks, NoRepeat, Range

\* A frame joins a queue.
LEMMA QueueAppend ==
    ASSUME NEW S, NEW q \in Seq(S), NEW f \in S
    PROVE  /\ Range(Append(q, f)) = Range(q) \cup {f}
           /\ Marks(Append(q, f)) = Marks(q) \cup (IF Marked(f) THEN {Mark(f)} ELSE {})
           /\ NoRepeat(q) /\ (Marked(f) => Mark(f) \notin Marks(q)) => NoRepeat(Append(q, f))
<1> DEFINE a == Append(q, f)
           n == Len(q) + 1
<1>1. /\ DOMAIN q = 1..Len(q) /\ Len(q) \in Nat /\ DOMAIN a = 1..n
      /\ a[n] = f /\ \A i \in 1..Len(q) : a[i] = q[i]
  BY AppendProperties, LenProperties
<1>2. DOMAIN a = DOMAIN q \cup {n} /\ n \notin DOMAIN q
  BY <1>1
<1> HIDE DEF a, n
<1>3. \A i \in DOMAIN q : a[i] = q[i]
  BY <1>1
<1>4. Range(a) = Range(q) \cup {f}
  <2>1. \A x \in Range(a) : x \in Range(q) \cup {f}
    BY <1>1, <1>2, <1>3 DEF Range
  <2>2. \A x \in Range(q) \cup {f} : x \in Range(a)
    BY <1>1, <1>2, <1>3 DEF Range
  <2> QED
    BY <2>1, <2>2
<1>5. Marks(a) = Marks(q) \cup (IF Marked(f) THEN {Mark(f)} ELSE {})
  <2>1. ASSUME NEW m \in Marks(a) PROVE m \in Marks(q) \cup (IF Marked(f) THEN {Mark(f)} ELSE {})
    <3>1. PICK i \in DOMAIN a : Marked(a[i]) /\ m = Mark(a[i])
      BY DEF Marks
    <3>2. CASE i \in DOMAIN q
      BY <1>3, <3>1, <3>2 DEF Marks
    <3>3. CASE i = n
      BY <1>1, <3>1, <3>3
    <3> QED
      BY <1>2, <3>2, <3>3
  <2>2. ASSUME NEW m \in Marks(q) PROVE m \in Marks(a)
    <3>1. PICK i \in DOMAIN q : Marked(q[i]) /\ m = Mark(q[i])
      BY DEF Marks
    <3>2. i \in DOMAIN a /\ Marked(a[i]) /\ m = Mark(a[i])
      BY <1>2, <1>3, <3>1
    <3> QED
      BY <3>2 DEF Marks
  <2>3. Marked(f) => Mark(f) \in Marks(a)
    BY <1>1, <1>2 DEF Marks
  <2> QED
    BY <2>1, <2>2, <2>3
<1>6. ASSUME NoRepeat(q), Marked(f) => Mark(f) \notin Marks(q)
      PROVE  NoRepeat(a)
  <2>1. SUFFICES ASSUME NEW i \in DOMAIN a, NEW j \in DOMAIN a, i # j,
                        Marked(a[i]), Marked(a[j])
                 PROVE  Mark(a[i]) # Mark(a[j])
    BY Zenon DEF NoRepeat
  <2>2. \A k \in DOMAIN q : Marked(q[k]) => Mark(q[k]) \in Marks(q)
    BY DEF Marks
  <2>3. CASE i \in DOMAIN q /\ j \in DOMAIN q
    <3>1. Mark(q[i]) # Mark(q[j])
      BY <1>3, <1>6, <2>1, <2>3, Zenon DEF NoRepeat
    <3> QED
      BY <1>3, <2>3, <3>1
  <2>4. CASE i = n /\ j \in DOMAIN q
    BY <1>1, <1>3, <1>6, <2>1, <2>2, <2>4
  <2>5. CASE j = n /\ i \in DOMAIN q
    BY <1>1, <1>3, <1>6, <2>1, <2>2, <2>5
  <2> QED
    BY <1>2, <2>1, <2>3, <2>4, <2>5
<1> QED
  BY <1>4, <1>5, <1>6 DEF a

\* A frame is taken from a queue.
LEMMA QueueTail ==
    ASSUME NEW S, NEW q \in Seq(S), q # <<>>
    PROVE  /\ Head(q) \in S /\ Head(q) \in Range(q) /\ Range(Tail(q)) \subseteq Range(q)
           /\ Tail(q) \in Seq(S) /\ Marks(Tail(q)) \subseteq Marks(q)
           /\ Marked(Head(q)) => Mark(Head(q)) \in Marks(q)
           /\ NoRepeat(q) => /\ NoRepeat(Tail(q))
                             /\ Marked(Head(q)) => Mark(Head(q)) \notin Marks(Tail(q))
<1> DEFINE t == Tail(q)
<1>1. /\ Len(q) \in Nat /\ Len(q) > 0 /\ DOMAIN q = 1..Len(q)
      /\ DOMAIN t = 1..(Len(q) - 1)
      /\ Head(q) = q[1] /\ Head(q) \in S /\ t \in Seq(S)
      /\ \A i \in 1..(Len(q) - 1) : t[i] = q[i + 1]
  BY HeadTailProperties, LenProperties, EmptySeq
<1> HIDE DEF t
<1>2. /\ 1 \in DOMAIN q
      /\ \A i \in DOMAIN t : i + 1 \in DOMAIN q /\ i + 1 # 1 /\ t[i] = q[i + 1]
      /\ \A i, j \in DOMAIN t : i # j => i + 1 # j + 1
  BY <1>1
<1>3. Head(q) \in Range(q) /\ Range(t) \subseteq Range(q)
  BY <1>1, <1>2, ZenonT(30) DEF Range
<1>4. Marks(t) \subseteq Marks(q) /\ (Marked(Head(q)) => Mark(Head(q)) \in Marks(q))
  BY <1>1, <1>2, ZenonT(30) DEF Marks
<1>5. ASSUME NoRepeat(q)
      PROVE  NoRepeat(t) /\ (Marked(Head(q)) => Mark(Head(q)) \notin Marks(t))
  <2>1. NoRepeat(t)
    <3>1. SUFFICES ASSUME NEW i \in DOMAIN t, NEW j \in DOMAIN t, i # j,
                          Marked(t[i]), Marked(t[j])
                   PROVE  Mark(t[i]) # Mark(t[j])
      BY Zenon DEF NoRepeat
    <3>2. /\ i + 1 \in DOMAIN q /\ j + 1 \in DOMAIN q /\ i + 1 # j + 1
          /\ t[i] = q[i + 1] /\ t[j] = q[j + 1]
      BY <1>2, <3>1
    <3> QED
      BY <1>5, <3>1, <3>2, Zenon DEF NoRepeat
  <2>2. ASSUME Marked(Head(q)), Mark(Head(q)) \in Marks(t) PROVE FALSE
    <3>1. PICK i \in DOMAIN t : Marked(t[i]) /\ Mark(Head(q)) = Mark(t[i])
      BY <2>2, Zenon DEF Marks
    <3>2. i + 1 \in DOMAIN q /\ i + 1 # 1 /\ t[i] = q[i + 1] /\ 1 \in DOMAIN q
      BY <1>2
    <3> QED
      BY <1>1, <1>5, <2>2, <3>1, <3>2, Zenon DEF NoRepeat
  <2> QED
    BY <2>1, <2>2
<1> QED
  BY <1>1, <1>3, <1>4, <1>5 DEF t

\* What is marked in a queue is one of its frames, and the other way round.
LEMMA MarksAreFrames ==
    ASSUME NEW q
    PROVE  /\ \A f \in Range(q) : Marked(f) => Mark(f) \in Marks(q)
           /\ \A m \in Marks(q) : \E f \in Range(q) : Marked(f) /\ Mark(f) = m
  BY Zenon DEF Marks, Range

-----------------------------------------------------------------------------
(***************************************************************************)
(* Types.                                                                  *)
(***************************************************************************)
\* The initial state is of its type.
LEMMA InitTypes == Init => TypeOK
<1> SUFFICES ASSUME Init PROVE TypeOK
  OBVIOUS
<1>1. WireTypes
  BY DEF Init, WireTypes
<1>2. DaemonTypes
  <2>1. NoReader \in Readers
    BY DEF NoReader, Readers
  <2> QED
    BY <2>1 DEF Init, DaemonTypes
<1>3. AgentTypes
  BY EmptySeq DEF Init, AgentTypes
<1>4. CountTypes
  BY DEF Init, CountTypes
<1> QED
  BY <1>1, <1>2, <1>3, <1>4 DEF TypeOK

\* A frame is put on the wire towards the daemon, or goes nowhere.
LEMMA ToDaemonTypes ==
    ASSUME WireTypes, NEW c \in Conns, NEW f \in UpFrames, ToDaemon(c, f),
           UNCHANGED <<downward, agentEnd, daemonEnd>>
    PROVE  WireTypes'
<1>1. Append(upward[c], f) \in Seq(UpFrames)
  BY DEF WireTypes
<1> QED
  BY <1>1 DEF WireTypes, ToDaemon

\* A frame is put on the wire towards the agent, or goes nowhere.
LEMMA ToAgentTypes ==
    ASSUME WireTypes, NEW c \in Conns, NEW f \in DownFrames, ToAgent(c, f),
           UNCHANGED <<upward, agentEnd, daemonEnd>>
    PROVE  WireTypes'
<1>1. Append(downward[c], f) \in Seq(DownFrames)
  BY DEF WireTypes
<1> QED
  BY <1>1 DEF WireTypes, ToAgent

\* A frame is taken off the wire.
LEMMA TakenTypes ==
    ASSUME WireTypes, NEW c \in Conns, UNCHANGED <<agentEnd, daemonEnd>>,
           \/ /\ upward[c] # <<>> /\ upward' = [upward EXCEPT ![c] = Tail(@)]
              /\ UNCHANGED downward
           \/ /\ downward[c] # <<>> /\ downward' = [downward EXCEPT ![c] = Tail(@)]
              /\ UNCHANGED upward
    PROVE  WireTypes'
<1>1. /\ upward[c] # <<>> => Tail(upward[c]) \in Seq(UpFrames)
      /\ downward[c] # <<>> => Tail(downward[c]) \in Seq(DownFrames)
  BY DEF WireTypes
<1> QED
  BY <1>1 DEF WireTypes

\* The agent's end closes.
LEMMA LeaveTypes ==
    ASSUME WireTypes, client \in Conns, Leave, UNCHANGED <<upward, daemonEnd>>
    PROVE  WireTypes'
  BY DEF WireTypes, Leave

\* The link thread, which reads no second answer to its registration.
LEMMA LinkTypes == ASSUME TypeOK, WelcomeInv, Link PROVE TypeOK'
<1> USE DEF TypeOK
<1>1. CASE Dial
  <2> USE DEF Dial, table, calls
  <2>1. dials + 1 \in Conns
    BY <1>1 DEF CountTypes
  <2>2. WireTypes'
    <3>1. <<[op |-> "register"]>> \in Seq(UpFrames)
      BY DEF UpFrames
    <3> QED
      BY <1>1, <2>1, <3>1 DEF WireTypes
  <2>3. DaemonTypes'
    <3>1. Reading \in Readers
      BY DEF Reading, Readers
    <3> QED
      BY <1>1, <3>1 DEF DaemonTypes
  <2>4. AgentTypes'
    BY <1>1, <2>1 DEF AgentTypes
  <2>5. CountTypes'
    BY <1>1, <2>1 DEF CountTypes
  <2> QED
    BY <2>2, <2>3, <2>4, <2>5
<1>2. CASE LinkHangsUp
  <2> USE DEF LinkHangsUp, daemon, table, bounds, calls
  <2>1. client \in Conns
    BY <1>2 DEF AgentTypes
  <2>2. WireTypes'
    BY <1>2, <2>1, LeaveTypes
  <2>3. AgentTypes'
    BY <1>2, EmptySeq DEF AgentTypes, Leave
  <2>4. DaemonTypes' /\ CountTypes'
    BY <1>2 DEF DaemonTypes, CountTypes
  <2> QED
    BY <2>2, <2>3, <2>4
<1>3. CASE ReadWhileRegistering
  <2> USE DEF ReadWhileRegistering, daemon, table, bounds, calls
  <2>1. client \in Conns /\ downward[client] \in Seq(DownFrames) /\ downward[client] # <<>>
    BY <1>3 DEF AgentTypes, WireTypes
  <2>2. WireTypes'
    BY <1>3, <2>1, TakenTypes
  <2>3. Head(downward[client]) \in DownFrames
    BY <2>1
  <2>4. Head(downward[client]).op = "request" => Head(downward[client]) \in RequestFrames
    BY <2>3 DEF DownFrames
  <2>5. AgentTypes'
    <3>1. early' \in Seq(RequestFrames)
      <4>1. early \in Seq(RequestFrames)
        BY DEF AgentTypes
      <4>2. Head(downward[client]) \in RequestFrames =>
              Append(early, Head(downward[client])) \in Seq(RequestFrames)
        BY <4>1, AppendProperties
      <4> QED
        BY <1>3, <2>4, <4>1, <4>2
    <3> QED
      BY <1>3, <2>1, <3>1 DEF AgentTypes
  <2>6. DaemonTypes' /\ CountTypes'
    BY <1>3 DEF DaemonTypes, CountTypes
  <2> QED
    BY <2>2, <2>5, <2>6
<1>4. CASE ReadStates
  <2> USE DEF ReadStates, wire, daemon, table, bounds, calls
  <2>1. AgentTypes'
    BY <1>4 DEF AgentTypes, StateFrames
  <2>2. WireTypes' /\ DaemonTypes' /\ CountTypes'
    BY <1>4 DEF WireTypes, DaemonTypes, CountTypes
  <2> QED
    BY <2>1, <2>2
<1>5. CASE SendStates
  <2> USE DEF SendStates, daemon, table, bounds, calls
  <2>1. client \in Conns /\ hand \in UpFrames
    BY <1>5 DEF AgentTypes, UpFrames
  <2>2. WireTypes'
    BY <1>5, <2>1, ToDaemonTypes
  <2>3. AgentTypes'
    BY <1>5, <2>1 DEF AgentTypes
  <2>4. DaemonTypes' /\ CountTypes'
    BY <1>5 DEF DaemonTypes, CountTypes
  <2> QED
    BY <2>2, <2>3, <2>4
<1>6. CASE TakeRequest
  <2> USE DEF TakeRequest, daemon, table, bounds, calls
  <2>1. client \in Conns
    BY <1>6 DEF AgentTypes
  <2>2. WireTypes'
    BY <1>6, <2>1, TakenTypes DEF WireTypes
  <2>3. hand' \in RequestFrames /\ early' \in Seq(RequestFrames)
    <3> USE DEF AgentTypes, WireTypes
    <3>1. CASE early # <<>>
      <4>1. Head(early) \in RequestFrames /\ Tail(early) \in Seq(RequestFrames)
        BY <3>1, QueueTail
      <4> QED
        BY <1>6, <3>1, <4>1
    <3>2. CASE early = <<>>
      <4>1. /\ Head(downward[client]) \in DownFrames
            /\ Marked(Head(downward[client])) =>
                 Mark(Head(downward[client])) \in Marks(downward[client])
        BY <1>6, <2>1, <3>2, QueueTail
      <4>2. None \notin Marks(downward[client])
        BY <1>6, <2>1 DEF WelcomeInv, RegistersOnce, Joined
      <4>3. Head(downward[client]) \in RequestFrames
        BY <4>1, <4>2 DEF DownFrames, Marked, Mark
      <4> QED
        BY <1>6, <3>2, <4>3
    <3> QED
      BY <3>1, <3>2
  <2>4. AgentTypes'
    BY <1>6, <2>1, <2>3 DEF AgentTypes
  <2>5. DaemonTypes' /\ CountTypes'
    BY <1>6 DEF DaemonTypes, CountTypes
  <2> QED
    BY <2>2, <2>4, <2>5
<1>7. CASE PerformRequest
  <2> USE DEF PerformRequest, wire, daemon, table, bounds
  <2>1. AgentTypes'
    BY <1>7 DEF AgentTypes
  <2>2. WireTypes' /\ DaemonTypes'
    BY <1>7 DEF WireTypes, DaemonTypes
  <2>3. CountTypes'
    <3>1. hand.of \in Requests
      BY <1>7, SMTT(30) DEF AgentTypes, RequestFrames
    <3> QED
      BY <1>7, <3>1 DEF CountTypes
  <2> QED
    BY <2>1, <2>2, <2>3
<1>8. CASE SendReply
  <2> USE DEF SendReply, daemon, table, bounds, calls
  <2>1. client \in Conns /\ hand \in RequestFrames
    BY <1>8 DEF AgentTypes
  <2>2. [op |-> "reply", rid |-> hand.rid, of |-> hand.of] \in UpFrames
    BY <2>1 DEF RequestFrames, ReplyFrames, UpFrames
  <2>3. WireTypes'
    BY <1>8, <2>1, <2>2, ToDaemonTypes, LeaveTypes
  <2>4. AgentTypes'
    BY <1>8, <2>1, EmptySeq DEF AgentTypes, Leave
  <2>5. DaemonTypes' /\ CountTypes'
    BY <1>8 DEF DaemonTypes, CountTypes
  <2> QED
    BY <2>3, <2>4, <2>5
<1> QED
  BY <1>1, <1>2, <1>3, <1>4, <1>5, <1>6, <1>7, <1>8 DEF Link

\* The reconnect loop's thread.
LEMMA LoopTypes == ASSUME TypeOK, Loop \/ Report PROVE TypeOK'
<1> USE DEF TypeOK
<1>1. CASE Report
  <2> USE DEF Report, wire, daemon, table, calls
  <2>1. reports + 1 \in Reports
    BY <1>1 DEF CountTypes
  <2>2. AgentTypes' /\ CountTypes'
    BY <1>1, <2>1 DEF AgentTypes, CountTypes
  <2>3. WireTypes' /\ DaemonTypes'
    BY <1>1 DEF WireTypes, DaemonTypes
  <2> QED
    BY <2>2, <2>3
<1>2. CASE LookForLink
  <2> USE DEF LookForLink, wire, daemon, table, bounds, calls
  <2>1. AgentTypes'
    BY <1>2 DEF AgentTypes
  <2>2. WireTypes' /\ DaemonTypes' /\ CountTypes'
    BY <1>2 DEF WireTypes, DaemonTypes, CountTypes
  <2> QED
    BY <2>1, <2>2
<1>3. CASE SendReport
  <2> USE DEF SendReport, daemon, table, bounds, calls
  <2>1. /\ carried.conn \in Conns
        /\ [op |-> "state", value |-> carried.value] \in UpFrames
    BY <1>3 DEF AgentTypes, UpFrames, StateFrames
  <2>2. WireTypes'
    BY <1>3, <2>1, ToDaemonTypes
  <2>3. AgentTypes'
    BY <1>3 DEF AgentTypes
  <2>4. DaemonTypes' /\ CountTypes'
    BY <1>3 DEF DaemonTypes, CountTypes
  <2> QED
    BY <2>2, <2>3, <2>4
<1> QED
  BY <1>1, <1>2, <1>3 DEF Loop

\* What a reader goes on to is one of its states.
LEMMA ThenTypes ==
    ASSUME reader \in [Conns -> Readers], NEW c \in Conns, NEW next, NEW arg, Then(c, next, arg),
           \/ next \in {"gone", "read", "welcome", "drop", "farewell"} /\ arg \in UpFrames \cup {None}
           \/ next \in {"store", "push"} /\ arg \in StateFrames
           \/ next = "deliver" /\ arg \in ReplyFrames
    PROVE  reader' \in [Conns -> Readers]
<1>1. [pc |-> next, arg |-> arg] \in Readers
  BY DEF Readers
<1> QED
  BY <1>1 DEF Then

\* What the reader of a connection goes on to, no other reader does.
LEMMA ThenIs ==
    ASSUME reader \in [Conns -> Readers], NEW c \in Conns, NEW next, NEW arg, Then(c, next, arg)
    PROVE  /\ reader'[c].pc = next /\ reader'[c].arg = arg
           /\ \A d \in Conns : d # c => reader'[d] = reader[d]
<1> DEFINE r == [pc |-> next, arg |-> arg]
<1>1. r.pc = next /\ r.arg = arg
  OBVIOUS
<1>2. reader' = [reader EXCEPT ![c] = r]
  BY DEF Then
<1> HIDE DEF r
<1> QED
  BY <1>1, <1>2

\* A reply is put into the entry of its number, if there is one still.
LEMMA DeliverIs ==
    ASSUME DaemonTypes, NEW c \in Conns, DeliverReply(c)
    PROVE  /\ reader[c].arg \in ReplyFrames
           /\ \A rid \in Requests : pending[rid] = None => pending'[rid] = None
           /\ \A rid \in Requests : pending[rid] # None =>
                /\ pending'[rid] \in Pendings
                /\ rid # reader[c].arg.rid => pending'[rid] = pending[rid]
                /\ rid = reader[c].arg.rid => pending'[rid].got = reader[c].arg.of
<1> DEFINE id  == reader[c].arg.rid
           of  == reader[c].arg.of
           new == [[pending[id] EXCEPT !.got = of] EXCEPT !.done = TRUE]
<1>1. reader[c].arg \in ReplyFrames
  BY DEF DeliverReply, DaemonTypes, Readers
<1>2. id \in Requests /\ of \in Requests
  BY <1>1 DEF ReplyFrames
<1>3. pending[id] \in Pendings => new \in Pendings /\ new.got = of
  BY <1>2 DEF Pendings
<1>4. pending \in [Requests -> Pendings \cup {None}]
  BY DEF DaemonTypes
<1>5. pending' = IF pending[id] = None THEN pending ELSE [pending EXCEPT ![id] = new]
  BY <1>2, <1>4 DEF DeliverReply
<1> HIDE DEF new, id, of
<1>6. \A rid \in Requests : pending[rid] = None => pending'[rid] = None
  BY <1>2, <1>4, <1>5
<1>7. \A rid \in Requests : pending[rid] # None =>
        /\ pending'[rid] \in Pendings
        /\ rid # id => pending'[rid] = pending[rid]
        /\ rid = id => pending'[rid].got = of
  BY <1>2, <1>3, <1>4, <1>5
<1> QED
  BY <1>1, <1>6, <1>7 DEF id, of

\* The handlers that wait on a connection are woken.
LEMMA FailTypes ==
    ASSUME pending \in [Requests -> Pendings \cup {None}], NEW c \in Conns, FailWaiting(c)
    PROVE  pending' \in [Requests -> Pendings \cup {None}]
<1>1. \A p \in Pendings : [p EXCEPT !.done = TRUE] \in Pendings
  BY DEF Pendings
<1> QED
  BY <1>1 DEF FailWaiting

\* A reader's thread.
LEMMA ReaderTypes == ASSUME TypeOK, NEW c \in Conns, Reader(c) PROVE TypeOK'
<1> USE DEF TypeOK
<1>0. reader[c] \in Readers /\ reader \in [Conns -> Readers]
  BY DEF DaemonTypes
<1>1. CASE HandleFrame(c)
  <2> USE DEF HandleFrame, agent, bounds, calls
  <2>1. Head(upward[c]) \in UpFrames
    BY <1>1, QueueTail DEF WireTypes
  <2>2. /\ Head(upward[c]).op = "state" => Head(upward[c]) \in StateFrames
        /\ Head(upward[c]).op = "reply" => Head(upward[c]) \in ReplyFrames
    BY <2>1 DEF UpFrames, StateFrames, ReplyFrames
  <2>3. reader' \in [Conns -> Readers]
    <3> DEFINE frame == Head(upward[c])
    <3>1. CASE frame.op = "register"
      BY <1>0, <1>1, <3>1, ThenTypes
    <3>2. CASE frame.op = "state"
      BY <1>0, <1>1, <2>2, <3>2, ThenTypes
    <3>3. CASE frame.op = "reply"
      BY <1>0, <1>1, <2>2, <3>3, ThenTypes
    <3> QED
      BY <1>1, <3>1, <3>2, <3>3
  <2>4. DaemonTypes'
    BY <1>1, <2>3 DEF DaemonTypes
  <2>5. WireTypes'
    BY <1>1, TakenTypes
  <2>6. AgentTypes' /\ CountTypes'
    BY <1>1 DEF AgentTypes, CountTypes
  <2> QED
    BY <2>4, <2>5, <2>6
<1>2. CASE Welcome(c)
  <2> USE DEF Welcome, table, agent, bounds, calls
  <2>1. [op |-> "registered"] \in DownFrames
    BY DEF DownFrames
  <2>2. WireTypes'
    BY <1>2, <2>1, ToAgentTypes
  <2>3. DaemonTypes'
    BY <1>0, <1>2, ThenTypes DEF DaemonTypes
  <2>4. AgentTypes' /\ CountTypes'
    BY <1>2 DEF AgentTypes, CountTypes
  <2> QED
    BY <2>2, <2>3, <2>4
<1>3. CASE StoreStates(c) \/ PushState(c)
  <2> USE DEF StoreStates, PushState, wire, agent, bounds, calls
  <2>1. reader[c].arg \in StateFrames /\ reader[c].arg.value \in Reports
    BY <1>0, <1>3 DEF Readers, StateFrames
  <2>2. reader' \in [Conns -> Readers]
    <3>1. reader[c].arg \in UpFrames
      BY <2>1 DEF UpFrames
    <3> QED
      BY <1>0, <1>3, <2>1, <3>1, ThenTypes
  <2>3. DaemonTypes'
    BY <1>3, <2>1, <2>2 DEF DaemonTypes
  <2>4. WireTypes' /\ AgentTypes' /\ CountTypes'
    BY <1>3 DEF WireTypes, AgentTypes, CountTypes
  <2> QED
    BY <2>3, <2>4
<1>4. CASE DeliverReply(c)
  <2> USE DEF DeliverReply, wire, agent, bounds, calls
  <2>1. reader[c].arg.rid \in Requests /\ reader[c].arg.of \in Requests
    BY <1>0, <1>4 DEF Readers, ReplyFrames
  <2>2. \A p \in Pendings : [[p EXCEPT !.got = reader[c].arg.of] EXCEPT !.done = TRUE] \in Pendings
    BY <2>1 DEF Pendings
  <2>3. pending' \in [Requests -> Pendings \cup {None}]
    BY <1>4, <2>1, <2>2 DEF DaemonTypes
  <2>4. DaemonTypes'
    BY <1>0, <1>4, <2>3, ThenTypes DEF DaemonTypes
  <2>5. WireTypes' /\ AgentTypes' /\ CountTypes'
    BY <1>4 DEF WireTypes, AgentTypes, CountTypes
  <2> QED
    BY <2>4, <2>5
<1>5. CASE HangUp(c)
  <2> USE DEF HangUp, table, agent, bounds, calls
  <2>1. DaemonTypes'
    BY <1>0, <1>5, ThenTypes DEF DaemonTypes
  <2>2. WireTypes' /\ AgentTypes' /\ CountTypes'
    BY <1>5 DEF WireTypes, AgentTypes, CountTypes
  <2> QED
    BY <2>1, <2>2
<1>6. CASE Drop(c)
  <2> USE DEF Drop, wire, agent, bounds, calls
  <2>1. pending' \in [Requests -> Pendings \cup {None}]
    BY <1>6, FailTypes DEF DaemonTypes
  <2>2. DaemonTypes'
    BY <1>0, <1>6, <2>1, ThenTypes DEF DaemonTypes
  <2>3. WireTypes' /\ AgentTypes' /\ CountTypes'
    BY <1>6 DEF WireTypes, AgentTypes, CountTypes
  <2> QED
    BY <2>2, <2>3
<1>7. CASE Farewell(c)
  <2> USE DEF Farewell, wire, agent, bounds, calls
  <2>1. DaemonTypes'
    BY <1>0, <1>7, ThenTypes DEF DaemonTypes
  <2>2. WireTypes' /\ AgentTypes' /\ CountTypes'
    BY <1>7 DEF WireTypes, AgentTypes, CountTypes
  <2> QED
    BY <2>1, <2>2
<1> QED
  BY <1>1, <1>2, <1>3, <1>4, <1>5, <1>6, <1>7 DEF Reader

\* A handler is told how its request ended.
LEMMA ConcludeTypes ==
    ASSUME TypeOK, NEW h \in Handlers, NEW got \in Requests \cup {None},
           caller[h] \in Callers, Conclude(h, got)
    PROVE  TypeOK'
<1> USE DEF TypeOK, Conclude, wire, agent, bounds
<1>1. caller[h].of \in Requests /\ caller[h].rid \in Requests
  BY DEF Callers
<1>2. DaemonTypes'
  BY <1>1 DEF DaemonTypes
<1>3. CountTypes'
  BY <1>1 DEF CountTypes
<1>4. WireTypes' /\ AgentTypes'
  BY DEF WireTypes, AgentTypes
<1> QED
  BY <1>2, <1>3, <1>4

\* The handlers.
LEMMA CallerTypes ==
    ASSUME TypeOK, TableInv, NEW h \in Handlers, AskAgent(h) \/ Caller(h)
    PROVE  TypeOK'
<1> USE DEF TypeOK
<1>0. caller[h].pc # "idle" => caller[h] \in Callers
  BY DEF DaemonTypes, Idle
<1>1. CASE AskAgent(h)
  <2> USE DEF AskAgent, wire, agent
  <2>1. requests + 1 \in Requests /\ counter + 1 \in Requests
    BY <1>1 DEF CountTypes
  <2>2. DaemonTypes'
    <3>1. CASE registered = None
      BY <1>1, <3>1 DEF DaemonTypes
    <3>2. CASE registered # None
      <4> DEFINE p == [conn |-> registered, done |-> FALSE, got |-> None]
                 u == [pc |-> "send", of |-> requests + 1, rid |-> counter + 1,
                       conn |-> registered]
      <4>1. registered \in Conns
        BY <3>2 DEF DaemonTypes
      <4>2. p \in Pendings
        BY <4>1 DEF Pendings
      <4>3. u \in Callers
        BY <2>1, <4>1 DEF Callers
      <4>4. pending' = [pending EXCEPT ![counter + 1] = p] /\ caller' = [caller EXCEPT ![h] = u]
        BY <1>1, <3>2
      <4> HIDE DEF p, u
      <4> QED
        BY <1>1, <2>1, <4>2, <4>3, <4>4 DEF DaemonTypes
    <3> QED
      BY <3>1, <3>2
  <2>3. CountTypes'
    BY <1>1, <2>1, SMTT(30) DEF CountTypes
  <2>4. WireTypes' /\ AgentTypes'
    BY <1>1 DEF WireTypes, AgentTypes
  <2> QED
    BY <2>2, <2>3, <2>4
<1>2. CASE SendRequest(h)
  <2> USE DEF SendRequest, table, agent, bounds, calls
  <2>1. /\ caller[h] \in Callers /\ caller[h].conn \in Conns
        /\ [op |-> "request", rid |-> caller[h].rid, of |-> caller[h].of] \in DownFrames
        /\ [caller[h] EXCEPT !.pc = "wait"] \in Callers
    BY <1>0, <1>2 DEF Callers, DownFrames, RequestFrames
  <2>2. WireTypes'
    BY <1>2, <2>1, ToAgentTypes
  <2>3. DaemonTypes'
    BY <1>2, <2>1 DEF DaemonTypes
  <2>4. AgentTypes' /\ CountTypes'
    BY <1>2 DEF AgentTypes, CountTypes
  <2> QED
    BY <2>2, <2>3, <2>4
<1>3. CASE Answered(h)
  <2>1. caller[h] \in Callers /\ caller[h].rid \in Requests /\ pending[caller[h].rid] # None
    BY <1>0, <1>3 DEF Answered, TableInv, Asking, Callers
  <2>2. pending[caller[h].rid].got \in Requests \cup {None}
    BY <2>1 DEF DaemonTypes, Pendings
  <2> QED
    BY <1>3, <2>1, <2>2, ConcludeTypes DEF Answered
<1>4. CASE TimesOut(h)
  BY <1>0, <1>4, ConcludeTypes DEF TimesOut
<1> QED
  BY <1>1, <1>2, <1>3, <1>4 DEF Caller

\* The restarts.
LEMMA RestartTypes ==
    ASSUME TypeOK, DaemonEnds \/ DaemonStarts \/ AgentRestarts
    PROVE  TypeOK'
<1> USE EmptySeq DEF TypeOK, Fault
<1>1. CASE DaemonEnds
  <2> USE DEF DaemonEnds, agent
  <2>1. NoReader \in Readers
    BY DEF NoReader, Readers
  <2>2. WireTypes' /\ DaemonTypes'
    BY <1>1, <2>1 DEF WireTypes, DaemonTypes
  <2>3. AgentTypes'
    BY <1>1 DEF AgentTypes
  <2>4. CountTypes'
    BY <1>1 DEF CountTypes
  <2> QED
    BY <2>2, <2>3, <2>4
<1>2. CASE DaemonStarts
  <2> USE DEF DaemonStarts, wire, table, agent, bounds, calls
  <2>1. WireTypes' /\ DaemonTypes'
    BY <1>2 DEF WireTypes, DaemonTypes
  <2>2. AgentTypes' /\ CountTypes'
    BY <1>2 DEF AgentTypes, CountTypes
  <2> QED
    BY <2>1, <2>2
<1>3. CASE AgentRestarts
  <2> USE DEF AgentRestarts, daemon, table, calls
  <2>1. WireTypes' /\ DaemonTypes'
    BY <1>3 DEF WireTypes, DaemonTypes
  <2>2. AgentTypes'
    BY <1>3 DEF AgentTypes
  <2>3. CountTypes'
    BY <1>3 DEF CountTypes
  <2> QED
    BY <2>1, <2>2, <2>3
<1> QED
  BY <1>1, <1>2, <1>3

\* Every step keeps the types, given what else the parts of the invariant say.
LEMMA NextTypes ==
    ASSUME TypeOK, WelcomeInv, TableInv, [Next]_vars
    PROVE  TypeOK'
<1>1. CASE UNCHANGED vars
  <2> USE DEF vars, wire, daemon, table, agent, bounds, calls
  <2>1. WireTypes' /\ DaemonTypes'
    BY <1>1 DEF WireTypes, DaemonTypes, TypeOK
  <2>2. AgentTypes' /\ CountTypes'
    BY <1>1 DEF AgentTypes, CountTypes, TypeOK
  <2> QED
    BY <2>1, <2>2 DEF TypeOK
<1> QED
  BY <1>1, LinkTypes, LoopTypes, ReaderTypes, CallerTypes, RestartTypes DEF Next

-----------------------------------------------------------------------------
(***************************************************************************)
(* The steps, part by part of the invariant.                               *)
(***************************************************************************)
\* Nothing is on a connection that has not been made.
LEMMA NextEnds ==
    ASSUME TypeOK, EndsInv, [Next]_vars
    PROVE  EndsInv'
<1> USE DEF EndsInv, TypeOK, WireTypes, CountTypes
<1>1. CASE UNCHANGED <<dials, agentEnd, downward>>
  BY <1>1
<1>2. CASE Dial
  BY <1>2 DEF Dial
<1>3. ASSUME client \in Conns, Leave, UNCHANGED dials
      PROVE  EndsInv'
  BY <1>3 DEF Leave
<1>4. CASE (ReadWhileRegistering \/ TakeRequest) /\ ~UNCHANGED downward
  <2>1. client \in Conns /\ UNCHANGED <<dials, agentEnd>>
    BY <1>4 DEF ReadWhileRegistering, TakeRequest, bounds, AgentTypes
  <2>2. downward[client] # <<>> /\ downward' = [downward EXCEPT ![client] = Tail(@)]
    BY <1>4 DEF ReadWhileRegistering, TakeRequest
  <2> QED
    BY <2>1, <2>2
<1>5. ASSUME NEW c \in Conns, NEW f, ToAgent(c, f), UNCHANGED <<dials, agentEnd>>
      PROVE  EndsInv'
  BY <1>5 DEF ToAgent, Alive
<1>6. ASSUME NEW c \in Conns, Reader(c) PROVE EndsInv'
  <2>1. CASE Welcome(c)
    BY <1>5, <2>1 DEF Welcome, bounds
  <2> QED
    BY <1>1, <1>6, <2>1 DEF Reader, HandleFrame, StoreStates, PushState, DeliverReply, HangUp, Drop,
       Farewell, wire, bounds
<1>7. ASSUME NEW h \in Handlers, AskAgent(h) \/ Caller(h) PROVE EndsInv'
  <2>1. CASE SendRequest(h)
    <3>1. caller[h].conn \in Conns
      BY <2>1 DEF SendRequest, DaemonTypes, Callers, Idle
    <3> QED
      BY <1>5, <2>1, <3>1 DEF SendRequest, bounds
  <2> QED
    BY <1>1, <1>7, <2>1 DEF Caller, AskAgent, Answered, TimesOut, Conclude, wire, bounds
<1>8. CASE AgentRestarts
  BY <1>8 DEF AgentRestarts
<1>9. CASE Link
  <2>1. CASE LinkHangsUp \/ SendReply
    BY <1>1, <1>3, <2>1 DEF LinkHangsUp, SendReply, AgentTypes, bounds
  <2> QED
    BY <1>1, <1>2, <1>4, <1>9, <2>1 DEF Link, ReadWhileRegistering, TakeRequest, ReadStates,
       SendStates, PerformRequest, wire, bounds
<1> QED
  BY <1>1, <1>6, <1>7, <1>8, <1>9 DEF Next, Loop, Report, LookForLink, SendReport, DaemonEnds,
     DaemonStarts, vars, wire, bounds

\* A connection the registry names is one its reader serves.
LEMMA NextRegistry ==
    ASSUME TypeOK, RegistryInv, [Next]_vars
    PROVE  RegistryInv'
<1> USE DEF RegistryInv, RegisteredIsServed, TypeOK, DaemonTypes, CountTypes
<1>1. CASE UNCHANGED <<daemonUp, registered, reader>>
  BY <1>1
<1>2. CASE Dial
  BY <1>2 DEF Dial, Reading, table
<1>3. ASSUME NEW c \in Conns, Reader(c) PROVE RegistryInv'
  <2>1. CASE HandleFrame(c)
    <3>0. reader[c].pc = "read" /\ UNCHANGED daemonUp
      BY <2>1 DEF HandleFrame
    <3>1. CASE registered' = c /\ Then(c, "welcome", None)
      BY <3>0, <3>1, ThenIs
    <3>2. CASE /\ UNCHANGED registered
               /\ \E next \in {"store", "deliver", "read"}, arg \in UpFrames \cup {None} :
                    Then(c, next, arg)
      <4>1. PICK next \in {"store", "deliver", "read"}, arg \in UpFrames \cup {None} :
              Then(c, next, arg)
        BY <3>2
      <4>2. reader'[c].pc \in {"store", "deliver", "read"}
        BY <4>1, ThenIs
      <4>3. \A d \in Conns : d # c => reader'[d] = reader[d]
        BY <4>1, ThenIs
      <4> QED
        BY <3>0, <3>2, <4>2, <4>3
    <3>3. Head(upward[c]) \in UpFrames
      BY <2>1, QueueTail DEF HandleFrame, WireTypes
    <3> QED
      BY <2>1, <3>1, <3>2, <3>3 DEF HandleFrame
  <2>2. CASE Drop(c)
    BY <2>2 DEF Drop, Then
  <2>3. CASE Farewell(c)
    BY <2>3 DEF Farewell, Then
  <2>4. CASE Welcome(c) \/ StoreStates(c) \/ PushState(c) \/ DeliverReply(c) \/ HangUp(c)
    <3>1. PICK next \in {"read", "push", "drop"}, arg \in {None, reader[c].arg} : Then(c, next, arg)
      BY <2>4 DEF Welcome, StoreStates, PushState, DeliverReply, HangUp
    <3>2. UNCHANGED <<daemonUp, registered>> /\ reader[c].pc # "gone" /\ reader[c].pc # "farewell"
      BY <2>4 DEF Welcome, StoreStates, PushState, DeliverReply, HangUp, table
    <3>3. reader'[c].pc \in {"read", "push", "drop"} /\ \A d \in Conns : d # c => reader'[d] = reader[d]
      BY <3>1, ThenIs
    <3> QED
      BY <3>2, <3>3
  <2> QED
    BY <1>3, <2>1, <2>2, <2>3, <2>4 DEF Reader
<1>4. ASSUME NEW h \in Handlers, AskAgent(h) \/ Caller(h) PROVE RegistryInv'
  BY <1>1, <1>4 DEF Caller, AskAgent, SendRequest, Answered, TimesOut, Conclude, table
<1>5. CASE DaemonEnds
  BY <1>5 DEF DaemonEnds, NoReader
<1>6. CASE DaemonStarts
  BY <1>6 DEF DaemonStarts, table
<1>7. CASE Link
  BY <1>1, <1>2, <1>7 DEF Link, LinkHangsUp, ReadWhileRegistering, ReadStates, SendStates,
     TakeRequest, PerformRequest, SendReply, daemon, table
<1> QED
  BY <1>1, <1>3, <1>4, <1>5, <1>6, <1>7 DEF Next, Loop, Report, LookForLink, SendReport,
     AgentRestarts, vars, daemon, table

\* Every handler that asks has its own entry in the table.
LEMMA NextTable ==
    ASSUME TypeOK, TableInv, OnceInv, [Next]_vars
    PROVE  TableInv'
<1> USE NoneIsNoEntry DEF TableInv, Asking, TypeOK, DaemonTypes, CountTypes
<1>0. \A h \in Asking : caller[h] \in Callers /\ caller[h].of \in Requests /\ caller[h].rid \in Requests
  BY DEF Idle, Callers
<1>1. CASE UNCHANGED <<caller, requests, counter, pending, outcome, heard, runs>>
  BY <1>1
<1>2. CASE PerformRequest
  <2>1. hand.of \in Requests /\ hand.of <= requests
    BY <1>2 DEF PerformRequest, OnceInv, InHand, Unperformed
  <2>2. UNCHANGED <<caller, requests, counter, pending, outcome, heard>>
    BY <1>2 DEF PerformRequest, daemon, table, bounds
  <2> QED
    BY <1>2, <2>1, <2>2 DEF PerformRequest
<1>3. ASSUME pending' \in [Requests -> Pendings \cup {None}],
             \A rid \in Requests : pending[rid] # None => pending'[rid] # None,
             UNCHANGED <<caller, requests, counter, outcome, heard, runs>>
      PROVE  TableInv'
  BY <1>0, <1>3
<1>4. ASSUME NEW c \in Conns, Reader(c) PROVE TableInv'
  <2>0. pending' \in [Requests -> Pendings \cup {None}]
    BY <1>4, ReaderTypes
  <2>1. CASE DeliverReply(c)
    <3>1. \A rid \in Requests : pending[rid] # None => pending'[rid] # None
      BY <2>1, DeliverIs
    <3> QED
      BY <1>3, <2>0, <2>1, <3>1 DEF DeliverReply, bounds, calls
  <2>2. CASE Drop(c)
    <3>1. \A rid \in Requests : pending[rid] # None => pending'[rid] # None
      <4>1. \A p \in Pendings : [p EXCEPT !.done = TRUE] \in Pendings
        BY DEF Pendings
      <4> QED
        BY <2>2, <4>1 DEF Drop, FailWaiting
    <3> QED
      BY <1>3, <2>0, <2>2, <3>1 DEF Drop, bounds, calls
  <2> QED
    BY <1>1, <1>4, <2>1, <2>2 DEF Reader, HandleFrame, Welcome, StoreStates, PushState, HangUp,
       Farewell, table, bounds, calls
<1>5. ASSUME NEW h \in Handlers, AskAgent(h) PROVE TableInv'
  <2> USE DEF AskAgent
  <2>1. requests + 1 \in Requests /\ counter + 1 \in Requests
    BY <1>5, SMTT(30)
  <2>2. CASE registered = None
    BY <1>0, <1>5, <2>1, <2>2
  <2>3. CASE registered # None
    <3> DEFINE p == [conn |-> registered, done |-> FALSE, got |-> None]
               u == [pc |-> "send", of |-> requests + 1, rid |-> counter + 1,
                     conn |-> registered]
    <3>1. p # None
      <4>1. p \in Pendings
        BY <2>3 DEF Pendings
      <4> QED
        BY <4>1
    <3>2. u.pc = "send" /\ u.of = requests + 1 /\ u.rid = counter + 1
      OBVIOUS
    <3>3. pending' = [pending EXCEPT ![counter + 1] = p] /\ caller' = [caller EXCEPT ![h] = u]
      BY <1>5, <2>3
    <3>4. /\ requests' = requests + 1 /\ counter' = counter + 1
          /\ UNCHANGED <<outcome, heard, runs>>
      BY <1>5, <2>3
    <3>5. caller[h].pc = "idle"
      BY <1>5
    <3> HIDE DEF p, u, AskAgent
    <3>6. \A g \in Asking' : g = h \/ (g \in Asking /\ caller'[g] = caller[g])
      BY <3>3
    <3>7. \A g \in Asking : pending'[caller[g].rid] = pending[caller[g].rid]
      BY <1>0, <3>3
    <3>8. caller'[h] = u /\ pending'[counter + 1] = p
      BY <2>1, <3>3
    <3>9. \A g \in Asking' :
            /\ caller'[g].of <= requests' /\ caller'[g].rid <= counter'
            /\ pending'[caller'[g].rid] # None
            /\ outcome'[caller'[g].of] = "waiting" /\ heard'[caller'[g].of] = None
      <4>1. ASSUME NEW g \in Asking', g # h
            PROVE /\ caller'[g].of <= requests' /\ caller'[g].rid <= counter'
                  /\ pending'[caller'[g].rid] # None
                  /\ outcome'[caller'[g].of] = "waiting" /\ heard'[caller'[g].of] = None
        <5>1. g \in Asking /\ caller'[g] = caller[g]
          BY <3>6, <4>1
        <5>2. /\ caller[g].of <= requests /\ caller[g].rid <= counter
              /\ caller[g].of \in Requests /\ caller[g].rid \in Requests
              /\ pending[caller[g].rid] # None
              /\ outcome[caller[g].of] = "waiting" /\ heard[caller[g].of] = None
          BY <1>0, <5>1 DEF TableInv
        <5>3. pending'[caller[g].rid] = pending[caller[g].rid]
          BY <3>7, <5>1
        <5>4. caller'[g].of = caller[g].of /\ caller'[g].rid = caller[g].rid
          BY <5>1
        <5>5. /\ requests \in Int /\ counter \in Int /\ requests' = requests + 1 /\ counter' = counter + 1
              /\ \A q \in Requests : q \in Int
          BY <3>4
        <5> HIDE DEF Asking, TableInv, TypeOK, DaemonTypes, CountTypes
        <5>6. caller[g].of <= requests' /\ caller[g].rid <= counter'
          BY <5>2, <5>5
        <5> QED
          BY <3>4, <5>2, <5>3, <5>4, <5>6
      <4>2. /\ u.of <= requests' /\ u.rid <= counter'
            /\ pending'[u.rid] # None
            /\ outcome'[u.of] = "waiting" /\ heard'[u.of] = None
        BY <2>1, <3>1, <3>2, <3>4, <3>8
      <4> QED
        BY <3>8, <4>1, <4>2
    <3>10. \A g, k \in Asking' : g # k =>
             caller'[g].of # caller'[k].of /\ caller'[g].rid # caller'[k].rid
      <4>1. ASSUME NEW g \in Asking', g # h
            PROVE  /\ g \in Asking /\ caller'[g] = caller[g]
                   /\ caller'[g].of # u.of /\ caller'[g].rid # u.rid
        BY <1>0, <3>2, <3>6, <4>1, SMTT(30)
      <4>2. \A g, k \in Asking : g # k => caller[g].of # caller[k].of /\ caller[g].rid # caller[k].rid
        BY DEF TableInv
      <4> HIDE DEF Asking, TableInv
      <4> QED
        BY <3>8, <4>1, <4>2
    <3>11. \A r \in Requests : r > requests' =>
             outcome'[r] = "waiting" /\ heard'[r] = None /\ runs'[r] = 0
      BY <3>4
    <3> QED
      BY <3>9, <3>10, <3>11
  <2> QED
    BY <2>2, <2>3
<1>6. ASSUME NEW h \in Handlers, NEW got, h \in Asking, Conclude(h, got) PROVE TableInv'
  <2> DEFINE of == caller[h].of
  <2>1. /\ caller' = [caller EXCEPT ![h] = Idle] /\ pending' = [pending EXCEPT ![caller[h].rid] = None]
        /\ \A r \in Requests : r # of => outcome'[r] = outcome[r] /\ heard'[r] = heard[r]
        /\ UNCHANGED <<requests, counter, runs>>
    BY <1>6 DEF Conclude, bounds
  <2>2. \A g \in Asking' : g # h /\ g \in Asking /\ caller'[g] = caller[g]
    BY <2>1 DEF Idle
  <2>3. \A g \in Asking' : pending'[caller[g].rid] = pending[caller[g].rid]
    BY <1>0, <1>6, <2>1, <2>2
  <2>4. of \in Requests /\ of <= requests
    BY <1>0, <1>6
  <2> HIDE DEF of
  <2>5. \A g \in Asking' : caller[g].of # of
    BY <1>6, <2>2 DEF of
  <2>6. \A g \in Asking' :
          /\ caller'[g].of <= requests' /\ caller'[g].rid <= counter'
          /\ pending'[caller'[g].rid] # None
          /\ outcome'[caller'[g].of] = "waiting" /\ heard'[caller'[g].of] = None
    <3> SUFFICES ASSUME NEW g \in Asking'
                 PROVE  /\ caller'[g].of <= requests' /\ caller'[g].rid <= counter'
                        /\ pending'[caller'[g].rid] # None
                        /\ outcome'[caller'[g].of] = "waiting" /\ heard'[caller'[g].of] = None
      OBVIOUS
    <3>1. /\ caller[g].of <= requests /\ caller[g].rid <= counter
          /\ pending[caller[g].rid] # None
          /\ outcome[caller[g].of] = "waiting" /\ heard[caller[g].of] = None
      BY <2>2 DEF TableInv
    <3>2. caller[g].of \in Requests
      BY <1>0, <2>2
    <3> HIDE DEF TableInv, Asking
    <3> QED
      BY <2>1, <2>2, <2>3, <2>5, <3>1, <3>2
  <2>7. \A g, k \in Asking' : g # k =>
          caller'[g].of # caller'[k].of /\ caller'[g].rid # caller'[k].rid
    <3>1. \A g, k \in Asking : g # k =>
            caller[g].of # caller[k].of /\ caller[g].rid # caller[k].rid
      BY DEF TableInv
    <3> HIDE DEF TableInv, Asking
    <3> QED
      BY <2>2, <3>1
  <2>8. \A r \in Requests : r > requests' =>
          outcome'[r] = "waiting" /\ heard'[r] = None /\ runs'[r] = 0
    <3>1. \A r \in Requests : r > requests => r # of
      BY <2>4
    <3>2. \A r \in Requests : r > requests => outcome[r] = "waiting" /\ heard[r] = None /\ runs[r] = 0
      BY DEF TableInv
    <3> HIDE DEF TableInv, Asking
    <3> QED
      BY <2>1, <3>1, <3>2
  <2> QED
    BY <2>6, <2>7, <2>8
<1>7. ASSUME NEW h \in Handlers, Caller(h) PROVE TableInv'
  <2>1. CASE SendRequest(h)
    <3>1. UNCHANGED <<requests, counter, pending, outcome, heard, runs>>
      BY <2>1 DEF SendRequest, table, bounds, calls
    <3>2. /\ caller' = [caller EXCEPT ![h].pc = "wait"] /\ h \in Asking
          /\ caller[h] \in Callers
      BY <1>0, <2>1 DEF SendRequest
    <3>3. \A g \in Asking' : g \in Asking /\ caller'[g].of = caller[g].of /\ caller'[g].rid = caller[g].rid
      BY <3>2 DEF Callers
    <3>4. \A g \in Asking' :
            /\ caller'[g].of <= requests' /\ caller'[g].rid <= counter'
            /\ pending'[caller'[g].rid] # None
            /\ outcome'[caller'[g].of] = "waiting" /\ heard'[caller'[g].of] = None
      <4> SUFFICES ASSUME NEW g \in Asking'
                   PROVE /\ caller'[g].of <= requests' /\ caller'[g].rid <= counter'
                         /\ pending'[caller'[g].rid] # None
                         /\ outcome'[caller'[g].of] = "waiting" /\ heard'[caller'[g].of] = None
        OBVIOUS
      <4>1. /\ caller[g].of <= requests /\ caller[g].rid <= counter
            /\ pending[caller[g].rid] # None
            /\ outcome[caller[g].of] = "waiting" /\ heard[caller[g].of] = None
        BY <3>3 DEF TableInv
      <4> HIDE DEF TableInv, Asking
      <4> QED
        BY <3>1, <3>3, <4>1
    <3>5. \A g, k \in Asking' : g # k =>
            caller'[g].of # caller'[k].of /\ caller'[g].rid # caller'[k].rid
      <4>1. \A g, k \in Asking : g # k =>
              caller[g].of # caller[k].of /\ caller[g].rid # caller[k].rid
        BY DEF TableInv
      <4> HIDE DEF TableInv, Asking
      <4> QED
        BY <3>3, <4>1
    <3>6. \A r \in Requests : r > requests' =>
            outcome'[r] = "waiting" /\ heard'[r] = None /\ runs'[r] = 0
      BY <3>1
    <3> QED
      BY <3>4, <3>5, <3>6
  <2>2. CASE Answered(h) \/ TimesOut(h)
    BY <1>6, <2>2 DEF Answered, TimesOut
  <2> QED
    BY <1>7, <2>1, <2>2 DEF Caller
<1>8. CASE DaemonEnds
  <2>1. Asking' = {}
    BY <1>8 DEF DaemonEnds, Idle
  <2>2. UNCHANGED <<requests, heard, runs>>
    BY <1>8 DEF DaemonEnds
  <2>3. \A r \in Requests : r > requests => outcome'[r] = "waiting"
    <3>1. \A h \in Handlers : caller[h].of \in Requests => caller[h].of <= requests
      <4> SUFFICES ASSUME NEW h \in Handlers, caller[h].of \in Requests
                   PROVE  caller[h].of <= requests
        OBVIOUS
      <4>1. caller[h] # Idle /\ caller[h] \in Callers \union {Idle}
        BY <1>0 DEF Idle
      <4>2. \A u \in Callers : u.pc # "idle"
        BY DEF Callers
      <4>3. h \in Asking
        BY <4>1, <4>2 DEF Asking
      <4> QED
        BY <4>3
    <3>2. outcome' = [r \in Requests |->
                       IF \E h \in Handlers : caller[h].of = r THEN "failed" ELSE outcome[r]]
      BY <1>8 DEF DaemonEnds
    <3>3. \A r \in Requests : r > requests => outcome[r] = "waiting"
      BY DEF TableInv
    <3> SUFFICES ASSUME NEW r \in Requests, r > requests PROVE outcome'[r] = "waiting"
      OBVIOUS
    <3>4. requests \in Int /\ r \in Int
      OBVIOUS
    <3> HIDE DEF TableInv, Asking, TypeOK, DaemonTypes, CountTypes
    <3>5. ~\E h \in Handlers : caller[h].of = r
      BY <3>1, <3>4
    <3> QED
      BY <3>2, <3>3, <3>5
  <2> QED
    BY <2>1, <2>2, <2>3
<1>9. CASE Link
  BY <1>1, <1>2, <1>9 DEF Link, Dial, LinkHangsUp, ReadWhileRegistering, ReadStates, SendStates,
     TakeRequest, SendReply, daemon, table, bounds, calls
<1> QED
  BY <1>1, <1>4, <1>5, <1>7, <1>8, <1>9 DEF Next, Loop, Report, LookForLink, SendReport,
     AgentRestarts, DaemonStarts, vars, daemon, table, bounds, calls

\* A frame on its way to the daemon adds its mark, or goes nowhere.
LEMMA ToDaemonMarks ==
    ASSUME TypeOK, NEW c \in Conns, NEW f \in UpFrames, ~Marked(f), ToDaemon(c, f)
    PROVE  /\ \A d \in Conns : Marks(upward'[d]) = Marks(upward[d])
           /\ \A d \in Conns : NoRepeat(upward[d]) => NoRepeat(upward'[d])
           /\ \A d \in Conns : Range(upward'[d]) \subseteq
                Range(upward[d]) \cup (IF d = c /\ Alive(c) THEN {f} ELSE {})
<1>1. upward[c] \in Seq(UpFrames) /\ upward \in [Conns -> Seq(UpFrames)]
  BY DEF TypeOK, WireTypes
<1>2. /\ Marks(Append(upward[c], f)) = Marks(upward[c])
      /\ NoRepeat(upward[c]) => NoRepeat(Append(upward[c], f))
      /\ Range(Append(upward[c], f)) = Range(upward[c]) \cup {f}
  BY <1>1, QueueAppend
<1>3. /\ upward'[c] = IF Alive(c) THEN Append(upward[c], f) ELSE upward[c]
      /\ \A d \in Conns : d # c => upward'[d] = upward[d]
  BY <1>1 DEF ToDaemon
<1> QED
  BY <1>2, <1>3

\* A frame on its way to the agent adds its mark, or goes nowhere.
LEMMA ToAgentMarks ==
    ASSUME TypeOK, NEW c \in Conns, NEW f \in DownFrames, Marked(f), ToAgent(c, f)
    PROVE  /\ \A d \in Conns : d # c => downward'[d] = downward[d]
           /\ Marks(downward'[c]) \subseteq Marks(downward[c]) \cup {Mark(f)}
           /\ NoRepeat(downward[c]) /\ Mark(f) \notin Marks(downward[c]) => NoRepeat(downward'[c])
           /\ Range(downward'[c]) \subseteq Range(downward[c]) \cup {f}
<1>1. downward[c] \in Seq(DownFrames) /\ downward \in [Conns -> Seq(DownFrames)]
  BY DEF TypeOK, WireTypes
<1>2. /\ Marks(Append(downward[c], f)) = Marks(downward[c]) \cup {Mark(f)}
      /\ NoRepeat(downward[c]) /\ Mark(f) \notin Marks(downward[c]) =>
           NoRepeat(Append(downward[c], f))
      /\ Range(Append(downward[c], f)) = Range(downward[c]) \cup {f}
  BY <1>1, QueueAppend
<1>3. /\ downward'[c] = IF Alive(c) THEN Append(downward[c], f) ELSE downward[c]
      /\ \A d \in Conns : d # c => downward'[d] = downward[d]
  BY <1>1 DEF ToAgent
<1> QED
  BY <1>2, <1>3

\* What is only taken away from a connection leaves it registered once at most.
LEMMA RegistersLess ==
    ASSUME NEW c \in Conns, RegistersOnce(c), NoRepeat(upward'[c]),
           Marks(upward'[c]) \subseteq Marks(upward[c]),
           None \in Marks(downward'[c]) => None \in Marks(downward[c]),
           reader'[c].pc = "welcome" => reader[c].pc = "welcome",
           Joined(c)' => Joined(c)
    PROVE  RegistersOnce(c)'
<1> HIDE DEF Joined
<1> QED
  BY DEF RegistersOnce

\* A connection registers once.
LEMMA NextWelcome ==
    ASSUME TypeOK, EndsInv, WelcomeInv, OnceInv, [Next]_vars
    PROVE  WelcomeInv'
<1> USE DEF WelcomeInv, TypeOK
<1>0. /\ upward \in [Conns -> Seq(UpFrames)] /\ downward \in [Conns -> Seq(DownFrames)]
      /\ reader \in [Conns -> Readers]
      /\ pc # "dial" => client \in Conns
  BY DEF WireTypes, DaemonTypes, AgentTypes
<1>1. ASSUME \A c \in Conns :
               /\ NoRepeat(upward'[c]) /\ Marks(upward'[c]) \subseteq Marks(upward[c])
               /\ None \in Marks(downward'[c]) => None \in Marks(downward[c])
               /\ reader'[c].pc = "welcome" => reader[c].pc = "welcome"
               /\ Joined(c)' => Joined(c)
      PROVE  WelcomeInv'
  BY <1>1, RegistersLess
<1>2. \A c \in Conns : NoRepeat(upward[c])
  BY DEF RegistersOnce
<1>3. CASE UNCHANGED <<upward, downward, reader, client, pc>>
  BY <1>1, <1>2, <1>3 DEF Joined
<1>4. CASE UNCHANGED <<upward, reader>> /\
           \A c \in Conns : downward'[c] = <<>> /\ ~Joined(c)'
  BY <1>1, <1>2, <1>4, QueueEmpty
<1>5. ASSUME Leave, client \in Conns, UNCHANGED <<upward, reader>> PROVE WelcomeInv'
  <2>1. \A c \in Conns : ~Joined(c)'
    BY <1>5 DEF Leave, Joined
  <2>2. \A c \in Conns : downward'[c] = <<>> \/ downward'[c] = downward[c]
    BY <1>0, <1>5 DEF Leave
  <2> QED
    BY <1>1, <1>2, <1>5, <2>1, <2>2, QueueEmpty
<1>6. CASE Dial
  <2>0. PICK c \in Conns : c = dials + 1
    BY <1>6 DEF Dial, CountTypes
  <2>1. /\ \A d \in Conns : ~Joined(d)'
        /\ UNCHANGED downward /\ downward[c] = <<>> /\ reader'[c].pc = "read"
    BY <1>0, <1>6, <2>0 DEF Dial, CountTypes, EndsInv, Joined, Reading
  <2>2. NoRepeat(upward'[c])
    <3>1. upward'[c] = <<[op |-> "register"]>>
      BY <1>0, <1>6, <2>0 DEF Dial
    <3> QED
      BY <3>1 DEF NoRepeat
  <2>3. RegistersOnce(c)'
    <3>1. Marks(downward'[c]) = {} /\ ~Joined(c)'
      BY <2>1, QueueEmpty
    <3> QED
      BY <2>1, <2>2, <3>1 DEF RegistersOnce
  <2>4. \A d \in Conns : d # c => upward'[d] = upward[d] /\ reader'[d] = reader[d]
    BY <1>0, <1>6, <2>0 DEF Dial
  <2>5. \A d \in Conns : d # c => RegistersOnce(d)'
    BY <1>2, <2>1, <2>4, RegistersLess
  <2> QED
    BY <2>3, <2>5
<1>7. CASE ReadWhileRegistering
  <2> DEFINE frame == Head(downward[client])
  <2>0. client \in Conns /\ UNCHANGED <<upward, reader, client>>
    BY <1>0, <1>7 DEF ReadWhileRegistering, daemon
  <2>1. /\ \A d \in Conns : d # client => downward'[d] = downward[d]
        /\ downward'[client] = Tail(downward[client])
    BY <1>0, <1>7, <2>0 DEF ReadWhileRegistering
  <2>2. /\ Marks(Tail(downward[client])) \subseteq Marks(downward[client])
        /\ Marked(frame) => /\ Mark(frame) \in Marks(downward[client])
                            /\ Mark(frame) \notin Marks(Tail(downward[client]))
    BY <1>0, <1>7, <2>0, QueueTail DEF ReadWhileRegistering, OnceInv
  <2>3. CASE frame.op = "request"
    <3>1. \A d \in Conns : ~Joined(d)'
      BY <1>7, <2>3 DEF ReadWhileRegistering, Joined
    <3> QED
      BY <1>1, <1>2, <2>0, <2>1, <2>2, <3>1
  <2>4. CASE frame.op = "registered"
    <3>1. Mark(frame) = None /\ Marked(frame)
      BY <2>4 DEF Mark, Marked
    <3> HIDE DEF frame
    <3>2. \A d \in Conns : d = client => RegistersOnce(d)'
      BY <2>0, <2>1, <2>2, <3>1 DEF RegistersOnce
    <3>3. \A d \in Conns : d # client => ~Joined(d)'
      BY <2>0 DEF Joined
    <3>4. \A d \in Conns : d # client => RegistersOnce(d)'
      BY <1>2, <2>0, <2>1, <3>3, RegistersLess
    <3> QED
      BY <3>2, <3>4
  <2>5. frame.op = "request" \/ frame.op = "registered"
    BY <1>7 DEF ReadWhileRegistering
  <2> QED
    BY <2>3, <2>4, <2>5
<1>8. CASE TakeRequest
  <2>1. UNCHANGED <<upward, reader, client>> /\ pc = "serve" /\ pc' = "perform" /\ client \in Conns
    BY <1>0, <1>8 DEF TakeRequest, daemon
  <2>2. \A d \in Conns : Marks(downward'[d]) \subseteq Marks(downward[d])
    <3>1. CASE UNCHANGED downward
      BY <3>1
    <3>2. CASE downward[client] # <<>> /\ downward' = [downward EXCEPT ![client] = Tail(@)]
      <4>1. Marks(Tail(downward[client])) \subseteq Marks(downward[client])
        BY <1>0, <2>1, <3>2, QueueTail
      <4> QED
        BY <1>0, <2>1, <3>2, <4>1
    <3> QED
      BY <1>8, <3>1, <3>2 DEF TakeRequest
  <2>3. \A d \in Conns : Joined(d)' => Joined(d)
    BY <2>1 DEF Joined
  <2> QED
    BY <1>1, <1>2, <2>1, <2>2, <2>3
<1>9. ASSUME NEW c \in Conns, NEW f \in UpFrames, ~Marked(f), ToDaemon(c, f),
             UNCHANGED <<downward, reader, client>>, \A d \in Conns : Joined(d)' => Joined(d)
      PROVE  WelcomeInv'
  BY <1>1, <1>2, <1>9, ToDaemonMarks
<1>10. CASE SendStates \/ SendReply
  <2>0. client \in Conns
    BY <1>0, <1>10 DEF SendStates, SendReply
  <2>1. CASE SendStates
    <3>1. hand \in UpFrames /\ ~Marked(hand)
      BY <2>1 DEF SendStates, AgentTypes, StateFrames, UpFrames, Marked
    <3>2. \A d \in Conns : Joined(d)' => Joined(d)
      BY <2>1 DEF SendStates, Joined
    <3> QED
      BY <1>9, <2>0, <2>1, <3>1, <3>2 DEF SendStates, daemon
  <2>2. CASE SendReply
    <3> DEFINE f == [op |-> "reply", rid |-> hand.rid, of |-> hand.of]
    <3>1. f \in UpFrames /\ ~Marked(f)
      BY <2>2 DEF SendReply, AgentTypes, RequestFrames, ReplyFrames, UpFrames, Marked
    <3>2. CASE Leave /\ UNCHANGED upward
      BY <1>5, <2>0, <2>2, <3>2 DEF SendReply, daemon
    <3>3. CASE ToDaemon(client, f) /\ UNCHANGED <<downward, client>> /\ pc' = "serve"
      <4>1. \A d \in Conns : Joined(d)' => Joined(d)
        BY <2>2, <3>3 DEF SendReply, Joined
      <4> QED
        BY <1>9, <2>0, <2>2, <3>1, <3>3, <4>1 DEF SendReply, daemon
    <3> QED
      BY <2>2, <3>2, <3>3 DEF SendReply
  <2> QED
    BY <1>10, <2>1, <2>2
<1>11. CASE Link
  <2>1. CASE LinkHangsUp
    BY <1>0, <1>5, <2>1 DEF LinkHangsUp, daemon
  <2>2. CASE ReadStates
    <3>1. \A d \in Conns : Joined(d)' => Joined(d)
      BY <2>2 DEF ReadStates, Joined
    <3> QED
      BY <1>1, <1>2, <2>2, <3>1 DEF ReadStates, wire, daemon
  <2>3. CASE PerformRequest
    <3>1. \A d \in Conns : Joined(d)' => Joined(d)
      BY <2>3 DEF PerformRequest, Joined
    <3> QED
      BY <1>1, <1>2, <2>3, <3>1 DEF PerformRequest, wire, daemon
  <2> QED
    BY <1>6, <1>7, <1>8, <1>10, <1>11, <2>1, <2>2, <2>3 DEF Link
<1>12. CASE Loop
  <2>1. CASE SendReport
    <3> DEFINE f == [op |-> "state", value |-> carried.value]
    <3>1. f \in UpFrames /\ ~Marked(f) /\ carried.conn \in Conns
      BY <2>1 DEF SendReport, AgentTypes, StateFrames, UpFrames, Marked
    <3>2. \A d \in Conns : Joined(d)' => Joined(d)
      BY <2>1 DEF SendReport, Joined
    <3> QED
      BY <1>9, <2>1, <3>1, <3>2 DEF SendReport, daemon
  <2> QED
    BY <1>3, <1>12, <2>1 DEF Loop, LookForLink, wire, daemon
<1>13. ASSUME NEW c \in Conns, Reader(c) PROVE WelcomeInv'
  <2>0. \A d \in Conns : d # c => reader'[d] = reader[d]
    BY <1>0, <1>13, ThenIs DEF Reader, HandleFrame, Welcome, StoreStates, PushState, DeliverReply,
       HangUp, Drop, Farewell
  <2>1. CASE HandleFrame(c)
    <3> DEFINE frame == Head(upward[c])
    <3>1. /\ upward[c] # <<>> /\ upward' = [upward EXCEPT ![c] = Tail(@)]
          /\ UNCHANGED <<downward, client, pc>>
      BY <2>1 DEF HandleFrame, agent
    <3>2. /\ Marks(Tail(upward[c])) \subseteq Marks(upward[c]) /\ NoRepeat(Tail(upward[c]))
          /\ Marked(frame) => /\ Mark(frame) \in Marks(upward[c])
                              /\ Mark(frame) \notin Marks(Tail(upward[c]))
      BY <1>0, <1>2, <3>1, QueueTail
    <3>3. /\ upward'[c] = Tail(upward[c]) /\ UNCHANGED <<Joined(c), downward[c]>>
      BY <1>0, <3>1 DEF Joined
    <3>4. CASE frame.op = "register"
      <4>1. reader'[c].pc = "welcome"
        BY <1>0, <2>1, <3>4, ThenIs DEF HandleFrame
      <4>2. Mark(frame) = None /\ Marked(frame)
        BY <3>4 DEF Mark, Marked
      <4> HIDE DEF frame
      <4>3. RegistersOnce(c)'
        BY <3>2, <3>3, <4>1, <4>2 DEF RegistersOnce
      <4>4. \A d \in Conns : d # c =>
              upward'[d] = upward[d] /\ downward'[d] = downward[d] /\ UNCHANGED Joined(d)
        BY <1>0, <3>1 DEF Joined
      <4>5. \A d \in Conns : d # c => RegistersOnce(d)'
        BY <1>2, <2>0, <4>4, RegistersLess
      <4> QED
        BY <4>3, <4>5
    <3>5. CASE frame.op # "register"
      <4>1. reader'[c].pc # "welcome"
        <5>1. PICK next \in {"store", "read", "deliver"}, arg \in {None, frame} : Then(c, next, arg)
          BY <2>1, <3>5 DEF HandleFrame
        <5> HIDE DEF frame
        <5> QED
          BY <1>0, <5>1, ThenIs
      <4> HIDE DEF frame
      <4>2. \A d \in Conns : NoRepeat(upward'[d]) /\ Marks(upward'[d]) \subseteq Marks(upward[d])
        BY <1>0, <1>2, <3>1, <3>2
      <4> QED
        BY <1>1, <2>0, <3>1, <4>1, <4>2 DEF Joined
    <3> QED
      BY <3>4, <3>5
  <2>2. CASE Welcome(c)
    <3> DEFINE f == [op |-> "registered"]
    <3>1. f \in DownFrames /\ Marked(f) /\ Mark(f) = None
      BY DEF DownFrames, Marked, Mark
    <3>2. /\ reader[c].pc = "welcome" /\ reader'[c].pc = "read"
          /\ UNCHANGED <<upward, client, pc>>
      BY <1>0, <2>2, ThenIs DEF Welcome, agent
    <3>3. ToAgent(c, f)
      BY <2>2 DEF Welcome
    <3> HIDE DEF f
    <3>4. /\ \A d \in Conns : d # c => downward'[d] = downward[d]
          /\ Marks(downward'[c]) \subseteq Marks(downward[c]) \cup {None}
      BY <3>1, <3>3, ToAgentMarks
    <3>5. \A d \in Conns : UNCHANGED Joined(d)
      BY <3>2 DEF Joined
    <3>6. RegistersOnce(c)'
      BY <3>2, <3>4, <3>5 DEF RegistersOnce
    <3>7. \A d \in Conns : d # c => RegistersOnce(d)'
      BY <1>2, <2>0, <3>2, <3>4, <3>5, RegistersLess
    <3> QED
      BY <3>6, <3>7
  <2>3. CASE StoreStates(c) \/ PushState(c) \/ DeliverReply(c) \/ HangUp(c) \/ Drop(c) \/ Farewell(c)
    <3>1. reader'[c].pc # "welcome"
      BY <1>0, <2>3, ThenIs DEF StoreStates, PushState, DeliverReply, HangUp, Drop, Farewell
    <3>2. UNCHANGED <<upward, downward, client, pc>>
      BY <2>3 DEF StoreStates, PushState, DeliverReply, HangUp, Drop, Farewell, wire, agent
    <3> QED
      BY <1>1, <1>2, <2>0, <3>1, <3>2 DEF Joined
  <2> QED
    BY <1>13, <2>1, <2>2, <2>3 DEF Reader
<1>14. ASSUME NEW h \in Handlers, AskAgent(h) \/ Caller(h) PROVE WelcomeInv'
  <2>1. CASE SendRequest(h)
    <3> DEFINE f == [op |-> "request", rid |-> caller[h].rid, of |-> caller[h].of]
               c == caller[h].conn
    <3>1. f \in DownFrames /\ Marked(f) /\ Mark(f) # None /\ c \in Conns
      BY <2>1 DEF SendRequest, DaemonTypes, Idle, Callers, DownFrames, RequestFrames, Marked, Mark
    <3>2. UNCHANGED <<upward, reader, client, pc>> /\ ToAgent(c, f)
      BY <2>1 DEF SendRequest, agent
    <3> HIDE DEF f, c
    <3>3. /\ \A d \in Conns : d # c => downward'[d] = downward[d]
          /\ Marks(downward'[c]) \subseteq Marks(downward[c]) \cup {Mark(f)}
      BY <3>1, <3>2, ToAgentMarks
    <3> QED
      BY <1>1, <1>2, <3>1, <3>2, <3>3 DEF Joined
  <2> QED
    BY <1>3, <1>14, <2>1 DEF Caller, AskAgent, Answered, TimesOut, Conclude, wire, agent
<1>15. CASE DaemonEnds
  <2>1. \A c \in Conns : upward'[c] = <<>> /\ reader'[c].pc = "gone"
    BY <1>15 DEF DaemonEnds, NoReader
  <2>2. UNCHANGED <<downward, client, pc>>
    BY <1>15 DEF DaemonEnds, agent
  <2> QED
    BY <1>1, <2>1, <2>2, QueueEmpty DEF Joined
<1>16. CASE AgentRestarts
  BY <1>4, <1>16 DEF AgentRestarts, daemon, Joined
<1> QED
  BY <1>3, <1>11, <1>12, <1>13, <1>14, <1>15, <1>16 DEF Next, Report, DaemonStarts, vars, wire,
     daemon, table, agent, bounds, calls

\* A place that only loses requests shares none.
LEMMA OnceLess ==
    ASSUME OnceInv, NoRepeat(early'), Kept' \subseteq Kept, InHand' \subseteq InHand,
           \A c \in Conns : NoRepeat(downward'[c]) /\ OnWire(c)' \subseteq OnWire(c),
           \A h \in Handlers : Leaving(h)' \subseteq Leaving(h),
           Unperformed \subseteq Unperformed'
    PROVE  OnceInv'
<1>1. /\ Kept' \union InHand' \subseteq Unperformed' /\ Kept' \intersect InHand' = {}
      /\ \A c \in Conns : /\ OnWire(c)' \subseteq Unperformed'
                          /\ OnWire(c)' \intersect (Kept' \union InHand') = {}
  BY DEF OnceInv
<1>2. \A c, d \in Conns : c # d => OnWire(c)' \intersect OnWire(d)' = {}
  <2>1. \A c, d \in Conns : c # d => OnWire(c) \intersect OnWire(d) = {}
    BY DEF OnceInv
  <2> QED
    BY <2>1
<1>3. \A h \in Handlers : /\ Leaving(h)' \subseteq Unperformed'
                          /\ Leaving(h)' \intersect (Kept' \union InHand') = {}
                          /\ \A c \in Conns : OnWire(c)' \intersect Leaving(h)' = {}
  BY DEF OnceInv
<1>4. \A h, g \in Handlers : h # g => Leaving(h)' \intersect Leaving(g)' = {}
  <2>1. \A h, g \in Handlers : h # g => Leaving(h) \intersect Leaving(g) = {}
    BY DEF OnceInv
  <2> QED
    BY <2>1
<1> QED
  BY <1>1, <1>2, <1>3, <1>4 DEF OnceInv

\* A request is in one place until it is performed.
LEMMA NextOnce ==
    ASSUME TypeOK, WelcomeInv, TableInv, OnceInv, [Next]_vars
    PROVE  OnceInv'
<1> USE DEF TypeOK
<1>0. /\ downward \in [Conns -> Seq(DownFrames)] /\ early \in Seq(RequestFrames)
      /\ pc # "dial" => client \in Conns
      /\ pc \in {"perform", "answer"} => hand \in RequestFrames
      /\ requests \in Nat /\ requests <= MaxRequests /\ runs \in [Requests -> Nat]
      /\ caller \in [Handlers -> Callers \cup {Idle}]
  <2>1. downward \in [Conns -> Seq(DownFrames)] /\ caller \in [Handlers -> Callers \cup {Idle}]
    BY DEF WireTypes, DaemonTypes
  <2>2. /\ early \in Seq(RequestFrames) /\ (pc # "dial" => client \in Conns)
        /\ pc \in {"perform", "answer"} => hand \in RequestFrames
    BY DEF AgentTypes
  <2>3. requests \in Nat /\ requests <= MaxRequests /\ runs \in [Requests -> Nat]
    BY DEF CountTypes
  <2> QED
    BY <2>1, <2>2, <2>3
<1>1. NoRepeat(early) /\ \A c \in Conns : NoRepeat(downward[c])
  BY DEF OnceInv
<1>2. CASE UNCHANGED <<downward, early, caller, requests, runs>> /\ UNCHANGED InHand
  <2>1. UNCHANGED Kept /\ UNCHANGED Unperformed /\ \A c \in Conns : UNCHANGED OnWire(c)
    BY <1>2 DEF Kept, Unperformed, OnWire
  <2>2. \A h \in Handlers : UNCHANGED Leaving(h)
    BY <1>2 DEF Leaving
  <2> QED
    BY <1>1, <1>2, <2>1, <2>2, OnceLess
<1>3. CASE UNCHANGED <<downward, early, caller, requests, runs, pc, hand>>
  BY <1>2, <1>3 DEF InHand
<1>4. ASSUME UNCHANGED <<caller, requests, runs>>, early' = <<>>, pc' = "dial",
             \A c \in Conns : downward'[c] = <<>> \/ downward'[c] = downward[c]
      PROVE  OnceInv'
  <2>1. NoRepeat(early') /\ Kept' = {} /\ InHand' = {}
    BY <1>4, QueueEmpty DEF Kept, InHand
  <2>2. \A c \in Conns : NoRepeat(downward'[c]) /\ OnWire(c)' \subseteq OnWire(c)
    BY <1>1, <1>4, QueueEmpty DEF OnWire
  <2>3. UNCHANGED Unperformed /\ \A h \in Handlers : UNCHANGED Leaving(h)
    BY <1>4 DEF Unperformed, Leaving
  <2> QED
    BY <2>1, <2>2, <2>3, OnceLess
<1>5. ASSUME Leave, client \in Conns, UNCHANGED <<caller, requests, runs>> PROVE OnceInv'
  BY <1>0, <1>4, <1>5 DEF Leave
<1>6. CASE ReadWhileRegistering
  <2>0. PICK c \in Conns : c = client
    BY <1>0, <1>6 DEF ReadWhileRegistering
  <2> DEFINE frame == Head(downward[c])
  <2>1. /\ \A d \in Conns : d # c => downward'[d] = downward[d]
        /\ downward'[c] = Tail(downward[c])
        /\ UNCHANGED <<caller, requests, runs>> /\ InHand' = {} /\ InHand = {}
    BY <1>0, <1>6, <2>0 DEF ReadWhileRegistering, daemon, bounds, calls, InHand
  <2>2. /\ Marks(Tail(downward[c])) \subseteq Marks(downward[c]) /\ NoRepeat(Tail(downward[c]))
        /\ Marked(frame) => /\ Mark(frame) \in Marks(downward[c])
                            /\ Mark(frame) \notin Marks(Tail(downward[c]))
        /\ frame \in DownFrames
    BY <1>0, <1>1, <1>6, <2>0, QueueTail DEF ReadWhileRegistering
  <2>3. UNCHANGED Unperformed /\ \A h \in Handlers : UNCHANGED Leaving(h)
    BY <2>1 DEF Unperformed, Leaving
  <2>4. \A d \in Conns : NoRepeat(downward'[d]) /\ OnWire(d)' \subseteq OnWire(d)
    BY <1>1, <2>1, <2>2 DEF OnWire
  <2>5. CASE frame.op = "request"
    <3>0. frame \in RequestFrames
      BY <2>2, <2>5 DEF DownFrames
    <3>1. early' = Append(early, frame)
      BY <1>6, <2>0, <2>5 DEF ReadWhileRegistering
    <3> HIDE DEF frame
    <3>2. Marked(frame) /\ Mark(frame) = frame.of /\ frame.of \in Requests /\ frame.of # None
      BY <3>0 DEF RequestFrames, Marked, Mark
    <3>3. frame.of \in OnWire(c) /\ frame.of \notin OnWire(c)'
      BY <2>1, <2>2, <3>2 DEF OnWire
    <3>4. frame.of \notin Kept
      BY <3>3 DEF OnceInv
    <3>5. Kept' = Kept \cup {frame.of} /\ NoRepeat(early')
      BY <1>0, <1>1, <3>0, <3>1, <3>2, <3>4, QueueAppend DEF Kept
    <3>6. \A d \in Conns : d # c => frame.of \notin OnWire(d)
      BY <3>3 DEF OnceInv
    <3>7. \A h \in Handlers : frame.of \notin Leaving(h)
      BY <3>3 DEF OnceInv
    <3>8. frame.of \in Unperformed
      BY <3>3 DEF OnceInv
    <3>9. \A d \in Conns : frame.of \notin OnWire(d)'
      BY <2>4, <3>3, <3>6
    <3>10. /\ Kept' \union InHand' \subseteq Unperformed' /\ Kept' \intersect InHand' = {}
           /\ \A d \in Conns : /\ OnWire(d)' \subseteq Unperformed'
                               /\ OnWire(d)' \intersect (Kept' \union InHand') = {}
      BY <2>1, <2>3, <2>4, <3>5, <3>8, <3>9 DEF OnceInv
    <3>11. \A d, e \in Conns : d # e => OnWire(d)' \intersect OnWire(e)' = {}
      <4>1. \A d, e \in Conns : d # e => OnWire(d) \intersect OnWire(e) = {}
        BY DEF OnceInv
      <4> QED
        BY <2>4, <4>1
    <3>12. \A h \in Handlers : /\ Leaving(h)' \subseteq Unperformed'
                               /\ Leaving(h)' \intersect (Kept' \union InHand') = {}
                               /\ \A d \in Conns : OnWire(d)' \intersect Leaving(h)' = {}
      BY <2>1, <2>3, <2>4, <3>5, <3>7 DEF OnceInv
    <3>13. \A h, g \in Handlers : h # g => Leaving(h)' \intersect Leaving(g)' = {}
      BY <2>3 DEF OnceInv
    <3> QED
      BY <2>4, <3>5, <3>10, <3>11, <3>12, <3>13 DEF OnceInv
  <2>6. CASE UNCHANGED early
    BY <1>1, <2>1, <2>3, <2>4, <2>6, OnceLess DEF Kept
  <2> QED
    BY <1>6, <2>0, <2>5, <2>6 DEF ReadWhileRegistering
<1>7. CASE TakeRequest
  <2>0. PICK c \in Conns : c = client
    BY <1>0, <1>7 DEF TakeRequest
  <2>1. /\ UNCHANGED <<caller, requests, runs>> /\ InHand' = {hand'.of} /\ InHand = {}
    BY <1>7, <2>0 DEF TakeRequest, daemon, bounds, calls, InHand
  <2>2. UNCHANGED Unperformed /\ \A h \in Handlers : UNCHANGED Leaving(h)
    BY <2>1 DEF Unperformed, Leaving
  <2>3. /\ hand' \in RequestFrames /\ hand'.of \in Requests /\ hand'.of # None
        /\ Marked(hand') /\ Mark(hand') = hand'.of
    <3>1. TypeOK' /\ pc' = "perform"
      BY <1>7, LinkTypes DEF Link, TakeRequest
    <3>2. hand' \in RequestFrames
      BY <3>1 DEF AgentTypes
    <3> QED
      BY <3>2 DEF RequestFrames, Marked, Mark
  <2>4. /\ NoRepeat(early') /\ Kept' \subseteq Kept
        /\ \A d \in Conns : NoRepeat(downward'[d]) /\ OnWire(d)' \subseteq OnWire(d)
        /\ hand'.of \notin Kept' /\ \A d \in Conns : hand'.of \notin OnWire(d)'
        /\ hand'.of \in Unperformed /\ \A h \in Handlers : hand'.of \notin Leaving(h)
    <3>1. CASE early # <<>>
      <4>1. hand' = Head(early) /\ early' = Tail(early) /\ UNCHANGED downward
        BY <1>7, <3>1 DEF TakeRequest
      <4>2. /\ NoRepeat(early') /\ Kept' \subseteq Kept
            /\ hand'.of \in Kept /\ hand'.of \notin Kept'
        BY <1>0, <1>1, <2>3, <3>1, <4>1, QueueTail DEF Kept
      <4>3. \A d \in Conns : UNCHANGED OnWire(d) /\ NoRepeat(downward'[d])
        BY <1>1, <4>1 DEF OnWire
      <4>4. /\ \A d \in Conns : hand'.of \notin OnWire(d)
            /\ hand'.of \in Unperformed /\ \A h \in Handlers : hand'.of \notin Leaving(h)
        BY <4>2 DEF OnceInv
      <4> QED
        BY <4>2, <4>3, <4>4
    <3>2. CASE early = <<>>
      <4>1. /\ hand' = Head(downward[c]) /\ UNCHANGED early /\ downward[c] # <<>>
            /\ downward'[c] = Tail(downward[c])
            /\ \A d \in Conns : d # c => downward'[d] = downward[d]
        BY <1>0, <1>7, <2>0, <3>2 DEF TakeRequest
      <4>2. /\ Marks(Tail(downward[c])) \subseteq Marks(downward[c])
            /\ NoRepeat(Tail(downward[c]))
            /\ hand'.of \in Marks(downward[c]) /\ hand'.of \notin Marks(Tail(downward[c]))
        BY <1>0, <1>1, <2>3, <4>1, QueueTail
      <4>3. /\ hand'.of \in OnWire(c) /\ hand'.of \notin OnWire(c)'
            /\ \A d \in Conns : NoRepeat(downward'[d]) /\ OnWire(d)' \subseteq OnWire(d)
        BY <1>1, <2>3, <4>1, <4>2 DEF OnWire
      <4>4. /\ \A d \in Conns : d # c => hand'.of \notin OnWire(d)
            /\ hand'.of \notin Kept
            /\ hand'.of \in Unperformed /\ \A h \in Handlers : hand'.of \notin Leaving(h)
        BY <4>3 DEF OnceInv
      <4>5. UNCHANGED Kept /\ NoRepeat(early')
        BY <1>1, <4>1 DEF Kept
      <4> QED
        BY <4>3, <4>4, <4>5
    <3> QED
      BY <3>1, <3>2
  <2>5. /\ Kept' \union InHand' \subseteq Unperformed' /\ Kept' \intersect InHand' = {}
        /\ \A d \in Conns : /\ OnWire(d)' \subseteq Unperformed'
                            /\ OnWire(d)' \intersect (Kept' \union InHand') = {}
    BY <2>1, <2>2, <2>4 DEF OnceInv
  <2>6. \A d, e \in Conns : d # e => OnWire(d)' \intersect OnWire(e)' = {}
    <3>1. \A d, e \in Conns : d # e => OnWire(d) \intersect OnWire(e) = {}
      BY DEF OnceInv
    <3> QED
      BY <2>4, <3>1
  <2>7. \A h \in Handlers : /\ Leaving(h)' \subseteq Unperformed'
                            /\ Leaving(h)' \intersect (Kept' \union InHand') = {}
                            /\ \A d \in Conns : OnWire(d)' \intersect Leaving(h)' = {}
    BY <2>1, <2>2, <2>4 DEF OnceInv
  <2>8. \A h, g \in Handlers : h # g => Leaving(h)' \intersect Leaving(g)' = {}
    BY <2>2 DEF OnceInv
  <2> QED
    BY <2>4, <2>5, <2>6, <2>7, <2>8 DEF OnceInv
<1>8. CASE PerformRequest
  <2>1. /\ UNCHANGED <<downward, early, caller, requests>> /\ InHand = {hand.of} /\ InHand' = {}
        /\ hand.of \in Requests /\ \A r \in Requests : r # hand.of => runs'[r] = runs[r]
    BY <1>0, <1>8 DEF PerformRequest, wire, daemon, bounds, InHand, RequestFrames
  <2>2. /\ UNCHANGED Kept /\ \A c \in Conns : UNCHANGED OnWire(c)
        /\ \A h \in Handlers : UNCHANGED Leaving(h)
    BY <2>1 DEF Kept, OnWire, Leaving
  <2>3. Unperformed \ {hand.of} \subseteq Unperformed'
    BY <2>1 DEF Unperformed
  <2>4. /\ hand.of \notin Kept
        /\ \A c \in Conns : hand.of \notin OnWire(c)
        /\ \A h \in Handlers : hand.of \notin Leaving(h)
    BY <2>1 DEF OnceInv
  <2>5. /\ Kept' \union InHand' \subseteq Unperformed' /\ Kept' \intersect InHand' = {}
        /\ \A d \in Conns : /\ OnWire(d)' \subseteq Unperformed'
                            /\ OnWire(d)' \intersect (Kept' \union InHand') = {}
    BY <2>1, <2>2, <2>3, <2>4 DEF OnceInv
  <2>6. \A d, e \in Conns : d # e => OnWire(d)' \intersect OnWire(e)' = {}
    BY <2>2 DEF OnceInv
  <2>7. \A h \in Handlers : /\ Leaving(h)' \subseteq Unperformed'
                            /\ Leaving(h)' \intersect (Kept' \union InHand') = {}
                            /\ \A d \in Conns : OnWire(d)' \intersect Leaving(h)' = {}
    BY <2>1, <2>2, <2>3, <2>4 DEF OnceInv
  <2>8. \A h, g \in Handlers : h # g => Leaving(h)' \intersect Leaving(g)' = {}
    BY <2>2 DEF OnceInv
  <2> QED
    BY <1>1, <2>1, <2>5, <2>6, <2>7, <2>8 DEF OnceInv
<1>9. CASE Link
  <2>1. CASE LinkHangsUp
    BY <1>0, <1>5, <2>1 DEF LinkHangsUp, daemon, bounds, calls
  <2>2. CASE SendReply
    <3>1. CASE Leave
      BY <1>0, <1>5, <2>2, <3>1 DEF SendReply, daemon, bounds, calls
    <3>2. CASE pc' = "serve" /\ UNCHANGED <<downward, early>>
      <4>1. InHand = {} /\ InHand' = {}
        BY <2>2, <3>2 DEF SendReply, InHand
      <4> QED
        BY <1>2, <2>2, <3>2, <4>1 DEF SendReply, daemon, bounds, calls
    <3> QED
      BY <2>2, <3>1, <3>2 DEF SendReply
  <2>3. CASE Dial \/ ReadStates \/ SendStates
    <3>1. InHand = {} /\ InHand' = {}
      BY <2>3 DEF Dial, ReadStates, SendStates, InHand
    <3>2. UNCHANGED <<downward, early, caller, requests, runs>>
      BY <2>3 DEF Dial, ReadStates, SendStates, wire, daemon, bounds, calls
    <3> QED
      BY <1>2, <3>1, <3>2
  <2> QED
    BY <1>6, <1>7, <1>8, <1>9, <2>1, <2>2, <2>3 DEF Link
<1>10. ASSUME NEW c \in Conns, Reader(c) PROVE OnceInv'
  <2>1. CASE Welcome(c)
    <3> DEFINE f == [op |-> "registered"]
    <3>1. f \in DownFrames /\ Marked(f) /\ Mark(f) = None
      BY DEF DownFrames, Marked, Mark
    <3>2. /\ ToAgent(c, f) /\ UNCHANGED <<early, caller, requests, runs, pc, hand>>
          /\ None \notin Marks(downward[c])
      BY <2>1 DEF Welcome, WelcomeInv, RegistersOnce, agent, bounds, calls
    <3> HIDE DEF f
    <3>3. \A d \in Conns : NoRepeat(downward'[d]) /\ OnWire(d)' \subseteq OnWire(d)
      BY <1>1, <3>1, <3>2, ToAgentMarks DEF OnWire
    <3>4. UNCHANGED Kept /\ UNCHANGED Unperformed /\ UNCHANGED InHand
      BY <3>2 DEF Kept, Unperformed, InHand
    <3>5. NoRepeat(early') /\ \A h \in Handlers : UNCHANGED Leaving(h)
      BY <1>1, <3>2 DEF Leaving
    <3> QED
      BY <3>3, <3>4, <3>5, OnceLess
  <2> QED
    BY <1>3, <1>10, <2>1 DEF Reader, HandleFrame, StoreStates, PushState, DeliverReply, HangUp,
       Drop, Farewell, wire, agent, bounds, calls
<1>11. ASSUME NEW h \in Handlers, AskAgent(h) PROVE OnceInv'
  <2>0. /\ UNCHANGED <<downward, early, pc, hand, runs>> /\ requests' = requests + 1
        /\ caller[h].pc = "idle" /\ requests + 1 \in Requests
    BY <1>0, <1>11 DEF AskAgent, wire, agent
  <2>1. UNCHANGED Kept /\ UNCHANGED InHand /\ \A c \in Conns : UNCHANGED OnWire(c)
    BY <2>0 DEF Kept, InHand, OnWire
  <2>2. \A g \in Handlers : g # h => UNCHANGED Leaving(g)
    BY <1>0, <1>11 DEF AskAgent, Leaving
  <2>3. Leaving(h)' \subseteq {requests + 1}
    BY <1>0, <1>11, <2>0 DEF AskAgent, Leaving
  <2>4. Unperformed \subseteq Unperformed' /\ requests + 1 \in Unperformed'
    BY <1>0, <2>0 DEF Unperformed, TableInv
  <2>5. requests + 1 \notin Unperformed
    BY <1>0 DEF Unperformed
  <2>6. /\ requests + 1 \notin Kept \union InHand
        /\ \A c \in Conns : requests + 1 \notin OnWire(c)
        /\ \A g \in Handlers : requests + 1 \notin Leaving(g)
    BY <2>5 DEF OnceInv
  <2>7. /\ Kept' \union InHand' \subseteq Unperformed' /\ Kept' \intersect InHand' = {}
        /\ \A d \in Conns : /\ OnWire(d)' \subseteq Unperformed'
                            /\ OnWire(d)' \intersect (Kept' \union InHand') = {}
    BY <2>1, <2>4 DEF OnceInv
  <2>8. \A d, e \in Conns : d # e => OnWire(d)' \intersect OnWire(e)' = {}
    BY <2>1 DEF OnceInv
  <2>9. \A g \in Handlers : /\ Leaving(g)' \subseteq Unperformed'
                            /\ Leaving(g)' \intersect (Kept' \union InHand') = {}
                            /\ \A d \in Conns : OnWire(d)' \intersect Leaving(g)' = {}
    BY <2>1, <2>2, <2>3, <2>4, <2>6 DEF OnceInv
  <2>10. \A g, k \in Handlers : g # k => Leaving(g)' \intersect Leaving(k)' = {}
    <3>1. \A g, k \in Handlers : g # k => Leaving(g) \intersect Leaving(k) = {}
      BY DEF OnceInv
    <3> QED
      BY <2>2, <2>3, <2>6, <3>1
  <2> QED
    BY <1>1, <2>0, <2>7, <2>8, <2>9, <2>10 DEF OnceInv
<1>12. ASSUME NEW h \in Handlers, SendRequest(h) PROVE OnceInv'
  <2>0. PICK c \in Conns : c = caller[h].conn
    BY <1>0, <1>12 DEF SendRequest, Idle, Callers
  <2> DEFINE f == [op |-> "request", rid |-> caller[h].rid, of |-> caller[h].of]
             r == caller[h].of
  <2>1. /\ f \in DownFrames /\ Marked(f) /\ Mark(f) = r /\ r \in Requests /\ r # None
    BY <1>0, <1>12 DEF SendRequest, Idle, Callers, DownFrames, RequestFrames, Marked, Mark
  <2>2. ToAgent(c, f) /\ UNCHANGED <<early, pc, hand, requests, runs>>
    BY <1>12, <2>0 DEF SendRequest, agent, bounds, calls
  <2>3. Leaving(h) = {r} /\ Leaving(h)' = {}
    <3>1. [caller[h] EXCEPT !.pc = "wait"].pc = "wait"
      BY <1>0, <1>12 DEF SendRequest, Idle, Callers
    <3> QED
      BY <1>0, <1>12, <3>1 DEF SendRequest, Leaving
  <2>4. \A g \in Handlers : g # h => UNCHANGED Leaving(g)
    BY <1>0, <1>12 DEF SendRequest, Leaving
  <2>5. UNCHANGED Kept /\ UNCHANGED Unperformed /\ UNCHANGED InHand /\ UNCHANGED early
    BY <2>2 DEF Kept, Unperformed, InHand
  <2> HIDE DEF f, r
  <2>6. /\ r \in Unperformed /\ r \notin Kept \union InHand
        /\ \A d \in Conns : r \notin OnWire(d)
        /\ \A g \in Handlers : g # h => r \notin Leaving(g)
    BY <2>3 DEF OnceInv
  <2>7. /\ \A d \in Conns : d # c => downward'[d] = downward[d]
        /\ Marks(downward'[c]) \subseteq Marks(downward[c]) \cup {r}
        /\ NoRepeat(downward[c]) /\ r \notin Marks(downward[c]) => NoRepeat(downward'[c])
    BY <2>1, <2>2, ToAgentMarks
  <2>8. /\ \A d \in Conns : NoRepeat(downward'[d])
        /\ \A d \in Conns : d # c => UNCHANGED OnWire(d)
        /\ OnWire(c)' \subseteq OnWire(c) \cup {r}
    BY <1>1, <2>1, <2>6, <2>7 DEF OnWire
  <2>9. /\ Kept' \union InHand' \subseteq Unperformed' /\ Kept' \intersect InHand' = {}
        /\ \A d \in Conns : /\ OnWire(d)' \subseteq Unperformed'
                            /\ OnWire(d)' \intersect (Kept' \union InHand') = {}
    BY <2>5, <2>6, <2>8 DEF OnceInv
  <2>10. \A d, e \in Conns : d # e => OnWire(d)' \intersect OnWire(e)' = {}
    <3>1. \A d, e \in Conns : d # e => OnWire(d) \intersect OnWire(e) = {}
      BY DEF OnceInv
    <3> QED
      BY <2>6, <2>8, <3>1
  <2>11. \A g \in Handlers : /\ Leaving(g)' \subseteq Unperformed'
                             /\ Leaving(g)' \intersect (Kept' \union InHand') = {}
                             /\ \A d \in Conns : OnWire(d)' \intersect Leaving(g)' = {}
    BY <2>3, <2>4, <2>5, <2>6, <2>8 DEF OnceInv
  <2>12. \A g, k \in Handlers : g # k => Leaving(g)' \intersect Leaving(k)' = {}
    BY <2>3, <2>4 DEF OnceInv
  <2> QED
    BY <1>1, <2>5, <2>8, <2>9, <2>10, <2>11, <2>12 DEF OnceInv
<1>13. ASSUME NEW h \in Handlers, Answered(h) \/ TimesOut(h) PROVE OnceInv'
  <2>1. UNCHANGED <<downward, early, pc, hand, requests, runs>>
    BY <1>13 DEF Answered, TimesOut, Conclude, wire, agent, bounds
  <2>2. \A g \in Handlers : Leaving(g)' \subseteq Leaving(g)
    <3>1. caller' = [caller EXCEPT ![h] = Idle]
      BY <1>13 DEF Answered, TimesOut, Conclude
    <3>2. Leaving(h)' = {}
      BY <1>0, <3>1 DEF Leaving, Idle
    <3>3. \A g \in Handlers : g # h => UNCHANGED Leaving(g)
      BY <1>0, <3>1 DEF Leaving
    <3> QED
      BY <3>2, <3>3
  <2>3. UNCHANGED Kept /\ UNCHANGED Unperformed /\ UNCHANGED InHand /\ \A c \in Conns : UNCHANGED OnWire(c)
    BY <2>1 DEF Kept, Unperformed, InHand, OnWire
  <2> QED
    BY <1>1, <2>1, <2>2, <2>3, OnceLess
<1>14. CASE DaemonEnds
  <2>1. UNCHANGED <<downward, early, pc, hand, requests, runs>>
    BY <1>14 DEF DaemonEnds, agent
  <2>2. \A g \in Handlers : Leaving(g)' = {}
    BY <1>14 DEF DaemonEnds, Leaving, Idle
  <2>3. UNCHANGED Kept /\ UNCHANGED Unperformed /\ UNCHANGED InHand /\ \A c \in Conns : UNCHANGED OnWire(c)
    BY <2>1 DEF Kept, Unperformed, InHand, OnWire
  <2> QED
    BY <1>1, <2>1, <2>2, <2>3, OnceLess
<1>15. CASE AgentRestarts
  BY <1>4, <1>15 DEF AgentRestarts, daemon, calls
<1> QED
  BY <1>3, <1>9, <1>10, <1>11, <1>12, <1>13, <1>14, <1>15 DEF Next, Loop, Report, LookForLink,
     SendReport, Caller, DaemonStarts, vars, wire, daemon, agent, bounds, calls

\* A number that stands for a request stands for no other until the daemon ends.
LEMMA MatchesKept ==
    ASSUME TypeOK, [Next]_vars, ~DaemonEnds
    PROVE  \A f : Matches(f) => Matches(f)'
<1> USE DEF TypeOK
<1>0. counter \in Nat /\ requests \in Nat /\ caller \in [Handlers -> Callers \cup {Idle}]
  BY DEF CountTypes, DaemonTypes
<1>1. ASSUME counter' = counter,
             \A h \in Asking' : h \in Asking /\ caller'[h].of = caller[h].of
                                             /\ caller'[h].rid = caller[h].rid
      PROVE  \A f : Matches(f) => Matches(f)'
  BY <1>1 DEF Matches
<1>2. CASE UNCHANGED <<counter, caller>>
  BY <1>1, <1>2 DEF Asking
<1>3. ASSUME NEW h \in Handlers, AskAgent(h) PROVE \A f : Matches(f) => Matches(f)'
  <2>1. CASE registered = None
    BY <1>2, <1>3, <2>1 DEF AskAgent
  <2>2. CASE registered # None
    <3> DEFINE u == [pc |-> "send", of |-> requests + 1, rid |-> counter + 1,
                     conn |-> registered]
    <3>1. u.rid = counter + 1
      OBVIOUS
    <3>2. counter' = counter + 1 /\ caller' = [caller EXCEPT ![h] = u]
      BY <1>3, <2>2 DEF AskAgent
    <3> HIDE DEF u
    <3>3. caller'[h].rid = counter + 1
      BY <1>0, <3>1, <3>2
    <3>4. \A g \in Asking' : g # h => g \in Asking /\ caller'[g] = caller[g]
      BY <1>0, <3>2 DEF Asking
    <3> SUFFICES ASSUME NEW f, Matches(f) PROVE Matches(f)'
      OBVIOUS
    <3>5. f.rid \in 1..counter /\ f.rid # counter + 1
      BY <1>0 DEF Matches
    <3>6. f.rid \in 1..counter'
      BY <1>0, <3>2, <3>5
    <3>7. \A g \in Asking' : caller'[g].rid = f.rid => caller'[g].of = f.of
      BY <3>3, <3>4, <3>5 DEF Matches
    <3> QED
      BY <3>6, <3>7 DEF Matches
  <2> QED
    BY <2>1, <2>2
<1>4. ASSUME NEW h \in Handlers, Caller(h) PROVE \A f : Matches(f) => Matches(f)'
  <2>1. CASE SendRequest(h)
    <3>1. caller' = [caller EXCEPT ![h].pc = "wait"] /\ caller[h] \in Callers /\ counter' = counter
      BY <1>0, <2>1 DEF SendRequest, Idle, table
    <3>2. caller[h].pc # "idle"
      BY <2>1 DEF SendRequest
    <3> QED
      BY <1>0, <1>1, <3>1, <3>2 DEF Asking, Callers
  <2>2. CASE Answered(h) \/ TimesOut(h)
    <3>1. caller' = [caller EXCEPT ![h] = Idle] /\ counter' = counter
      BY <2>2 DEF Answered, TimesOut, Conclude
    <3> QED
      BY <1>0, <1>1, <3>1 DEF Asking, Idle
  <2> QED
    BY <1>4, <2>1, <2>2 DEF Caller
<1>5. ASSUME NEW c \in Conns, Reader(c) PROVE \A f : Matches(f) => Matches(f)'
  BY <1>2, <1>5 DEF Reader, HandleFrame, Welcome, StoreStates, PushState, DeliverReply, HangUp, Drop,
     Farewell, table
<1>6. CASE Link
  BY <1>2, <1>6 DEF Link, Dial, LinkHangsUp, ReadWhileRegistering, ReadStates, SendStates,
     TakeRequest, PerformRequest, SendReply, daemon, table
<1> QED
  BY <1>2, <1>3, <1>4, <1>5, <1>6 DEF Next, Loop, Report, LookForLink, SendReport, AgentRestarts,
     DaemonStarts, vars, daemon, table

\* What has been performed is not performed again.
LEMMA PerformedKept ==
    ASSUME TypeOK, OnceInv, [Next]_vars
    PROVE  \A r \in Requests : runs[r] = 1 => runs'[r] = 1
<1>1. CASE UNCHANGED runs
  BY <1>1
<1>2. CASE PerformRequest
  <2>1. hand.of \in Requests /\ runs[hand.of] = 0
    BY <1>2 DEF PerformRequest, OnceInv, InHand, Unperformed
  <2> QED
    BY <1>2, <2>1 DEF PerformRequest, TypeOK, CountTypes
<1>3. CASE Link
  BY <1>1, <1>2, <1>3 DEF Link, Dial, LinkHangsUp, ReadWhileRegistering, ReadStates, SendStates,
     TakeRequest, SendReply, calls
<1>4. ASSUME NEW c \in Conns, Reader(c) PROVE UNCHANGED runs
  BY <1>4 DEF Reader, HandleFrame, Welcome, StoreStates, PushState, DeliverReply, HangUp, Drop,
     Farewell, calls
<1>5. ASSUME NEW h \in Handlers, AskAgent(h) \/ Caller(h) PROVE UNCHANGED runs
  BY <1>5 DEF Caller, AskAgent, SendRequest, Answered, TimesOut, Conclude, calls
<1> QED
  BY <1>1, <1>3, <1>4, <1>5 DEF Next, Loop, Report, LookForLink, SendReport, AgentRestarts,
     DaemonEnds, DaemonStarts, vars, calls

\* Requests on their way to the agent keep the numbers they have in the table.
LEMMA NextDownNumbers ==
    ASSUME TypeOK, EndsInv, TableInv, DownNumbers, [Next]_vars
    PROVE  DownNumbers'
<1> USE DEF TypeOK
<1>0. /\ downward \in [Conns -> Seq(DownFrames)] /\ daemonEnd \in [Conns -> BOOLEAN]
      /\ pc # "dial" => client \in Conns
      /\ caller \in [Handlers -> Callers \cup {Idle}]
  BY DEF WireTypes, AgentTypes, DaemonTypes
<1>1. CASE DaemonEnds
  BY <1>1 DEF DaemonEnds, DownNumbers
<1>2. CASE ~DaemonEnds
  <2>0. \A f : Matches(f) => Matches(f)'
    BY <1>2, MatchesKept
  <2>1. ASSUME \A c \in Conns : /\ Range(downward'[c]) \subseteq Range(downward[c])
                                /\ daemonEnd'[c] => daemonEnd[c]
        PROVE  DownNumbers'
    BY <2>0, <2>1 DEF DownNumbers
  <2>2. CASE UNCHANGED <<downward, daemonEnd>>
    BY <2>1, <2>2
  <2>3. CASE Dial
    <3>1. PICK c \in Conns : c = dials + 1
      BY <2>3 DEF Dial, CountTypes
    <3>2. downward'[c] = <<>> /\ UNCHANGED downward
      BY <2>3, <3>1 DEF Dial, EndsInv, CountTypes
    <3>3. \A d \in Conns : d # c => daemonEnd'[d] = daemonEnd[d]
      BY <1>0, <2>3, <3>1 DEF Dial
    <3> QED
      BY <2>0, <3>2, <3>3, QueueEmpty DEF DownNumbers
  <2>4. ASSUME UNCHANGED daemonEnd,
               \A c \in Conns : downward'[c] = <<>> \/ downward'[c] = downward[c]
        PROVE  DownNumbers'
    BY <2>1, <2>4, QueueEmpty
  <2>5. CASE ReadWhileRegistering \/ TakeRequest
    <3>1. client \in Conns /\ UNCHANGED daemonEnd
      BY <1>0, <2>5 DEF ReadWhileRegistering, TakeRequest
    <3>2. CASE downward[client] # <<>> /\ downward' = [downward EXCEPT ![client] = Tail(@)]
      <4>1. Range(Tail(downward[client])) \subseteq Range(downward[client])
        BY <1>0, <3>1, <3>2, QueueTail
      <4>2. \A c \in Conns : Range(downward'[c]) \subseteq Range(downward[c])
        BY <1>0, <3>1, <3>2, <4>1
      <4> QED
        BY <2>1, <3>1, <4>2
    <3> QED
      BY <2>2, <2>5, <3>1, <3>2 DEF ReadWhileRegistering, TakeRequest
  <2>6. CASE Link
    <3>1. CASE LinkHangsUp \/ SendReply
      BY <1>0, <2>2, <2>4, <3>1 DEF LinkHangsUp, SendReply, Leave
    <3> QED
      BY <2>2, <2>3, <2>5, <2>6, <3>1 DEF Link, ReadStates, SendStates, PerformRequest, wire
  <2>7. ASSUME NEW c \in Conns, Reader(c) PROVE DownNumbers'
    <3>1. CASE Welcome(c)
      <4> DEFINE f == [op |-> "registered"]
      <4>1. f \in DownFrames /\ Marked(f) /\ f.op # "request"
        BY DEF DownFrames, Marked
      <4>2. ToAgent(c, f) /\ UNCHANGED daemonEnd
        BY <3>1 DEF Welcome
      <4> HIDE DEF f
      <4>3. /\ \A d \in Conns : d # c => downward'[d] = downward[d]
            /\ Range(downward'[c]) \subseteq Range(downward[c]) \cup {f}
        BY <4>1, <4>2, ToAgentMarks
      <4> QED
        BY <2>0, <4>1, <4>2, <4>3 DEF DownNumbers
    <3>2. CASE HangUp(c)
      <4>1. UNCHANGED downward /\ \A d \in Conns : daemonEnd'[d] => daemonEnd[d]
        BY <1>0, <3>2 DEF HangUp
      <4> QED
        BY <2>1, <4>1
    <3> QED
      BY <2>2, <2>7, <3>1, <3>2 DEF Reader, HandleFrame, StoreStates, PushState, DeliverReply, Drop,
         Farewell, wire
  <2>8. ASSUME NEW h \in Handlers, AskAgent(h) \/ Caller(h) PROVE DownNumbers'
    <3>1. CASE SendRequest(h)
      <4>0. PICK c \in Conns : c = caller[h].conn
        BY <1>0, <3>1 DEF SendRequest, Idle, Callers
      <4>1. PICK f \in DownFrames : f = [op |-> "request", rid |-> caller[h].rid,
                                         of |-> caller[h].of]
        BY <1>0, <3>1 DEF SendRequest, Idle, Callers, DownFrames, RequestFrames
      <4>2. Marked(f) /\ f.rid = caller[h].rid /\ f.of = caller[h].of
        BY <4>1 DEF Marked
      <4>3. ToAgent(c, f) /\ UNCHANGED daemonEnd
        BY <3>1, <4>0, <4>1 DEF SendRequest
      <4>4. /\ \A d \in Conns : d # c => downward'[d] = downward[d]
            /\ Range(downward'[c]) \subseteq Range(downward[c]) \cup {f}
        BY <4>2, <4>3, ToAgentMarks
      <4>5. Matches(f)
        <5>1. h \in Asking
          BY <3>1 DEF SendRequest, Asking
        <5>2. caller[h].rid \in Requests /\ counter \in Nat
          BY <1>0, <3>1 DEF SendRequest, Idle, Callers, CountTypes
        <5>3. caller[h].rid \in 1..counter
          BY <5>1, <5>2 DEF TableInv
        <5> QED
          BY <4>2, <5>1, <5>3 DEF Matches, TableInv
      <4> QED
        BY <2>0, <4>3, <4>4, <4>5 DEF DownNumbers
    <3> QED
      BY <2>2, <2>8, <3>1 DEF Caller, AskAgent, Answered, TimesOut, Conclude, wire
  <2>9. CASE AgentRestarts
    BY <2>4, <2>9 DEF AgentRestarts
  <2> QED
    BY <1>2, <2>2, <2>6, <2>7, <2>8, <2>9 DEF Next, Loop, Report, LookForLink, SendReport,
       DaemonStarts, vars, wire
<1> QED
  BY <1>1, <1>2

\* So do the requests the link has read.
LEMMA NextHandNumbers ==
    ASSUME TypeOK, WelcomeInv, OnceInv, DownNumbers, HandNumbers, [Next]_vars
    PROVE  HandNumbers'
<1> USE DEF TypeOK
<1>0. /\ downward \in [Conns -> Seq(DownFrames)] /\ daemonEnd \in [Conns -> BOOLEAN]
      /\ early \in Seq(RequestFrames)
      /\ pc # "dial" => client \in Conns
      /\ pc \in {"perform", "answer"} => hand \in RequestFrames
      /\ \A f \in RequestFrames : f.op = "request" /\ f.of \in Requests
      /\ None \notin Conns
  <2>1. downward \in [Conns -> Seq(DownFrames)] /\ daemonEnd \in [Conns -> BOOLEAN]
    BY DEF WireTypes
  <2>2. \A f \in RequestFrames : f.op = "request" /\ f.of \in Requests
    BY DEF RequestFrames
  <2> QED
    BY <2>1, <2>2 DEF AgentTypes
<1>1. CASE DaemonEnds
  <2>1. UNCHANGED <<pc, hand, runs>> /\ \A c \in Conns : ~daemonEnd'[c]
    BY <1>1 DEF DaemonEnds, agent
  <2> QED
    BY <2>1 DEF HandNumbers
<1>2. CASE ~DaemonEnds
  <2>0. \A f : Matches(f) => Matches(f)'
    BY <1>2, MatchesKept
  <2>1. \A r \in Requests : runs[r] = 1 => runs'[r] = 1
    BY PerformedKept
  <2>2. ASSUME UNCHANGED <<client, early>>, pc' \notin {"perform", "answer"},
               \A c \in Conns : daemonEnd'[c] => daemonEnd[c]
        PROVE  HandNumbers'
    BY <2>0, <2>2 DEF HandNumbers
  <2>3. ASSUME UNCHANGED <<client, early, pc, hand>>,
               \A c \in Conns : daemonEnd'[c] => daemonEnd[c]
        PROVE  HandNumbers'
    <3>1. CASE pc \in {"perform", "answer"}
      <4>1. PICK f \in RequestFrames : f = hand
        BY <1>0, <3>1
      <4> QED
        BY <1>0, <2>0, <2>1, <2>3, <3>1, <4>1 DEF HandNumbers
    <3>2. CASE pc \notin {"perform", "answer"}
      BY <2>2, <2>3, <3>2
    <3> QED
      BY <3>1, <3>2
  <2>4. ASSUME client' = None, pc' = "dial" PROVE HandNumbers'
    BY <1>0, <2>4 DEF HandNumbers
  <2>5. CASE Dial
    <3>1. early' = <<>> /\ pc' = "register"
      BY <2>5 DEF Dial, AgentTypes
    <3> QED
      BY <3>1, QueueEmpty DEF HandNumbers
  <2>6. CASE ReadWhileRegistering
    <3>0. PICK c \in Conns : c = client
      BY <1>0, <2>6 DEF ReadWhileRegistering
    <3>1. UNCHANGED <<client, daemonEnd>> /\ pc' \in {"register", "resend"} /\ downward[c] # <<>>
      BY <2>6, <3>0 DEF ReadWhileRegistering
    <3>2. PICK f \in DownFrames : f = Head(downward[c]) /\ f \in Range(downward[c])
      BY <1>0, <3>1, QueueTail
    <3>3. CASE UNCHANGED early
      BY <2>2, <3>1, <3>3
    <3>4. CASE f.op = "request" /\ early' = Append(early, f)
      <4>1. f \in RequestFrames
        BY <3>4 DEF DownFrames
      <4>2. Range(early') = Range(early) \cup {f}
        BY <1>0, <3>4, <4>1, QueueAppend
      <4>3. daemonEnd[c] => Matches(f)
        BY <3>2, <3>4 DEF DownNumbers
      <4> QED
        BY <2>0, <3>0, <3>1, <4>2, <4>3 DEF HandNumbers
    <3> QED
      BY <2>6, <3>0, <3>2, <3>3, <3>4 DEF ReadWhileRegistering
  <2>7. CASE TakeRequest
    <3>0. PICK c \in Conns : c = client
      BY <1>0, <2>7 DEF TakeRequest
    <3>1. UNCHANGED <<client, daemonEnd>> /\ pc' = "perform"
      BY <2>7 DEF TakeRequest
    <3>2. CASE early # <<>>
      <4>1. PICK f \in Range(early) : f = Head(early)
        BY <1>0, <3>2, QueueTail
      <4>2. Range(early') \subseteq Range(early) /\ hand' = f
        BY <1>0, <2>7, <3>2, <4>1, QueueTail DEF TakeRequest
      <4> QED
        BY <2>0, <3>0, <3>1, <4>1, <4>2 DEF HandNumbers
    <3>3. CASE early = <<>>
      <4>1. PICK f \in Range(downward[c]) : f = Head(downward[c])
        BY <1>0, <2>7, <3>0, <3>3, QueueTail DEF TakeRequest
      <4>2. UNCHANGED early /\ hand' = f
        BY <2>7, <3>0, <3>3, <4>1 DEF TakeRequest
      <4>3. f.op = "request"
        <5>1. TypeOK'
          BY <2>7, LinkTypes DEF Link
        <5>2. hand' \in RequestFrames
          BY <3>1, <5>1 DEF AgentTypes
        <5> QED
          BY <1>0, <4>2, <5>2
      <4>4. daemonEnd[c] => Matches(f)
        BY <4>1, <4>3 DEF DownNumbers
      <4> QED
        BY <2>0, <3>0, <3>1, <4>2, <4>4 DEF HandNumbers
    <3> QED
      BY <3>2, <3>3
  <2>8. CASE PerformRequest
    <3>1. PICK f \in RequestFrames : f = hand
      BY <1>0, <2>8 DEF PerformRequest
    <3>2. UNCHANGED <<client, early, hand, daemonEnd>> /\ pc = "perform" /\ pc' = "answer"
      BY <2>8 DEF PerformRequest, wire
    <3>3. runs'[f.of] = 1
      <4>1. f.of \in Requests /\ runs[f.of] = 0
        BY <3>1, <3>2 DEF OnceInv, InHand, Unperformed
      <4> QED
        BY <2>8, <3>1, <4>1 DEF PerformRequest, CountTypes
    <3> QED
      BY <2>0, <3>1, <3>2, <3>3 DEF HandNumbers
  <2>9. CASE Link
    <3>1. CASE LinkHangsUp
      BY <2>4, <3>1 DEF LinkHangsUp, Leave
    <3>2. CASE SendReply
      BY <2>2, <2>4, <3>2 DEF SendReply, Leave
    <3>3. CASE ReadStates \/ SendStates
      BY <2>2, <3>3 DEF ReadStates, SendStates, wire
    <3> QED
      BY <2>5, <2>6, <2>7, <2>8, <2>9, <3>1, <3>2, <3>3 DEF Link
  <2>10. ASSUME NEW c \in Conns, Reader(c) PROVE HandNumbers'
    <3>1. UNCHANGED <<client, early, pc, hand>>
      BY <2>10 DEF Reader, HandleFrame, Welcome, StoreStates, PushState, DeliverReply, HangUp, Drop,
         Farewell, agent
    <3>2. \A d \in Conns : daemonEnd'[d] => daemonEnd[d]
      BY <1>0, <2>10 DEF Reader, HandleFrame, Welcome, StoreStates, PushState, DeliverReply, HangUp,
         Drop, Farewell, wire
    <3> QED
      BY <2>3, <3>1, <3>2
  <2>11. ASSUME NEW h \in Handlers, AskAgent(h) \/ Caller(h) PROVE HandNumbers'
    BY <2>3, <2>11 DEF Caller, AskAgent, SendRequest, Answered, TimesOut, Conclude, wire, agent
  <2>12. CASE AgentRestarts
    BY <2>4, <2>12 DEF AgentRestarts
  <2> QED
    BY <1>2, <2>3, <2>9, <2>10, <2>11, <2>12 DEF Next, Loop, Report, LookForLink, SendReport,
       DaemonStarts, vars, wire, agent
<1> QED
  BY <1>1, <1>2

\* A reply carries the number of the request it is the answer of.
LEMMA NextReplyNumbers ==
    ASSUME TypeOK, OnceInv, HandNumbers, ReplyNumbers, [Next]_vars
    PROVE  ReplyNumbers'
<1> USE DEF TypeOK
<1>0. /\ upward \in [Conns -> Seq(UpFrames)] /\ reader \in [Conns -> Readers]
      /\ pc # "dial" => client \in Conns
  BY DEF WireTypes, DaemonTypes, AgentTypes
<1>1. CASE DaemonEnds
  BY <1>1, QueueEmpty DEF DaemonEnds, ReplyNumbers, NoReader
<1>2. CASE ~DaemonEnds
  <2>1. ASSUME NEW f \in ReplyFrames, AnswerInv(f) PROVE AnswerInv(f)'
    <3>1. f.of \in Requests
      BY DEF ReplyFrames
    <3> QED
      BY <1>2, <2>1, <3>1, MatchesKept, PerformedKept DEF AnswerInv
  <2>2. \A c \in Conns : /\ \A f \in Range(upward[c]) : f.op = "reply" => f \in ReplyFrames
                         /\ reader[c].pc = "deliver" => reader[c].arg \in ReplyFrames
    <3>1. \A c \in Conns : Range(upward[c]) \subseteq UpFrames
      <4>1. \A c \in Conns : upward[c] \in Seq(UpFrames)
        BY <1>0
      <4> QED
        BY <4>1 DEF Range
    <3>2. \A f \in UpFrames : f.op = "reply" => f \in ReplyFrames
      BY DEF UpFrames, StateFrames
    <3>3. \A c \in Conns : reader[c].pc = "deliver" => reader[c].arg \in ReplyFrames
      BY <1>0 DEF Readers
    <3> QED
      BY <3>1, <3>2, <3>3
  <2>3. \A c \in Conns : /\ \A f \in Range(upward[c]) : f.op = "reply" => AnswerInv(f)'
                         /\ reader[c].pc = "deliver" => AnswerInv(reader[c].arg)
    BY <2>1, <2>2 DEF ReplyNumbers
  <2>4. ASSUME \A c \in Conns :
                 /\ \A f \in Range(upward'[c]) : f \in Range(upward[c]) \/ f.op # "reply"
                 /\ reader'[c].pc = "deliver" => reader'[c] = reader[c]
        PROVE  ReplyNumbers'
    <3>1. \A c \in Conns : \A f \in Range(upward'[c]) : f.op = "reply" => AnswerInv(f)'
      BY <2>3, <2>4
    <3>2. ASSUME NEW c \in Conns, reader'[c].pc = "deliver" PROVE AnswerInv(reader[c].arg)'
      <4>1. PICK f \in ReplyFrames : f = reader[c].arg /\ AnswerInv(f)
        BY <2>2, <2>3, <2>4, <3>2
      <4>2. f = reader'[c].arg
        BY <2>4, <3>2, <4>1
      <4> QED
        BY <2>1, <4>1, <4>2
    <3> QED
      BY <3>1, <3>2 DEF ReplyNumbers
  <2>5. CASE UNCHANGED <<upward, reader>>
    BY <2>4, <2>5
  <2>6. CASE Dial
    <3>1. PICK c \in Conns : c = dials + 1
      BY <2>6 DEF Dial, CountTypes
    <3>2. /\ upward'[c] = <<[op |-> "register"]>> /\ reader'[c].pc = "read"
          /\ \A d \in Conns : d # c => upward'[d] = upward[d] /\ reader'[d] = reader[d]
      BY <1>0, <2>6, <3>1 DEF Dial, Reading
    <3>3. \A f \in Range(<<[op |-> "register"]>>) : f.op # "reply"
      BY DEF Range
    <3> QED
      BY <2>4, <3>2, <3>3
  <2>7. ASSUME NEW c \in Conns, NEW f \in UpFrames, ~Marked(f), f.op # "reply", ToDaemon(c, f),
               UNCHANGED reader
        PROVE  ReplyNumbers'
    <3>1. \A d \in Conns : Range(upward'[d]) \subseteq Range(upward[d]) \cup {f}
      BY <2>7, ToDaemonMarks
    <3> QED
      BY <2>4, <2>7, <3>1
  <2>8. CASE SendStates
    <3>1. client \in Conns /\ hand \in UpFrames /\ ~Marked(hand) /\ hand.op # "reply"
      BY <2>8 DEF SendStates, AgentTypes, StateFrames, UpFrames, Marked
    <3> QED
      BY <2>7, <2>8, <3>1 DEF SendStates, daemon
  <2>9. CASE SendReply
    <3>1. CASE UNCHANGED upward
      BY <2>5, <2>9, <3>1 DEF SendReply, daemon
    <3>2. CASE /\ Alive(client)
               /\ ToDaemon(client, [op |-> "reply", rid |-> hand.rid, of |-> hand.of])
      <4>0. PICK c \in Conns : c = client
        BY <1>0, <2>9 DEF SendReply
      <4>1. PICK k \in RequestFrames : k = hand
        BY <2>9 DEF SendReply, AgentTypes
      <4>2. PICK f \in ReplyFrames : f = [op |-> "reply", rid |-> k.rid, of |-> k.of]
        BY DEF RequestFrames, ReplyFrames
      <4>3. /\ f \in UpFrames /\ ~Marked(f)
            /\ f.rid = k.rid /\ f.of = k.of
        BY <4>2 DEF UpFrames, Marked
      <4>4. AnswerInv(f)
        <5>1. Matches(k) /\ runs[k.of] = 1
          BY <2>9, <3>2, <4>0, <4>1 DEF SendReply, HandNumbers, Alive
        <5> QED
          BY <4>3, <5>1 DEF AnswerInv, Matches
      <4>5. AnswerInv(f)'
        BY <2>1, <4>4
      <4>6. \A d \in Conns : Range(upward'[d]) \subseteq Range(upward[d]) \cup {f}
        BY <3>2, <4>0, <4>1, <4>2, <4>3, ToDaemonMarks
      <4>7. UNCHANGED reader
        BY <2>9 DEF SendReply, daemon
      <4>8. ASSUME NEW d \in Conns, reader'[d].pc = "deliver" PROVE AnswerInv(reader[d].arg)'
        <5>1. PICK g \in ReplyFrames : g = reader[d].arg /\ AnswerInv(g)
          BY <2>2, <2>3, <4>7, <4>8
        <5> QED
          BY <2>1, <4>7, <5>1
      <4> QED
        BY <2>3, <4>5, <4>6, <4>8 DEF ReplyNumbers
    <3> QED
      BY <2>9, <3>1, <3>2 DEF SendReply
  <2>10. CASE Link
    BY <2>5, <2>6, <2>8, <2>9, <2>10 DEF Link, LinkHangsUp, ReadWhileRegistering, ReadStates,
       TakeRequest, PerformRequest, wire, daemon
  <2>11. CASE Loop
    <3>1. CASE SendReport
      <4> DEFINE f == [op |-> "state", value |-> carried.value]
      <4>1. f \in UpFrames /\ ~Marked(f) /\ f.op # "reply" /\ carried.conn \in Conns
        BY <3>1 DEF SendReport, AgentTypes, StateFrames, UpFrames, Marked
      <4> QED
        BY <2>7, <3>1, <4>1 DEF SendReport, daemon
    <3> QED
      BY <2>5, <2>11, <3>1 DEF Loop, LookForLink, wire, daemon
  <2>12. ASSUME NEW c \in Conns, Reader(c) PROVE ReplyNumbers'
    <3>0. \A d \in Conns : d # c => reader'[d] = reader[d]
      BY <1>0, <2>12, ThenIs DEF Reader, HandleFrame, Welcome, StoreStates, PushState,
         DeliverReply, HangUp, Drop, Farewell
    <3>1. CASE HandleFrame(c)
      <4>1. upward[c] # <<>> /\ upward' = [upward EXCEPT ![c] = Tail(@)]
        BY <3>1 DEF HandleFrame
      <4>2. PICK f \in Range(upward[c]) : f = Head(upward[c])
        BY <1>0, <4>1, QueueTail
      <4>3. \A d \in Conns : Range(upward'[d]) \subseteq Range(upward[d])
        <5>1. Range(Tail(upward[c])) \subseteq Range(upward[c])
          BY <1>0, <4>1, QueueTail
        <5> QED
          BY <1>0, <4>1, <5>1
      <4>4. CASE Then(c, "deliver", f) /\ f.op = "reply"
        <5>1. reader'[c].arg = f /\ AnswerInv(f)'
          BY <1>0, <2>3, <4>4, ThenIs
        <5>2. ASSUME NEW d \in Conns, reader'[d].pc = "deliver" PROVE AnswerInv(reader[d].arg)'
          <6>1. CASE d = c
            BY <5>1, <6>1
          <6>2. CASE d # c
            <7>1. PICK g \in ReplyFrames : g = reader[d].arg /\ AnswerInv(g) /\ g = reader'[d].arg
              BY <2>2, <2>3, <3>0, <5>2, <6>2
            <7> QED
              BY <2>1, <7>1
          <6> QED
            BY <6>1, <6>2
        <5> QED
          BY <2>3, <4>3, <5>2 DEF ReplyNumbers
      <4>5. CASE \E next \in {"welcome", "store", "read"}, arg \in {None, f} : Then(c, next, arg)
        <5>1. reader'[c].pc # "deliver"
          BY <1>0, <4>5, ThenIs
        <5> QED
          BY <2>4, <3>0, <4>3, <5>1
      <4> QED
        BY <3>1, <4>2, <4>4, <4>5 DEF HandleFrame
    <3>2. CASE ~HandleFrame(c)
      <4>1. reader'[c].pc # "deliver"
        BY <1>0, <2>12, <3>2, ThenIs DEF Reader, Welcome, StoreStates, PushState, DeliverReply,
           HangUp, Drop, Farewell
      <4>2. UNCHANGED upward
        BY <2>12, <3>2 DEF Reader, Welcome, StoreStates, PushState, DeliverReply, HangUp, Drop,
           Farewell, wire
      <4> QED
        BY <2>4, <3>0, <4>1, <4>2
    <3> QED
      BY <3>1, <3>2
  <2>13. ASSUME NEW h \in Handlers, AskAgent(h) \/ Caller(h) PROVE ReplyNumbers'
    BY <2>5, <2>13 DEF Caller, AskAgent, SendRequest, Answered, TimesOut, Conclude, wire
  <2> QED
    BY <1>2, <2>5, <2>10, <2>11, <2>12, <2>13 DEF Next, Report, DaemonStarts, AgentRestarts, vars,
       wire, daemon
<1> QED
  BY <1>1, <1>2

\* What a handler is given is the answer of its own request.
LEMMA NextHeardNumbers ==
    ASSUME TypeOK, TableInv, OnceInv, ReplyNumbers, HeardNumbers, [Next]_vars
    PROVE  HeardNumbers'
<1> USE DEF TypeOK
<1>0. /\ \A h \in Asking : /\ caller[h] \in Callers
                           /\ caller[h].of \in Requests /\ caller[h].rid \in Requests
                           /\ caller[h].rid <= counter
                           /\ pending[caller[h].rid] \in Pendings
      /\ counter \in Nat /\ caller \in [Handlers -> Callers \cup {Idle}]
      /\ pending \in [Requests -> Pendings \cup {None}]
  BY DEF DaemonTypes, CountTypes, TableInv, Asking, Idle, Callers
<1>1. \A r \in Requests : runs[r] = 1 => runs'[r] = 1
  BY PerformedKept
<1>2. ASSUME \A h \in Asking' :
               /\ h \in Asking
               /\ caller'[h].of = caller[h].of /\ caller'[h].rid = caller[h].rid
               /\ pending'[caller[h].rid].got = pending[caller[h].rid].got
      PROVE  HeardNumbers'
  <2> SUFFICES ASSUME NEW h \in Asking', pending'[caller'[h].rid].got # None
               PROVE  /\ pending'[caller'[h].rid].got = caller'[h].of
                      /\ runs'[pending'[caller'[h].rid].got] = 1
    BY DEF HeardNumbers
  <2>1. /\ pending[caller[h].rid].got = caller[h].of /\ runs[caller[h].of] = 1
        /\ caller[h].of \in Requests
    BY <1>0, <1>2 DEF HeardNumbers
  <2> QED
    BY <1>1, <1>2, <2>1
<1>3. CASE UNCHANGED <<caller, pending>>
  BY <1>2, <1>3 DEF Asking
<1>4. CASE DaemonEnds
  <2>1. Asking' = {}
    BY <1>4 DEF DaemonEnds, Asking, Idle
  <2> QED
    BY <2>1 DEF HeardNumbers
<1>5. ASSUME NEW c \in Conns, Reader(c) PROVE HeardNumbers'
  <2>1. CASE DeliverReply(c)
    <3>0. UNCHANGED caller /\ Asking' = Asking /\ AnswerInv(reader[c].arg)
      BY <2>1 DEF DeliverReply, Asking, ReplyNumbers
    <3> SUFFICES ASSUME NEW h \in Asking, pending'[caller[h].rid].got # None
                 PROVE  /\ pending'[caller[h].rid].got = caller[h].of
                        /\ runs'[pending'[caller[h].rid].got] = 1
      BY <3>0 DEF HeardNumbers
    <3>1. /\ pending[caller[h].rid] # None /\ caller[h].rid \in Requests /\ caller[h].of \in Requests
      BY <1>0 DEF TableInv
    <3>2. CASE caller[h].rid = reader[c].arg.rid
      <4>1. pending'[caller[h].rid].got = reader[c].arg.of
        BY <2>1, <3>1, <3>2, DeliverIs
      <4>2. caller[h].of = reader[c].arg.of /\ runs[reader[c].arg.of] = 1
        BY <3>0, <3>2 DEF AnswerInv, Matches
      <4> QED
        BY <1>1, <3>1, <4>1, <4>2
    <3>3. CASE caller[h].rid # reader[c].arg.rid
      <4>1. pending'[caller[h].rid] = pending[caller[h].rid]
        BY <2>1, <3>1, <3>3, DeliverIs
      <4> QED
        BY <1>1, <3>1, <4>1 DEF HeardNumbers
    <3> QED
      BY <3>2, <3>3
  <2>2. CASE Drop(c)
    <3>1. UNCHANGED caller /\ Asking' = Asking
      BY <2>2 DEF Drop, Asking
    <3>2. \A p \in Pendings : [p EXCEPT !.done = TRUE].got = p.got
      BY DEF Pendings
    <3>3. \A h \in Asking : pending'[caller[h].rid].got = pending[caller[h].rid].got
      BY <1>0, <2>2, <3>2 DEF Drop, FailWaiting
    <3> QED
      BY <1>2, <3>1, <3>3
  <2> QED
    BY <1>3, <1>5, <2>1, <2>2 DEF Reader, HandleFrame, Welcome, StoreStates, PushState, HangUp,
       Farewell, table
<1>6. ASSUME NEW h \in Handlers, AskAgent(h) PROVE HeardNumbers'
  <2>1. CASE registered = None
    BY <1>3, <1>6, <2>1 DEF AskAgent
  <2>2. CASE registered # None
    <3> DEFINE p == [conn |-> registered, done |-> FALSE, got |-> None]
               u == [pc |-> "send", of |-> requests + 1, rid |-> counter + 1,
                     conn |-> registered]
    <3>1. p.got = None /\ u.rid = counter + 1 /\ u.pc # "idle"
      OBVIOUS
    <3>2. /\ pending' = [pending EXCEPT ![counter + 1] = p] /\ caller' = [caller EXCEPT ![h] = u]
          /\ counter + 1 \in Requests
      BY <1>6, <2>2 DEF AskAgent, CountTypes
    <3> HIDE DEF p, u
    <3>3. pending'[caller'[h].rid].got = None
      BY <1>0, <3>1, <3>2
    <3>4. ASSUME NEW g \in Asking', g # h
          PROVE  /\ g \in Asking /\ caller'[g] = caller[g]
                 /\ pending'[caller[g].rid] = pending[caller[g].rid]
      <4>1. g \in Asking /\ caller'[g] = caller[g]
        BY <1>0, <3>2, <3>4 DEF Asking
      <4>2. caller[g].rid \in Requests /\ caller[g].rid # counter + 1
        BY <1>0, <4>1
      <4> QED
        BY <1>0, <3>2, <4>1, <4>2
    <3> SUFFICES ASSUME NEW g \in Asking', pending'[caller'[g].rid].got # None
                 PROVE  /\ pending'[caller'[g].rid].got = caller'[g].of
                        /\ runs'[pending'[caller'[g].rid].got] = 1
      BY DEF HeardNumbers
    <3>5. g # h
      BY <3>3
    <3>6. caller[g].of \in Requests
      BY <1>0, <3>4, <3>5
    <3> QED
      BY <1>1, <3>4, <3>5, <3>6 DEF HeardNumbers
  <2> QED
    BY <2>1, <2>2
<1>7. ASSUME NEW h \in Handlers, Caller(h) PROVE HeardNumbers'
  <2>1. CASE SendRequest(h)
    <3>1. caller' = [caller EXCEPT ![h].pc = "wait"] /\ UNCHANGED pending /\ h \in Asking
      BY <2>1 DEF SendRequest, Asking, table
    <3>2. caller[h] \in Callers
      BY <1>0, <3>1
    <3>3. [caller[h] EXCEPT !.pc = "wait"].of = caller[h].of /\
          [caller[h] EXCEPT !.pc = "wait"].rid = caller[h].rid
      BY <3>2 DEF Callers
    <3> QED
      BY <1>0, <1>2, <3>1, <3>3 DEF Asking
  <2>2. CASE Answered(h) \/ TimesOut(h)
    <3>1. /\ caller' = [caller EXCEPT ![h] = Idle] /\ h \in Asking
          /\ pending' = [pending EXCEPT ![caller[h].rid] = None]
      BY <2>2 DEF Answered, TimesOut, Conclude, Asking
    <3>2. \A g \in Asking' : g \in Asking /\ g # h /\ caller'[g] = caller[g]
      BY <1>0, <3>1 DEF Asking, Idle
    <3>3. \A g \in Asking' : pending'[caller[g].rid] = pending[caller[g].rid]
      BY <1>0, <3>1, <3>2 DEF TableInv
    <3> QED
      BY <1>2, <3>2, <3>3
  <2> QED
    BY <1>7, <2>1, <2>2 DEF Caller
<1>8. CASE Link
  BY <1>3, <1>8 DEF Link, Dial, LinkHangsUp, ReadWhileRegistering, ReadStates, SendStates,
     TakeRequest, PerformRequest, SendReply, daemon, table
<1> QED
  BY <1>3, <1>4, <1>5, <1>6, <1>7, <1>8 DEF Next, Loop, Report, LookForLink, SendReport,
     AgentRestarts, DaemonStarts, vars, daemon, table

-----------------------------------------------------------------------------
(***************************************************************************)
(* The theorems.                                                           *)
(***************************************************************************)
\* The invariant holds at first.
LEMMA InitLinkInv == Init => LinkInv
<1> SUFFICES ASSUME Init PROVE LinkInv
  OBVIOUS
<1>1. TypeOK
  BY InitTypes
<1>2. /\ \A c \in Conns : upward[c] = <<>> /\ downward[c] = <<>> /\ reader[c].pc = "gone"
      /\ Asking = {} /\ Kept = {} /\ InHand = {} /\ registered = None /\ client = None
      /\ \A c \in Conns : OnWire(c) = {}
      /\ \A h \in Handlers : Leaving(h) = {}
      /\ Range(early) = {} /\ NoRepeat(early)
  BY QueueEmpty DEF Init, NoReader, Idle, Asking, Kept, InHand, OnWire, Leaving
<1>3. EndsInv /\ RegistryInv
  BY DEF Init, EndsInv, RegistryInv, RegisteredIsServed, NoReader
<1>4. WelcomeInv
  BY <1>2, QueueEmpty DEF WelcomeInv, RegistersOnce
<1>5. TableInv
  BY <1>2 DEF Init, TableInv
<1>6. OnceInv
  BY <1>2, QueueEmpty DEF OnceInv
<1>7. NumberInv
  <2>1. pc = "dial"
    BY DEF Init
  <2> QED
    BY <1>2, <2>1, QueueEmpty DEF NumberInv, DownNumbers, HandNumbers, ReplyNumbers, HeardNumbers
<1> QED
  BY <1>1, <1>3, <1>4, <1>5, <1>6, <1>7 DEF LinkInv

\* Every step keeps it.
LEMMA NextLinkInv == LinkInv /\ [Next]_vars => LinkInv'
<1> SUFFICES ASSUME LinkInv, [Next]_vars PROVE LinkInv'
  OBVIOUS
<1>1. TypeOK /\ EndsInv /\ WelcomeInv /\ RegistryInv /\ TableInv /\ OnceInv
      /\ DownNumbers /\ HandNumbers /\ ReplyNumbers /\ HeardNumbers
  BY DEF LinkInv, NumberInv
<1>2. TypeOK' /\ EndsInv' /\ WelcomeInv' /\ RegistryInv'
  BY <1>1, NextTypes, NextEnds, NextWelcome, NextRegistry
<1>3. TableInv' /\ OnceInv'
  BY <1>1, NextTable, NextOnce
<1>4. NumberInv'
  BY <1>1, NextDownNumbers, NextHandNumbers, NextReplyNumbers, NextHeardNumbers DEF NumberInv
<1> QED
  BY <1>2, <1>3, <1>4 DEF LinkInv

\* The link, the registry, the table of the requests and what is on the wire hold
\* together at all times, through both restarts (link.py, client.py, server.py).
THEOREM LinkHolds == Spec => []LinkInv
  BY InitLinkInv, NextLinkInv, PTL DEF Spec

\* Every variable keeps its type, and what the link thread has in hand is what its
\* next step needs: no request is read as the answer to a registration.
THEOREM TypeCorrect == Spec => []TypeOK
<1>1. LinkInv => TypeOK
  BY DEF LinkInv
<1> QED
  BY <1>1, LinkHolds, PTL

\* A connection the registry names is one its reader serves, in a daemon that runs:
\* a handler never asks on a connection that has been dropped (AgentLinks.drop).
THEOREM NamedIsServed == Spec => []RegisteredIsServed
<1>1. LinkInv => RegisteredIsServed
  BY DEF LinkInv, RegistryInv
<1> QED
  BY <1>1, LinkHolds, PTL

\* Only the end of the registered connection, or of the daemon, empties the
\* registry (AgentLinks.drop compares the connection before it forgets it).
LEMMA NextRegistryFollows ==
    ASSUME TypeOK, [Next]_vars, registered # None, registered' = None, daemonUp'
    PROVE  reader[registered].pc = "drop"
<1>0. registered \in Conns /\ None \notin Conns
  BY DEF TypeOK, DaemonTypes
<1>1. ASSUME NEW c \in Conns, Reader(c) PROVE reader[registered].pc = "drop"
  BY <1>0, <1>1 DEF Reader, HandleFrame, Welcome, StoreStates, PushState, DeliverReply, HangUp, Drop,
     Farewell, table
<1>2. ASSUME NEW h \in Handlers, AskAgent(h) \/ Caller(h) PROVE UNCHANGED registered
  BY <1>2 DEF Caller, AskAgent, SendRequest, Answered, TimesOut, Conclude, table
<1>3. CASE Link
  BY <1>3 DEF Link, Dial, LinkHangsUp, ReadWhileRegistering, ReadStates, SendStates,
     TakeRequest, PerformRequest, SendReply, daemon, table
<1> QED
  BY <1>1, <1>2, <1>3 DEF Next, Loop, Report, LookForLink, SendReport, AgentRestarts,
     DaemonStarts, DaemonEnds, vars, daemon, table

\* The late end of a replaced connection takes nothing from its successor.
THEOREM RegistryKept == Spec => RegistryFollowsTheLink
<1>1. TypeOK /\ [Next]_vars =>
        [registered # None /\ registered' = None =>
            ~daemonUp' \/ reader[registered].pc = "drop"]_vars
  <2> SUFFICES ASSUME TypeOK, [Next]_vars, registered # None, registered' = None, daemonUp'
               PROVE  reader[registered].pc = "drop"
    BY DEF TypeOK, DaemonTypes
  <2> QED
    BY NextRegistryFollows
<1> QED
  BY <1>1, TypeCorrect, PTL DEF Spec, RegistryFollowsTheLink

\* The initial state is an initial state of the calls.
LEMMA InitCalls == Init => Call!Init
  BY DEF Init, Call!Init, Requests

\* Every step of the link, of the daemon's threads and of the restarts is a step
\* of the calls or leaves them as they are.
LEMMA NextCalls ==
    ASSUME LinkInv, [Next]_vars
    PROVE  [Call!Next]_(Call!callVars)
<1> DEFINE status == [r \in Requests |-> IF r > requests THEN "new" ELSE outcome[r]]
<1>0. /\ TypeOK /\ TableInv /\ OnceInv /\ HeardNumbers
      /\ requests \in Nat /\ counter \in Nat
      /\ outcome \in [Requests -> {"waiting", "answered", "failed"}]
      /\ runs \in [Requests -> Nat] /\ heard \in [Requests -> Requests \cup {None}]
      /\ caller \in [Handlers -> Callers \cup {Idle}]
  BY SMTT(30) DEF LinkInv, NumberInv, TypeOK, CountTypes, DaemonTypes
<1>1. CASE UNCHANGED <<requests, outcome, heard, runs>>
  BY <1>1 DEF Call!callVars
<1>2. ASSUME NEW h \in Handlers, AskAgent(h) PROVE Call!Next
  <2>0. PICK r \in Requests : r = requests + 1
    BY <1>0, <1>2 DEF AskAgent
  <2>1. /\ requests' = r /\ UNCHANGED <<heard, runs>>
        /\ outcome' = outcome \/ outcome' = [outcome EXCEPT ![r] = "failed"]
    BY <1>0, <1>2, <2>0 DEF AskAgent
  <2>2. outcome[r] = "waiting"
    BY <1>0, <2>0 DEF TableInv
  <2>3. PICK first \in {"waiting", "failed"} : outcome' = [outcome EXCEPT ![r] = first]
    BY <1>0, <2>1, <2>2
  <2>4. status[r] = "new"
    BY <1>0, <2>0
  <2>5. status' = [status EXCEPT ![r] = first]
    <3>1. \A q \in Requests : q # r => (q > requests' <=> q > requests) /\ outcome'[q] = outcome[q]
      BY <1>0, <2>0, <2>1, <2>3
    <3>2. ~(r > requests') /\ outcome'[r] = first
      BY <1>0, <2>0, <2>1, <2>3
    <3> QED
      BY <3>1, <3>2
  <2>6. Call!Ask(r)
    BY <2>1, <2>4, <2>5 DEF Call!Ask
  <2> QED
    BY <2>6 DEF Call!Next
<1>3. CASE PerformRequest
  <2>1. PICK r \in Requests : r = hand.of /\ r <= requests /\ runs[r] = 0
    BY <1>0, <1>3 DEF PerformRequest, OnceInv, InHand, Unperformed
  <2>2. runs' = [runs EXCEPT ![r] = 1] /\ UNCHANGED <<requests, outcome, heard>>
    BY <1>3, <2>1 DEF PerformRequest, bounds
  <2>3. status[r] # "new"
    BY <1>0, <2>1, SMTT(30)
  <2>4. UNCHANGED status
    BY <2>2
  <2>5. Call!Perform(r)
    BY <2>1, <2>2, <2>3, <2>4 DEF Call!Perform
  <2> QED
    BY <2>5 DEF Call!Next
<1>4. ASSUME NEW some \in SUBSET Requests, some # {},
             \A r \in some : r <= requests /\ outcome[r] = "waiting",
             outcome' = [r \in Requests |-> IF r \in some THEN "failed" ELSE outcome[r]],
             UNCHANGED <<requests, heard, runs>>
      PROVE  Call!Next
  <2>1. some \in SUBSET Call!Waiting
    BY <1>0, <1>4 DEF Call!Waiting
  <2>2. status' = [r \in Requests |-> IF r \in some THEN "failed" ELSE status[r]]
    BY <1>0, <1>4
  <2>3. Call!Fail(some)
    BY <1>4, <2>2 DEF Call!Fail
  <2> QED
    BY <2>1, <2>3 DEF Call!Next
<1>5. ASSUME NEW h \in Handlers, Answered(h) \/ TimesOut(h) PROVE Call!Next
  <2>0. h \in Asking /\ caller[h].of \in Requests
    BY <1>0, <1>5 DEF Answered, TimesOut, Asking, Callers, Idle
  <2>1. PICK r \in Requests : /\ r = caller[h].of /\ r <= requests
                              /\ outcome[r] = "waiting" /\ heard[r] = None
    BY <1>0, <2>0 DEF TableInv
  <2>2. PICK got : /\ Conclude(h, got)
                   /\ got # None => got = r /\ runs[r] = 1
    BY <1>0, <1>5, <2>0, <2>1 DEF Answered, TimesOut, HeardNumbers
  <2>3. /\ outcome' = [outcome EXCEPT ![r] = IF got = None THEN "failed" ELSE "answered"]
        /\ heard' = [heard EXCEPT ![r] = got] /\ UNCHANGED <<requests, runs>>
    BY <2>1, <2>2 DEF Conclude, bounds
  <2>4. CASE got = None
    <3>1. heard' = heard
      BY <1>0, <2>1, <2>3, <2>4
    <3>2. PICK some : some = {r}
      OBVIOUS
    <3>3. outcome' = [q \in Requests |-> IF q \in some THEN "failed" ELSE outcome[q]]
      BY <1>0, <2>1, <2>3, <2>4, <3>2
    <3>4. /\ some \in SUBSET Requests /\ some # {}
          /\ \A q \in some : q <= requests /\ outcome[q] = "waiting"
      BY <2>1, <3>2
    <3>5. UNCHANGED <<requests, heard, runs>>
      BY <2>3, <3>1
    <3> HIDE DEF status
    <3> QED
      BY <1>4, <3>3, <3>4, <3>5
  <2>5. CASE got # None
    <3>1. status' = [status EXCEPT ![r] = "answered"] /\ status[r] = "waiting"
      <4>1. \A q \in Requests : q # r => outcome'[q] = outcome[q]
        BY <1>0, <2>3
      <4>2. outcome'[r] = "answered" /\ requests' = requests /\ ~(r > requests)
        BY <1>0, <2>1, <2>3, <2>5
      <4> QED
        BY <2>1, <4>1, <4>2
    <3>2. heard' = [heard EXCEPT ![r] = r] /\ runs[r] = 1
      BY <2>2, <2>3, <2>5
    <3>3. Call!Answer(r)
      BY <2>1, <2>3, <3>1, <3>2 DEF Call!Answer, Call!Waiting
    <3> QED
      BY <2>1, <3>3 DEF Call!Next
  <2> QED
    BY <2>4, <2>5
<1>6. CASE DaemonEnds
  <2> DEFINE some == {caller[h].of : h \in Asking}
  <2>1. /\ some \in SUBSET Requests
        /\ \A r \in some : r <= requests /\ outcome[r] = "waiting"
    BY <1>0 DEF Asking, TableInv, Callers, Idle
  <2>2. UNCHANGED <<requests, heard, runs>>
    BY <1>6 DEF DaemonEnds
  <2>3. \A r \in Requests : r \in some <=> \E h \in Handlers : caller[h].of = r
    <3>1. \A h \in Handlers : h \notin Asking => caller[h].of \notin Requests
      <4> SUFFICES ASSUME NEW h \in Handlers, caller[h].pc = "idle" PROVE caller[h].of \notin Requests
        BY DEF Asking
      <4>1. \A u \in Callers : u.pc # "idle"
        BY DEF Callers
      <4>2. caller[h] = Idle
        BY <1>0, <4>1
      <4> QED
        BY <1>0, <4>2 DEF Idle
    <3> QED
      BY <3>1 DEF Asking
  <2>4. outcome' = [r \in Requests |-> IF r \in some THEN "failed" ELSE outcome[r]]
    BY <1>6, <2>3 DEF DaemonEnds
  <2> HIDE DEF some
  <2>5. CASE some = {}
    <3>1. outcome' = outcome
      BY <1>0, <2>4, <2>5
    <3> QED
      BY <1>1, <2>2, <3>1
  <2> QED
    BY <1>4, <2>1, <2>2, <2>4, <2>5
<1>7. CASE Link
  BY <1>1, <1>3, <1>7 DEF Link, Dial, LinkHangsUp, ReadWhileRegistering, ReadStates, SendStates,
     TakeRequest, SendReply, bounds, calls
<1>8. ASSUME NEW c \in Conns, Reader(c) PROVE UNCHANGED <<requests, outcome, heard, runs>>
  BY <1>8 DEF Reader, HandleFrame, Welcome, StoreStates, PushState, DeliverReply, HangUp, Drop,
     Farewell, bounds, calls
<1>9. ASSUME NEW h \in Handlers, SendRequest(h) PROVE UNCHANGED <<requests, outcome, heard, runs>>
  BY <1>9 DEF SendRequest, bounds, calls
<1> QED
  BY <1>1, <1>2, <1>5, <1>6, <1>7, <1>8, <1>9 DEF Next, Loop, Report, LookForLink, SendReport,
     Caller, AgentRestarts, DaemonStarts, vars, bounds, calls

\* What a handler asks of its agent is a call: it is performed once at most, and
\* its answer is the result of its own request, given after it was performed,
\* through early requests, late answers, numbers used again and both restarts
\* (AgentLinks.request, AgentLinks.reply, DaemonLink._session).
THEOREM RequestsRefineCalls == Spec => Call!Init /\ [][Call!Next]_(Call!callVars)
<1>1. LinkInv /\ [Next]_vars => [Call!Next]_(Call!callVars)
  BY NextCalls
<1> QED
  BY <1>1, InitCalls, LinkHolds, PTL DEF Spec
=============================================================================
