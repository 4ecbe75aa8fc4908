---------------------------- MODULE MonitorProofs ----------------------------
(***************************************************************************)
(* Theorems about Monitor, for every set of connections, hosts and handler *)
(* threads, every number of starts and every bound.                        *)
(***************************************************************************)
EXTENDS Monitor, TLAPS

USE PrimeAttemptsAssumption, ModesAssumption, BoundsAssumption, NoneAssumption
    DEF Connection, Document, Attempt

-----------------------------------------------------------------------------
(***************************************************************************)
(* What a command makes of a config is a config, and what the handlers do  *)
(* with it is well typed.                                                  *)
(***************************************************************************)

\* The config an operation saves is a config (`operations.py` returns a copy
\* with one connection added, removed or changed).
LEMMA UpdatesAreDocuments ==
    ASSUME NEW doc \in Document, NEW id \in Ids, NEW op \in Operations,
           op \notin { "add", "apply" } => doc[id] # None,
           NEW updated \in Updates(op, id, doc)
    PROVE  updated \in Document
<1>1. CASE op = "add"
  BY <1>1 DEF Updates, Offered
<1>2. CASE op = "remove"
  BY <1>2 DEF Updates
<1>3. CASE op = "use_fallback"
  <2>1. doc[id] \in Connection
    BY <1>3
  <2>2. doc[id].fallback \in Hosts
    BY <1>3, <2>1 DEF Updates
  <2>3. updated = [doc EXCEPT ![id] = [@ EXCEPT !.host = doc[id].fallback,
                                                !.fallback = doc[id].host]]
    BY <1>3, <2>2 DEF Updates
  <2> QED
    BY <2>1, <2>2, <2>3
<1>4. CASE op \in { "set_credentials", "apply" }
  BY <1>4 DEF Updates
<1> QED
  BY <1>1, <1>2, <1>3, <1>4 DEF Operations

\* A daemon that has just started is well typed: its config applied, and nothing
\* remembered (`StateMonitor.__init__`).
LEMMA InitIsTyped == Init => TypeOK
<1> SUFFICES ASSUME Init PROVE TypeOK
  OBVIOUS
<1>1. NothingKnown \in Document /\ config \in Document
  BY DEF Init, NothingKnown, Offered
<1>2. task \in [Handlers -> TaskType]
  BY DEF Init, NoTask, TaskType, Operations, Stages
<1> QED
  BY <1>1, <1>2 DEF Init, TypeOK, NothingKnown, NothingSeen, NoServers, NoTable,
     UnitStates, Points, InHandPoints, Configured

-----------------------------------------------------------------------------
(***************************************************************************)
(* Type correctness: one lemma per actor, one step per action.             *)
(***************************************************************************)
USE DEF machine, memory, inHand, poll, bounds, history

\* systemd, people and servers leave everything well typed.
LEMMA EnvironmentIsTyped ==
    ASSUME TypeOK, Environment \/ \E id \in Ids : Systemd(id)
    PROVE  TypeOK'
<1>1. CASE Environment
  <2>1. unit' \in [Ids -> UnitStates] /\ up' \in [Hosts -> BOOLEAN]
    <3>1. ASSUME NEW id \in Ids, OpenPath(id) \/ Eject(id)
          PROVE  unit' \in [Ids -> UnitStates] /\ UNCHANGED up
      BY <3>1 DEF OpenPath, Eject, TypeOK, UnitStates
    <3>2. ASSUME NEW host \in Hosts, ServerFlips(host)
          PROVE  up' \in [Hosts -> BOOLEAN] /\ UNCHANGED unit
      <4>1. up' = [up EXCEPT ![host] = ~up[host]]
        BY <3>2 DEF ServerFlips
      <4>2. up' \in [Hosts -> BOOLEAN]
        BY <4>1, Zenon DEF TypeOK
      <4> QED
        BY <3>2, <4>2 DEF ServerFlips
    <3> QED
      BY <1>1, <3>1, <3>2 DEF Environment, TypeOK
  <2>2. UNCHANGED <<config, unitFile, armed, journal, accepts>>
    BY <1>1 DEF Environment, OpenPath, Eject, ServerFlips
  <2> QED
    BY <1>1, <2>1, <2>2 DEF Environment, TypeOK, Configured
<1>2. ASSUME NEW id \in Ids, Systemd(id)
      PROVE  TypeOK'
  BY <1>2 DEF Systemd, BeginMount, FinishMount, TypeOK, UnitStates, Configured
<1> QED
  BY <1>1, <1>2

\* A command that arrives is a well typed task.
LEMMA CommandIsTyped ==
    ASSUME TypeOK, Command
    PROVE  TypeOK'
<1>1. ASSUME NEW h \in Handlers, BeginCommand(h)
      PROVE  /\ task' \in [Handlers -> TaskType]
             /\ accepts' \in [Ids -> BOOLEAN]
  <2>1. PICK op \in Operations, id \in Ids :
       \E updated \in Updates(op, id, config) :
          /\ op # "apply" => (op = "add") = (config[id] = None)
          /\ task' = [task EXCEPT ![h] =
                [op |-> op, id |-> id, previous |-> config, updated |-> updated,
                 stage |-> IF op = "apply" THEN "units" ELSE "save"]]
          /\ IF op \in { "add", "set_credentials" }
             THEN \E ok \in BOOLEAN : accepts' = [accepts EXCEPT ![id] = ok]
             ELSE accepts' = accepts
    BY <1>1 DEF BeginCommand
  <2>2. PICK updated \in Updates(op, id, config) :
          task' = [task EXCEPT ![h] =
                [op |-> op, id |-> id, previous |-> config, updated |-> updated,
                 stage |-> IF op = "apply" THEN "units" ELSE "save"]]
    BY <2>1
  <2>3. updated \in Document
    BY <2>1, <2>2, UpdatesAreDocuments DEF TypeOK
  <2>4. [op |-> op, id |-> id, previous |-> config, updated |-> updated,
         stage |-> IF op = "apply" THEN "units" ELSE "save"] \in TaskType
    BY <2>3 DEF TypeOK, TaskType, Stages
  <2>5. task' \in [Handlers -> TaskType]
    BY <2>2, <2>4 DEF TypeOK
  <2>6. CASE op \in { "add", "set_credentials" }
    <3>1. PICK ok \in BOOLEAN : accepts' = [accepts EXCEPT ![id] = ok]
      BY <2>1, <2>6
    <3> QED
      BY <2>5, <3>1, Zenon DEF TypeOK
  <2>7. CASE op \notin { "add", "set_credentials" }
    BY <2>1, <2>5, <2>7 DEF TypeOK
  <2> QED
    BY <2>6, <2>7
<1>2. ASSUME NEW h \in Handlers, BeginCommand(h), Command
      PROVE  TypeOK'
  <2>1. UNCHANGED <<config, unitFile, armed, unit, journal, up, memory, wake,
                    seen, starts, dirty>>
    BY <1>2 DEF BeginCommand
  <2>2. UNCHANGED <<stopping, pc, poll, inHand>>
    BY <1>2 DEF Command
  <2> QED
    BY <1>1, <1>2, <2>1, <2>2 DEF TypeOK, Configured
<1>3. ASSUME NEW id \in Ids, Connect(id), Command
      PROVE  TypeOK'
  BY <1>3 DEF BeginCommand, Command, Connect, TypeOK, UnitStates, Configured
<1> QED
  BY <1>2, <1>3 DEF Command

\* A handler that moves on has a well typed task.
LEMMA MovesIsTyped ==
    ASSUME TypeOK, NEW h \in Handlers, NEW stage \in Stages, Moves(h, stage)
    PROVE  task' \in [Handlers -> TaskType]
<1>1. NoTask \in TaskType
  BY DEF NoTask, TaskType, Operations, Stages
<1>2. [task[h] EXCEPT !.stage = stage] \in TaskType
  <2>1. task[h] \in TaskType
    BY DEF TypeOK
  <2> QED
    BY <2>1 DEF TaskType
<1>3. PICK t \in TaskType : task' = [task EXCEPT ![h] = t]
  BY <1>1, <1>2 DEF Moves
<1> QED
  BY <1>3 DEF TypeOK

\* Every step of a handler, failing or not, leaves everything well typed.
LEMMA HandlerIsTyped ==
    ASSUME TypeOK, NEW h \in Handlers, HandlerStep(h)
    PROVE  TypeOK'
<1> USE DEF Stages
<1>0. task[h] \in TaskType
  BY DEF TypeOK
<1>1. CASE Save(h)
  <2>1. task' \in [Handlers -> TaskType]
    BY <1>1, MovesIsTyped DEF Save
  <2> QED
    BY <1>0, <1>1, <2>1 DEF Save, HandlerStep, TypeOK, TaskType, Configured
<1>2. CASE ApplyUnits(h)
  <2>1. AfterFailure(task[h]) \in Stages
    BY DEF AfterFailure
  <2>2. task' \in [Handlers -> TaskType]
    BY <1>2, <2>1, MovesIsTyped DEF ApplyUnits
  <2> DEFINE doc == task[h].updated
  <2>3. ASSUME NEW written \in SUBSET Configured(doc), NEW old, NEW busy,
               WriteUnits(doc, written, old, busy)
        PROVE  /\ unitFile' \in [Ids -> Hosts \cup {None}]
               /\ armed' \in [Ids -> BOOLEAN]
               /\ unit' \in [Ids -> UnitStates]
               /\ UNCHANGED <<config, journal, up, accepts>>
    <3>1. armed' \in [Ids -> BOOLEAN]
      BY <2>3, Zenon DEF WriteUnits
    <3>2. \A id \in written : doc[id] \in Connection
      BY <1>0 DEF TaskType, Configured
    <3> QED
      BY <2>3, <3>1, <3>2 DEF WriteUnits, TypeOK, UnitStates
  <2>4. PICK written \in SUBSET Configured(doc), old \in SUBSET Ids, busy \in SUBSET Ids :
            WriteUnits(doc, written, old, busy)
    <3>1. Stale(task[h]) \in SUBSET Ids
      BY DEF Stale, Configured
    <3> QED
      BY <1>2, <3>1 DEF ApplyUnits
  <2> HIDE DEF doc
  <2>5. /\ unitFile' \in [Ids -> Hosts \cup {None}]
        /\ armed' \in [Ids -> BOOLEAN]
        /\ unit' \in [Ids -> UnitStates]
        /\ UNCHANGED <<config, journal, up, accepts>>
    BY <2>3, <2>4
  <2> QED
    BY <1>2, <2>2, <2>5 DEF ApplyUnits, HandlerStep, TypeOK, Configured
<1>3. CASE Arm(h)
  <2>1. AfterFailure(task[h]) \in Stages /\ AfterArming(task[h]) \in Stages
    BY DEF AfterFailure, AfterArming
  <2>2. task' \in [Handlers -> TaskType]
    BY <1>3, <2>1, MovesIsTyped DEF Arm
  <2>3. ASSUME NEW done, ArmUnits(task[h].updated, done)
        PROVE  /\ armed' \in [Ids -> BOOLEAN]
               /\ unit' \in [Ids -> UnitStates]
               /\ UNCHANGED <<config, unitFile, journal, up, accepts>>
    <3>1. armed \in [Ids -> BOOLEAN]
      BY DEF TypeOK
    <3>2. armed' \in [Ids -> BOOLEAN]
      BY <2>3, <3>1, Zenon DEF ArmUnits
    <3> QED
      BY <2>3, <3>2 DEF ArmUnits, TypeOK, UnitStates
  <2>4. /\ armed' \in [Ids -> BOOLEAN]
        /\ unit' \in [Ids -> UnitStates]
        /\ UNCHANGED <<config, unitFile, journal, up, accepts>>
    BY <1>3, <2>3 DEF Arm
  <2> QED
    BY <1>3, <2>2, <2>4 DEF Arm, HandlerStep, TypeOK, Configured
<1>4. CASE UndoSave(h)
  <2>1. [op |-> "rollback", id |-> None, stage |-> "units",
         previous |-> task[h].updated, updated |-> task[h].previous] \in TaskType
    BY <1>0 DEF TaskType
  <2>2. task' \in [Handlers -> TaskType]
    BY <1>4, <2>1 DEF UndoSave, TypeOK
  <2> QED
    BY <1>0, <1>4, <2>2 DEF UndoSave, HandlerStep, TypeOK, TaskType, Configured
<1>5. CASE Forget(h)
  <2>1. task' \in [Handlers -> TaskType]
    BY <1>5, MovesIsTyped DEF Forget
  <2> QED
    BY <1>5, <2>1 DEF Forget, DropMemory, HandlerStep, TypeOK, Configured
<1>6. CASE Nudge(h)
  <2>1. task' \in [Handlers -> TaskType]
    BY <1>6, MovesIsTyped DEF Nudge
  <2> QED
    BY <1>6, <2>1 DEF Nudge, HandlerStep, TypeOK, Configured
<1> QED
  BY <1>1, <1>2, <1>3, <1>4, <1>5, <1>6 DEF HandlerStep

\* So does every step of the monitor thread.
LEMMA MonitorIsTyped ==
    ASSUME TypeOK, MonitorStep \/ Timer
    PROVE  TypeOK'
<1> USE DEF Points, InHandPoints, Configured
<1>0. ASSUME cur \in todo
      PROVE  cur \in Ids /\ polled[cur] \in Connection /\ Target \in Hosts
  BY <1>0 DEF TypeOK, Target
<1>1. CASE Check /\ MonitorStep
  BY <1>1 DEF Check, MonitorStep, TypeOK
<1>2. CASE ClearWake /\ MonitorStep
  BY <1>2 DEF ClearWake, MonitorStep, TypeOK
<1>3. CASE LoadConfig /\ MonitorStep
  <2>1. CASE Load
    BY <1>3, <2>1 DEF LoadConfig, Load, MonitorStep, TypeOK
  <2>2. CASE LoadFails
    BY <1>3, <2>2 DEF LoadConfig, LoadFails, MonitorStep, TypeOK
  <2> QED
    BY <1>3, <2>1, <2>2 DEF LoadConfig
<1>4. ASSUME NEW id \in Ids, Look(id), MonitorStep
      PROVE  TypeOK'
  BY <1>4 DEF Look, MonitorStep, TypeOK
<1>5. CASE ReadUnit /\ MonitorStep
  BY <1>5 DEF ReadUnit, MonitorStep, TypeOK
<1>6. ASSUME Conclude, cur \in todo, MonitorStep,
             UNCHANGED unit,
             primed' \in [Ids -> Hosts \cup {None}],
             attempted' \in [Ids -> Attempt \cup {None}]
      PROVE  TypeOK'
  BY <1>6 DEF Conclude, NoTable, MonitorStep, TypeOK
<1>7. ASSUME Latch, cur \in todo
      PROVE  /\ primed' \in [Ids -> Hosts \cup {None}]
             /\ attempted' \in [Ids -> Attempt \cup {None}]
  BY <1>0, <1>7 DEF Latch, TypeOK
<1>8. CASE PrimeMounted /\ MonitorStep
  BY <1>6, <1>7, <1>8 DEF PrimeMounted, TypeOK
<1>9. CASE Decline /\ MonitorStep
  BY <1>6, <1>9 DEF Decline, TypeOK
<1>10. CASE Consider /\ MonitorStep
  <2>1. queued' \in Nat
    BY <1>0, <1>10 DEF Consider, TypeOK
  <2>2. refused' \in BOOLEAN
    BY <1>10 DEF Consider
  <2> QED
    BY <1>10, <2>1, <2>2 DEF Consider, MonitorStep, TypeOK
<1>11. CASE GiveUp /\ MonitorStep
  BY <1>6, <1>7, <1>11 DEF GiveUp, TypeOK
<1>12. CASE StartMount /\ MonitorStep
  <2>1. unit' \in [Ids -> UnitStates]
    BY <1>12 DEF StartMount, TypeOK, UnitStates
  <2>2. starts' \in [Ids -> Nat]
    BY <1>12 DEF StartMount, TypeOK
  <2> QED
    BY <1>12, <2>1, <2>2 DEF StartMount, MonitorStep, TypeOK
<1>13. CASE StartFails /\ MonitorStep
  BY <1>6, <1>13 DEF StartFails, TypeOK
<1>14. CASE NoteAttempt /\ MonitorStep
  <2>1. [target |-> Target, count |-> queued + 1] \in Attempt
    BY <1>0, <1>14 DEF NoteAttempt, TypeOK
  <2> QED
    BY <1>6, <1>14, <2>1 DEF NoteAttempt, TypeOK
<1>15. CASE Publish /\ MonitorStep
  BY <1>15 DEF Publish, NoServers, MonitorStep, TypeOK
<1>16. ASSUME NEW id \in Ids, Farewell(id), MonitorStep
       PROVE  TypeOK'
  BY <1>16 DEF Farewell, DropMemory, MonitorStep, TypeOK
<1>17. CASE EndPoll /\ MonitorStep
  BY <1>17 DEF EndPoll, MonitorStep, TypeOK
<1>18. CASE Woken /\ MonitorStep
  BY <1>18 DEF Woken, MonitorStep, TypeOK
<1>19. CASE Timer
  BY <1>19 DEF Timer, IntervalOver, TypeOK
<1> QED
  BY <1>1, <1>2, <1>3, <1>4, <1>5, <1>8, <1>9, <1>10, <1>11, <1>12, <1>13, <1>14,
     <1>15, <1>16, <1>17, <1>18, <1>19 DEF MonitorStep, PrimeStep

\* stop() only sets the flag and the event.
LEMMA StopIsTyped ==
    ASSUME TypeOK, Stop
    PROVE  TypeOK'
BY DEF Stop, TypeOK, Configured

\* A restarted daemon keeps what the machine holds and forgets the rest.
LEMMA RestartIsTyped ==
    ASSUME TypeOK, Restart
    PROVE  TypeOK'
<1>1. NoTask \in TaskType
  BY DEF NoTask, TaskType, Operations, Stages
<1>2. NothingKnown \in Document
  BY DEF NothingKnown
<1> QED
  BY <1>1, <1>2 DEF Restart, TypeOK, Configured, Points, InHandPoints, NothingKnown,
     NothingSeen, NoServers, NoTable

\* Every variable keeps its type, in whatever order commands, polls, systemd and
\* restarts of the daemon interleave.
THEOREM TypeCorrect == Spec => []TypeOK
<1>1. TypeOK /\ [Next]_vars => TypeOK'
  <2>1. TypeOK /\ UNCHANGED vars => TypeOK'
    BY DEF vars, TypeOK, Configured
  <2> QED
    BY <2>1, EnvironmentIsTyped, CommandIsTyped, HandlerIsTyped, MonitorIsTyped,
       StopIsTyped, RestartIsTyped DEF Next
<1> QED
  BY InitIsTyped, <1>1, PTL DEF Spec

-----------------------------------------------------------------------------
(***************************************************************************)
(* Priming.  What bounds the starts is not `_primed` and `_attempted` as   *)
(* such but what the poll in progress has read of them: a forget() may     *)
(* land between any two of its steps.                                      *)
(***************************************************************************)
Latched(id) == polled[id] # None /\ primed[id] = polled[id].host

Counted(id) ==
    IF /\ attempted[id] # None /\ polled[id] # None
       /\ attempted[id].target = polled[id].host
    THEN attempted[id].count ELSE 0

Handling(id, point) == pc = point /\ cur = id

PrimingInv ==
    /\ \A id \in Ids :
        \* what the monitor does not poll it has neither started nor seen
        /\ polled[id] = None => starts[id] = 0
        \* a start is recorded, about to be, or made moot by the latch
        /\ Latched(id) \/ Handling(id, "note") \/ starts[id] <= Counted(id)
        \* a connection seen connected is latched, or about to be
        /\ seen[id] = "connected" =>
                \/ Latched(id)
                \/ Handling(id, "prime") /\ verdict.state = CONNECTED
    \* what the poll has read still bounds what it does with it
    /\ pc = "decide" => ~Latched(cur) /\ starts[cur] <= queued
    /\ pc = "note" => starts[cur] <= queued + 1 /\ queued < PrimeAttempts
    /\ StartBudget

primingVars == <<primed, attempted, pc, polled, cur, verdict, queued, starts, seen>>

\* A monitor that has just started remembers nothing and has started nothing.
LEMMA InitPrimes == Init => PrimingInv
BY DEF Init, PrimingInv, StartBudget, Counted, Latched, Handling, NothingKnown, NothingSeen

\* A step that touches nothing of what priming reads keeps the invariant.
LEMMA OthersPrime ==
    ASSUME PrimingInv, UNCHANGED primingVars
    PROVE  PrimingInv'
BY DEF PrimingInv, primingVars, StartBudget, Counted, Latched, Handling

\* forget() lands between any two steps of a poll.
LEMMA ForgetPrimes ==
    ASSUME TypeOK, PrimingInv, NEW id \in Ids, DropMemory(id),
           UNCHANGED <<pc, polled, cur, verdict, queued>>
    PROVE  PrimingInv'
<1>1. ~Latched(id)' /\ Counted(id)' = 0 /\ starts'[id] = 0 /\ seen'[id] = "no"
  BY DEF DropMemory, TypeOK, Latched, Counted
<1>2. ASSUME NEW other \in Ids, other # id
      PROVE  /\ Latched(other)' <=> Latched(other)
             /\ Counted(other)' = Counted(other)
             /\ starts'[other] = starts[other] /\ seen'[other] = seen[other]
  BY <1>2 DEF DropMemory, TypeOK, Latched, Counted
<1>3. ASSUME NEW other \in Ids
      PROVE  /\ polled'[other] = None => starts'[other] = 0
             /\ Latched(other)' \/ Handling(other, "note")' \/ starts'[other] <= Counted(other)'
             /\ seen'[other] = "connected" =>
                  \/ Latched(other)'
                  \/ Handling(other, "prime")' /\ verdict'.state = CONNECTED
             /\ starts'[other] <= PrimeAttempts
  BY <1>1, <1>2 DEF PrimingInv, StartBudget, Handling
<1>4. pc \in InHandPoints => cur \in Ids
  BY DEF TypeOK, Configured
<1>5. pc' = "decide" => ~Latched(cur)' /\ starts'[cur'] <= queued'
  BY <1>1, <1>2, <1>4 DEF PrimingInv, InHandPoints, TypeOK
<1>6. pc' = "note" => starts'[cur'] <= queued' + 1 /\ queued' < PrimeAttempts
  BY <1>1, <1>2, <1>4 DEF PrimingInv, InHandPoints, TypeOK
<1> QED
  BY <1>3, <1>5, <1>6 DEF PrimingInv, StartBudget

\* A handler touches what priming remembers only in forget().
LEMMA HandlerPrimes ==
    ASSUME TypeOK, PrimingInv, NEW h \in Handlers, HandlerStep(h)
    PROVE  PrimingInv'
<1>1. CASE Forget(h) /\ task[h].id \in Ids
  BY <1>1, ForgetPrimes DEF Forget, HandlerStep
<1>2. CASE Forget(h) /\ task[h].id \notin Ids
  <2>1. UNCHANGED <<primed, attempted, starts, seen>>
    BY <1>2 DEF Forget, DropMemory, TypeOK
  <2> QED
    BY <1>2, <2>1, OthersPrime DEF HandlerStep, primingVars
<1>3. CASE ~Forget(h)
  <2>1. UNCHANGED <<primed, attempted, starts, seen>>
    BY <1>3 DEF HandlerStep, Save, ApplyUnits, Arm, UndoSave, Nudge
  <2> QED
    BY <2>1, OthersPrime DEF HandlerStep, primingVars
<1> QED
  BY <1>1, <1>2, <1>3

\* The monitor thread: only reading a unit, starting it, noting the start and
\* latching touch what priming remembers, each for the connection in hand.
LEMMA MonitorPrimes ==
    ASSUME TypeOK, PrimingInv, MonitorStep \/ Timer
    PROVE  PrimingInv'
<1> USE DEF Handling
<1>0. pc \in InHandPoints =>
        /\ cur \in Ids /\ polled[cur] \in Connection /\ polled[cur] # None
        /\ Target \in Hosts
  BY DEF TypeOK, Target, Configured
<1>1. CASE Check \/ ClearWake \/ Publish \/ EndPoll \/ Woken \/ Timer
  BY <1>1 DEF Check, ClearWake, Publish, EndPoll, Woken, Timer, IntervalOver, PrimingInv,
     StartBudget, Counted, Latched
<1>2. CASE LoadConfig
  <2>1. CASE LoadFails
    BY <1>2, <2>1 DEF LoadConfig, LoadFails, PrimingInv, StartBudget, Counted, Latched
  <2>2. CASE Load
    <3>1. pc' \notin InHandPoints
      BY <2>2 DEF Load, InHandPoints
    <3>2. ASSUME NEW id \in Ids, Moved(id)
          PROVE  starts'[id] = 0 /\ seen'[id] = "no" /\ Counted(id)' \in Nat
      BY <1>2, <2>2, <3>2 DEF LoadConfig, Load, Counted, TypeOK
    <3>3. ASSUME NEW id \in Ids, ~Moved(id)
          PROVE  /\ starts'[id] = starts[id] /\ seen'[id] = seen[id]
                 /\ polled'[id] # None
                 /\ Latched(id)' <=> Latched(id)
                 /\ Counted(id)' = Counted(id)
      BY <1>2, <2>2, <3>3 DEF LoadConfig, Load, Moved, Counted, Latched, TypeOK
    <3> QED
      BY <1>2, <3>1, <3>2, <3>3 DEF LoadConfig, PrimingInv, StartBudget, InHandPoints
  <2> QED
    BY <1>2, <2>1, <2>2 DEF LoadConfig
<1>3. ASSUME NEW id \in Ids, Look(id)
      PROVE  PrimingInv'
  BY <1>3 DEF Look, PrimingInv, StartBudget, Counted, Latched
<1>4. CASE ReadUnit
  <2>1. /\ pc = "unit" /\ pc' = "prime" /\ UNCHANGED <<cur, primed, attempted, polled>>
    BY <1>4 DEF ReadUnit
  <2>2. /\ \A id \in Ids : starts'[id] = starts[id] \/ starts'[id] = 0
        /\ \A id \in Ids : seen'[id] = "connected" =>
              seen[id] = "connected" \/ (id = cur /\ verdict'.state = CONNECTED)
    <3>1. /\ seen' = [seen EXCEPT ![cur] =
                          IF verdict'.state = CONNECTED THEN "connected"
                          ELSE IF table.mounted /\ seen[cur] = "no" THEN "mounted"
                          ELSE seen[cur]]
          /\ starts' = [starts EXCEPT ![cur] = IF verdict'.state = CONNECTED THEN 0
                                               ELSE starts[cur]]
      BY <1>4, Zenon DEF ReadUnit
    <3>2. \A id \in Ids : starts'[id] = starts[id] \/ starts'[id] = 0
      BY <3>1 DEF TypeOK
    <3>3. ASSUME NEW id \in Ids, seen'[id] = "connected"
          PROVE  seen[id] = "connected" \/ (id = cur /\ verdict'.state = CONNECTED)
      <4>1. id \in DOMAIN seen
        BY DEF TypeOK
      <4> QED
        BY <3>1, <3>3, <4>1, Zenon
    <3> QED
      BY <3>2, <3>3
  <2>3. ASSUME NEW id \in Ids
        PROVE  /\ Latched(id)' <=> Latched(id)
               /\ Counted(id)' = Counted(id) /\ Counted(id) \in Nat
    BY <2>1 DEF Latched, Counted, TypeOK
  <2> QED
    BY <2>1, <2>2, <2>3 DEF PrimingInv, StartBudget
<1>5. CASE Decline \/ StartFails
  <2>1. /\ pc \in { "prime", "decide" } /\ pc' \notin InHandPoints
        /\ pc = "prime" => verdict.state # CONNECTED
        /\ UNCHANGED <<primed, attempted, polled, starts, seen>>
    BY <1>5 DEF Decline, StartFails, Conclude, InHandPoints
  <2> QED
    BY <2>1 DEF PrimingInv, StartBudget, Counted, Latched, InHandPoints
<1>6. CASE PrimeMounted \/ GiveUp
  <2>1. /\ pc \in { "prime", "decide" } /\ pc' \notin InHandPoints /\ cur \in Ids
        /\ UNCHANGED <<polled, starts, seen>>
    BY <1>0, <1>6 DEF PrimeMounted, GiveUp, Conclude, InHandPoints
  <2>2. ASSUME NEW id \in Ids
        PROVE  \/ polled'[id] # None /\ primed'[id] = polled'[id].host
               \/ /\ id # cur
                  /\ Latched(id)' <=> Latched(id)
                  /\ Counted(id)' = Counted(id)
    BY <1>0, <1>6, <2>1 DEF PrimeMounted, GiveUp, Latch, Latched, Counted, Target, TypeOK,
       InHandPoints
  <2> QED
    BY <2>1, <2>2 DEF PrimingInv, StartBudget, Latched, InHandPoints
<1>7. CASE Consider
  <2>1. /\ pc = "prime" /\ pc' = "decide" /\ verdict.state # CONNECTED
        /\ UNCHANGED <<primed, attempted, polled, starts, seen, cur, verdict>>
    BY <1>7 DEF Consider
  <2>2. cur \in Ids /\ ~Latched(cur) /\ queued' = Counted(cur)
    BY <1>0, <1>7 DEF Consider, Eligible, Latched, Counted, Target, InHandPoints
  <2>3. ASSUME NEW id \in Ids
        PROVE  (Latched(id)' <=> Latched(id)) /\ Counted(id)' = Counted(id)
    BY <2>1 DEF Latched, Counted
  <2> QED
    BY <2>1, <2>2, <2>3 DEF PrimingInv, StartBudget
<1>8. CASE StartMount
  <2>1. /\ pc = "decide" /\ pc' = "note" /\ cur \in Ids /\ queued < PrimeAttempts
        /\ starts' = [starts EXCEPT ![cur] = @ + 1]
        /\ UNCHANGED <<primed, attempted, polled, seen, cur, verdict, queued>>
    BY <1>0, <1>8 DEF StartMount, MustGiveUp, TypeOK, InHandPoints
  <2>2. starts'[cur] = starts[cur] + 1 /\ \A id \in Ids : id # cur => starts'[id] = starts[id]
    BY <2>1 DEF TypeOK
  <2>3. ASSUME NEW id \in Ids
        PROVE  (Latched(id)' <=> Latched(id)) /\ Counted(id)' = Counted(id)
    BY <2>1 DEF Latched, Counted
  <2>4. starts'[cur] <= queued' + 1 /\ starts'[cur] <= PrimeAttempts
    BY <2>1, <2>2 DEF PrimingInv, TypeOK
  <2> QED
    BY <1>0, <2>1, <2>2, <2>3, <2>4 DEF PrimingInv, StartBudget, InHandPoints
<1>9. CASE NoteAttempt
  <2>1. /\ pc = "note" /\ pc' \notin InHandPoints /\ cur \in Ids
        /\ attempted' = [attempted EXCEPT ![cur] = [target |-> Target, count |-> queued + 1]]
        /\ UNCHANGED <<primed, polled, starts, seen>>
    BY <1>0, <1>9 DEF NoteAttempt, Conclude, InHandPoints
  <2> PICK id \in Ids : id = cur
    BY <2>1
  <2>2. Counted(id)' = queued + 1
    <3>1. [target |-> Target, count |-> queued + 1] \in Attempt
      BY <1>0, <2>1 DEF InHandPoints, TypeOK
    <3>2. attempted'[id] = [target |-> Target, count |-> queued + 1]
      BY <2>1 DEF TypeOK
    <3>3. attempted'[id] # None
      BY <3>1, <3>2
    <3> QED
      BY <1>0, <2>1, <3>2, <3>3 DEF Counted, Target, InHandPoints
  <2>3. ASSUME NEW other \in Ids
        PROVE  /\ Latched(other)' <=> Latched(other)
               /\ other # id => Counted(other)' = Counted(other)
    BY <2>1 DEF Latched, Counted, TypeOK
  <2> QED
    BY <2>1, <2>2, <2>3 DEF PrimingInv, StartBudget, InHandPoints
<1>10. ASSUME NEW id \in Ids, Farewell(id)
       PROVE  PrimingInv'
  BY <1>10, ForgetPrimes DEF Farewell, inHand
<1> QED
  BY <1>1, <1>2, <1>3, <1>4, <1>5, <1>6, <1>7, <1>8, <1>9, <1>10 DEF MonitorStep, PrimeStep

\* A restart forgets the starts together with the memory that counted them.
LEMMA RestartPrimes ==
    ASSUME PrimingInv, Restart
    PROVE  PrimingInv'
BY DEF Restart, PrimingInv, StartBudget, Counted, Latched, Handling, NothingKnown,
   NothingSeen

\* What `_maybe_prime` has read of the memory keeps bounding what it does, although
\* forget() and the handlers land between its steps.
THEOREM PrimingInvariant == Spec => []PrimingInv
<1>1. TypeOK /\ PrimingInv /\ [Next]_vars => PrimingInv'
  <2> SUFFICES ASSUME TypeOK, PrimingInv, [Next]_vars PROVE PrimingInv'
    OBVIOUS
  <2>1. CASE Environment \/ Command \/ Stop \/ UNCHANGED vars \/ \E id \in Ids : Systemd(id)
    <3>1. UNCHANGED primingVars
      BY <2>1 DEF Environment, Command, BeginCommand, Connect, Stop, Systemd, vars, primingVars
    <3> QED
      BY <3>1, OthersPrime
  <2> QED
    BY <2>1, HandlerPrimes, MonitorPrimes, RestartPrimes DEF Next
<1> QED
  BY InitPrimes, TypeCorrect, <1>1, PTL DEF Spec

\* The budget of starts is never exceeded, for every number of starts, every
\* set of connections and every interleaving of forget() with the poll.
THEOREM StartsAreBounded == Spec => []StartBudget
<1>1. PrimingInv => StartBudget
  BY DEF PrimingInv
<1> QED
  BY PrimingInvariant, <1>1, PTL

\* No connection seen connected, and not forgotten or moved since, is started
\* again: at the decision to start, the poll has read that it is not latched.
THEOREM EjectIsRespected == Spec => EjectRespected
<1>1. TypeOK /\ PrimingInv => (pc = "decide" => seen[cur] # "connected")
  BY DEF TypeOK, PrimingInv, Handling, InHandPoints, Configured
<1>2. TypeOK /\ PrimingInv =>
        [pc = "decide" /\ pc' = "note" => seen[cur] # "connected"]_vars
  BY <1>1
<1> QED
  BY TypeCorrect, PrimingInvariant, <1>2, PTL DEF EjectRespected

-----------------------------------------------------------------------------
(***************************************************************************)
(* Waking.  `dirty` is set with the event and cleared after it, so that it *)
(* can only outlive the event between clearing it and reading the config.  *)
(***************************************************************************)
WakeInv == dirty => wake \/ pc = "load"

\* A nudge is never lost, whoever sends it and whatever the poll is doing.
THEOREM NudgesAreKept == Spec => []NudgeNotLost
<1>1. Init => WakeInv
  BY DEF Init, WakeInv
<1>2. WakeInv /\ [Next]_vars => WakeInv'
  <2> SUFFICES ASSUME WakeInv, [Next]_vars PROVE WakeInv'
    OBVIOUS
  <2> USE DEF WakeInv
  <2>1. CASE Environment \/ Command \/ UNCHANGED vars \/ \E id \in Ids : Systemd(id)
    BY <2>1 DEF Environment, Command, BeginCommand, Connect, Systemd, vars
  <2>2. ASSUME NEW h \in Handlers, HandlerStep(h)
        PROVE  WakeInv'
    BY <2>2 DEF HandlerStep, Save, ApplyUnits, Arm, UndoSave, Forget, Nudge
  <2>3. CASE MonitorStep
    BY <2>3 DEF MonitorStep, Check, ClearWake, LoadConfig, Look, ReadUnit, PrimeStep,
       PrimeMounted, Decline, Consider, GiveUp, StartMount, StartFails, NoteAttempt,
       Conclude, Publish, Farewell, EndPoll, Woken
  <2>4. CASE Timer \/ Stop \/ Restart
    BY <2>4 DEF Timer, IntervalOver, Stop, Restart
  <2> QED
    BY <2>1, <2>2, <2>3, <2>4 DEF Next
<1>3. WakeInv => NudgeNotLost
  BY DEF WakeInv, NudgeNotLost
<1> QED
  BY <1>1, <1>2, <1>3, PTL DEF Spec

-----------------------------------------------------------------------------
(***************************************************************************)
(* What the monitor remembers.  Only a connection of the poll in progress  *)
(* gets into its memory; that poll publishes it, and the poll that misses  *)
(* it later says farewell, whatever forget() does in between.              *)
(***************************************************************************)
Remembered(id) == primed[id] # None \/ attempted[id] # None

MemoryTypes ==
    /\ states \in [Ids -> Verdicts \cup {None}] /\ current \in [Ids -> Verdicts \cup {None}]
    /\ pc \in { "prime", "decide", "note" } => verdict \in Verdicts

MemoryInv ==
    /\ MemoryTypes
    \* a poll's results and farewells are its own
    /\ pc \notin InHandPoints \cup { "look", "publish" } => current = NothingKnown
    /\ pc # "farewell" => gone = {}
    \* published, found by the poll in progress, or about to be forgotten
    /\ \A id \in Ids : Remembered(id) => states[id] # None \/ current[id] # None \/ id \in gone

\* `translate_journal` of one line of the journal: a cause has a state, or there is
\* none.
LEMMA CauseOfALine ==
    ASSUME NEW line \in {Noise, 13, 112}
    PROVE  LET cause == TranslateJournal(<<line>>) IN
           cause = NoCause \/ (cause.state \in States /\ cause.errno \in Int /\ cause.retryable \in BOOLEAN)
<1> DEFINE lines == <<line>>
           errnoAt == { i \in DOMAIN lines : lines[i] > Noise }
           last == CHOOSE i \in errnoAt : \A j \in errnoAt : j <= i
<1>1. DOMAIN lines = {1} /\ lines[1] = line
  OBVIOUS
<1>2. CASE line = Noise
  <2>1. errnoAt = {} /\ ~(\E i \in DOMAIN lines : lines[i] = Unresolved)
    BY <1>1, <1>2 DEF Noise, Unresolved
  <2> QED
    BY <2>1 DEF TranslateJournal
<1>3. CASE line # Noise
  <2>1. errnoAt = {1} /\ line \in Int
    BY <1>1, <1>3 DEF Noise
  <2>2. last = 1
    BY <2>1
  <2>3. TranslateJournal(lines) = Cause(line)
    BY <1>1, <2>1, <2>2 DEF TranslateJournal
  <2> HIDE DEF lines, errnoAt, last
  <2>4. Cause(line).state \in States /\ Cause(line).errno = line /\ Cause(line).retryable \in BOOLEAN
    BY DEF Cause, States, AUTH_FAILED, UNREACHABLE, CONNECTING, FAILED
  <2> QED
    BY <2>1, <2>3, <2>4 DEF lines
<1> QED
  BY <1>2, <1>3

\* What a branch of `derive` says is a verdict.
LEMMA VerdictIs ==
    ASSUME NEW s \in States, NEW m \in Messages, NEW b \in BOOLEAN
    PROVE  Verdict(s, m, b) \in Verdicts
  BY DEF Verdict, Verdicts

\* `derive` says something of every reading whose cause is one.
LEMMA DeriveIsVerdict ==
    ASSUME NEW r, r.readOnly \in BOOLEAN,
           r.cause = NoCause \/ (r.cause.state \in States /\ r.cause.errno \in Int /\ r.cause.retryable \in BOOLEAN)
    PROVE  Derive(r) \in Verdicts
<1>1. { IDLE, CONNECTING, CONNECTED, RECONNECTING, UNREACHABLE, AUTH_FAILED, FAILED, DISABLED,
        UNKNOWN } \subseteq States
  BY DEF States
<1>2. /\ { <<"not connected">>, <<"occupied">>, <<"still mounted">>, <<"no unit">>,
           <<"mounting">>, <<"not armed">>, <<"ready">> } \subseteq Messages
      /\ \A b \in BOOLEAN : <<"mounted", b>> \in Messages /\ <<"exit status", b>> \in Messages
      /\ \A n \in Int, b \in BOOLEAN : <<"errno", n, b>> \in Messages
  BY DEF Messages
<1>3. DeriveMounted(r) \in Verdicts
  BY <1>1, <1>2, VerdictIs DEF DeriveMounted
<1>4. DeriveFailed(r.result, r.cause) \in Verdicts
  <2> DEFINE Said(latched) ==
                 LET named == IF r.cause.retryable /\ r.cause.state = FAILED
                              THEN RECONNECTING ELSE r.cause.state
                     shown == IF ~latched THEN named
                              ELSE IF named = AUTH_FAILED THEN AUTH_FAILED ELSE FAILED
                 IN  IF r.cause = NoCause THEN Verdict(FAILED, <<"exit status", latched>>, ~latched)
                     ELSE Verdict(shown, <<"errno", r.cause.errno, latched>>, ~latched /\ r.cause.retryable)
  <2>1. PICK latched \in BOOLEAN : latched = (r.result = "start-limit-hit")
    BY Zenon
  <2>2. DeriveFailed(r.result, r.cause) = Said(latched)
    BY <2>1, Zenon DEF DeriveFailed
  <2>3. CASE r.cause = NoCause
    <3>1. <<"exit status", latched>> \in Messages /\ FAILED \in States
      BY <1>1, <1>2
    <3>2. PICK again \in BOOLEAN : Said(latched) = Verdict(FAILED, <<"exit status", latched>>, again)
      <4>1. CASE latched = TRUE
        BY <2>3, <4>1
      <4>2. CASE latched = FALSE
        BY <2>3, <4>2
      <4> QED
        BY <4>1, <4>2
    <3> QED
      BY <2>2, <3>1, <3>2, VerdictIs, Zenon
  <2>4. CASE r.cause # NoCause
    <3>1. PICK again \in BOOLEAN : again = (~latched /\ r.cause.retryable)
      BY <2>4
    <3>2. PICK s \in States : Said(latched) = Verdict(s, <<"errno", r.cause.errno, latched>>, again)
      BY <1>1, <2>4, <3>1
    <3>3. <<"errno", r.cause.errno, latched>> \in Messages
      BY <1>2, <2>4
    <3> QED
      BY <2>2, <3>2, <3>3, VerdictIs, Zenon
  <2> QED
    BY <2>3, <2>4
<1>5. DeriveUnmounted(r) \in Verdicts
  BY <1>1, <1>2, <1>4, VerdictIs DEF DeriveUnmounted
<1> QED
  BY <1>1, <1>2, <1>3, <1>5, VerdictIs DEF Derive

\* So does the poll of the connection in hand.
LEMMA ReadUnitSays ==
    ASSUME TypeOK, ReadUnit
    PROVE  verdict' \in Verdicts
<1>1. pc = "unit" /\ cur \in Ids
  BY DEF ReadUnit, TypeOK, Configured, InHandPoints
<1>2. journal[cur] \in {Noise, 13, 112}
  BY <1>1 DEF TypeOK
<1>3. ASSUME NEW showed \in BOOLEAN, NEW heard \in BOOLEAN
      PROVE  Derive(ReadingOf(showed, heard)) \in Verdicts
  <2> DEFINE r == ReadingOf(showed, heard)
             cause == TranslateJournal(<<journal[cur]>>)
  <2>1. r.readOnly \in BOOLEAN /\ (r.cause = cause \/ r.cause = NoCause)
    BY DEF ReadingOf
  <2>2. cause = NoCause \/ (cause.state \in States /\ cause.errno \in Int /\ cause.retryable \in BOOLEAN)
    BY <1>2, CauseOfALine
  <2> HIDE DEF r, cause
  <2>3. Derive(r) \in Verdicts
    BY <2>1, <2>2, DeriveIsVerdict
  <2> QED
    BY <2>3 DEF r
<1> QED
  BY <1>3 DEF ReadUnit

\* A connection is done with: what the poll found of it is kept.
LEMMA ConcludeKeeps ==
    ASSUME TypeOK, MemoryInv, pc \in { "prime", "decide", "note" }, Conclude,
           \A id \in Ids : id # cur /\ Remembered(id)' => Remembered(id)
    PROVE  MemoryInv'
<1>1. cur \in Ids /\ verdict \in Verdicts /\ verdict # None
  BY DEF TypeOK, Configured, InHandPoints, MemoryInv, MemoryTypes
<1>2. /\ current' = [current EXCEPT ![cur] = verdict] /\ pc' \in { "publish", "look" }
      /\ UNCHANGED <<gone, states>>
  BY DEF Conclude
<1>3. /\ current' \in [Ids -> Verdicts \cup {None}] /\ current'[cur] # None
      /\ \A id \in Ids : id # cur => current'[id] = current[id]
  BY <1>1, <1>2 DEF MemoryInv, MemoryTypes
<1>4. MemoryTypes'
  BY <1>2, <1>3 DEF MemoryInv, MemoryTypes
<1>5. \A id \in Ids : Remembered(id)' => states'[id] # None \/ current'[id] # None \/ id \in gone'
  BY <1>2, <1>3 DEF MemoryInv
<1> QED
  BY <1>2, <1>4, <1>5 DEF MemoryInv, InHandPoints

\* forget() drops what is remembered of one connection and nothing else.
LEMMA ForgetRemembersLess ==
    ASSUME TypeOK, NEW id, DropMemory(id), NEW other \in Ids, Remembered(other)'
    PROVE  Remembered(other) /\ other # id
  BY DEF DropMemory, Remembered, TypeOK

\* The handlers only ever forget.
LEMMA HandlersForget ==
    ASSUME TypeOK, MemoryInv, NEW h \in Handlers, HandlerStep(h)
    PROVE  MemoryInv'
<1>1. UNCHANGED <<pc, current, gone, states, verdict>>
  BY DEF HandlerStep
<1>2. \A id \in Ids : Remembered(id)' => Remembered(id)
  <2>1. CASE Forget(h)
    BY <2>1, ForgetRemembersLess DEF Forget
  <2>2. CASE UNCHANGED memory
    BY <2>2 DEF Remembered
  <2> QED
    BY <2>1, <2>2 DEF HandlerStep, Save, ApplyUnits, Arm, UndoSave, Nudge
<1> QED
  BY <1>1, <1>2 DEF MemoryInv, MemoryTypes

\* The monitor publishes what it remembers, or forgets it.
LEMMA MonitorRemembers ==
    ASSUME TypeOK, MemoryInv, MonitorStep \/ Timer
    PROVE  MemoryInv'
<1>1. CASE Check \/ ClearWake \/ Woken \/ Timer \/ EndPoll \/ \E id \in Ids : Look(id)
  BY <1>1 DEF Check, ClearWake, Woken, Timer, IntervalOver, EndPoll, Look, MemoryInv, MemoryTypes,
     Remembered, InHandPoints
<1>2. CASE LoadConfig
  <2>1. pc = "load" /\ UNCHANGED <<memory, gone, states, verdict>>
    BY <1>2 DEF LoadConfig
  <2>2. pc' \in { "publish", "look", "wait" } /\ current' = NothingKnown
    BY <1>2, <2>1 DEF LoadConfig, Load, LoadFails, MemoryInv, InHandPoints
  <2>3. NothingKnown \in [Ids -> Verdicts \cup {None}] /\ current = NothingKnown
    BY <2>1 DEF NothingKnown, MemoryInv, InHandPoints
  <2> QED
    BY <2>1, <2>2, <2>3 DEF MemoryInv, MemoryTypes, Remembered, InHandPoints
<1>3. CASE ReadUnit
  BY <1>3, ReadUnitSays DEF ReadUnit, MemoryInv, MemoryTypes, Remembered, InHandPoints
<1>4. CASE Consider
  BY <1>4 DEF Consider, MemoryInv, MemoryTypes, Remembered, InHandPoints
<1>5. CASE StartMount
  BY <1>5 DEF StartMount, MemoryInv, MemoryTypes, Remembered, InHandPoints
<1>6. CASE PrimeMounted \/ GiveUp
  <2>1. \A id \in Ids : id # cur /\ Remembered(id)' => Remembered(id)
    BY <1>6 DEF PrimeMounted, GiveUp, Latch, Remembered, TypeOK
  <2> QED
    BY <1>6, <2>1, ConcludeKeeps DEF PrimeMounted, GiveUp
<1>7. CASE Decline \/ StartFails
  <2>1. \A id \in Ids : id # cur /\ Remembered(id)' => Remembered(id)
    BY <1>7 DEF Decline, StartFails, Remembered
  <2> QED
    BY <1>7, <2>1, ConcludeKeeps DEF Decline, StartFails
<1>8. CASE NoteAttempt
  <2>1. \A id \in Ids : id # cur /\ Remembered(id)' => Remembered(id)
    BY <1>8 DEF NoteAttempt, Remembered, TypeOK
  <2> QED
    BY <1>8, <2>1, ConcludeKeeps DEF NoteAttempt
<1>9. CASE Publish
  <2>1. /\ pc' = "farewell" /\ states' = current /\ UNCHANGED <<memory, verdict>>
        /\ gone' = { id \in Ids : states[id] # None /\ current[id] = None }
        /\ current' = NothingKnown /\ gone = {}
    BY <1>9 DEF Publish, MemoryInv
  <2>2. NothingKnown \in [Ids -> Verdicts \cup {None}]
    BY DEF NothingKnown
  <2>3. MemoryTypes'
    BY <2>1, <2>2 DEF MemoryInv, MemoryTypes
  <2>4. \A id \in Ids : Remembered(id) => states[id] # None \/ current[id] # None
    BY <2>1 DEF MemoryInv
  <2> QED
    BY <2>1, <2>3, <2>4 DEF MemoryInv, Remembered
<1>10. ASSUME NEW id \in Ids, Farewell(id) PROVE MemoryInv'
  <2>1. pc' = "farewell" /\ gone' = gone \ {id} /\ UNCHANGED <<current, states, verdict>>
    BY <1>10 DEF Farewell
  <2>2. pc = "farewell" /\ \A other \in Ids : Remembered(other)' => Remembered(other) /\ other # id
    BY <1>10, ForgetRemembersLess DEF Farewell
  <2> QED
    BY <2>1, <2>2 DEF MemoryInv, MemoryTypes
<1> QED
  BY <1>1, <1>2, <1>3, <1>4, <1>5, <1>6, <1>7, <1>8, <1>9, <1>10 DEF MonitorStep, PrimeStep

\* A removed connection leaves nothing behind in `_primed` and `_attempted` once the
\* poll that missed it is over, in whatever order that poll and forget() ran.
THEOREM MemoryIsPublished == Spec => []MemoryIsOfPublished
<1>1. Init => MemoryInv
  <2>1. NothingKnown \in [Ids -> Verdicts \cup {None}] /\ \A id \in Ids : NothingKnown[id] = None
    BY DEF NothingKnown
  <2> QED
    BY <2>1 DEF Init, MemoryInv, MemoryTypes, Remembered
<1>2. TypeOK /\ MemoryInv /\ [Next]_vars => MemoryInv'
  <2> SUFFICES ASSUME TypeOK, MemoryInv, [Next]_vars PROVE MemoryInv'
    OBVIOUS
  <2>1. CASE Environment \/ Command \/ Stop \/ UNCHANGED vars \/ \E id \in Ids : Systemd(id)
    <3>1. UNCHANGED <<memory, pc, current, gone, states, verdict>>
      BY <2>1 DEF Environment, Command, BeginCommand, Connect, Stop, Systemd, vars
    <3> QED
      BY <3>1 DEF MemoryInv, MemoryTypes, Remembered
  <2>2. CASE Restart
    <3>1. NothingKnown \in [Ids -> Verdicts \cup {None}] /\ \A id \in Ids : NothingKnown[id] = None
      BY DEF NothingKnown
    <3> QED
      BY <2>2, <3>1 DEF Restart, MemoryInv, MemoryTypes, Remembered
  <2> QED
    BY <2>1, <2>2, HandlersForget, MonitorRemembers DEF Next
<1>3. MemoryInv => MemoryIsOfPublished
  BY DEF MemoryInv, MemoryIsOfPublished, Remembered, InHandPoints, NothingKnown
<1> QED
  BY TypeCorrect, <1>1, <1>2, <1>3, PTL DEF Spec
=============================================================================
