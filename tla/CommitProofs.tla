---------------------------- MODULE CommitProofs ----------------------------
(***************************************************************************)
(* Theorems about Commit, for any number of handler threads, shares,       *)
(* connections and strangers, every set of requests, and every bound: a    *)
(* mount of ours is never without the file that marks it; only an apply or *)
(* a teardown that somebody asked for touches what another SMBPal left;    *)
(* and a handler that has the daemon to itself answers truly, sweeps what  *)
(* it must, and leaves the machine as the config describes it.             *)
(***************************************************************************)
EXTENDS Commit, TLAPS

USE DEF samba, machine, history, bounds, Points, At, Goes, Req

-----------------------------------------------------------------------------
(***************************************************************************)
(* Marks.                                                                  *)
(***************************************************************************)
\* Units and mounts are there for every mountpoint.
IsUnit(u) == u = [mount |-> u.mount, auto |-> u.auto, armed |-> u.armed, ref |-> u.ref, swapped |-> u.swapped]

UnitsAreRecords ==
    /\ units = [p \in Points |-> units[p]] /\ mounts = [p \in Points |-> mounts[p]]
    /\ \A p \in Points : IsUnit(units[p])

\* The inductive invariant behind MountsAreMarked.
MarkInv ==
    /\ UnitsAreRecords
    /\ \A p \in Points : mounts[p] = "ours" => units[p].mount

\* A unit with one field changed is a unit, of the same files but for that one.
LEMMA OneEdit ==
    ASSUME NEW u, IsUnit(u), NEW x
    PROVE  /\ IsUnit([u EXCEPT !.mount = x]) /\ [u EXCEPT !.mount = x].mount = x
           /\ IsUnit([u EXCEPT !.auto = x]) /\ [u EXCEPT !.auto = x].mount = u.mount
           /\ IsUnit([u EXCEPT !.armed = x]) /\ [u EXCEPT !.armed = x].mount = u.mount
           /\ IsUnit([u EXCEPT !.ref = x]) /\ [u EXCEPT !.ref = x].mount = u.mount
           /\ IsUnit([u EXCEPT !.swapped = x]) /\ [u EXCEPT !.swapped = x].mount = u.mount
  BY DEF IsUnit

\* Disarm changes two fields.
LEMMA DisarmEdit ==
    \A u : IsUnit(u) =>
        LET w == [u EXCEPT !.auto = FALSE, !.armed = FALSE] IN IsUnit(w) /\ w.mount = u.mount
<1> SUFFICES ASSUME NEW u, IsUnit(u), NEW w, w = [u EXCEPT !.auto = FALSE, !.armed = FALSE]
             PROVE  IsUnit(w) /\ w.mount = u.mount
  OBVIOUS
<1> DEFINE v == [u EXCEPT !.auto = FALSE]
<1>1. IsUnit(v) /\ v.mount = u.mount
  BY OneEdit
<1>2. w = [v EXCEPT !.armed = FALSE]
  OBVIOUS
<1> HIDE DEF v
<1>3. IsUnit([v EXCEPT !.armed = FALSE]) /\ [v EXCEPT !.armed = FALSE].mount = v.mount
  BY <1>1, OneEdit
<1> QED
  BY <1>1, <1>2, <1>3

\* Writing a unit changes four, the .mount file among them.
LEMMA WriteEdit ==
    \A u, r, s : IsUnit(u) =>
        LET w == [u EXCEPT !.mount = TRUE, !.auto = TRUE, !.ref = r, !.swapped = s]
        IN  IsUnit(w) /\ w.mount
<1> SUFFICES ASSUME NEW u, IsUnit(u), NEW r, NEW s,
                    NEW w, w = [u EXCEPT !.mount = TRUE, !.auto = TRUE, !.ref = r, !.swapped = s]
             PROVE  IsUnit(w) /\ w.mount
  OBVIOUS
<1> DEFINE v1 == [u EXCEPT !.mount = TRUE]
           v2 == [v1 EXCEPT !.auto = TRUE]
           v3 == [v2 EXCEPT !.ref = r]
<1>1. IsUnit(v1) /\ v1.mount = TRUE
  BY OneEdit
<1>2. w = [v3 EXCEPT !.swapped = s]
  OBVIOUS
<1> HIDE DEF v1
<1>3. IsUnit(v2) /\ v2.mount = TRUE
  BY <1>1, OneEdit
<1> HIDE DEF v2
<1>4. IsUnit(v3) /\ v3.mount = TRUE
  BY <1>3, OneEdit
<1> HIDE DEF v3
<1>5. IsUnit([v3 EXCEPT !.swapped = s]) /\ [v3 EXCEPT !.swapped = s].mount = TRUE
  BY <1>4, OneEdit
<1> QED
  BY <1>2, <1>5

\* A daemon that has never applied anything: strangers' units, and no mount.
LEMMA InitMarks == Init => MarkInv
<1> SUFFICES ASSUME Init PROVE MarkInv
  OBVIOUS
<1>1. /\ units = [p \in Points |-> IF p \in Strangers THEN StrayUnit ELSE NoUnit]
      /\ mounts = [p \in Points |-> "none"]
  BY DEF Init
<1>2. IsUnit(NoUnit) /\ IsUnit(StrayUnit)
  <2> DEFINE v1 == [NoUnit EXCEPT !.mount = TRUE]
             v2 == [v1 EXCEPT !.auto = TRUE]
  <2>1. IsUnit(NoUnit)
    BY DEF IsUnit, NoUnit
  <2>2. IsUnit(v1)
    BY <2>1, OneEdit
  <2>3. StrayUnit = [v2 EXCEPT !.armed = TRUE]
    BY DEF StrayUnit
  <2> HIDE DEF v1
  <2>4. IsUnit(v2)
    BY <2>2, OneEdit
  <2> HIDE DEF v2
  <2> QED
    BY <2>1, <2>3, <2>4, OneEdit
<1>3. \A p \in Points : IsUnit(units[p]) /\ mounts[p] = "none"
  BY <1>1, <1>2
<1> QED
  BY <1>1, <1>3 DEF MarkInv, UnitsAreRecords

\* The invariant is about each mountpoint by itself.
LEMMA MarksByPoint ==
    ASSUME MarkInv,
           units' = [p \in Points |-> units'[p]], mounts' = [p \in Points |-> mounts'[p]],
           \A p \in Points : /\ IsUnit(units'[p])
                             /\ \/ mounts'[p] # "ours"
                                \/ units'[p].mount
    PROVE  MarkInv'
  BY DEF MarkInv, UnitsAreRecords

\* Units are written with their mark, for mountpoints that nobody else holds.
LEMMA WritingMarks ==
    ASSUME MarkInv, NEW some, NEW doc, UNCHANGED mounts,
           units' = [p \in Points |-> IF p \in some THEN UnitFor(p, doc) ELSE units[p]]
    PROVE  MarkInv'
<1>1. \A p \in Points : IsUnit(UnitFor(p, doc)) /\ UnitFor(p, doc).mount
  <2> SUFFICES ASSUME NEW p \in Points
               PROVE  IsUnit(UnitFor(p, doc)) /\ UnitFor(p, doc).mount
    OBVIOUS
  <2>1. IsUnit(units[p])
    BY DEF MarkInv, UnitsAreRecords
  <2>2. PICK r, s :
           UnitFor(p, doc) = [units[p] EXCEPT !.mount = TRUE, !.auto = TRUE, !.ref = r, !.swapped = s]
    BY DEF UnitFor
  <2>3. IsUnit(UnitFor(p, doc)) /\ UnitFor(p, doc).mount
    <3> DEFINE w == [units[p] EXCEPT !.mount = TRUE, !.auto = TRUE, !.ref = r, !.swapped = s]
    <3>1. IsUnit(w) /\ w.mount
      BY <2>1, WriteEdit
    <3> HIDE DEF w
    <3>2. UnitFor(p, doc) = w
      BY <2>2 DEF w
    <3> QED
      BY <3>1, <3>2
  <2> QED
    BY <2>3
<1>2. \A p \in Points : IsUnit(units'[p]) /\ (mounts'[p] # "ours" \/ units'[p].mount)
  BY <1>1 DEF MarkInv, UnitsAreRecords
<1> QED
  BY <1>2, MarksByPoint DEF MarkInv, UnitsAreRecords

\* A step that leaves the .mount files and makes no mount.
LEMMA KeepingMarks ==
    ASSUME MarkInv,
           units' = [p \in Points |-> units'[p]], mounts' = [p \in Points |-> mounts'[p]],
           \A p \in Points : /\ IsUnit(units'[p]) /\ units'[p].mount = units[p].mount
                             /\ mounts'[p] = "ours" => (mounts[p] = "ours" \/ units[p].mount)
    PROVE  MarkInv'
  BY MarksByPoint DEF MarkInv

\* Mounter._remove_stale_units: a file is unlinked once its mount has gone.
LEMMA UnlinkingMarks == ASSUME MarkInv, NEW h \in Handlers, Unlink(h) PROVE MarkInv'
<1>1. PICK busy \in SUBSET (Stale(h) \intersect Mounted) :
         /\ mounts' = Stopped(Stale(h) \ busy)
         /\ units' = [p \in Points |-> IF p \in Stale(h) \ busy THEN NoUnit ELSE units[p]]
  BY DEF Unlink
<1>2. IsUnit(NoUnit)
  BY DEF IsUnit, NoUnit
<1>3. \A p \in Points : /\ IsUnit(units'[p])
                        /\ mounts'[p] # "ours" \/ units'[p].mount
  <2> SUFFICES ASSUME NEW p \in Points
               PROVE  IsUnit(units'[p]) /\ (mounts'[p] # "ours" \/ units'[p].mount)
    OBVIOUS
  <2>1. CASE p \in Stale(h) \ busy
    <3>1. units'[p] = NoUnit /\ mounts'[p] = "none"
      BY <1>1, <2>1 DEF Stopped
    <3> QED
      BY <1>2, <3>1
  <2>2. CASE p \notin Stale(h) \ busy
    <3>1. units'[p] = units[p] /\ mounts'[p] = mounts[p]
      BY <1>1, <2>2 DEF Stopped
    <3> QED
      BY <3>1 DEF MarkInv, UnitsAreRecords
  <2> QED
    BY <2>1, <2>2
<1>4. units' = [p \in Points |-> units'[p]] /\ mounts' = [p \in Points |-> mounts'[p]]
  BY <1>1 DEF Stopped
<1> QED
  BY <1>3, <1>4, MarksByPoint

\* Every step of a handler.
LEMMA HandlerMarks ==
    ASSUME MarkInv, NEW h \in Handlers,
           \/ WritePassword(h) \/ Save(h) \/ Publish(h) \/ Reload(h) \/ Verify(h)
           \/ TakeOwnership(h) \/ Unserve(h) \/ WriteUnits(h) \/ Disarm(h) \/ Unlink(h)
           \/ Arm(h) \/ Finish(h) \/ Fail(h) \/ Fault(h)
    PROVE  MarkInv'
<1>1. CASE UNCHANGED <<units, mounts>>
  BY <1>1 DEF MarkInv, UnitsAreRecords, IsUnit
<1>2. CASE WritePassword(h) \/ Save(h) \/ Publish(h) \/ Reload(h) \/ Verify(h)
  BY <1>1, <1>2 DEF WritePassword, Save, Publish, Reload, Verify
<1>3. CASE TakeOwnership(h) \/ Unserve(h) \/ Finish(h) \/ Fail(h)
  BY <1>1, <1>3 DEF TakeOwnership, Unserve, Finish, Fail
<1>4. CASE WriteUnits(h)
  BY <1>4, WritingMarks DEF WriteUnits
<1>5. CASE Disarm(h)
  <2>1. \A p \in Points : IsUnit(units'[p]) /\ units'[p].mount = units[p].mount
    <3> SUFFICES ASSUME NEW p \in Points
                 PROVE  IsUnit(units'[p]) /\ units'[p].mount = units[p].mount
      OBVIOUS
    <3>1. \/ units'[p] = units[p]
          \/ units'[p] = [units[p] EXCEPT !.auto = FALSE, !.armed = FALSE]
      BY <1>5 DEF Disarm
    <3>2. IsUnit(units[p])
      BY DEF MarkInv, UnitsAreRecords
    <3>3. CASE units'[p] = units[p]
      BY <3>2, <3>3
    <3>4. CASE units'[p] = [units[p] EXCEPT !.auto = FALSE, !.armed = FALSE]
      BY <3>2, <3>4, DisarmEdit
    <3> QED
      BY <3>1, <3>3, <3>4
  <2> QED
    BY <1>5, <2>1, KeepingMarks DEF Disarm, MarkInv, UnitsAreRecords
<1>6. CASE Unlink(h)
  BY <1>6, UnlinkingMarks
<1>7. CASE Arm(h)
  <2>1. \A p \in Points : IsUnit(units'[p]) /\ units'[p].mount = units[p].mount
    BY <1>7, OneEdit DEF Arm, MarkInv, UnitsAreRecords
  <2> QED
    BY <1>7, <2>1, KeepingMarks DEF Arm, MarkInv, UnitsAreRecords
<1>8. CASE Fault(h)
  BY <1>1, <1>8, WritingMarks DEF Fault
<1> QED
  BY <1>2, <1>3, <1>4, <1>5, <1>6, <1>7, <1>8

\* Automounts, people and udisks2: a mount of ours is made by its file.
LEMMA MachineMarks ==
    ASSUME MarkInv, NEW c \in Conns, Mount(c) \/ Unmount(c) \/ Plug(c) \/ Unplug(c)
    PROVE  MarkInv'
<1>1. \A p \in Points : mounts'[p] = "ours" => (mounts[p] = "ours" \/ units[p].mount)
  BY DEF Mount, Unmount, Plug, Unplug, Stopped, MarkInv, UnitsAreRecords
<1>2. mounts' = [p \in Points |-> mounts'[p]] /\ UNCHANGED units
  BY DEF Mount, Unmount, Plug, Unplug, Stopped, MarkInv, UnitsAreRecords
<1> QED
  BY <1>1, <1>2, KeepingMarks DEF MarkInv, UnitsAreRecords

\* Every step of the program and of the machine keeps the marks.
LEMMA NextMarks == MarkInv /\ [Next]_vars => MarkInv'
<1> SUFFICES ASSUME MarkInv, [Next]_vars PROVE MarkInv'
  OBVIOUS
<1>1. CASE UNCHANGED <<units, mounts>>
  BY <1>1 DEF MarkInv, UnitsAreRecords, IsUnit
<1>2. CASE \E h \in Handlers, r \in Requests : Start(h, r)
  BY <1>1, <1>2 DEF Start
<1>3. CASE Crash
  BY <1>1, <1>3 DEF Crash
<1>4. CASE UNCHANGED vars
  BY <1>1, <1>4 DEF vars
<1> QED
  BY <1>2, <1>3, <1>4, HandlerMarks, MachineMarks DEF Next

\* Mounter._remove_stale_units: "the marker is the only evidence this mount was
\* ours", so no mount of ours is without its file in any interleaving of the
\* handlers, and inventory.survey calls none a stranger's.
THEOREM MarksAreKept == Spec => []MountsAreMarked
<1>1. MarkInv => MountsAreMarked
  BY DEF MarkInv, MountsAreMarked, Unmanaged, Marked
<1> QED
  BY <1>1, InitMarks, NextMarks, PTL DEF Spec
-----------------------------------------------------------------------------
(***************************************************************************)
(* Strangers.                                                              *)
(***************************************************************************)
\* There is a record for each handler thread.
IsHandler(x) == x = [pc |-> x.pc, req |-> x.req, prev |-> x.prev, next |-> x.next, rolling |-> x.rolling,
                     alone |-> x.alone, blocked |-> x.blocked, reply |-> x.reply]
HandlersAreRecords ==
    /\ handlers = [h \in Handlers |-> handlers[h]]
    /\ \A h \in Handlers : IsHandler(handlers[h])

\* share.make_writable applies Samba and no units.
ServesOnly == {"chown", "publish", "include", "verify", "done"}
Serves(x)  == x.req.op = "share.make_writable" => x.pc \in ServesOnly

\* The inductive invariant behind StrangersStay.
ServesInv ==
    /\ HandlersAreRecords
    /\ \A h \in Handlers : Serves(handlers[h])

\* A handler goes on: it asks for what it asked for.
LEMMA GoingOn ==
    ASSUME NEW x, IsHandler(x), NEW v, NEW w
    PROVE  /\ IsHandler([x EXCEPT !.pc = v])
           /\ [x EXCEPT !.pc = v].pc = v /\ [x EXCEPT !.pc = v].req = x.req
           /\ IsHandler([x EXCEPT !.blocked = w])
           /\ [x EXCEPT !.blocked = w].pc = x.pc /\ [x EXCEPT !.blocked = w].req = x.req
           /\ IsHandler([x EXCEPT !.rolling = w])
           /\ [x EXCEPT !.rolling = w].pc = x.pc /\ [x EXCEPT !.rolling = w].req = x.req
           /\ IsHandler([x EXCEPT !.alone = w])
           /\ [x EXCEPT !.alone = w].pc = x.pc /\ [x EXCEPT !.alone = w].req = x.req
  BY DEF IsHandler

\* A thread between requests asks for nothing.
LEMMA IdleServes ==
    \A reply : IsHandler(Idle(reply)) /\ Serves(Idle(reply)) /\ Idle(reply).req.op = "none"
  BY DEF IsHandler, Serves, Idle

\* The daemon starts with threads that serve nobody.
LEMMA InitServes == Init => ServesInv
  BY IdleServes DEF Init, ServesInv, HandlersAreRecords

\* One thread moves, the others stay.
LEMMA OneHandler ==
    ASSUME ServesInv, NEW h \in Handlers, NEW x, handlers' = [handlers EXCEPT ![h] = x],
           IsHandler(x), Serves(x)
    PROVE  ServesInv'
<1>1. \A g \in Handlers : handlers'[g] = (IF g = h THEN x ELSE handlers[g])
  BY DEF ServesInv, HandlersAreRecords
<1>2. handlers' = [g \in Handlers |-> handlers'[g]]
  BY DEF ServesInv, HandlersAreRecords
<1> QED
  BY <1>1, <1>2 DEF ServesInv, HandlersAreRecords

\* A thread goes to another step: one of those of Samba, if that is all it is
\* asked for.
LEMMA Goings ==
    ASSUME ServesInv, NEW h \in Handlers, NEW pc, Goes(h, pc),
           Req(h).op = "share.make_writable" => pc \in ServesOnly
    PROVE  ServesInv'
<1> DEFINE x == [handlers[h] EXCEPT !.pc = pc]
<1>1. IsHandler(handlers[h])
  BY DEF ServesInv, HandlersAreRecords
<1>2. IsHandler(x) /\ x.pc = pc /\ x.req = handlers[h].req
  BY <1>1, GoingOn
<1>3. handlers' = [handlers EXCEPT ![h] = x]
  OBVIOUS
<1> HIDE DEF x
<1>4. Serves(x)
  BY <1>2 DEF Serves
<1> QED
  BY <1>2, <1>3, <1>4, OneHandler

\* A thread is done, or its commit is undone.
LEMMA UndoServes == ASSUME ServesInv, NEW h \in Handlers, Undo(h) PROVE ServesInv'
<1>1. CASE handlers' = [handlers EXCEPT ![h] = Idle("error")]
  BY <1>1, IdleServes, OneHandler
<1>2. CASE /\ Commits(Req(h))
           /\ handlers' = [handlers EXCEPT ![h].pc = "save", ![h].rolling = TRUE]
  <2> DEFINE y == [handlers[h] EXCEPT !.pc = "save"]
             x == [y EXCEPT !.rolling = TRUE]
  <2>1. IsHandler(handlers[h])
    BY DEF ServesInv, HandlersAreRecords
  <2>2. IsHandler(y) /\ y.req = handlers[h].req
    BY <2>1, GoingOn
  <2>3. handlers' = [handlers EXCEPT ![h] = x]
    BY <1>2 DEF ServesInv, HandlersAreRecords
  <2> HIDE DEF y
  <2>4. IsHandler(x) /\ x.req = handlers[h].req
    BY <2>2, GoingOn
  <2> HIDE DEF x
  <2>5. Serves(x)
    BY <1>2, <2>4 DEF Serves, Commits
  <2> QED
    BY <2>3, <2>4, <2>5, OneHandler
<1> QED
  BY <1>1, <1>2 DEF Undo

\* A request is taken: its handler starts where the request begins.
LEMMA StartServes ==
    ASSUME ServesInv, NEW h \in Handlers, NEW r, Start(h, r) PROVE ServesInv'
<1>1. CASE handlers' = [handlers EXCEPT ![h] = Idle("error")]
  BY <1>1, IdleServes, OneHandler
<1>2. CASE handlers' = [g \in Handlers |->
             IF g = h THEN [Idle("none") EXCEPT !.pc = FirstStep(r), !.req = r, !.prev = config,
                               !.next = Change(r, config), !.alone = (Busy = {})]
             ELSE [handlers[g] EXCEPT !.alone = FALSE]]
  <2> DEFINE v1 == [Idle("none") EXCEPT !.pc = FirstStep(r)]
             v2 == [v1 EXCEPT !.req = r]
             v3 == [v2 EXCEPT !.prev = config]
             v4 == [v3 EXCEPT !.next = Change(r, config)]
             x  == [v4 EXCEPT !.alone = (Busy = {})]
  <2>1. handlers' = [g \in Handlers |-> IF g = h THEN x ELSE [handlers[g] EXCEPT !.alone = FALSE]]
    BY <1>2
  <2> HIDE DEF x
  <2>2. IsHandler(x) /\ x.pc = FirstStep(r) /\ x.req = r
    <3>1. IsHandler(v1) /\ v1.pc = FirstStep(r)
      BY IdleServes, GoingOn
    <3> HIDE DEF v1
    <3>2. IsHandler(v2) /\ v2.pc = FirstStep(r) /\ v2.req = r
      BY <3>1 DEF IsHandler
    <3> HIDE DEF v2
    <3>3. IsHandler(v3) /\ v3.pc = FirstStep(r) /\ v3.req = r
      BY <3>2 DEF IsHandler
    <3> HIDE DEF v3
    <3>4. IsHandler(v4) /\ v4.pc = FirstStep(r) /\ v4.req = r
      BY <3>3 DEF IsHandler
    <3> HIDE DEF v4
    <3> QED
      BY <3>4, GoingOn DEF x
  <2>3. IsHandler(x) /\ Serves(x)
    BY <2>2 DEF Serves, FirstStep, ServesOnly
  <2>4. ASSUME NEW g \in Handlers \ {h} PROVE IsHandler(handlers'[g]) /\ Serves(handlers'[g])
    <3> DEFINE y == [handlers[g] EXCEPT !.alone = FALSE]
    <3>1. IsHandler(handlers[g]) /\ Serves(handlers[g])
      BY DEF ServesInv, HandlersAreRecords
    <3>2. IsHandler(y) /\ y.pc = handlers[g].pc /\ y.req = handlers[g].req
      BY <3>1, GoingOn
    <3>3. handlers'[g] = y
      BY <2>1
    <3> HIDE DEF y
    <3> QED
      BY <3>1, <3>2, <3>3 DEF Serves
  <2>5. \A g \in Handlers : IsHandler(handlers'[g]) /\ Serves(handlers'[g])
    BY <2>1, <2>3, <2>4
  <2>6. handlers' = [g \in Handlers |-> handlers'[g]]
    BY <2>1
  <2> QED
    BY <2>5, <2>6 DEF ServesInv, HandlersAreRecords
<1> QED
  BY <1>1, <1>2 DEF Start
\* Every step of a handler leaves those of share.make_writable with Samba.
LEMMA HandlerServes ==
    ASSUME ServesInv, NEW h \in Handlers,
           \/ WritePassword(h) \/ Save(h) \/ Publish(h) \/ Reload(h) \/ Verify(h)
           \/ TakeOwnership(h) \/ Unserve(h) \/ WriteUnits(h) \/ Disarm(h) \/ Unlink(h)
           \/ Arm(h) \/ Finish(h) \/ Fail(h) \/ Fault(h)
    PROVE  ServesInv'
<1>1. Req(h).op = "share.make_writable" => handlers[h].pc \in ServesOnly
  BY DEF ServesInv, Serves
<1>2. CASE WritePassword(h)
  BY <1>1, <1>2, Goings DEF WritePassword, ServesOnly
<1>3. CASE Save(h)
  BY <1>3, Goings DEF Save, ServesOnly
<1>4. CASE Publish(h) \/ TakeOwnership(h) \/ Reload(h)
  BY <1>4, Goings DEF Publish, TakeOwnership, Reload, ServesOnly
<1>5. CASE Verify(h)
  BY <1>5, Goings DEF Verify, AfterServing, ServesOnly
<1>6. CASE Unserve(h) \/ Disarm(h) \/ Arm(h)
  BY <1>1, <1>6, Goings DEF Unserve, Disarm, Arm, ServesOnly
<1>7. CASE Unlink(h)
  BY <1>1, <1>7, Goings DEF Unlink, AfterSweep, ServesOnly
<1>8. CASE WriteUnits(h)
  <2> DEFINE y == [handlers[h] EXCEPT !.pc = "disarm"]
             x == [y EXCEPT !.blocked = Blocked(h)]
  <2>1. IsHandler(handlers[h])
    BY DEF ServesInv, HandlersAreRecords
  <2>2. IsHandler(y) /\ y.req = handlers[h].req
    BY <2>1, GoingOn
  <2>3. handlers' = [handlers EXCEPT ![h] = x]
    BY <1>8 DEF WriteUnits, ServesInv, HandlersAreRecords
  <2> HIDE DEF y
  <2>4. IsHandler(x) /\ x.req = handlers[h].req
    BY <2>2, GoingOn
  <2> HIDE DEF x
  <2>5. Serves(x)
    BY <1>1, <1>8, <2>4 DEF Serves, WriteUnits, ServesOnly
  <2> QED
    BY <2>3, <2>4, <2>5, OneHandler
<1>9. CASE Finish(h)
  BY <1>9, IdleServes, OneHandler DEF Finish
<1>10. CASE Fail(h) \/ Fault(h)
  BY <1>10, UndoServes DEF Fail, Fault
<1> QED
  BY <1>2, <1>3, <1>4, <1>5, <1>6, <1>7, <1>8, <1>9, <1>10

\* Every step of the program and of the machine keeps the invariant.
LEMMA NextServes == ServesInv /\ [Next]_vars => ServesInv'
<1> SUFFICES ASSUME ServesInv, [Next]_vars PROVE ServesInv'
  OBVIOUS
<1>1. CASE UNCHANGED handlers
  BY <1>1 DEF ServesInv, HandlersAreRecords, IsHandler, Serves
<1>2. CASE \E c \in Conns : Mount(c) \/ Unmount(c) \/ Plug(c) \/ Unplug(c)
  BY <1>1, <1>2 DEF Mount, Unmount, Plug, Unplug
<1>3. CASE Crash
  BY <1>3, IdleServes DEF Crash, ServesInv, HandlersAreRecords
<1>4. CASE UNCHANGED vars
  BY <1>1, <1>4 DEF vars
<1> QED
  BY <1>2, <1>3, <1>4, StartServes, HandlerServes DEF Next

\* A commit's own documents name connections, and strangers are none.
LEMMA StrangersAreNotWanted ==
    ASSUME NEW h \in Handlers
    PROVE  /\ Wanted(h) \intersect Strangers = {}
           /\ Commits(Req(h)) => Stale(h) \intersect Strangers = {}
  BY ConstantsAreParts DEF Wanted, Stale, Entitled, Configured

\* What a handler does to the unit of a stranger.
LEMMA HandlerSpares ==
    ASSUME MarkInv, ServesInv, NEW h \in Handlers, NEW p \in Strangers, units[p] # units'[p],
           \/ WritePassword(h) \/ Save(h) \/ Publish(h) \/ Reload(h) \/ Verify(h)
           \/ TakeOwnership(h) \/ Unserve(h) \/ WriteUnits(h) \/ Disarm(h) \/ Unlink(h)
           \/ Arm(h) \/ Finish(h) \/ Fail(h) \/ Fault(h)
    PROVE  handlers[h].pc \in {"disarm", "unlink"} /\ Req(h).op \in {"apply", "teardown"}
<1>1. CASE UNCHANGED units
  BY <1>1
<1>2. CASE WritePassword(h) \/ Save(h) \/ Publish(h) \/ Reload(h) \/ Verify(h)
  BY <1>1, <1>2 DEF WritePassword, Save, Publish, Reload, Verify
<1>3. CASE TakeOwnership(h) \/ Unserve(h) \/ Finish(h) \/ Fail(h)
  BY <1>1, <1>3 DEF TakeOwnership, Unserve, Finish, Fail
<1>4. CASE WriteUnits(h) \/ Arm(h) \/ Fault(h)
  BY <1>1, <1>4, StrangersAreNotWanted DEF WriteUnits, Arm, Fault
<1>5. CASE Disarm(h) \/ Unlink(h)
  <2>1. p \in Stale(h)
    BY <1>5 DEF Disarm, Unlink
  <2>2. ~Commits(Req(h))
    BY <2>1, StrangersAreNotWanted
  <2>3. handlers[h].pc \in {"disarm", "unlink"}
    BY <1>5 DEF Disarm, Unlink
  <2>4. Req(h).op # "share.make_writable"
    BY <2>3 DEF ServesInv, Serves, ServesOnly
  <2> QED
    BY <2>2, <2>3, <2>4 DEF Commits
<1> QED
  BY <1>2, <1>3, <1>4, <1>5

\* Mounter.apply: a commit never reaps what the config it started from and the
\* one it makes do not mention, however many handlers, faults and crashes there
\* are; the step that does is of an apply or a teardown that somebody asked for.
THEOREM StrangersAreKept == Spec => StrangersStay
<1> DEFINE Spares ==
      \A p \in Strangers : units[p] # units'[p] =>
          \E h \in Handlers : handlers[h].pc \in {"disarm", "unlink"}
                              /\ Req(h).op \in {"apply", "teardown"}
<1>1. MarkInv /\ ServesInv /\ [Next]_vars => [Spares]_vars
  <2> SUFFICES ASSUME MarkInv, ServesInv, Next PROVE Spares
    OBVIOUS
  <2>1. CASE UNCHANGED units
    BY <2>1
  <2>2. CASE \E h \in Handlers, r \in Requests : Start(h, r)
    BY <2>1, <2>2 DEF Start
  <2>3. CASE \E c \in Conns : Mount(c) \/ Unmount(c) \/ Plug(c) \/ Unplug(c)
    BY <2>1, <2>3 DEF Mount, Unmount, Plug, Unplug
  <2>4. CASE Crash
    BY <2>1, <2>4 DEF Crash
  <2> QED
    BY <2>2, <2>3, <2>4, HandlerSpares DEF Next
<1> QED
  BY <1>1, InitMarks, NextMarks, InitServes, NextServes, PTL DEF Spec, StrangersStay

-----------------------------------------------------------------------------
(***************************************************************************)
(* Documents and requests.                                                 *)
(***************************************************************************)
ConnRecords == [there : BOOLEAN, ref : BOOLEAN, swapped : BOOLEAN]
Docs        == [shares : SUBSET Shares, conns : [Conns -> ConnRecords]]
Steps == {"idle", "password", "save", "chown", "publish", "include", "verify", "unserve", "units",
          "disarm", "unlink", "arm", "done"}
UnitSteps == {"units", "disarm", "unlink", "arm"}

\* What a handler's record says of its request, whatever the others do.
Sensible(x) ==
    /\ x.pc \in Steps /\ x.prev \in Docs /\ x.next \in Docs /\ x.blocked \subseteq Conns
    /\ x.rolling \in BOOLEAN /\ x.alone \in BOOLEAN
    /\ x.pc # "idle" =>
          /\ x.req \in Requests
          /\ ~Commits(x.req) => x.next = x.prev /\ ~x.rolling /\ x.pc \notin {"password", "save"}
          /\ Commits(x.req) => x.pc \notin {"chown", "unserve"}
          /\ x.pc = "password" => ~x.rolling /\ x.req.op \in {"connection.add", "connection.set_credentials"}
          /\ x.req.op = "share.make_writable" => x.pc \notin UnitSteps \union {"unserve"}
          /\ x.req.op = "teardown" => x.pc \in {"unserve", "disarm", "unlink", "done"}
          /\ x.req.op = "apply" => x.pc \notin {"chown", "unserve"}
          /\ x.req.op = "connection.remove" => x.req.on \notin Configured(x.next)
          /\ x.req.op = "connection.add" => x.req.on \notin Configured(x.prev)

SensibleInv ==
    /\ config \in Docs
    /\ \A h \in Handlers : Sensible(handlers[h])

\* config/operations.py: an operation on a document makes a document, and one that
\* commits nothing makes the same.
LEMMA ChangeIsDoc ==
    ASSUME NEW doc \in Docs, NEW r \in Requests
    PROVE  /\ Change(r, doc) \in Docs
           /\ ~Commits(r) => Change(r, doc) = doc
           /\ r.op = "connection.remove" => r.on \notin Configured(Change(r, doc))
<1>0. /\ r.op \in ShareOps \union ConnOps \union MachineOps
      /\ r.op \in ShareOps => r.on \in Shares
      /\ r.op \in ConnOps => r.on \in Conns /\ r.pw \in BOOLEAN
  BY RequestsAreKnown DEF ShareOps, ConnOps, MachineOps
<1>1. ASSUME NEW conns \in [Conns -> ConnRecords] PROVE [doc EXCEPT !.conns = conns] \in Docs
  BY DEF Docs
<1>2. ASSUME NEW shares \in SUBSET Shares PROVE [doc EXCEPT !.shares = shares] \in Docs
  BY DEF Docs
<1>3. ASSUME NEW c \in Conns, NEW rec \in ConnRecords
      PROVE  /\ [doc EXCEPT !.conns[c] = rec] \in Docs
             /\ [doc EXCEPT !.conns[c] = rec].conns[c] = rec
  <2> DEFINE conns == [doc.conns EXCEPT ![c] = rec]
  <2>1. conns \in [Conns -> ConnRecords] /\ conns[c] = rec
    BY DEF Docs
  <2>2. [doc EXCEPT !.conns[c] = rec] = [doc EXCEPT !.conns = conns]
    BY DEF Docs
  <2> HIDE DEF conns
  <2>3. [doc EXCEPT !.conns = conns].conns = conns
    BY DEF Docs
  <2> QED
    BY <1>1, <2>1, <2>2, <2>3
<1>4. ASSUME NEW c \in Conns
      PROVE  [doc.conns[c] EXCEPT !.ref = TRUE] \in ConnRecords
             /\ [doc.conns[c] EXCEPT !.swapped = ~doc.conns[c].swapped] \in ConnRecords
  <2>1. doc.conns[c] \in ConnRecords
    BY DEF Docs
  <2> QED
    BY <2>1 DEF ConnRecords
<1>5. Unrecorded \in ConnRecords /\ ~Unrecorded.there /\ \A w \in BOOLEAN : Recorded(w) \in ConnRecords
  BY DEF Unrecorded, Recorded, ConnRecords
<1>6. CASE r.op \in {"share.add", "share.remove"}
  <2>1. doc.shares \union {r.on} \in SUBSET Shares /\ doc.shares \ {r.on} \in SUBSET Shares
    BY <1>0, <1>6 DEF Docs, ShareOps
  <2>2. Change(r, doc) = [doc EXCEPT !.shares = doc.shares \union {r.on}]
        \/ Change(r, doc) = [doc EXCEPT !.shares = doc.shares \ {r.on}]
    BY <1>6 DEF Change, AddShare, RemoveShare
  <2> QED
    BY <1>2, <1>6, <2>1, <2>2 DEF Commits
<1>7. CASE r.op \in ConnOps
  <2>1. /\ r.op = "connection.add" => Change(r, doc) = [doc EXCEPT !.conns[r.on] = Recorded(r.pw)]
        /\ r.op = "connection.remove" => Change(r, doc) = [doc EXCEPT !.conns[r.on] = Unrecorded]
        /\ r.op = "connection.set_credentials" =>
             Change(r, doc) = [doc EXCEPT !.conns[r.on] = [doc.conns[r.on] EXCEPT !.ref = TRUE]]
        /\ r.op = "connection.use_fallback" =>
             Change(r, doc)
               = [doc EXCEPT !.conns[r.on] = [doc.conns[r.on] EXCEPT !.swapped = ~doc.conns[r.on].swapped]]
    BY <1>0, <1>7 DEF Change, AddConnection, RemoveConnection, SetCredentials, UseFallback, Docs
  <2>2. PICK rec \in ConnRecords : Change(r, doc) = [doc EXCEPT !.conns[r.on] = rec]
                                   /\ (r.op = "connection.remove" => rec = Unrecorded)
    BY <1>0, <1>4, <1>5, <1>7, <2>1 DEF ConnOps
  <2>3. Change(r, doc) \in Docs /\ Change(r, doc).conns[r.on] = rec
    BY <1>0, <1>3, <1>7, <2>2
  <2> QED
    BY <1>5, <1>7, <2>2, <2>3 DEF Commits, Configured, ConnOps
<1>8. CASE r.op \in MachineOps \union {"share.make_writable"}
  BY <1>8 DEF Change, MachineOps
<1> QED
  BY <1>0, <1>6, <1>7, <1>8 DEF ShareOps

-----------------------------------------------------------------------------
(***************************************************************************)
(* How a handler moves.                                                    *)
(***************************************************************************)
\* One field of a handler's record is set.
AtPc(x, v)        == [x EXCEPT !.pc = v]
AsRolling(x)      == [x EXCEPT !.rolling = TRUE]
WithBlocked(x, v) == [x EXCEPT !.blocked = v]
NotAlone(x)       == [x EXCEPT !.alone = FALSE]

\* A field that is set is set, and the others stay.
LEMMA OneField ==
    ASSUME NEW x, IsHandler(x), NEW v
    PROVE  /\ LET y == AtPc(x, v) IN
              /\ IsHandler(y) /\ y.pc = v /\ y.req = x.req /\ y.prev = x.prev /\ y.next = x.next
              /\ y.rolling = x.rolling /\ y.alone = x.alone /\ y.blocked = x.blocked
           /\ LET y == WithBlocked(x, v) IN
              /\ IsHandler(y) /\ y.pc = x.pc /\ y.req = x.req /\ y.prev = x.prev /\ y.next = x.next
              /\ y.rolling = x.rolling /\ y.alone = x.alone /\ y.blocked = v
  BY DEF IsHandler, AtPc, WithBlocked

\* A handler begins to undo.
LEMMA SetRolling ==
    ASSUME NEW x, IsHandler(x)
    PROVE  LET y == AsRolling(x) IN
           /\ y.pc = x.pc /\ y.req = x.req /\ y.prev = x.prev /\ y.next = x.next
           /\ y.rolling = TRUE /\ y.alone = x.alone /\ y.blocked = x.blocked
<1>1. AsRolling(x).rolling = TRUE
  BY DEF IsHandler, AsRolling
<1> QED
  BY <1>1 DEF IsHandler, AsRolling

\* Another handler starts beside it.
LEMMA ClearAlone ==
    ASSUME NEW x, IsHandler(x)
    PROVE  LET y == NotAlone(x) IN
           /\ y.pc = x.pc /\ y.req = x.req /\ y.prev = x.prev /\ y.next = x.next
           /\ y.rolling = x.rolling /\ y.alone = FALSE /\ y.blocked = x.blocked
<1>1. NotAlone(x).alone = FALSE
  BY DEF IsHandler, NotAlone
<1> QED
  BY <1>1 DEF IsHandler, NotAlone

\* A handler goes on with the same request; nobody else moves.
Going(h, pc) ==
    /\ handlers'[h].pc = pc
    /\ handlers'[h].req = handlers[h].req /\ handlers'[h].prev = handlers[h].prev
    /\ handlers'[h].next = handlers[h].next /\ handlers'[h].alone = handlers[h].alone
    /\ \A g \in Handlers \ {h} : handlers'[g] = handlers[g]

\* A step of Goes is one.
LEMMA GoesIs ==
    ASSUME HandlersAreRecords, NEW h \in Handlers, NEW pc, Goes(h, pc)
    PROVE  /\ Going(h, pc) /\ handlers'[h].rolling = handlers[h].rolling
           /\ handlers'[h].blocked = handlers[h].blocked
<1>1. handlers'[h] = AtPc(handlers[h], pc) /\ \A g \in Handlers \ {h} : handlers'[g] = handlers[g]
  BY DEF HandlersAreRecords, AtPc
<1>2. IsHandler(handlers[h])
  BY DEF HandlersAreRecords
<1> QED
  BY <1>1, <1>2, OneField DEF Going

\* The connections that were blocked are kept.
LEMMA WriteUnitsIs ==
    ASSUME HandlersAreRecords, NEW h \in Handlers, WriteUnits(h)
    PROVE  /\ Going(h, "disarm") /\ handlers'[h].rolling = handlers[h].rolling
           /\ handlers'[h].blocked = Blocked(h)
<1>1. IsHandler(handlers[h])
  BY DEF HandlersAreRecords
<1>2. PICK y : y = AtPc(handlers[h], "disarm")
  OBVIOUS
<1>3. handlers'[h] = WithBlocked(y, Blocked(h)) /\ \A g \in Handlers \ {h} : handlers'[g] = handlers[g]
  BY <1>2 DEF HandlersAreRecords, WriteUnits, AtPc, WithBlocked
<1>4. /\ IsHandler(y) /\ y.pc = "disarm" /\ y.req = handlers[h].req /\ y.prev = handlers[h].prev
      /\ y.next = handlers[h].next /\ y.rolling = handlers[h].rolling /\ y.alone = handlers[h].alone
  BY <1>1, <1>2, OneField
<1> QED
  BY <1>3, <1>4, OneField DEF Going

\* A commit that failed is undone, once.
RollsBack(h) ==
    /\ Commits(Req(h)) /\ ~handlers[h].rolling /\ handlers[h].pc \notin {"password", "save"}
    /\ Going(h, "save") /\ handlers'[h].rolling = TRUE /\ handlers'[h].blocked = handlers[h].blocked
    /\ UNCHANGED <<creds, history>>
\* A request ends.
Ends(h, reply) ==
    /\ handlers'[h] = Idle(reply) /\ handlers'[h].pc = "idle"
    /\ \A g \in Handlers \ {h} : handlers'[g] = handlers[g]

\* Undo is one or the other.
LEMMA UndoIs ==
    ASSUME HandlersAreRecords, NEW h \in Handlers, Undo(h)
    PROVE  RollsBack(h) \/ (Ends(h, "error")
                            /\ ~(Commits(Req(h)) /\ ~handlers[h].rolling /\ handlers[h].pc \notin {"password", "save"}))
<1>1. CASE Commits(Req(h)) /\ ~handlers[h].rolling /\ handlers[h].pc \notin {"password", "save"}
  <2>1. IsHandler(handlers[h])
    BY DEF HandlersAreRecords
  <2>2. PICK y : y = AtPc(handlers[h], "save")
    OBVIOUS
  <2>3. handlers'[h] = AsRolling(y) /\ \A g \in Handlers \ {h} : handlers'[g] = handlers[g]
    BY <1>1, <2>2 DEF HandlersAreRecords, Undo, AtPc, AsRolling
  <2>4. /\ IsHandler(y) /\ y.pc = "save" /\ y.req = handlers[h].req /\ y.prev = handlers[h].prev
        /\ y.next = handlers[h].next /\ y.blocked = handlers[h].blocked /\ y.alone = handlers[h].alone
    BY <2>1, <2>2, OneField
  <2>5. Going(h, "save") /\ handlers'[h].rolling = TRUE /\ handlers'[h].blocked = handlers[h].blocked
    <3>1. PICK x : x = AsRolling(y)
      OBVIOUS
    <3>2. /\ x.pc = "save" /\ x.req = handlers[h].req /\ x.prev = handlers[h].prev /\ x.rolling = TRUE
          /\ x.next = handlers[h].next /\ x.blocked = handlers[h].blocked /\ x.alone = handlers[h].alone
      BY <2>4, <3>1, SetRolling, Zenon
    <3> QED
      BY <2>3, <3>1, <3>2 DEF Going
  <2>6. UNCHANGED <<creds, history>>
    BY <1>1 DEF Undo
  <2> QED
    BY <1>1, <2>5, <2>6 DEF RollsBack
<1>2. CASE ~(Commits(Req(h)) /\ ~handlers[h].rolling /\ handlers[h].pc \notin {"password", "save"})
  <2>1. handlers' = [handlers EXCEPT ![h] = Idle("error")]
    BY <1>2 DEF Undo
  <2>2. handlers'[h] = Idle("error") /\ \A g \in Handlers \ {h} : handlers'[g] = handlers[g]
    BY <2>1 DEF HandlersAreRecords
  <2>3. Idle("error").pc = "idle"
    BY DEF Idle
  <2> QED
    BY <1>2, <2>2, <2>3 DEF Ends
<1> QED
  BY <1>1, <1>2

\* A request that is served has its answer.
LEMMA FinishIs ==
    ASSUME HandlersAreRecords, NEW h \in Handlers, Finish(h)
    PROVE  Ends(h, IF handlers[h].rolling THEN "error" ELSE "ok")
  BY DEF HandlersAreRecords, Finish, Ends, Idle

\* A request is refused, or a handler takes it with the config as it is.
Takes(h, r) ==
    /\ ~Refused(r, config) /\ handlers[h].pc = "idle"
    /\ handlers'[h].pc = FirstStep(r) /\ handlers'[h].req = r /\ handlers'[h].prev = config
    /\ handlers'[h].next = Change(r, config) /\ handlers'[h].alone = (Busy = {})
    /\ handlers'[h].rolling = FALSE /\ handlers'[h].blocked = {}
    /\ \A g \in Handlers \ {h} :
          /\ handlers'[g].pc = handlers[g].pc /\ handlers'[g].req = handlers[g].req
          /\ handlers'[g].prev = handlers[g].prev /\ handlers'[g].next = handlers[g].next
          /\ handlers'[g].rolling = handlers[g].rolling /\ handlers'[g].blocked = handlers[g].blocked
          /\ handlers'[g].alone = FALSE
    /\ current' = (current /\ Busy = {}) /\ swept' = (swept /\ Busy = {})

\* Start is one or the other.
LEMMA StartIs ==
    ASSUME HandlersAreRecords, NEW h \in Handlers, NEW r, Start(h, r)
    PROVE  (Ends(h, "error") /\ UNCHANGED history) \/ Takes(h, r)
<1>1. CASE Refused(r, config)
  BY <1>1 DEF Start, HandlersAreRecords, Ends, Idle
<1>2. CASE ~Refused(r, config)
  <2> DEFINE x == [Idle("none") EXCEPT !.pc = FirstStep(r), !.req = r, !.prev = config,
                                       !.next = Change(r, config), !.alone = (Busy = {})]
  <2>1. /\ handlers' = [g \in Handlers |-> IF g = h THEN x ELSE [handlers[g] EXCEPT !.alone = FALSE]]
        /\ current' = (current /\ Busy = {}) /\ swept' = (swept /\ Busy = {}) /\ handlers[h].pc = "idle"
    BY <1>2 DEF Start
  <2>2. /\ x.pc = FirstStep(r) /\ x.req = r /\ x.prev = config /\ x.next = Change(r, config)
        /\ x.alone = (Busy = {}) /\ x.rolling = FALSE /\ x.blocked = {}
    BY DEF Idle
  <2> HIDE DEF x
  <2>3. ASSUME NEW g \in Handlers \ {h}
        PROVE  /\ handlers'[g].pc = handlers[g].pc /\ handlers'[g].req = handlers[g].req
               /\ handlers'[g].prev = handlers[g].prev /\ handlers'[g].next = handlers[g].next
               /\ handlers'[g].rolling = handlers[g].rolling /\ handlers'[g].blocked = handlers[g].blocked
               /\ handlers'[g].alone = FALSE
    <3>1. handlers'[g] = NotAlone(handlers[g]) /\ IsHandler(handlers[g])
      BY <2>1 DEF HandlersAreRecords, NotAlone
    <3> QED
      BY <3>1, ClearAlone
  <2> QED
    BY <1>2, <2>1, <2>2, <2>3 DEF Takes
<1> QED
  BY <1>1, <1>2

-----------------------------------------------------------------------------
(***************************************************************************)
(* Every step of a handler, by how it moves.                               *)
(***************************************************************************)
HandlerActs(h) ==
    \/ WritePassword(h) \/ Save(h) \/ Publish(h) \/ Reload(h) \/ Verify(h)
    \/ TakeOwnership(h) \/ Unserve(h) \/ WriteUnits(h) \/ Disarm(h) \/ Unlink(h)
    \/ Arm(h) \/ Finish(h) \/ Fail(h) \/ Fault(h)

\* A step forward, to where the code goes next.
Forward(h) ==
    \/ handlers[h].pc = "password" /\ Going(h, "save")
    \/ handlers[h].pc = "save" /\ Going(h, "publish")
    \/ handlers[h].pc = "publish" /\ Going(h, "include")
    \/ handlers[h].pc = "include" /\ Going(h, "verify")
    \/ handlers[h].pc = "verify" /\ Going(h, AfterServing(h))
    \/ handlers[h].pc = "chown" /\ Going(h, "publish")
    \/ handlers[h].pc = "unserve" /\ Going(h, "disarm")
    \/ handlers[h].pc = "units" /\ Going(h, "disarm")
    \/ handlers[h].pc = "disarm" /\ Going(h, "unlink")
    \/ handlers[h].pc = "unlink" /\ Going(h, IF Req(h).op = "teardown" THEN "done" ELSE "arm")
    \/ handlers[h].pc = "arm" /\ Going(h, "done")

\* A handler goes forward, begins to undo, or ends.
LEMMA HandlerMoves ==
    ASSUME HandlersAreRecords, NEW h \in Handlers, HandlerActs(h)
    PROVE  \/ /\ Forward(h) /\ handlers'[h].rolling = handlers[h].rolling
              /\ handlers'[h].blocked = handlers[h].blocked
                 \/ (handlers[h].pc = "units" /\ handlers'[h].blocked = Blocked(h))
              /\ UNCHANGED <<current, swept>>
           \/ RollsBack(h) /\ (Fail(h) \/ Fault(h))
           \/ Ends(h, "error") /\ (Fail(h) \/ Fault(h))
           \/ Ends(h, IF handlers[h].rolling THEN "error" ELSE "ok") /\ Finish(h)
<1>1. CASE Finish(h)
  BY <1>1, FinishIs
<1>2. CASE Fail(h) \/ Fault(h)
  BY <1>2, UndoIs DEF Fail, Fault
<1>3. CASE WriteUnits(h)
  BY <1>3, WriteUnitsIs DEF WriteUnits, Forward
<1>4. CASE WritePassword(h) \/ Save(h) \/ Publish(h) \/ Reload(h)
  BY <1>4, GoesIs DEF WritePassword, Save, Publish, Reload, Forward
<1>5. CASE Verify(h) \/ TakeOwnership(h) \/ Unserve(h)
  BY <1>5, GoesIs DEF Verify, TakeOwnership, Unserve, Forward
<1>6. CASE Disarm(h) \/ Arm(h)
  BY <1>6, GoesIs DEF Disarm, Arm, Forward
<1>7. CASE Unlink(h)
  <2>1. PICK pc : pc = (IF Req(h).op = "teardown" THEN "done" ELSE "arm")
    OBVIOUS
  <2>2. Goes(h, pc) /\ handlers[h].pc = "unlink" /\ UNCHANGED <<current, swept>>
    BY <1>7, <2>1 DEF Unlink, AfterSweep
  <2>3. Going(h, pc) /\ handlers'[h].rolling = handlers[h].rolling /\ handlers'[h].blocked = handlers[h].blocked
    BY <2>2, GoesIs
  <2> QED
    BY <2>1, <2>2, <2>3 DEF Forward
<1> QED
  BY <1>1, <1>2, <1>3, <1>4, <1>5, <1>6, <1>7 DEF HandlerActs

\* A thread that serves nobody has nothing to make sense of.
LEMMA IdleIsSensible == \A reply : Sensible(Idle(reply))
<1>1. EmptyConfig \in Docs
  BY DEF EmptyConfig, Docs, ConnRecords, Unrecorded
<1> QED
  BY <1>1 DEF Idle, Sensible, Steps

\* One thread moves and makes sense.
LEMMA OneSensible ==
    ASSUME SensibleInv, NEW h \in Handlers, config' \in Docs, Sensible(handlers'[h]),
           \A g \in Handlers \ {h} : handlers'[g] = handlers[g]
    PROVE  SensibleInv'
<1>1. \A g \in Handlers : Sensible(handlers'[g])
  BY DEF SensibleInv
<1> QED
  BY <1>1 DEF SensibleInv, Sensible, Commits, Configured

\* What a request is asked to do is one of the operations.
LEMMA OpsAre ==
    ASSUME NEW r \in Requests
    PROVE  r.op \in ShareOps \union ConnOps \union MachineOps
  BY RequestsAreKnown DEF ShareOps, ConnOps, MachineOps

\* A step forward makes sense.
LEMMA ForwardIsSensible ==
    ASSUME SensibleInv, NEW h \in Handlers, Forward(h), handlers'[h].rolling = handlers[h].rolling,
           handlers'[h].blocked = handlers[h].blocked
           \/ (handlers[h].pc = "units" /\ handlers'[h].blocked = Blocked(h))
    PROVE  Sensible(handlers'[h])
<1> DEFINE x == handlers[h]
<1>1. Sensible(x) /\ x.pc # "idle" /\ Blocked(h) \subseteq Conns
  BY DEF SensibleInv, Forward, Blocked, Wanted, Configured
<1>2. PICK pc : /\ Going(h, pc) /\ pc \in Steps \ {"idle", "password", "chown", "unserve"}
                /\ pc = "save" => x.pc = "password"
                /\ x.req.op = "teardown" =>
                     (x.pc = "unserve" => pc = "disarm") /\ (x.pc = "disarm" => pc = "unlink")
                     /\ (x.pc = "unlink" => pc = "done") /\ x.pc # "done"
                /\ pc \in UnitSteps => x.pc \in UnitSteps \union {"unserve"}
                                       \/ (x.pc = "verify" /\ x.req.op # "share.make_writable")
  BY DEF Forward, AfterServing, Steps, UnitSteps
<1>3. /\ handlers'[h].pc = pc /\ handlers'[h].req = x.req /\ handlers'[h].prev = x.prev
      /\ handlers'[h].next = x.next /\ handlers'[h].alone = x.alone /\ handlers'[h].rolling = x.rolling
      /\ handlers'[h].blocked \subseteq Conns
  BY <1>1, <1>2 DEF Going, Sensible
<1> HIDE DEF x
<1>4. x.req \in Requests
  BY <1>1 DEF Sensible
<1>5. /\ ~Commits(x.req) => x.next = x.prev /\ ~x.rolling /\ pc \notin {"password", "save"}
      /\ Commits(x.req) => pc \notin {"chown", "unserve"}
      /\ pc # "password"
      /\ x.req.op = "share.make_writable" => pc \notin UnitSteps \union {"unserve"}
      /\ x.req.op = "teardown" => pc \in {"unserve", "disarm", "unlink", "done"}
      /\ x.req.op = "apply" => pc \notin {"chown", "unserve"}
  BY <1>1, <1>2 DEF Sensible
<1>6. /\ x.req.op = "connection.remove" => x.req.on \notin Configured(x.next)
      /\ x.req.op = "connection.add" => x.req.on \notin Configured(x.prev)
  BY <1>1 DEF Sensible
<1> QED
  BY <1>1, <1>2, <1>3, <1>4, <1>5, <1>6 DEF Sensible

\* Every step of a handler makes sense.
LEMMA HandlerIsSensible ==
    ASSUME HandlersAreRecords, SensibleInv, NEW h \in Handlers, HandlerActs(h)
    PROVE  SensibleInv'
<1>1. config' \in Docs
  <2>1. CASE Save(h)
    BY <2>1 DEF Save, Doc, SensibleInv, Sensible
  <2>2. CASE UNCHANGED config
    BY <2>2 DEF SensibleInv
  <2> QED
    BY <2>1, <2>2 DEF HandlerActs, WritePassword, Publish, Reload, Verify, TakeOwnership, Unserve, WriteUnits,
       Disarm, Unlink, Arm, Finish, Fail, Fault
<1>2. CASE Forward(h) /\ handlers'[h].rolling = handlers[h].rolling
           /\ (handlers'[h].blocked = handlers[h].blocked
               \/ (handlers[h].pc = "units" /\ handlers'[h].blocked = Blocked(h)))
  <2>1. \A g \in Handlers \ {h} : handlers'[g] = handlers[g]
    BY <1>2 DEF Forward, Going
  <2> QED
    BY <1>1, <1>2, <2>1, ForwardIsSensible, OneSensible
<1>3. CASE RollsBack(h) /\ (Fail(h) \/ Fault(h))
  <2>1. Sensible(handlers[h]) /\ handlers[h].pc # "idle"
    BY <1>3 DEF SensibleInv, Fail, Fault, CannotGoOn
  <2>2. Commits(Req(h)) => Req(h).op \notin {"apply", "teardown", "share.make_writable"}
    BY DEF Commits
  <2>3. Sensible(handlers'[h]) /\ \A g \in Handlers \ {h} : handlers'[g] = handlers[g]
    BY <1>3, <2>1, <2>2 DEF RollsBack, Going, Sensible, Steps, UnitSteps
  <2> QED
    BY <1>1, <2>3, OneSensible
<1>4. ASSUME NEW reply, Ends(h, reply) PROVE SensibleInv'
  BY <1>1, <1>4, IdleIsSensible, OneSensible DEF Ends
<1> QED
  BY <1>2, <1>3, <1>4, HandlerMoves

\* A request is taken as it is asked.
LEMMA StartIsSensible ==
    ASSUME HandlersAreRecords, SensibleInv, NEW h \in Handlers, NEW r \in Requests, Start(h, r)
    PROVE  SensibleInv'
<1>1. UNCHANGED config
  BY DEF Start
<1>2. CASE Ends(h, "error")
  BY <1>1, <1>2, IdleIsSensible, OneSensible DEF Ends, SensibleInv
<1>3. CASE Takes(h, r)
  <2>1. /\ FirstStep(r) \in {"publish", "unserve", "chown", "password", "save"}
        /\ ~Commits(r) => FirstStep(r) \notin {"password", "save"}
        /\ Commits(r) => FirstStep(r) \notin {"chown", "unserve"}
        /\ r.op = "share.make_writable" => FirstStep(r) = "chown"
        /\ r.op = "teardown" => FirstStep(r) = "unserve"
        /\ r.op = "apply" => FirstStep(r) = "publish"
        /\ FirstStep(r) = "password" => r.op \in {"connection.add", "connection.set_credentials"}
    BY DEF FirstStep, Commits
  <2>2. /\ r.op = "connection.add" => r.on \notin Configured(config)
        /\ config \in Docs
    BY <1>3 DEF Takes, Refused, SensibleInv
  <2>3. (Busy = {}) \in BOOLEAN
    OBVIOUS
  <2>4. PICK pc : pc = FirstStep(r)
    OBVIOUS
  <2>5. PICK next : next = Change(r, config)
    OBVIOUS
  <2>6. /\ next \in Docs /\ (~Commits(r) => next = config)
        /\ r.op = "connection.remove" => r.on \notin Configured(next)
    BY <2>2, <2>5, ChangeIsDoc
  <2>7. /\ handlers'[h].pc = pc /\ handlers'[h].req = r /\ handlers'[h].prev = config
        /\ handlers'[h].next = next /\ handlers'[h].alone \in BOOLEAN
        /\ handlers'[h].rolling = FALSE /\ handlers'[h].blocked = {}
    BY <1>3, <2>3, <2>4, <2>5 DEF Takes
  <2>8. Sensible(handlers'[h])
    BY <2>1, <2>2, <2>4, <2>6, <2>7 DEF Sensible, Steps, UnitSteps
  <2>9. \A g \in Handlers \ {h} : Sensible(handlers'[g])
    <3> SUFFICES ASSUME NEW g \in Handlers \ {h} PROVE Sensible(handlers'[g])
      OBVIOUS
    <3>1. Sensible(handlers[g])
      BY DEF SensibleInv
    <3> QED
      BY <1>3, <3>1 DEF Takes, Sensible
  <2>10. \A g \in Handlers : Sensible(handlers'[g])
    BY <2>8, <2>9
  <2> QED
    BY <1>1, <2>10 DEF SensibleInv, Sensible, Commits, Configured
<1> QED
  BY <1>2, <1>3, StartIs

-----------------------------------------------------------------------------
(***************************************************************************)
(* Who runs beside whom.                                                   *)
(***************************************************************************)
Running(h) == handlers[h].pc # "idle"
Alone(h)   == Running(h) /\ handlers[h].alone

\* A handler that has the daemon to itself is the only one that runs, and no other
\* runs while what the last change left still stands.
ControlInv ==
    /\ \A h \in Handlers : Alone(h) => \A g \in Handlers \ {h} : ~Running(g)
    /\ \A h \in Handlers : Running(h) /\ (current \/ swept) => handlers[h].alone
    /\ current \in BOOLEAN /\ swept \in BOOLEAN

\* A handler goes on as alone as it was.
LEMMA GoingControls ==
    ASSUME ControlInv, NEW h \in Handlers, Running(h), NEW pc, pc # "idle", Going(h, pc),
           UNCHANGED <<current, swept>>
    PROVE  ControlInv'
  BY DEF ControlInv, Alone, Running, Going

\* One that was alone leaves nobody, and may say that the machine is as it left it.
LEMMA EndingControls ==
    ASSUME ControlInv, NEW h \in Handlers, NEW reply, Ends(h, reply),
           current' \in BOOLEAN, swept' \in BOOLEAN,
           current' \/ swept' => current \/ swept \/ Alone(h)
    PROVE  ControlInv'
<1>1. \A g \in Handlers : Running(g)' => g # h /\ Running(g) /\ handlers'[g] = handlers[g]
  BY DEF Running, Ends
<1> QED
  BY <1>1 DEF ControlInv, Alone, Running

\* A request is taken by the first or beside others.
LEMMA TakingControls ==
    ASSUME ControlInv, NEW h \in Handlers, NEW r, Takes(h, r)
    PROVE  ControlInv'
<1>1. CASE Busy = {}
  <2>1. \A g \in Handlers : ~Running(g)
    BY <1>1 DEF Busy, Running
  <2>2. \A g \in Handlers : Running(g)' => g = h
    BY <2>1 DEF Takes, Running
  <2>3. handlers'[h].alone
    BY <1>1 DEF Takes
  <2>4. current' \in BOOLEAN /\ swept' \in BOOLEAN
    BY <1>1 DEF Takes, ControlInv
  <2> QED
    BY <2>2, <2>3, <2>4 DEF ControlInv, Alone
<1>2. CASE Busy # {}
  <2>1. ~current' /\ ~swept' /\ current' \in BOOLEAN /\ swept' \in BOOLEAN
    BY <1>2 DEF Takes, ControlInv
  <2>2. \A g \in Handlers : ~handlers'[g].alone
    BY <1>2 DEF Takes
  <2> QED
    BY <2>1, <2>2 DEF ControlInv, Alone
<1> QED
  BY <1>1, <1>2

\* Every step of a handler keeps who is alone.
LEMMA HandlerControls ==
    ASSUME HandlersAreRecords, SensibleInv, ControlInv, NEW h \in Handlers, HandlerActs(h)
    PROVE  ControlInv'
<1>1. CASE Forward(h) /\ UNCHANGED <<current, swept>>
  <2>1. Running(h)
    BY <1>1 DEF Forward, Running
  <2>2. PICK pc : Going(h, pc) /\ pc # "idle"
    BY <1>1 DEF Forward, AfterServing
  <2> QED
    BY <1>1, <2>1, <2>2, GoingControls
<1>2. CASE RollsBack(h) /\ (Fail(h) \/ Fault(h))
  <2>1. Running(h)
    BY <1>2 DEF Fail, Fault, CannotGoOn, Running
  <2> QED
    BY <1>2, <2>1, GoingControls DEF RollsBack
<1>3. CASE Ends(h, "error") /\ (Fail(h) \/ Fault(h))
  <2>1. Undo(h)
    BY <1>3 DEF Fail, Fault
  <2>2. current' \in BOOLEAN /\ swept' \in BOOLEAN /\ (current' => current) /\ (swept' => swept)
    BY <2>1 DEF Undo, ControlInv
  <2> QED
    BY <1>3, <2>2, EndingControls
<1>4. CASE Finish(h)
  <2>1. Running(h) /\ handlers[h].alone \in BOOLEAN
    BY <1>4 DEF Finish, Running, SensibleInv, Sensible
  <2>2. /\ current' = IF Whole(h) THEN handlers[h].alone ELSE current /\ Req(h).op # "teardown"
        /\ swept' = IF Req(h).op \in {"apply", "teardown"} THEN handlers[h].alone ELSE swept
    BY <1>4 DEF Finish
  <2>3. current' \in BOOLEAN /\ (current' => current \/ handlers[h].alone)
    BY <2>1, <2>2 DEF ControlInv
  <2>4. swept' \in BOOLEAN /\ (swept' => swept \/ handlers[h].alone)
    BY <2>1, <2>2 DEF ControlInv
  <2> QED
    BY <1>4, <2>1, <2>3, <2>4, FinishIs, EndingControls DEF Alone
<1> QED
  BY <1>1, <1>2, <1>3, <1>4, HandlerMoves

\* While a handler acts nobody else is alone; and it is only if it was.
LEMMA OnlyOneActs ==
    ASSUME HandlersAreRecords, ControlInv, NEW h \in Handlers, HandlerActs(h)
    PROVE  /\ \A g \in Handlers \ {h} : ~Alone(g)'
           /\ Alone(h)' => Alone(h)
           /\ Running(h)
<1>1. Running(h)
  <2>1. handlers[h].pc \in Steps \ {"idle"} \/ CannotGoOn(h)
    BY DEF HandlerActs, WritePassword, Save, Publish, Reload, Verify, TakeOwnership, Unserve, WriteUnits,
       Disarm, Unlink, Arm, Finish, Fail, Fault, Steps
  <2> QED
    BY <2>1 DEF CannotGoOn, Running
<1>2. \A g \in Handlers \ {h} : handlers'[g] = handlers[g]
  BY HandlerMoves DEF Forward, RollsBack, Going, Ends
<1>3. Running(h)' => handlers'[h].alone = handlers[h].alone
  BY HandlerMoves DEF Forward, RollsBack, Going, Ends, Running
<1> QED
  BY <1>1, <1>2, <1>3 DEF ControlInv, Alone, Running

\* A step of one handler keeps what is said of the ones that are alone, if it does
\* for that one.
CommitBase == HandlersAreRecords /\ SensibleInv /\ ControlInv

\* The request of a handler and its document stay, unless it begins to undo.
LEMMA ForwardKeeps ==
    ASSUME NEW h \in Handlers, Forward(h), handlers'[h].rolling = handlers[h].rolling
    PROVE  /\ Req(h)' = Req(h) /\ Doc(h)' = Doc(h) /\ Wanted(h)' = Wanted(h)
           /\ handlers'[h].prev = handlers[h].prev /\ handlers'[h].next = handlers[h].next
  BY DEF Forward, Going, Doc, Wanted, Configured

-----------------------------------------------------------------------------
(***************************************************************************)
(* The file and the answer.                                                *)
(***************************************************************************)
Unsaved(h) == handlers[h].pc \in {"password", "save"}

\* The file is the document that the handler saved last.
Saved(h) ==
    /\ Unsaved(h) /\ ~handlers[h].rolling => config = handlers[h].prev
    /\ ~Unsaved(h) => config = Doc(h)
SavedInv == \A h \in Handlers : Alone(h) => Saved(h)

\* A handler that is alone knows what is in the file.
LEMMA HandlerSaves ==
    ASSUME CommitBase, SavedInv, NEW h \in Handlers, HandlerActs(h)
    PROVE  SavedInv'
<1>1. SUFFICES ASSUME Alone(h), Alone(h)' PROVE Saved(h)'
  BY OnlyOneActs DEF SavedInv, CommitBase
<1>2. Saved(h) /\ Running(h)'
  BY <1>1 DEF SavedInv, Alone
<1>3. CASE Forward(h) /\ handlers'[h].rolling = handlers[h].rolling
  <2>1. Doc(h)' = Doc(h) /\ handlers'[h].prev = handlers[h].prev
    BY <1>3, ForwardKeeps
  <2>2. CASE Save(h)
    <3>1. config' = Doc(h) /\ ~Unsaved(h)'
      BY <1>3, <2>2 DEF Save, Unsaved, Forward, Going
    <3> QED
      BY <2>1, <3>1 DEF Saved
  <2>3. CASE WritePassword(h)
    <3>1. UNCHANGED config /\ Unsaved(h) /\ Unsaved(h)'
      BY <1>3, <2>3 DEF WritePassword, Unsaved, Forward, Going
    <3> QED
      BY <1>2, <1>3, <2>1, <3>1 DEF Saved
  <2>4. CASE ~Save(h) /\ ~WritePassword(h)
    <3>1. UNCHANGED config /\ handlers[h].pc \notin {"password", "save"}
      <4>1. CASE Fail(h) \/ Fault(h) \/ Finish(h)
        <5>1. Undo(h) => (Ends(h, "error") \/ RollsBack(h))
          BY UndoIs DEF CommitBase
        <5>2. handlers'[h].pc = "idle" \/ RollsBack(h)
          BY <4>1, <5>1, FinishIs DEF Fail, Fault, Ends, CommitBase
        <5>3. RollsBack(h)
          BY <1>2, <5>2 DEF Running
        <5>4. handlers[h].rolling = FALSE /\ handlers'[h].rolling = TRUE
          BY <5>3 DEF RollsBack, CommitBase, SensibleInv, Sensible
        <5> QED
          BY <1>3, <5>4
      <4> QED
        BY <2>4, <4>1 DEF HandlerActs, Publish, Reload, Verify, TakeOwnership, Unserve, WriteUnits, Disarm,
           Unlink, Arm
    <3>2. ~Unsaved(h)'
      BY <1>3, <3>1 DEF Unsaved, Forward, Going, AfterServing
    <3> QED
      BY <1>2, <2>1, <3>1, <3>2 DEF Saved, Unsaved
  <2> QED
    BY <2>2, <2>3, <2>4
<1>4. CASE RollsBack(h)
  BY <1>4 DEF RollsBack, Going, Saved, Unsaved
<1>5. CASE Ends(h, "error") \/ Ends(h, IF handlers[h].rolling THEN "error" ELSE "ok")
  BY <1>2, <1>5 DEF Ends, Running
<1> QED
  BY <1>3, <1>4, <1>5, HandlerMoves DEF CommitBase

\* A handler takes a request with the file as it is.
LEMMA TakingSaves ==
    ASSUME CommitBase, SavedInv, NEW h \in Handlers, NEW r \in Requests, Start(h, r)
    PROVE  SavedInv'
<1>1. UNCHANGED config
  BY DEF Start
<1>2. CASE Ends(h, "error")
  <2>1. \A g \in Handlers : Alone(g)' => Alone(g) /\ handlers'[g] = handlers[g]
    BY <1>2 DEF Alone, Running, Ends
  <2> QED
    BY <1>1, <2>1 DEF SavedInv, Saved, Unsaved, Doc
<1>3. CASE Takes(h, r)
  <2>1. \A g \in Handlers : Alone(g)' => g = h
    BY <1>3 DEF Takes, Alone
  <2>2. Saved(h)'
    <3>1. ~Unsaved(h)' => Change(r, config) = config
      <4>1. Commits(r) => FirstStep(r) \in {"password", "save"}
        BY DEF Commits, FirstStep
      <4> QED
        BY <1>3, <4>1, ChangeIsDoc DEF Takes, Unsaved, CommitBase, SensibleInv
    <3> QED
      BY <1>1, <1>3, <3>1 DEF Takes, Saved, Unsaved, Doc
  <2> QED
    BY <2>1, <2>2 DEF SavedInv
<1> QED
  BY <1>2, <1>3, StartIs DEF CommitBase

\* After a death nobody runs.
LEMMA CrashIsIdle ==
    ASSUME Crash
    PROVE  /\ \A h \in Handlers : handlers'[h] = Idle("none") /\ ~Running(h)'
           /\ HandlersAreRecords'
  BY IdleServes DEF Crash, Running, Idle, HandlersAreRecords

\* The daemon starts with nobody at work.
LEMMA InitCommits == Init => CommitBase /\ SavedInv
<1> SUFFICES ASSUME Init PROVE CommitBase /\ SavedInv
  OBVIOUS
<1>1. \A h \in Handlers : handlers[h] = Idle("none") /\ ~Running(h)
  BY DEF Init, Running, Idle
<1>2. EmptyConfig \in Docs
  BY DEF EmptyConfig, Docs, ConnRecords, Unrecorded
<1>3. SensibleInv
  BY <1>1, <1>2, IdleIsSensible DEF Init, SensibleInv
<1>4. ControlInv /\ SavedInv
  BY <1>1 DEF Init, ControlInv, SavedInv, Alone
<1> QED
  BY <1>3, <1>4, InitServes DEF CommitBase, ServesInv

\* What nobody does to a handler leaves who runs, what it has saved and what it is
\* asked.
LEMMA OthersCommit ==
    ASSUME CommitBase, SavedInv, UNCHANGED <<config, handlers, history>>
    PROVE  CommitBase' /\ SavedInv'
<1>1. HandlersAreRecords'
  BY DEF CommitBase, HandlersAreRecords, IsHandler
<1>2. SensibleInv'
  BY DEF CommitBase, SensibleInv, Sensible, Commits, Configured
<1> QED
  BY <1>1, <1>2 DEF CommitBase, ControlInv, SavedInv, Saved, Unsaved, Doc, Alone, Running

\* Every step keeps who runs, and what is in the file.
LEMMA NextCommits ==
    ASSUME ServesInv, CommitBase, SavedInv, [Next]_vars
    PROVE  CommitBase' /\ SavedInv'
<1>1. ServesInv'
  BY NextServes
<1>2. CASE Crash
  <2>1. config' = config /\ current' \in BOOLEAN /\ swept' \in BOOLEAN
    BY <1>2 DEF Crash, CommitBase, ControlInv
  <2>2. SensibleInv'
    <3>1. \A h \in Handlers : Sensible(handlers'[h])
      BY <1>2, CrashIsIdle, IdleIsSensible
    <3> QED
      BY <2>1, <3>1 DEF CommitBase, SensibleInv, Sensible, Commits, Configured
  <2> QED
    BY <1>2, <2>1, <2>2, CrashIsIdle DEF CommitBase, ControlInv, SavedInv, Alone
<1>3. ASSUME NEW h \in Handlers, NEW r \in Requests, Start(h, r) PROVE CommitBase' /\ SavedInv'
  <2>1. ControlInv'
    <3>1. CASE Ends(h, "error") /\ UNCHANGED history
      BY <3>1, EndingControls DEF CommitBase, ControlInv
    <3> QED
      BY <1>3, <3>1, StartIs, TakingControls DEF CommitBase
  <2>2. SensibleInv'
    BY <1>3, StartIsSensible DEF CommitBase
  <2>3. SavedInv'
    BY <1>3, TakingSaves
  <2> QED
    BY <1>1, <2>1, <2>2, <2>3 DEF CommitBase, ServesInv
<1>4. ASSUME NEW h \in Handlers, HandlerActs(h) PROVE CommitBase' /\ SavedInv'
  BY <1>1, <1>4, HandlerControls, HandlerIsSensible, HandlerSaves DEF CommitBase, ServesInv
<1>5. CASE UNCHANGED <<config, handlers, history>>
  BY <1>5, OthersCommit
<1>6. CASE \E c \in Conns : Mount(c) \/ Unmount(c) \/ Plug(c) \/ Unplug(c)
  BY <1>5, <1>6 DEF Mount, Unmount, Plug, Unplug
<1>7. CASE UNCHANGED vars
  BY <1>5, <1>7 DEF vars
<1> QED
  BY <1>2, <1>3, <1>4, <1>6, <1>7 DEF Next, HandlerActs

\* Handlers._commit: the answer is true of the config, for a handler that had the
\* daemon to itself: "ok" with its change in the file, and "error" with the file as
\* it was, unless it is the undoing save that failed.
THEOREM AnswersAreTrue == Spec => AnswerIsTrue
<1> DEFINE True(h) ==
      (handlers[h].pc # "idle" /\ handlers[h].alone /\ handlers'[h].pc = "idle") =>
         /\ handlers'[h].reply = "ok" => config' = handlers[h].next
         /\ (handlers'[h].reply = "error" /\ handlers[h].pc # "save") => config' = handlers[h].prev
<1>1. ASSUME CommitBase, SavedInv, [Next]_vars, NEW h \in Handlers PROVE True(h)
  <2> SUFFICES ASSUME Alone(h), handlers'[h].pc = "idle"
               PROVE  /\ handlers'[h].reply = "ok" => config' = handlers[h].next
                      /\ (handlers'[h].reply = "error" /\ handlers[h].pc # "save") => config' = handlers[h].prev
    BY DEF Alone, Running
  <2>0. Saved(h) /\ Running(h) /\ Sensible(handlers[h])
    BY <1>1 DEF SavedInv, Alone, CommitBase, SensibleInv
  <2>1. CASE HandlerActs(h)
    <3>1. ~Forward(h) /\ ~RollsBack(h)
      BY DEF Forward, RollsBack, Going, AfterServing
    <3>2. CASE Ends(h, "error") /\ (Fail(h) \/ Fault(h))
      <4>1. UNCHANGED config /\ handlers'[h].reply = "error" /\ Undo(h)
        BY <3>2 DEF Fail, Fault, Ends, Idle
      <4>2. ~(Commits(Req(h)) /\ ~handlers[h].rolling /\ handlers[h].pc \notin {"password", "save"})
        BY <1>1, <3>1, <4>1, UndoIs DEF CommitBase
      <4>3. handlers[h].pc # "save" => config = handlers[h].prev
        BY <2>0, <4>2 DEF Saved, Unsaved, Doc, Sensible, Running
      <4> QED
        BY <4>1, <4>3
    <3>3. CASE Finish(h)
      <4>1. UNCHANGED config /\ handlers[h].pc = "done"
        BY <3>3 DEF Finish
      <4>2. handlers'[h].reply = IF handlers[h].rolling THEN "error" ELSE "ok"
        <5>1. PICK reply : reply = IF handlers[h].rolling THEN "error" ELSE "ok"
          OBVIOUS
        <5>2. handlers'[h] = Idle(reply)
          BY <1>1, <3>3, <5>1, FinishIs DEF Ends, CommitBase
        <5> QED
          BY <5>1, <5>2 DEF Idle
      <4>3. config = Doc(h)
        BY <2>0, <4>1 DEF Saved, Unsaved
      <4> QED
        BY <4>1, <4>2, <4>3 DEF Doc
    <3> QED
      BY <1>1, <2>1, <3>1, <3>2, <3>3, HandlerMoves DEF CommitBase
  <2>2. CASE handlers'[h].pc = handlers[h].pc
    BY <2>0, <2>2 DEF Running
  <2>3. ASSUME NEW g \in Handlers \ {h}, HandlerActs(g) PROVE handlers'[h].pc = handlers[h].pc
    <3>1. handlers'[h] = handlers[h]
      BY <1>1, <2>3, HandlerMoves DEF CommitBase, Forward, RollsBack, Going, Ends
    <3> QED
      BY <3>1
  <2>4. ASSUME NEW g \in Handlers, NEW r \in Requests, Start(g, r) PROVE handlers'[h].pc = handlers[h].pc
    <3>1. handlers[g].pc = "idle" /\ g # h
      BY <2>0, <2>4 DEF Start, Running
    <3> QED
      BY <1>1, <2>4, <3>1, StartIs DEF CommitBase, Takes, Ends
  <2>5. CASE Crash
    <3>1. handlers'[h].reply = "none"
      BY <2>5, CrashIsIdle DEF Idle
    <3> QED
      BY <3>1
  <2>6. CASE UNCHANGED handlers
    BY <2>2, <2>6
  <2> QED
    BY <1>1, <2>1, <2>2, <2>3, <2>4, <2>5, <2>6
    DEF Next, HandlerActs, vars, Mount, Unmount, Plug, Unplug
<1>2. CommitBase /\ SavedInv /\ [Next]_vars => [\A h \in Handlers : True(h)]_vars
  BY <1>1
<1>3. ServesInv /\ CommitBase /\ SavedInv /\ [Next]_vars => CommitBase' /\ SavedInv'
  BY NextCommits
<1> QED
  BY <1>2, <1>3, InitServes, NextServes, InitCommits, PTL DEF Spec, AnswerIsTrue

-----------------------------------------------------------------------------
(***************************************************************************)
(* What is left over.                                                      *)
(***************************************************************************)
\* The documents that a commit has in hand.
InHand(h) == Configured(handlers[h].prev) \union Configured(handlers[h].next)

\* Marked units are of the documents in hand, or were left where they are in use.
Swept(h) ==
    /\ Commits(Req(h)) /\ swept =>
          /\ Marked \subseteq InHand(h) \union left
          /\ Unsaved(h) /\ ~handlers[h].rolling => Marked \subseteq Configured(handlers[h].prev) \union left
    /\ Req(h).op = "share.make_writable" /\ swept => Marked \subseteq Configured(config) \union left
    /\ Req(h).op # "share.make_writable" /\ handlers[h].pc \in {"arm", "done"}
          /\ (swept \/ ~Commits(Req(h))) => Marked \subseteq Wanted(h) \union left
Quiet    == \A h \in Handlers : ~Running(h)
SweptInv ==
    /\ \A h \in Handlers : Alone(h) => Swept(h)
    /\ Quiet /\ swept => Marked \subseteq Configured(config) \union left

\* What a step of a handler marks: what its document wants; and what it sweeps.
LEMMA HandlerTouches ==
    ASSUME NEW h \in Handlers, HandlerActs(h)
    PROVE  /\ ~Unlink(h) => /\ Marked' \subseteq Marked \union Wanted(h)
                            /\ left \subseteq left' \union Wanted(h)
           /\ Unlink(h) => /\ Marked' \subseteq Marked /\ Marked' \intersect Stale(h) \subseteq left'
                           /\ left \subseteq left' \union Stale(h)
           /\ handlers[h].pc \notin UnitSteps => UNCHANGED <<Marked, left>>
<1>1. CASE UNCHANGED <<units, left>>
  <2>1. UNCHANGED Marked
    BY <1>1 DEF Marked
  <2>2. ~Unlink(h) \/ (Marked' \intersect Stale(h) \subseteq left')
    <3> SUFFICES ASSUME Unlink(h), NEW p \in Points, p \in Marked', p \in Stale(h) PROVE p \in left'
      BY DEF Marked
    <3>1. PICK busy \in SUBSET (Stale(h) \intersect Mounted) :
             /\ units' = [q \in Points |-> IF q \in Stale(h) \ busy THEN NoUnit ELSE units[q]]
             /\ left' = (left \ Stale(h)) \union busy
      BY DEF Unlink
    <3>2. p \in busy
      BY <3>1 DEF Marked, NoUnit
    <3> QED
      BY <3>1, <3>2
  <2> QED
    BY <1>1, <2>1, <2>2
<1>2. CASE WritePassword(h) \/ Save(h) \/ Publish(h) \/ Reload(h) \/ Verify(h)
  BY <1>1, <1>2 DEF WritePassword, Save, Publish, Reload, Verify
<1>3. CASE TakeOwnership(h) \/ Unserve(h) \/ Finish(h)
  BY <1>1, <1>3 DEF TakeOwnership, Unserve, Finish
<1>4. CASE Fail(h)
  BY <1>1, <1>4 DEF Fail, Undo
<1>5. CASE WriteUnits(h)
  <2>1. /\ handlers[h].pc = "units"
        /\ units' = [p \in Points |-> IF p \in Wanted(h) \ Occupied THEN UnitFor(p, Doc(h)) ELSE units[p]]
        /\ left' = (left \ (Wanted(h) \ Occupied)) \union Blocked(h)
    BY <1>5 DEF WriteUnits
  <2>2. Marked' \subseteq Marked \union Wanted(h)
    BY <2>1 DEF Marked
  <2>3. ~Unlink(h)
    BY <2>1 DEF Unlink
  <2> QED
    BY <2>1, <2>2, <2>3 DEF UnitSteps
<1>6. CASE Fault(h)
  <2>1. UNCHANGED left
    BY <1>6 DEF Fault, Undo
  <2>2. CASE handlers[h].pc = "units"
    <3>1. PICK some \in SUBSET (Wanted(h) \ Occupied) :
             units' = [p \in Points |-> IF p \in some THEN UnitFor(p, Doc(h)) ELSE units[p]]
      BY <1>6, <2>2 DEF Fault
    <3>2. Marked' \subseteq Marked \union Wanted(h)
      BY <3>1 DEF Marked
    <3>3. ~Unlink(h)
      BY <2>2 DEF Unlink
    <3> QED
      BY <2>1, <2>2, <3>2, <3>3 DEF UnitSteps
  <2>3. CASE handlers[h].pc # "units"
    BY <1>1, <1>6, <2>1, <2>3 DEF Fault
  <2> QED
    BY <2>2, <2>3
<1>7. CASE Disarm(h)
  <2>1. /\ handlers[h].pc = "disarm" /\ UNCHANGED left
        /\ units' = [p \in Points |-> IF p \in Stale(h) THEN [units[p] EXCEPT !.auto = FALSE, !.armed = FALSE]
                                      ELSE units[p]]
    BY <1>7 DEF Disarm
  <2>2. Marked' \subseteq Marked
    BY <2>1 DEF Marked, Stale
  <2>3. ~Unlink(h)
    BY <2>1 DEF Unlink
  <2> QED
    BY <2>1, <2>2, <2>3 DEF UnitSteps
<1>8. CASE Unlink(h)
  <2>1. PICK busy \in SUBSET (Stale(h) \intersect Mounted) :
           /\ units' = [q \in Points |-> IF q \in Stale(h) \ busy THEN NoUnit ELSE units[q]]
           /\ left' = (left \ Stale(h)) \union busy
    BY <1>8 DEF Unlink
  <2>2. Marked' \subseteq Marked /\ Marked' \intersect Stale(h) \subseteq busy
    BY <2>1 DEF Marked, NoUnit
  <2>3. handlers[h].pc = "unlink"
    BY <1>8 DEF Unlink
  <2> QED
    BY <1>8, <2>1, <2>2, <2>3 DEF UnitSteps
<1>9. CASE Arm(h)
  <2>1. /\ handlers[h].pc = "arm" /\ UNCHANGED left
        /\ units' = [p \in Points |-> IF p \in Wanted(h) \ handlers[h].blocked
                                      THEN [units[p] EXCEPT !.armed = p \notin Manual] ELSE units[p]]
    BY <1>9 DEF Arm
  <2>2. Marked' \subseteq Marked \union Wanted(h)
    BY <2>1 DEF Marked
  <2>3. ~Unlink(h)
    BY <2>1 DEF Unlink
  <2> QED
    BY <2>1, <2>2, <2>3 DEF UnitSteps
<1> QED
  BY <1>2, <1>3, <1>4, <1>5, <1>6, <1>7, <1>8, <1>9 DEF HandlerActs

\* After the sweep, what is marked is wanted, or in use.
LEMMA SweepingSweeps ==
    ASSUME NEW h \in Handlers, Unlink(h), Swept(h), swept \/ ~Commits(Req(h))
    PROVE  Marked' \subseteq Wanted(h) \union left'
<1> SUFFICES ASSUME NEW p \in Marked', p \notin left' PROVE p \in Wanted(h)
  OBVIOUS
<1>1. p \in Marked /\ p \in Points /\ p \notin Stale(h) /\ p \notin left
  BY HandlerTouches DEF HandlerActs, Marked
<1>2. p \in Entitled(h)
  BY <1>1 DEF Swept, Entitled, InHand
<1> QED
  BY <1>1, <1>2 DEF Stale

\* A handler keeps what it knows of the marks while it goes on.
LEMMA HandlerSweeps ==
    ASSUME CommitBase, NEW h \in Handlers, HandlerActs(h), Swept(h), Running(h)'
    PROVE  Swept(h)'
<1> DEFINE x == handlers[h]
<1>0. Sensible(x) /\ x.pc # "idle"
  <2>1. x.pc # "idle"
    BY OnlyOneActs DEF CommitBase, Running
  <2> QED
    BY <2>1 DEF CommitBase, SensibleInv
<1>1. ~Finish(h)
  BY FinishIs DEF Ends, Running, CommitBase
<1>2. Commits(Req(h)) => Wanted(h) \subseteq InHand(h)
  BY DEF Wanted, InHand, Doc
<1>3. Commits(Req(h)) /\ swept => Marked' \subseteq InHand(h) \union left'
  BY <1>2, HandlerTouches DEF Swept
<1>4. CASE Forward(h) /\ handlers'[h].rolling = handlers[h].rolling /\ UNCHANGED <<current, swept>>
  <2>1. /\ Req(h)' = Req(h) /\ Doc(h)' = Doc(h) /\ Wanted(h)' = Wanted(h)
        /\ handlers'[h].prev = x.prev /\ handlers'[h].next = x.next
    BY <1>4, ForwardKeeps
  <2>2. InHand(h)' = InHand(h) /\ (Commits(Req(h)))' = Commits(Req(h))
    BY <2>1 DEF InHand, Configured, Commits
  <2>3. Commits(Req(h)) /\ swept /\ Unsaved(h)' /\ ~x.rolling =>
            Marked' \subseteq Configured(x.prev) \union left'
    <3> SUFFICES ASSUME Commits(Req(h)), swept, Unsaved(h)', ~x.rolling
                 PROVE  Marked' \subseteq Configured(x.prev) \union left'
      OBVIOUS
    <3>1. x.pc = "password"
      BY <1>4 DEF Unsaved, Forward, Going, AfterServing
    <3>2. UNCHANGED <<Marked, left>>
      BY <3>1, HandlerTouches DEF UnitSteps
    <3> QED
      BY <3>1, <3>2 DEF Swept, Unsaved
  <2>4. Req(h).op = "share.make_writable" /\ swept => Marked' \subseteq Configured(config') \union left'
    <3> SUFFICES ASSUME Req(h).op = "share.make_writable", swept
                 PROVE  Marked' \subseteq Configured(config') \union left'
      OBVIOUS
    <3>1. x.pc \notin UnitSteps /\ x.pc \notin {"password", "save"}
      BY <1>0 DEF Sensible, Commits
    <3>2. UNCHANGED <<Marked, left>>
      BY <3>1, HandlerTouches
    <3>3. UNCHANGED config
      BY <3>1 DEF HandlerActs, WritePassword, Save, Publish, Reload, Verify, TakeOwnership, Unserve,
         WriteUnits, Disarm, Unlink, Arm, Finish, Fail, Fault
    <3> QED
      BY <3>2, <3>3 DEF Swept, Configured
  <2>5. ASSUME Req(h).op # "share.make_writable", handlers'[h].pc \in {"arm", "done"},
               swept \/ ~Commits(Req(h))
        PROVE  Marked' \subseteq Wanted(h) \union left'
    <3>1. x.pc \in {"unlink", "arm"}
      BY <1>4, <2>5 DEF Forward, Going, AfterServing
    <3>2. CASE x.pc = "unlink"
      <4>1. Unlink(h)
        <5>1. ~Fault(h)
          BY <3>2 DEF Fault
        <5>2. ~Fail(h)
          BY <3>2 DEF Fail, CannotGoOn
        <5> QED
          BY <1>1, <3>2, <5>1, <5>2 DEF HandlerActs, WritePassword, Save, Publish, Reload, Verify,
             TakeOwnership, Unserve, WriteUnits, Disarm, Arm
      <4> QED
        BY <2>5, <4>1, SweepingSweeps
    <3>3. CASE x.pc = "arm"
      <4>1. ~Unlink(h) /\ Marked \subseteq Wanted(h) \union left
        BY <2>5, <3>3 DEF Swept, Unlink
      <4> QED
        BY <4>1, HandlerTouches
    <3> QED
      BY <3>1, <3>2, <3>3
  <2>6. Configured(x.prev)' = Configured(handlers'[h].prev) /\ Configured(config)' = Configured(config')
    BY DEF Configured
  <2>7. swept' = swept /\ handlers'[h].rolling = x.rolling /\ Configured(handlers'[h].prev) = Configured(x.prev)
    BY <1>4, <2>1
  <2>8. Commits(handlers'[h].req) = Commits(Req(h)) /\ handlers'[h].req = Req(h)
    BY <2>1
  <2> QED
    BY <1>3, <2>1, <2>2, <2>3, <2>4, <2>5, <2>6, <2>7, <2>8 DEF Swept, Commits
<1>5. CASE RollsBack(h)
  <2>1. /\ Commits(Req(h)) /\ handlers'[h].pc = "save" /\ handlers'[h].rolling = TRUE /\ swept' = swept
        /\ Req(h)' = Req(h) /\ InHand(h)' = InHand(h)
    BY <1>5 DEF RollsBack, Going, InHand, Configured
  <2> QED
    BY <1>3, <2>1 DEF Swept, Commits
<1>6. ASSUME NEW reply, Ends(h, reply) PROVE FALSE
  BY <1>6 DEF Ends, Running
<1> QED
  BY <1>4, <1>5, <1>6, HandlerMoves DEF CommitBase

\* A handler ends: what it says of the sweep is so, made or undone.
LEMMA EndingSweeps ==
    ASSUME CommitBase, SavedInv, NEW h \in Handlers, HandlerActs(h), Alone(h) => Swept(h),
           ~Running(h)', swept'
    PROVE  Marked' \subseteq Configured(config') \union left'
<1> DEFINE x == handlers[h]
<1>0. Sensible(x) /\ Running(h)
  BY OnlyOneActs DEF CommitBase, SensibleInv
<1>1. CASE Finish(h)
  <2>1. /\ x.pc = "done" /\ UNCHANGED <<units, left, config>>
        /\ swept' = IF Req(h).op \in {"apply", "teardown"} THEN x.alone ELSE swept
    BY <1>1 DEF Finish
  <2>2. UNCHANGED <<Marked, left, config>>
    BY <2>1 DEF Marked
  <2>3. Alone(h)
    BY <1>0, <2>1 DEF CommitBase, ControlInv, Alone
  <2>4. Swept(h) /\ config = Doc(h)
    BY <2>1, <2>3 DEF SavedInv, Saved, Unsaved
  <2>5. CASE Req(h).op = "share.make_writable"
    BY <2>1, <2>2, <2>4, <2>5 DEF Swept, Configured
  <2>6. CASE Req(h).op # "share.make_writable"
    <3>1. swept \/ ~Commits(Req(h))
      BY <2>1 DEF Commits
    <3>2. Marked \subseteq Wanted(h) \union left
      BY <2>1, <2>4, <2>6, <3>1 DEF Swept
    <3>3. Wanted(h) \subseteq Configured(config)
      BY <2>4 DEF Wanted
    <3> QED
      BY <2>1, <2>2, <3>2, <3>3 DEF Configured
  <2> QED
    BY <2>5, <2>6
<1>2. CASE Ends(h, "error") /\ (Fail(h) \/ Fault(h))
  <2>1. Undo(h) /\ UNCHANGED config
    BY <1>2 DEF Fail, Fault
  <2>2. ~RollsBack(h)
    BY <1>2 DEF Ends, RollsBack, Going
  <2>3. ~(Commits(Req(h)) /\ ~x.rolling /\ x.pc \notin {"password", "save"})
    BY <2>1, <2>2, UndoIs DEF CommitBase
  <2>4. swept /\ x.pc \in {"password", "save", "chown"} /\ ~x.rolling
    BY <2>1, <2>3 DEF Undo
  <2>5. UNCHANGED <<Marked, left>>
    BY <2>4, HandlerTouches DEF UnitSteps
  <2>6. Swept(h) /\ Saved(h)
    BY <1>0, <2>4 DEF CommitBase, ControlInv, Alone, SavedInv
  <2>7. CASE x.pc = "chown"
    <3>1. Req(h).op = "share.make_writable"
      BY <1>0, <2>7 DEF Sensible, Commits, Running
    <3> QED
      BY <2>1, <2>4, <2>5, <2>6, <3>1 DEF Swept, Configured
  <2>8. CASE x.pc \in {"password", "save"}
    <3>1. Commits(Req(h))
      BY <1>0, <2>8 DEF Sensible, Running
    <3> QED
      BY <2>1, <2>4, <2>5, <2>6, <2>8, <3>1 DEF Swept, Saved, Unsaved, Configured
  <2> QED
    BY <2>4, <2>7, <2>8
<1>3. ~Forward(h) /\ ~RollsBack(h)
  BY DEF Running, Forward, RollsBack, Going, AfterServing
<1> QED
  BY <1>1, <1>2, <1>3, HandlerMoves DEF CommitBase

\* A handler that takes a request finds what the last sweep left.
LEMMA TakingSweeps ==
    ASSUME CommitBase, SweptInv, NEW h \in Handlers, NEW r \in Requests, Start(h, r)
    PROVE  SweptInv'
<1>1. UNCHANGED <<config, Marked, left>>
  <2>1. UNCHANGED <<config, units>>
    BY DEF Start
  <2>2. UNCHANGED left
    BY DEF Start
  <2> QED
    BY <2>1, <2>2 DEF Marked
<1>2. CASE Ends(h, "error") /\ UNCHANGED history
  <2>1. \A g \in Handlers : /\ Running(g) <=> Running(g)'
                            /\ Alone(g)' => Alone(g) /\ handlers'[g] = handlers[g]
    BY <1>2 DEF Alone, Running, Ends, Start
  <2>2. Quiet' => Quiet
    BY <2>1 DEF Quiet
  <2>3. \A g \in Handlers : Alone(g)' => Swept(g)'
    <3> SUFFICES ASSUME NEW g \in Handlers, Alone(g)' PROVE Swept(g)'
      OBVIOUS
    <3>1. Swept(g) /\ handlers'[g] = handlers[g]
      BY <2>1 DEF SweptInv
    <3> QED
      BY <1>1, <1>2, <3>1 DEF Swept, InHand, Unsaved, Wanted, Doc, Commits, Configured
  <2> QED
    BY <1>1, <1>2, <2>2, <2>3 DEF SweptInv, Configured
<1>3. CASE Takes(h, r)
  <2>1. ~Quiet'
    <3>1. FirstStep(r) # "idle"
      BY DEF FirstStep
    <3> QED
      BY <1>3, <3>1 DEF Quiet, Running, Takes
  <2>2. ASSUME NEW g \in Handlers, Alone(g)' PROVE Swept(g)'
    <3>1. g = h
      BY <1>3, <2>2 DEF Takes, Alone
    <3>2. Busy = {}
      BY <1>3, <2>2, <3>1 DEF Takes, Alone
    <3>3. Quiet
      BY <3>2 DEF Busy, Quiet, Running
    <3>4. swept' => Marked \subseteq Configured(config) \union left
      BY <1>3, <3>3 DEF Takes, SweptInv
    <3>5. FirstStep(r) \notin {"arm", "done"}
      BY DEF FirstStep
    <3>6. handlers'[h].prev = config /\ handlers'[h].pc = FirstStep(r)
      BY <1>3 DEF Takes
    <3>7. Configured(handlers'[h].prev) = Configured(config) /\ Configured(config') = Configured(config)
      BY <1>1, <3>6
    <3>8. /\ swept' => Marked' \subseteq Configured(handlers'[h].prev) \union left'
          /\ swept' => Marked' \subseteq Configured(config') \union left'
          /\ handlers'[h].pc \notin {"arm", "done"}
      BY <1>1, <3>4, <3>5, <3>6, <3>7
    <3> QED
      BY <3>1, <3>8 DEF Swept, InHand, Configured
  <2> QED
    BY <2>1, <2>2 DEF SweptInv
<1> QED
  BY <1>2, <1>3, StartIs DEF CommitBase

\* What nobody does to a unit or a handler leaves the sweep as it was.
LEMMA OthersSweep ==
    ASSUME SweptInv, UNCHANGED <<config, units, handlers, history>>
    PROVE  SweptInv'
<1>1. UNCHANGED <<Marked, left, swept>>
  BY DEF Marked
<1> QED
  BY <1>1 DEF SweptInv, Swept, Alone, Running, Quiet, InHand, Unsaved, Wanted, Doc, Commits, Configured

\* Every step keeps what is known of the marks.
LEMMA NextSweeps ==
    ASSUME ServesInv, CommitBase, SavedInv, SweptInv, [Next]_vars
    PROVE  SweptInv'
<1>1. CASE Crash
  <2>1. UNCHANGED <<config, units, left>> /\ swept' = (swept /\ Busy = {})
    BY <1>1 DEF Crash
  <2>2. \A h \in Handlers : ~Running(h)'
    BY <1>1, CrashIsIdle
  <2>3. swept' => Quiet /\ swept
    BY <2>1 DEF Busy, Quiet, Running
  <2>4. UNCHANGED <<Marked, left, config>>
    BY <2>1 DEF Marked
  <2>5. swept' => Marked' \subseteq Configured(config') \union left'
    BY <2>3, <2>4 DEF SweptInv, Configured
  <2> QED
    BY <2>2, <2>5 DEF SweptInv, Alone, Configured
<1>2. ASSUME NEW h \in Handlers, NEW r \in Requests, Start(h, r) PROVE SweptInv'
  BY <1>2, TakingSweeps
<1>3. ASSUME NEW h \in Handlers, HandlerActs(h) PROVE SweptInv'
  <2>1. Running(h) /\ (Alone(h)' => Alone(h)) /\ \A g \in Handlers \ {h} : ~Alone(g)'
    BY <1>3, OnlyOneActs DEF CommitBase
  <2>2. Alone(h) => Swept(h)
    BY DEF SweptInv
  <2>3. Alone(h)' => Swept(h)'
    BY <1>3, <2>1, <2>2, HandlerSweeps DEF Alone
  <2>4. Quiet' => ~Running(h)'
    BY DEF Quiet
  <2>5. Quiet' /\ swept' => Marked' \subseteq Configured(config') \union left'
    BY <1>3, <2>2, <2>4, EndingSweeps
  <2> QED
    BY <2>1, <2>3, <2>5 DEF SweptInv, Configured
<1>4. CASE UNCHANGED <<config, units, handlers, history>>
  BY <1>4, OthersSweep
<1>5. CASE \E c \in Conns : Mount(c) \/ Unmount(c) \/ Plug(c) \/ Unplug(c)
  BY <1>4, <1>5 DEF Mount, Unmount, Plug, Unplug
<1>6. CASE UNCHANGED vars
  BY <1>4, <1>6 DEF vars
<1> QED
  BY <1>1, <1>2, <1>3, <1>5, <1>6 DEF Next, HandlerActs

\* Mounter.apply and teardown: after a sweep that had the daemon to itself, and
\* after every commit that followed it, made or undone, no unit of ours is on the
\* disk but for a connection of the config or where a mount was in use.
THEOREM NothingStays == Spec => []NothingIsLeftOver
<1>1. Init => SweptInv
  BY DEF Init, SweptInv, Alone, Running, Idle
<1>2. SweptInv => NothingIsLeftOver
  BY DEF SweptInv, NothingIsLeftOver, Orphaned, Quiet, Busy, Running
<1>3. ServesInv /\ CommitBase /\ SavedInv /\ [Next]_vars => CommitBase' /\ SavedInv'
  BY NextCommits
<1>4. ServesInv /\ CommitBase /\ SavedInv /\ SweptInv /\ [Next]_vars => SweptInv'
  BY NextSweeps
<1> QED
  BY <1>1, <1>2, <1>3, <1>4, InitServes, NextServes, InitCommits, PTL DEF Spec

-----------------------------------------------------------------------------
(***************************************************************************)
(* What is applied.                                                        *)
(***************************************************************************)
SambaIs(doc) ==
    /\ served = published /\ published = Sections(doc, dirs) /\ advertised = Advertises(doc)

\* The unit files of a connection, and whether its automount is armed.
Fits(c, doc) ==
    /\ units[c].mount /\ units[c].auto /\ units[c].swapped = doc.conns[c].swapped
    /\ units[c].ref = (doc.conns[c].ref /\ c \in creds)
IsArmed(c)    == units[c].armed = (c \notin Manual)
UnitsAre(doc) == \A c \in Configured(doc) \ left : Fits(c, doc) /\ IsArmed(c)

\* How far Samba is what a handler's document says.
SambaSoFar(h) == Req(h).op # "teardown" =>
    /\ handlers[h].pc \in {"include", "verify", "done"} \union UnitSteps => published = Sections(Doc(h), dirs)
    /\ handlers[h].pc \in {"verify", "done"} \union UnitSteps => served = published
    /\ handlers[h].pc \in {"done"} \union UnitSteps => advertised = Advertises(Doc(h))

\* How far the units are.
UnitsSoFar(h) == Whole(h) =>
    /\ handlers[h].pc \in {"disarm", "unlink", "arm", "done"} =>
           \A c \in Configured(Doc(h)) \ left : Fits(c, Doc(h))
    /\ handlers[h].pc \in {"disarm", "unlink", "arm"} => handlers[h].blocked \subseteq left \intersect Wanted(h)
    /\ handlers[h].pc = "done" => \A c \in Configured(Doc(h)) \ left : IsArmed(c)

\* What was applied before still is, until something is done.
StillApplied(h) == current =>
    /\ handlers[h].pc \in {"password", "save", "chown"} /\ ~handlers[h].rolling =>
           /\ SambaIs(config)
           /\ Req(h).op # "connection.set_credentials" \/ handlers[h].pc = "password" => UnitsAre(config)
    /\ Req(h).op = "share.make_writable" => UnitsAre(config)

AppliedInv ==
    /\ \A h \in Handlers : Alone(h) => SambaSoFar(h) /\ UnitsSoFar(h) /\ StillApplied(h)
    /\ Quiet /\ current => SambaIs(config) /\ UnitsAre(config)

\* Samba gets the document, file by file.
LEMMA HandlerServesDoc ==
    ASSUME CommitBase, NEW h \in Handlers, HandlerActs(h), SambaSoFar(h), Running(h)'
    PROVE  SambaSoFar(h)'
<1> DEFINE x == handlers[h]
<1>0. Sensible(x) /\ Running(h)
  BY OnlyOneActs DEF CommitBase, SensibleInv
<1>1. CASE Forward(h) /\ handlers'[h].rolling = handlers[h].rolling
  <2>1. Req(h)' = Req(h) /\ Doc(h)' = Doc(h)
    BY <1>1, ForwardKeeps
  <2> SUFFICES ASSUME Req(h).op # "teardown"
               PROVE  /\ handlers'[h].pc \in {"include", "verify", "done"} \union UnitSteps =>
                             published' = Sections(Doc(h), dirs')
                      /\ handlers'[h].pc \in {"verify", "done"} \union UnitSteps => served' = published'
                      /\ handlers'[h].pc \in {"done"} \union UnitSteps => advertised' = Advertises(Doc(h))
    BY <2>1 DEF SambaSoFar, Sections, Advertises, Writable
  <2>2. x.pc # "unserve"
    BY <1>0 DEF Sensible, Running, Commits
  <2>3. CASE Publish(h)
    <3>1. published' = Sections(Doc(h), dirs') /\ handlers'[h].pc = "include"
      BY <1>1, <2>3 DEF Publish, Forward, Going
    <3> QED
      BY <3>1 DEF UnitSteps
  <2>4. CASE Reload(h)
    <3>1. UNCHANGED <<published, dirs>> /\ served' = published /\ x.pc = "include" /\ handlers'[h].pc = "verify"
      BY <1>1, <2>4 DEF Reload, Forward, Going
    <3> QED
      BY <3>1 DEF UnitSteps, SambaSoFar
  <2>5. CASE Verify(h)
    <3>1. UNCHANGED <<published, dirs, served>> /\ advertised' = Advertises(Doc(h)) /\ x.pc = "verify"
      BY <2>5 DEF Verify
    <3> QED
      BY <3>1 DEF UnitSteps, SambaSoFar
  <2>6. CASE TakeOwnership(h)
    <3>1. handlers'[h].pc = "publish"
      BY <1>1, <2>6 DEF TakeOwnership, Forward, Going
    <3> QED
      BY <3>1 DEF UnitSteps
  <2>7. CASE UNCHANGED <<published, served, advertised, dirs>> /\ x.pc \notin {"publish", "include", "verify"}
    <3>1. handlers'[h].pc \in {"include", "verify", "done"} \union UnitSteps => x.pc \in UnitSteps
      BY <1>1, <2>2, <2>7 DEF Forward, Going, UnitSteps
    <3> QED
      BY <2>7, <3>1 DEF SambaSoFar
  <2>8. ~Fail(h) /\ ~Fault(h) /\ ~Finish(h)
    <3>1. Undo(h) => FALSE
      BY <1>1, UndoIs DEF RollsBack, Ends, Running, CommitBase, SensibleInv, Sensible
    <3> QED
      BY <3>1, FinishIs DEF Fail, Fault, Ends, Running, CommitBase
  <2> QED
    BY <2>2, <2>3, <2>4, <2>5, <2>6, <2>7, <2>8
    DEF HandlerActs, WritePassword, Save, Unserve, WriteUnits, Disarm, Unlink, Arm
<1>2. CASE RollsBack(h)
  BY <1>2 DEF RollsBack, Going, SambaSoFar, UnitSteps
<1>3. ASSUME NEW reply, Ends(h, reply) PROVE FALSE
  BY <1>3 DEF Ends, Running
<1> QED
  BY <1>1, <1>2, <1>3, HandlerMoves DEF CommitBase

\* Writing a unit makes its files fit the document and the credentials.
LEMMA WritingFits ==
    ASSUME UnitsAreRecords, NEW c \in Points, NEW doc, doc.conns[c].ref \in BOOLEAN, UNCHANGED creds,
           units'[c] = UnitFor(c, doc)
    PROVE  Fits(c, doc)'
<1>1. IsUnit(units[c])
  BY DEF UnitsAreRecords
<1>2. PICK r \in BOOLEAN : r = (doc.conns[c].ref /\ c \in creds)
  OBVIOUS
<1>3. PICK s : s = doc.conns[c].swapped
  OBVIOUS
<1>0. PICK t : t = TRUE
  OBVIOUS
<1> DEFINE v1 == [units[c] EXCEPT !.mount = t]
           v2 == [v1 EXCEPT !.auto = t]
           v3 == [v2 EXCEPT !.ref = r]
           v4 == [v3 EXCEPT !.swapped = s]
<1>4. units'[c] = v4
  BY <1>0, <1>2, <1>3 DEF UnitFor
<1>5. IsUnit(v1) /\ v1.mount = t
  BY <1>1 DEF IsUnit
<1> HIDE DEF v1
<1>6. IsUnit(v2) /\ v2.mount = t /\ v2.auto = t
  BY <1>5 DEF IsUnit
<1> HIDE DEF v2
<1>7. IsUnit(v3) /\ v3.mount = t /\ v3.auto = t /\ v3.ref = r
  BY <1>6 DEF IsUnit
<1> HIDE DEF v3
<1>8. v4.mount = t /\ v4.auto = t /\ v4.ref = r /\ v4.swapped = s
  BY <1>7 DEF IsUnit
<1> HIDE DEF v4
<1>9. units'[c].mount /\ units'[c].auto /\ units'[c].ref = r /\ units'[c].swapped = s
  BY <1>0, <1>4, <1>8
<1> QED
  BY <1>2, <1>3, <1>9 DEF Fits

\* Arming leaves the files.
LEMMA ArmingFits ==
    ASSUME UnitsAreRecords, NEW c \in Points, NEW doc, UNCHANGED creds,
           units'[c] = [units[c] EXCEPT !.armed = c \notin Manual]
    PROVE  IsArmed(c)' /\ (Fits(c, doc) => Fits(c, doc)')
<1>1. IsUnit(units[c])
  BY DEF UnitsAreRecords
<1>2. PICK b \in BOOLEAN : b = (c \notin Manual)
  OBVIOUS
<1> DEFINE v == [units[c] EXCEPT !.armed = b]
<1>3. units'[c] = v
  BY <1>2
<1>4. /\ v.mount = units[c].mount /\ v.auto = units[c].auto /\ v.ref = units[c].ref
      /\ v.swapped = units[c].swapped /\ v.armed = b
  BY <1>1 DEF IsUnit
<1> HIDE DEF v
<1>5. /\ units'[c].mount = units[c].mount /\ units'[c].auto = units[c].auto /\ units'[c].ref = units[c].ref
      /\ units'[c].swapped = units[c].swapped /\ units'[c].armed = b
  BY <1>3, <1>4
<1>6. IsArmed(c)'
  BY <1>2, <1>5 DEF IsArmed
<1>7. Fits(c, doc) => Fits(c, doc)'
  BY <1>5 DEF Fits
<1> QED
  BY <1>6, <1>7

\* What a unit that nobody writes was, it is.
LEMMA UntouchedFits ==
    ASSUME NEW c, NEW doc, units'[c] = units[c], c \in creds <=> c \in creds'
    PROVE  (Fits(c, doc) => Fits(c, doc)') /\ (IsArmed(c) => IsArmed(c)')
  BY DEF Fits, IsArmed

\* The units get the document: written, the stale ones swept, armed.
LEMMA HandlerWritesDoc ==
    ASSUME CommitBase, MarkInv, NEW h \in Handlers, HandlerActs(h), UnitsSoFar(h), Running(h)'
    PROVE  UnitsSoFar(h)'
<1> DEFINE x == handlers[h]
<1>0. Sensible(x) /\ Running(h) /\ UnitsAreRecords
  BY OnlyOneActs DEF CommitBase, SensibleInv, MarkInv
<1>1. CASE Forward(h) /\ handlers'[h].rolling = x.rolling
           /\ (handlers'[h].blocked = x.blocked \/ (x.pc = "units" /\ handlers'[h].blocked = Blocked(h)))
  <2>1. Req(h)' = Req(h) /\ Doc(h)' = Doc(h) /\ Wanted(h)' = Wanted(h) /\ Doc(h) \in Docs
    BY <1>0, <1>1, ForwardKeeps DEF Doc, Sensible
  <2>0. PICK doc : doc = Doc(h)
    OBVIOUS
  <2>2. \A c : Fits(c, Doc(h))' <=> Fits(c, doc)'
    BY <2>0, <2>1 DEF Fits
  <2>3. Configured(Doc(h))' = Configured(doc) /\ (Whole(h)' <=> Whole(h))
    BY <2>0, <2>1 DEF Configured, Whole
  <2> SUFFICES ASSUME Whole(h)
               PROVE  /\ handlers'[h].pc \in {"disarm", "unlink", "arm", "done"} =>
                            \A c \in Configured(doc) \ left' : Fits(c, doc)'
                      /\ handlers'[h].pc \in {"disarm", "unlink", "arm"} =>
                            handlers'[h].blocked \subseteq left' \intersect Wanted(h)
                      /\ handlers'[h].pc = "done" => \A c \in Configured(doc) \ left' : IsArmed(c)'
    BY <2>1, <2>2, <2>3 DEF UnitsSoFar
  <2>4. Wanted(h) = Configured(doc) /\ Configured(doc) \subseteq Conns
    BY <2>0 DEF Wanted, Whole, Configured
  <2>5. \A c \in Conns : doc.conns[c].ref \in BOOLEAN
    BY <2>0, <2>1 DEF Docs, ConnRecords
  <2>6. x.pc \notin {"unserve", "chown"}
    BY <1>0 DEF Sensible, Running, Commits, Whole
  <2>7. ~Fail(h) /\ ~Fault(h) /\ ~Finish(h)
    <3>1. Undo(h) => FALSE
      BY <1>1, UndoIs DEF RollsBack, Ends, Running, CommitBase, SensibleInv, Sensible
    <3> QED
      BY <3>1, FinishIs DEF Fail, Fault, Ends, Running, CommitBase
  <2>8. CASE x.pc \in {"password", "save", "publish", "include", "verify"}
    <3>1. handlers'[h].pc \notin {"disarm", "unlink", "arm", "done"}
      BY <1>1, <2>8 DEF Forward, Going, AfterServing, Whole
    <3> QED
      BY <3>1
  <2>9. CASE WriteUnits(h)
    <3>1. /\ units' = [p \in Points |-> IF p \in Wanted(h) \ Occupied THEN UnitFor(p, doc) ELSE units[p]]
          /\ left' = (left \ (Wanted(h) \ Occupied)) \union Blocked(h) /\ UNCHANGED creds
          /\ x.pc = "units" /\ handlers'[h].pc = "disarm"
      BY <1>1, <2>0, <2>9 DEF WriteUnits, Forward, Going
    <3>2. handlers'[h].blocked = Blocked(h)
      BY <2>9, WriteUnitsIs DEF CommitBase
    <3>3. Blocked(h) = Wanted(h) \intersect Occupied
      BY DEF Blocked
    <3>4. \A c \in Configured(doc) \ left' : Fits(c, doc)'
      <4> SUFFICES ASSUME NEW c \in Configured(doc), c \notin left' PROVE Fits(c, doc)'
        OBVIOUS
      <4>1. c \in Conns /\ c \in Points /\ units'[c] = UnitFor(c, doc)
        BY <2>4, <3>1, <3>3
      <4> QED
        BY <1>0, <2>5, <3>1, <4>1, WritingFits
    <3> QED
      BY <3>1, <3>2, <3>3, <3>4
  <2>10. CASE Disarm(h)
    <3>1. /\ units' = [p \in Points |-> IF p \in Stale(h)
                          THEN [units[p] EXCEPT !.auto = FALSE, !.armed = FALSE] ELSE units[p]]
          /\ UNCHANGED <<creds, left>> /\ x.pc = "disarm" /\ handlers'[h].pc = "unlink"
      BY <1>1, <2>10 DEF Disarm, Forward, Going
    <3>2. \A c \in Configured(doc) : units'[c] = units[c]
      BY <2>4, <3>1 DEF Stale
    <3>3. \A c \in Configured(doc) \ left : Fits(c, doc)
      BY <2>0, <3>1 DEF UnitsSoFar
    <3>4. \A c \in Configured(doc) \ left' : Fits(c, doc)'
      BY <3>1, <3>2, <3>3, UntouchedFits
    <3> QED
      BY <1>1, <3>1, <3>4 DEF UnitsSoFar
  <2>11. CASE Unlink(h)
    <3>1. PICK busy \in SUBSET (Stale(h) \intersect Mounted) :
             /\ units' = [p \in Points |-> IF p \in Stale(h) \ busy THEN NoUnit ELSE units[p]]
             /\ left' = (left \ Stale(h)) \union busy
      BY <2>11 DEF Unlink
    <3>2. UNCHANGED creds /\ x.pc = "unlink" /\ handlers'[h].pc = "arm"
      BY <1>1, <2>11 DEF Unlink, Forward, Going, Whole
    <3>3. \A c \in Configured(doc) : units'[c] = units[c] /\ (c \in left => c \in left')
      BY <2>4, <3>1 DEF Stale
    <3>4. \A c \in Configured(doc) \ left : Fits(c, doc)
      BY <2>0, <3>2 DEF UnitsSoFar
    <3>5. \A c \in Configured(doc) \ left' : Fits(c, doc)'
      BY <3>2, <3>3, <3>4, UntouchedFits
    <3>6. handlers'[h].blocked = x.blocked /\ x.blocked \subseteq left \intersect Wanted(h)
      BY <1>1, <3>2 DEF UnitsSoFar
    <3> QED
      BY <2>4, <3>2, <3>3, <3>5, <3>6
  <2>12. CASE Arm(h)
    <3>1. /\ units' = [p \in Points |-> IF p \in Wanted(h) \ x.blocked
                          THEN [units[p] EXCEPT !.armed = p \notin Manual] ELSE units[p]]
          /\ UNCHANGED <<creds, left>> /\ x.pc = "arm" /\ handlers'[h].pc = "done"
      BY <1>1, <2>12 DEF Arm, Forward, Going
    <3>2. x.blocked \subseteq left /\ \A c \in Configured(doc) \ left : Fits(c, doc)
      BY <2>0, <3>1 DEF UnitsSoFar
    <3>3. ASSUME NEW c \in Configured(doc), c \notin left PROVE Fits(c, doc)' /\ IsArmed(c)'
      <4>1. c \in Points /\ units'[c] = [units[c] EXCEPT !.armed = c \notin Manual]
        BY <2>4, <3>1, <3>2, <3>3
      <4>2. Fits(c, doc) /\ UNCHANGED creds
        BY <3>1, <3>2, <3>3
      <4> QED
        BY <1>0, <4>1, <4>2, ArmingFits
    <3> QED
      BY <3>1, <3>3
  <2> QED
    BY <2>6, <2>7, <2>8, <2>9, <2>10, <2>11, <2>12
    DEF HandlerActs, WritePassword, Save, Publish, Reload, Verify, TakeOwnership, Unserve
<1>2. CASE RollsBack(h)
  BY <1>2 DEF RollsBack, Going, UnitsSoFar
<1>3. ASSUME NEW reply, Ends(h, reply) PROVE FALSE
  BY <1>3 DEF Ends, Running
<1> QED
  BY <1>1, <1>2, <1>3, HandlerMoves DEF CommitBase

\* What is said of Samba is kept by what does not touch Samba.
LEMMA SambaStays ==
    ASSUME NEW doc, SambaIs(doc), UNCHANGED <<served, published, advertised, dirs>>
    PROVE  SambaIs(doc)'
  BY DEF SambaIs, Sections, Writable, Advertises

\* What is said of units is kept by what touches neither them nor the passwords of
\* the document's connections.
LEMMA UnitsStay ==
    ASSUME NEW doc, UnitsAre(doc), UNCHANGED <<units, left>>,
           \A c \in Configured(doc) : c \in creds <=> c \in creds'
    PROVE  UnitsAre(doc)'
<1>1. \A c \in Configured(doc) \ left' : Fits(c, doc)' /\ IsArmed(c)'
  BY UntouchedFits DEF UnitsAre
<1>2. Configured(doc)' = Configured(doc)
  BY DEF Configured
<1> QED
  BY <1>1, <1>2 DEF UnitsAre

\* A handler that goes on with nothing done yet leaves what was applied.
LEMMA HandlerLeavesApplied ==
    ASSUME CommitBase, NEW h \in Handlers, HandlerActs(h), Saved(h), StillApplied(h), Running(h)'
    PROVE  StillApplied(h)'
<1> DEFINE x == handlers[h]
<1>0. Sensible(x) /\ Running(h)
  BY OnlyOneActs DEF CommitBase, SensibleInv
<1>1. CASE Forward(h) /\ handlers'[h].rolling = x.rolling /\ UNCHANGED <<current, swept>>
  <2>1. Req(h)' = Req(h)
    BY <1>1, ForwardKeeps
  <2> SUFFICES ASSUME current, x.pc = "password" \/ Req(h).op = "share.make_writable"
               PROVE  /\ handlers'[h].pc \in {"password", "save", "chown"} => SambaIs(config)'
                      /\ Req(h).op = "share.make_writable"
                         \/ (Req(h).op # "connection.set_credentials" /\ handlers'[h].pc = "save") => UnitsAre(config)'
    <3>1. handlers'[h].pc \in {"password", "save", "chown"} => x.pc = "password" /\ handlers'[h].pc = "save"
      BY <1>1 DEF Forward, Going, AfterServing
    <3> QED
      BY <1>1, <2>1, <3>1 DEF StillApplied
  <2>0. PICK doc : doc = config
    OBVIOUS
  <2>2. CASE x.pc = "password"
    <3>1. WritePassword(h)
      <4>1. ~Fail(h) /\ ~Finish(h)
        BY <2>2 DEF Fail, CannotGoOn, Finish
      <4>2. ~Fault(h)
        <5>1. Undo(h) => Ends(h, "error")
          BY <2>2, UndoIs DEF CommitBase, RollsBack
        <5> QED
          BY <5>1 DEF Fault, Ends, Running
      <4> QED
        BY <2>2, <4>1, <4>2 DEF HandlerActs, Save, Publish, Reload, Verify, TakeOwnership, Unserve, WriteUnits,
           Disarm, Unlink, Arm
    <3>2. UNCHANGED <<config, served, published, advertised, dirs, units, left>> /\ creds' = creds \union {Req(h).on}
      BY <3>1 DEF WritePassword
    <3>3. ~x.rolling /\ Req(h).op \in {"connection.add", "connection.set_credentials"}
      BY <1>0, <2>2 DEF Sensible, Running
    <3>4. SambaIs(doc) /\ UnitsAre(doc)
      BY <2>0, <2>2, <3>3 DEF StillApplied
    <3>5. SambaIs(doc)'
      BY <3>2, <3>4, SambaStays
    <3>6. Req(h).op = "connection.add" => UnitsAre(doc)'
      <4>1. config = x.prev
        BY <2>2, <3>3 DEF Saved, Unsaved
      <4>2. Req(h).op = "connection.add" => Req(h).on \notin Configured(doc)
        BY <1>0, <2>0, <4>1 DEF Sensible, Running
      <4>3. Req(h).op = "connection.add" => \A c \in Configured(doc) : c \in creds <=> c \in creds'
        BY <3>2, <4>2
      <4> QED
        BY <3>2, <3>4, <4>3, UnitsStay
    <3>7. SambaIs(config)' = SambaIs(doc)' /\ UnitsAre(config)' = UnitsAre(doc)'
      BY <2>0, <3>2
    <3> QED
      BY <3>3, <3>5, <3>6, <3>7
  <2>3. CASE Req(h).op = "share.make_writable" /\ x.pc # "password"
    <3>1. x.pc \notin UnitSteps /\ x.pc \notin {"password", "save"}
      BY <1>0, <2>3 DEF Sensible, Running, Commits
    <3>2. UNCHANGED <<config, units, left, creds>>
      <4>1. ~Finish(h) /\ ~Fail(h) /\ ~Fault(h)
        <5>1. Undo(h) => FALSE
          BY <1>1, UndoIs DEF RollsBack, Ends, Running, CommitBase, SensibleInv, Sensible
        <5> QED
          BY <5>1, FinishIs DEF Fail, Fault, Ends, Running, CommitBase
      <4> QED
        BY <3>1, <4>1 DEF HandlerActs, WritePassword, Save, Publish, Reload, Verify, TakeOwnership, Unserve,
           WriteUnits, Disarm, Unlink, Arm, UnitSteps
    <3>3. UnitsAre(doc)'
      BY <2>0, <2>3, <3>2, UnitsStay DEF StillApplied
    <3>4. UnitsAre(config)' = UnitsAre(doc)'
      BY <2>0, <3>2
    <3>5. handlers'[h].pc \notin {"password", "save", "chown"}
      BY <1>1, <3>1 DEF Forward, Going, AfterServing
    <3> QED
      BY <2>3, <3>3, <3>4, <3>5
  <2> QED
    BY <2>2, <2>3
<1>2. CASE RollsBack(h)
  BY <1>2 DEF RollsBack, Going, StillApplied, Commits
<1>3. ASSUME NEW reply, Ends(h, reply) PROVE FALSE
  BY <1>3 DEF Ends, Running
<1> QED
  BY <1>1, <1>2, <1>3, HandlerMoves DEF CommitBase

\* A handler ends: made or undone, the machine is what the config says, or nobody
\* says so.
LEMMA EndingApplies ==
    ASSUME CommitBase, SavedInv, NEW h \in Handlers, HandlerActs(h),
           Alone(h) => SambaSoFar(h) /\ UnitsSoFar(h) /\ StillApplied(h), ~Running(h)', current'
    PROVE  SambaIs(config)' /\ UnitsAre(config)'
<1> DEFINE x == handlers[h]
<1>0. Sensible(x) /\ Running(h)
  BY OnlyOneActs DEF CommitBase, SensibleInv
<1>00. PICK doc : doc = config
  OBVIOUS
<1>1. CASE Finish(h)
  <2>1. /\ x.pc = "done" /\ UNCHANGED <<config, served, published, advertised, dirs, units, left>>
        /\ creds' = creds \ Forgets(h, ~x.rolling)
        /\ current' = IF Whole(h) THEN x.alone ELSE current /\ Req(h).op # "teardown"
    BY <1>1 DEF Finish
  <2>2. Alone(h) /\ Req(h).op # "teardown" /\ (Whole(h) \/ current)
    BY <1>0, <2>1 DEF CommitBase, ControlInv, Alone, Whole
  <2>3. Saved(h) /\ SambaSoFar(h) /\ UnitsSoFar(h) /\ StillApplied(h)
    BY <2>2 DEF SavedInv
  <2>4. config = Doc(h)
    BY <2>1, <2>3 DEF Saved, Unsaved
  <2>5. SambaIs(doc)
    BY <1>00, <2>1, <2>2, <2>3, <2>4 DEF SambaIs, SambaSoFar
  <2>6. UnitsAre(doc)
    <3>1. CASE Whole(h)
      BY <1>00, <2>1, <2>3, <2>4, <3>1 DEF UnitsSoFar, UnitsAre
    <3>2. CASE ~Whole(h)
      <4>1. Req(h).op = "share.make_writable" /\ current
        BY <2>2, <3>2 DEF Whole
      <4> QED
        BY <1>00, <2>3, <4>1 DEF StillApplied
    <3> QED
      BY <3>1, <3>2
  <2>7. \A c \in Configured(doc) : c \notin Forgets(h, ~x.rolling)
    <3>1. x.rolling \in BOOLEAN /\ doc = (IF x.rolling THEN x.prev ELSE x.next)
      BY <1>0, <1>00, <2>4 DEF Sensible, Doc
    <3>2. /\ Req(h).op = "connection.remove" => Req(h).on \notin Configured(x.next)
          /\ Req(h).op = "connection.add" => Req(h).on \notin Configured(x.prev)
      BY <1>0 DEF Sensible, Running
    <3>3. CASE x.rolling
      BY <3>1, <3>2, <3>3 DEF Forgets
    <3>4. CASE ~x.rolling
      BY <3>1, <3>2, <3>4 DEF Forgets
    <3> QED
      BY <3>3, <3>4
  <2>8. \A c \in Configured(doc) : c \in creds <=> c \in creds'
    BY <2>1, <2>7
  <2>9. SambaIs(doc)' /\ UnitsAre(doc)'
    BY <2>1, <2>5, <2>6, <2>8, SambaStays, UnitsStay
  <2> QED
    BY <1>00, <2>1, <2>9
<1>2. CASE Ends(h, "error") /\ (Fail(h) \/ Fault(h))
  <2>1. Undo(h) /\ UNCHANGED <<config, served, published, advertised, dirs>>
    BY <1>2 DEF Fail, Fault
  <2>2. ~(Commits(Req(h)) /\ ~x.rolling /\ x.pc \notin {"password", "save"})
    <3>1. ~RollsBack(h)
      BY <1>2 DEF Ends, RollsBack, Going
    <3> QED
      BY <2>1, <3>1, UndoIs DEF CommitBase
  <2>3. /\ current /\ x.pc \in {"password", "save", "chown"} /\ ~x.rolling
        /\ ~(x.pc = "save" /\ Req(h).op = "connection.set_credentials")
        /\ creds' = (IF x.pc = "password" THEN creds ELSE creds \ Forgets(h, FALSE))
    BY <2>1, <2>2 DEF Undo
  <2>4. UNCHANGED <<units, left>>
    BY <1>2, <2>1, <2>2, <2>3 DEF Fail, Fault, Undo
  <2>5. Saved(h) /\ StillApplied(h)
    BY <1>0, <2>3 DEF CommitBase, ControlInv, Alone, SavedInv
  <2>6. x.pc = "chown" => Req(h).op # "connection.set_credentials" /\ Req(h).op # "connection.add"
    BY <1>0 DEF Sensible, Running, Commits
  <2>7. SambaIs(doc) /\ UnitsAre(doc)
    BY <1>00, <2>3, <2>5, <2>6 DEF StillApplied
  <2>8. \A c \in Configured(doc) : c \in creds <=> c \in creds'
    <3>1. CASE x.pc \in {"password", "chown"}
      BY <2>3, <2>6, <3>1 DEF Forgets
    <3>2. CASE x.pc = "save"
      <4>1. doc = x.prev
        BY <1>00, <2>3, <2>5, <3>2 DEF Saved, Unsaved
      <4>2. Req(h).op = "connection.add" => Req(h).on \notin Configured(doc)
        BY <1>0, <4>1 DEF Sensible, Running
      <4> QED
        BY <2>3, <3>2, <4>2 DEF Forgets
    <3> QED
      BY <2>3, <3>1, <3>2
  <2>9. SambaIs(doc)' /\ UnitsAre(doc)'
    BY <2>1, <2>4, <2>7, <2>8, SambaStays, UnitsStay
  <2> QED
    BY <1>00, <2>1, <2>9
<1>3. ~Forward(h) /\ ~RollsBack(h)
  BY DEF Running, Forward, RollsBack, Going, AfterServing
<1> QED
  BY <1>1, <1>2, <1>3, HandlerMoves DEF CommitBase

\* Nothing that is applied changes where only handlers and mounts do.
LEMMA AppliedStays ==
    ASSUME UNCHANGED <<config, served, published, advertised, dirs, units, creds, left>>,
           SambaIs(config), UnitsAre(config)
    PROVE  SambaIs(config)' /\ UnitsAre(config)'
<1>1. PICK doc : doc = config
  OBVIOUS
<1>2. SambaIs(doc)' /\ UnitsAre(doc)'
  BY <1>1, SambaStays, UnitsStay
<1> QED
  BY <1>1, <1>2

\* A handler that takes a request finds what the last change left.
LEMMA TakingApplies ==
    ASSUME CommitBase, AppliedInv, NEW h \in Handlers, NEW r \in Requests, Start(h, r)
    PROVE  AppliedInv'
<1>1. UNCHANGED <<config, served, published, advertised, dirs, units, creds, left>>
  BY DEF Start
<1>2. SambaIs(config) /\ UnitsAre(config) => SambaIs(config)' /\ UnitsAre(config)'
  BY <1>1, AppliedStays
<1>3. CASE Ends(h, "error") /\ UNCHANGED history
  <2>1. \A g \in Handlers : /\ Running(g) <=> Running(g)'
                            /\ Alone(g)' => Alone(g) /\ handlers'[g] = handlers[g]
    BY <1>3 DEF Alone, Running, Ends, Start
  <2>2. Quiet' => Quiet
    BY <2>1 DEF Quiet
  <2>3. \A g \in Handlers : Alone(g)' => SambaSoFar(g)' /\ UnitsSoFar(g)' /\ StillApplied(g)'
    <3> SUFFICES ASSUME NEW g \in Handlers, Alone(g)'
                 PROVE  SambaSoFar(g)' /\ UnitsSoFar(g)' /\ StillApplied(g)'
      OBVIOUS
    <3>1. SambaSoFar(g) /\ UnitsSoFar(g) /\ StillApplied(g) /\ handlers'[g] = handlers[g]
      BY <2>1 DEF AppliedInv
    <3>2. SambaSoFar(g)'
      BY <1>1, <3>1 DEF SambaSoFar, Doc, Sections, Writable, Advertises
    <3>3. UnitsSoFar(g)'
      BY <1>1, <3>1 DEF UnitsSoFar, Whole, Doc, Configured, Fits, IsArmed, Wanted
    <3>4. current' = current
      BY <1>3
    <3>5. StillApplied(g)'
      BY <1>1, <3>1, <3>4 DEF StillApplied, SambaIs, UnitsAre, Fits, IsArmed, Configured, Sections, Writable,
         Advertises
    <3> QED
      BY <3>2, <3>3, <3>5
  <2>4. current' = current
    BY <1>3
  <2> QED
    BY <1>2, <2>2, <2>3, <2>4 DEF AppliedInv
<1>4. CASE Takes(h, r)
  <2>1. FirstStep(r) \in {"publish", "unserve", "chown", "password", "save"} /\ handlers'[h].pc = FirstStep(r)
    BY <1>4 DEF FirstStep, Takes
  <2>2. ~Quiet'
    BY <2>1 DEF Quiet, Running
  <2>3. ASSUME NEW g \in Handlers, Alone(g)' PROVE SambaSoFar(g)' /\ UnitsSoFar(g)' /\ StillApplied(g)'
    <3>1. g = h /\ Busy = {}
      BY <1>4, <2>3 DEF Takes, Alone
    <3>2. Quiet
      BY <3>1 DEF Busy, Quiet, Running
    <3>3. current' => SambaIs(config)' /\ UnitsAre(config)'
      BY <1>2, <1>4, <3>2 DEF Takes, AppliedInv
    <3>4. SambaSoFar(h)' /\ UnitsSoFar(h)'
      BY <2>1 DEF SambaSoFar, UnitsSoFar, UnitSteps
    <3>5. StillApplied(h)'
      BY <3>3 DEF StillApplied
    <3> QED
      BY <3>1, <3>4, <3>5
  <2> QED
    BY <2>2, <2>3 DEF AppliedInv
<1> QED
  BY <1>3, <1>4, StartIs DEF CommitBase

\* Mounts come and go beside what is applied.
LEMMA OthersApply ==
    ASSUME AppliedInv, UNCHANGED <<config, samba, units, creds, handlers, history>>
    PROVE  AppliedInv'
<1>1. UNCHANGED <<config, served, published, advertised, dirs, units, creds, left, current, handlers>>
  OBVIOUS
<1>2. \A g \in Handlers : SambaSoFar(g) => SambaSoFar(g)'
  BY <1>1 DEF SambaSoFar, Doc, Sections, Writable, Advertises
<1>3. \A g \in Handlers : UnitsSoFar(g) => UnitsSoFar(g)'
  BY <1>1 DEF UnitsSoFar, Whole, Doc, Configured, Fits, IsArmed, Wanted
<1>4. SambaIs(config) => SambaIs(config)'
  BY <1>1 DEF SambaIs, Sections, Writable, Advertises
<1>5. UnitsAre(config) => UnitsAre(config)'
  BY <1>1 DEF UnitsAre, Fits, IsArmed, Configured
<1>6. \A g \in Handlers : StillApplied(g) => StillApplied(g)'
  BY <1>1, <1>4, <1>5 DEF StillApplied
<1>7. (Quiet' <=> Quiet) /\ \A g \in Handlers : Alone(g)' <=> Alone(g)
  BY <1>1 DEF Quiet, Alone, Running
<1> QED
  BY <1>1, <1>2, <1>3, <1>4, <1>5, <1>6, <1>7 DEF AppliedInv

\* Every step keeps what is known to be applied.
LEMMA NextApplies ==
    ASSUME MarkInv, CommitBase, SavedInv, AppliedInv, [Next]_vars
    PROVE  AppliedInv'
<1>1. CASE Crash
  <2>1. /\ UNCHANGED <<config, served, published, dirs, units, creds, left>>
        /\ advertised' = Advertises(config) /\ current' = (current /\ Busy = {})
    BY <1>1 DEF Crash
  <2>2. \A h \in Handlers : ~Running(h)'
    BY <1>1, CrashIsIdle
  <2>3. current' => Quiet /\ current
    BY <2>1 DEF Busy, Quiet, Running
  <2>4. current' => advertised' = advertised /\ SambaIs(config) /\ UnitsAre(config)
    BY <2>1, <2>3 DEF AppliedInv, SambaIs
  <2>5. current' => SambaIs(config)' /\ UnitsAre(config)'
    BY <2>1, <2>4, AppliedStays
  <2> QED
    BY <2>2, <2>5 DEF AppliedInv, Alone
<1>2. ASSUME NEW h \in Handlers, NEW r \in Requests, Start(h, r) PROVE AppliedInv'
  BY <1>2, TakingApplies
<1>3. ASSUME NEW h \in Handlers, HandlerActs(h) PROVE AppliedInv'
  <2>1. Running(h) /\ (Alone(h)' => Alone(h)) /\ \A g \in Handlers \ {h} : ~Alone(g)'
    BY <1>3, OnlyOneActs DEF CommitBase
  <2>2. Alone(h) => SambaSoFar(h) /\ UnitsSoFar(h) /\ StillApplied(h) /\ Saved(h)
    BY DEF AppliedInv, SavedInv
  <2>3. Alone(h)' => SambaSoFar(h)' /\ UnitsSoFar(h)' /\ StillApplied(h)'
    <3> SUFFICES ASSUME Alone(h)' PROVE SambaSoFar(h)' /\ UnitsSoFar(h)' /\ StillApplied(h)'
      OBVIOUS
    <3>1. Running(h)' /\ SambaSoFar(h) /\ UnitsSoFar(h) /\ StillApplied(h) /\ Saved(h)
      BY <2>1, <2>2 DEF Alone
    <3> QED
      BY <1>3, <3>1, HandlerServesDoc, HandlerWritesDoc, HandlerLeavesApplied
  <2>4. Quiet' => ~Running(h)'
    BY DEF Quiet
  <2>5. Quiet' /\ current' => SambaIs(config)' /\ UnitsAre(config)'
    BY <1>3, <2>2, <2>4, EndingApplies
  <2> QED
    BY <2>1, <2>3, <2>5 DEF AppliedInv
<1>4. CASE UNCHANGED <<config, samba, units, creds, handlers, history>>
  BY <1>4, OthersApply
<1>5. CASE \E c \in Conns : Mount(c) \/ Unmount(c) \/ Plug(c) \/ Unplug(c)
  BY <1>4, <1>5 DEF Mount, Unmount, Plug, Unplug
<1>6. CASE UNCHANGED vars
  BY <1>4, <1>6 DEF vars
<1> QED
  BY <1>1, <1>2, <1>3, <1>5, <1>6 DEF Next, HandlerActs

\* Handlers._commit: after a change that ran to its end with the daemon to itself,
\* made or undone, and whatever was refused, mounted, plugged or crashed since,
\* Samba serves the shares of the config and each connection has the units that
\* the config describes, but where a mountpoint was somebody else's.
THEOREM AppliedIsSo == Spec => []ConfigIsApplied
<1>1. Init => AppliedInv
  BY DEF Init, AppliedInv, Alone, Running, Idle
<1>2. AppliedInv => ConfigIsApplied
  <2> SUFFICES ASSUME AppliedInv, Busy = {}, current
               PROVE  /\ served = published /\ {x.share : x \in served} = config.shares
                      /\ \A x \in served : x.writable = Writable(dirs[x.share])
                      /\ advertised = Advertises(config)
                      /\ \A c \in Configured(config) \ left :
                            /\ units[c].mount /\ units[c].auto /\ units[c].armed = (c \notin Manual)
                            /\ units[c].swapped = config.conns[c].swapped
                            /\ units[c].ref = (config.conns[c].ref /\ c \in creds)
    BY DEF ConfigIsApplied
  <2>1. Quiet
    BY DEF Quiet, Busy, Running
  <2>2. SambaIs(config) /\ UnitsAre(config)
    BY <2>1 DEF AppliedInv
  <2>3. served = {[share |-> s, writable |-> Writable(dirs[s])] : s \in config.shares}
    BY <2>2 DEF SambaIs, Sections
  <2>4. {x.share : x \in served} = config.shares
    <3>1. ASSUME NEW s \in config.shares PROVE s \in {x.share : x \in served}
      <4>1. [share |-> s, writable |-> Writable(dirs[s])] \in served
        BY <2>3
      <4> QED
        BY <4>1
    <3>2. ASSUME NEW x \in served PROVE x.share \in config.shares
      BY <2>3
    <3>3. {x.share : x \in served} \subseteq config.shares
      BY <3>2
    <3>4. config.shares \subseteq {x.share : x \in served}
      BY <3>1
    <3> QED
      BY <3>3, <3>4
  <2>5. \A x \in served : x.writable = Writable(dirs[x.share])
    BY <2>3
  <2>6. \A c \in Configured(config) \ left :
            /\ units[c].mount /\ units[c].auto /\ units[c].armed = (c \notin Manual)
            /\ units[c].swapped = config.conns[c].swapped
            /\ units[c].ref = (config.conns[c].ref /\ c \in creds)
    BY <2>2 DEF UnitsAre, Fits, IsArmed
  <2> QED
    BY <2>2, <2>4, <2>5, <2>6 DEF SambaIs
<1>3. ServesInv /\ CommitBase /\ SavedInv /\ [Next]_vars => CommitBase' /\ SavedInv'
  BY NextCommits
<1>4. MarkInv /\ CommitBase /\ SavedInv /\ AppliedInv /\ [Next]_vars => AppliedInv'
  BY NextApplies
<1> QED
  BY <1>1, <1>2, <1>3, <1>4, InitMarks, NextMarks, InitServes, NextServes, InitCommits, PTL DEF Spec
=============================================================================
