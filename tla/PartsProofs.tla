----------------------------- MODULE PartsProofs ------------------------------
(***************************************************************************)
(* Theorems about the smaller parts, for every value of their constants:   *)
(* what an install or an uninstall of the launch agent said stays true     *)
(* over deaths, logins and what Homebrew moves; the icon of the tray that  *)
(* is left tells the truth, in whatever order panel, window, daemon and    *)
(* other trays came and went; two connections of a config have neither a   *)
(* share nor a mountpoint in common; what `derive` and a row say of any    *)
(* reading and any share; and the types of all the parts together.         *)
(***************************************************************************)
EXTENDS MCParts, BelongingsProofs, ServingProofs, SequenceTheorems, FiniteSetTheorems, WellFoundedInduction, TLAPS

-----------------------------------------------------------------------------
(***************************************************************************)
(* The launch agent: the inductive invariant.                              *)
(***************************************************************************)
Jobs  == [program : Programs, state : {"running", "scheduled", "stopped", "leaving"}]
Tools == [pc : {"write", "bootout", "gone", "bootstrap", "print", "unlink"},
          what : {"install", "uninstall"}, program : Programs, warned : BOOLEAN]

LaunchTypes ==
    /\ there \subseteq Programs /\ plist \in Programs \union {NoProgram} /\ socket \in BOOLEAN
    /\ job \in {NoJob} \union Jobs /\ tool \in {NoTool} \union Tools
    /\ reply \in {"nothing", "installed", "removed", "warned", "failed"}

\* Loaded from the plist that is on disk, and not told to go.
LoadedFromPlist == Loaded /\ job.program = plist /\ job.state # "leaving"

\* What a tool under way has made sure of: an install has written the plist before
\* it turns to launchd and finds only what it loaded itself, and an uninstall that
\* met no refusal unlinks the plist of a job that is gone.
ToolInv ==
    /\ tool # NoTool => reply = "nothing"
    /\ tool.pc \in {"write", "bootout", "gone"} => ~tool.warned
    /\ tool.pc \in {"bootout", "gone"} /\ tool.what = "install" => plist \in Programs
    /\ tool.pc \in {"bootstrap", "print"} => plist \in Programs
    /\ tool.pc = "print" => ~Loaded \/ LoadedFromPlist
    /\ tool.pc = "unlink" /\ ~tool.warned => ~Loaded

\* What was said last, in the form that the next login and the next death keep.
SaidInv ==
    /\ reply = "installed" => LoadedFromPlist
    /\ reply = "removed" => plist = NoProgram /\ ~Loaded /\ ~socket

LaunchInv == LaunchTypes /\ ToolInv /\ SaidInv

-----------------------------------------------------------------------------
\* A tool goes on: only its place changes.
LEMMA ToolGoesOn ==
    ASSUME NEW next \in {"bootout", "gone", "bootstrap", "print", "unlink"}, tool \in Tools, Then(next)
    PROVE  /\ tool' \in Tools /\ tool'.pc = next /\ tool'.what = tool.what
           /\ tool'.program = tool.program /\ tool'.warned = tool.warned /\ tool' # NoTool
<1>1. \A t \in Tools : t.pc \in {"write", "bootout", "gone", "bootstrap", "print", "unlink"}
  BY DEF Tools
<1>2. NoTool.pc = "none"
  BY DEF NoTool
<1>3. tool' \in Tools /\ tool'.pc = next /\ tool'.what = tool.what
      /\ tool'.program = tool.program /\ tool'.warned = tool.warned
  BY DEF Then, Tools
<1> QED
  BY <1>1, <1>2, <1>3

\* Where a tool can be.
LEMMA ToolIs ==
    ASSUME LaunchTypes
    PROVE  /\ NoTool.pc = "none" /\ NoJob.state = "none"
           /\ tool # NoTool => tool \in Tools
           /\ tool.pc # "none" => tool # NoTool
           /\ Loaded => job \in Jobs /\ job.state # "none"
           /\ \A j \in Jobs : j # NoJob
           /\ \A t \in Tools : t # NoTool /\ t.pc # "none"
<1>1. NoTool.pc = "none" /\ NoJob.state = "none"
  BY DEF NoTool, NoJob
<1>2. /\ \A t \in Tools : t.pc # "none"
      /\ \A j \in Jobs : j.state # "none"
  BY DEF Tools, Jobs
<1> QED
  BY <1>1, <1>2 DEF LaunchTypes, Loaded

\* launchd starts a program: a job of the program is loaded.
LEMMA StartedJob ==
    ASSUME NEW p \in Programs, StartOf(p), socket \in BOOLEAN
    PROVE  /\ job' \in Jobs /\ job'.program = p /\ job'.state \in {"running", "scheduled"}
           /\ job' # NoJob /\ socket' \in BOOLEAN
<1>1. job' \in Jobs /\ job'.program = p /\ job'.state \in {"running", "scheduled"}
  BY DEF StartOf, Jobs
<1>2. NoJob.state = "none"
  BY DEF NoJob
<1>3. socket' \in BOOLEAN
  BY DEF StartOf
<1> QED
  BY <1>1, <1>2, <1>3

\* The initial state.
LEMMA InitLaunch == LaunchInit => LaunchInv
<1> SUFFICES ASSUME LaunchInit PROVE LaunchInv
  OBVIOUS
<1>1. LaunchTypes
  BY DEF LaunchInit, LaunchTypes
<1>2. tool.pc = "none"
  BY DEF LaunchInit, NoTool
<1> QED
  BY <1>1, <1>2 DEF LaunchInit, LaunchInv, ToolInv, SaidInv

\* A command is refused or starts a tool.
LEMMA CommandKeeps ==
    ASSUME LaunchInv, NEW what \in {"install", "uninstall"}, NEW program \in Programs,
           Command(what, program)
    PROVE  LaunchInv'
<1> USE DEF LaunchInv
<1>1. CASE what = "install" /\ program \notin there
  <2>1. tool' = NoTool /\ reply' = "failed" /\ UNCHANGED <<there, plist, job, socket>>
    BY <1>1 DEF Command, Ends
  <2>2. tool'.pc = "none"
    BY <2>1, ToolIs
  <2> QED
    BY <2>1, <2>2 DEF LaunchTypes, ToolInv, SaidInv
<1>2. CASE ~(what = "install" /\ program \notin there)
  <2> DEFINE t == [pc |-> IF what = "install" THEN "write" ELSE "bootout", what |-> what,
                   program |-> program, warned |-> FALSE]
  <2>1. t \in Tools /\ t.pc \in {"write", "bootout"} /\ ~t.warned
        /\ (t.pc = "bootout" => t.what # "install")
    BY DEF Tools
  <2>2. tool' = t /\ reply' = "nothing" /\ UNCHANGED <<there, plist, job, socket>>
    BY <1>2 DEF Command
  <2> HIDE DEF t
  <2> QED
    BY <2>1, <2>2 DEF LaunchTypes, ToolInv, SaidInv
<1> QED
  BY <1>1, <1>2

\* A tool that ends without having done its work says so.
LEMMA EndsSaying ==
    ASSUME LaunchInv, NEW say \in {"warned", "failed"}, Ends(say), UNCHANGED <<there, job>>,
           plist' \in {plist, NoProgram}, socket' \in BOOLEAN
    PROVE  LaunchInv'
<1>1. tool' = NoTool /\ tool'.pc = "none" /\ reply' = say
  BY ToolIs DEF Ends, LaunchInv
<1> QED
  BY <1>1 DEF LaunchInv, LaunchTypes, ToolInv, SaidInv

\* The steps of an install and of an uninstall.
LEMMA ToolKeeps ==
    ASSUME LaunchInv, WritePlist \/ Bootout \/ AwaitGone \/ Bootstrap \/ Check \/ Unlink
    PROVE  LaunchInv'
<1> USE DEF LaunchInv
<1>1. tool \in Tools /\ tool # NoTool /\ reply = "nothing"
  BY ToolIs DEF WritePlist, Bootout, AwaitGone, Bootstrap, Check, Unlink, Step, ToolInv
<1>2. CASE WritePlist
  <2>1. CASE plist' = tool.program /\ Then("bootout")
    <3>1. UNCHANGED <<there, job, socket, reply>> /\ plist' \in Programs /\ ~tool.warned
      BY <1>1, <1>2, <2>1 DEF WritePlist, Step, Then, Tools, ToolInv
    <3> QED
      BY <1>1, <1>2, <2>1, <3>1, ToolGoesOn DEF WritePlist, LaunchTypes, ToolInv, SaidInv
  <2>2. CASE Ends("failed") /\ UNCHANGED plist
    BY <1>2, <2>2, EndsSaying DEF WritePlist, LaunchTypes
  <2> QED
    BY <1>2, <2>1, <2>2 DEF WritePlist
<1>3. CASE Bootout
  <2>1. tool.pc = "bootout" /\ ~tool.warned /\ (tool.what = "install" => plist \in Programs)
    BY <1>3 DEF Bootout, Step, ToolInv
  <2>2. /\ AfterBootout \in {"bootstrap", "unlink"}
        /\ AfterBootout = "bootstrap" <=> tool.what = "install"
    BY DEF AfterBootout
  <2>3. CASE ~Loaded /\ Then(AfterBootout) /\ UNCHANGED job
    <3>1. UNCHANGED <<there, plist, socket, reply>>
      BY <1>3, <2>3 DEF Bootout, Then
    <3> QED
      BY <1>1, <2>1, <2>2, <2>3, <3>1, ToolGoesOn DEF LaunchTypes, ToolInv, SaidInv, Loaded
  <2>4. CASE Loaded /\ job' = [job EXCEPT !.state = "leaving"] /\ Then("gone")
    <3>1. UNCHANGED <<there, plist, socket, reply>>
      BY <1>3, <2>4 DEF Bootout, Then
    <3>2. job' \in Jobs
      BY <2>4, ToolIs DEF Jobs
    <3> QED
      BY <1>1, <2>1, <2>4, <3>1, <3>2, ToolGoesOn DEF LaunchTypes, ToolInv, SaidInv
  <2>5. CASE /\ UNCHANGED <<job, reply>>
             /\ tool' = [tool EXCEPT !.pc = AfterBootout, !.warned = TRUE]
    <3> DEFINE t == [tool EXCEPT !.pc = AfterBootout]
    <3>1. t \in Tools /\ t.pc = AfterBootout /\ t.what = tool.what
      BY <1>1, <2>2 DEF Tools
    <3>2. tool' = [t EXCEPT !.warned = TRUE]
      BY <2>5
    <3> HIDE DEF t
    <3>3. tool' \in Tools /\ tool'.pc = AfterBootout /\ tool'.what = tool.what /\ tool'.warned
      BY <3>1, <3>2 DEF Tools
    <3>4. UNCHANGED <<there, plist, socket, reply, job>>
      BY <1>3, <2>5 DEF Bootout
    <3> QED
      BY <1>1, <2>1, <2>2, <3>3, <3>4 DEF LaunchTypes, ToolInv, SaidInv
  <2> QED
    BY <1>3, <2>3, <2>4, <2>5 DEF Bootout
<1>4. CASE AwaitGone
  <2>1. tool.pc = "gone" /\ ~tool.warned /\ (tool.what = "install" => plist \in Programs)
    BY <1>4 DEF AwaitGone, Step, ToolInv
  <2>2. /\ AfterBootout \in {"bootstrap", "unlink"}
        /\ AfterBootout = "bootstrap" <=> tool.what = "install"
    BY DEF AfterBootout
  <2>3. CASE ~Loaded /\ Then(AfterBootout)
    <3>1. UNCHANGED <<there, plist, job, socket, reply>>
      BY <1>4, <2>3 DEF AwaitGone, Then
    <3> QED
      BY <1>1, <2>1, <2>2, <2>3, <3>1, ToolGoesOn DEF LaunchTypes, ToolInv, SaidInv, Loaded
  <2>4. CASE Ends("failed")
    BY <1>4, <2>4, EndsSaying DEF AwaitGone, LaunchTypes
  <2> QED
    BY <1>4, <2>3, <2>4 DEF AwaitGone
<1>5. CASE Bootstrap
  <2>1. tool.pc = "bootstrap" /\ plist \in Programs
    BY <1>5 DEF Bootstrap, Step, ToolInv
  <2>2. CASE ~Loaded /\ StartOf(plist) /\ Then("print")
    <3>1. UNCHANGED <<there, plist, reply>>
      BY <1>5, <2>2 DEF Bootstrap, Then
    <3>2. /\ job' \in Jobs /\ job'.program = plist' /\ job'.state # "leaving"
          /\ job' # NoJob /\ socket' \in BOOLEAN
      BY <2>1, <2>2, <3>1, StartedJob DEF LaunchTypes
    <3> QED
      BY <1>1, <2>1, <2>2, <3>1, <3>2, ToolGoesOn DEF LaunchTypes, ToolInv, SaidInv, Loaded,
         LoadedFromPlist
  <2>3. CASE ~Loaded /\ Then("print") /\ UNCHANGED <<job, socket>>
    <3>1. UNCHANGED <<there, plist, reply>>
      BY <1>5, <2>3 DEF Bootstrap, Then
    <3> QED
      BY <1>1, <2>1, <2>3, <3>1, ToolGoesOn DEF LaunchTypes, ToolInv, SaidInv, Loaded
  <2>4. CASE Ends("failed") /\ UNCHANGED <<job, socket>>
    BY <1>5, <2>4, EndsSaying DEF Bootstrap, LaunchTypes
  <2> QED
    BY <1>5, <2>2, <2>3, <2>4 DEF Bootstrap
<1>6. CASE Check
  <2>1. UNCHANGED <<there, plist, job, socket>> /\ tool.pc = "print"
    BY <1>6 DEF Check, Step
  <2>2. CASE ~Loaded
    BY <1>6, <2>1, <2>2, EndsSaying DEF Check, LaunchTypes
  <2>3. CASE Loaded
    <3>1. tool' = NoTool /\ tool'.pc = "none" /\ reply' = "installed"
      BY <1>6, <2>3, ToolIs DEF Check, Ends
    <3>2. LoadedFromPlist'
      BY <2>1, <2>3 DEF ToolInv, LoadedFromPlist, Loaded
    <3> QED
      BY <2>1, <3>1, <3>2 DEF LaunchTypes, ToolInv, SaidInv
  <2> QED
    BY <2>2, <2>3
<1>7. CASE Unlink
  <2>1. UNCHANGED <<there, job>> /\ plist' = NoProgram /\ socket' = FALSE /\ tool.pc = "unlink"
    BY <1>7 DEF Unlink, Step
  <2>2. CASE tool.warned
    BY <1>7, <2>1, <2>2, EndsSaying DEF Unlink
  <2>3. CASE ~tool.warned
    <3>1. tool' = NoTool /\ tool'.pc = "none" /\ reply' = "removed"
      BY <1>7, <2>3, ToolIs DEF Unlink, Ends
    <3>2. ~Loaded'
      BY <2>1, <2>3 DEF ToolInv, Loaded
    <3> QED
      BY <2>1, <3>1, <3>2 DEF LaunchTypes, ToolInv, SaidInv
  <2> QED
    BY <2>2, <2>3
<1> QED
  BY <1>2, <1>3, <1>4, <1>5, <1>6, <1>7

\* launchd, Homebrew and the person.
LEMMA OthersKeepLaunch ==
    ASSUME LaunchInv,
           \/ Leaves \/ Exits \/ Respawns \/ Login
           \/ \E program \in Programs : Moves(program)
    PROVE  LaunchInv'
<1> USE DEF LaunchInv
<1>1. CASE Leaves
  <2>1. /\ UNCHANGED <<there, plist, tool, reply>> /\ job.state = "leaving" /\ job' = NoJob
        /\ socket' = FALSE
    BY <1>1 DEF Leaves
  <2>2. reply # "installed"
    BY <2>1 DEF SaidInv, LoadedFromPlist
  <2> QED
    BY <2>1, <2>2 DEF LaunchTypes, ToolInv, SaidInv, Loaded
<1>2. ASSUME UNCHANGED <<there, plist, tool, reply>>, Loaded, job' \in Jobs, job.state # "leaving",
             job'.program = job.program, job'.state # "leaving", socket' \in BOOLEAN
      PROVE  LaunchInv'
  <2>1. Loaded'
    BY <1>2, ToolIs DEF Loaded
  <2>2. LoadedFromPlist => LoadedFromPlist'
    BY <1>2, <2>1 DEF LoadedFromPlist
  <2>3. reply # "removed"
    BY <1>2 DEF SaidInv
  <2> QED
    BY <1>2, <2>1, <2>2, <2>3 DEF LaunchTypes, ToolInv, SaidInv
<1>3. CASE Exits
  <2>1. /\ UNCHANGED <<there, plist, tool, reply>> /\ job.state = "running"
        /\ socket' \in BOOLEAN
        /\ \E state \in {"scheduled", "stopped"} : job' = [job EXCEPT !.state = state]
    BY <1>3 DEF Exits, LaunchTypes
  <2>2. Loaded /\ job \in Jobs
    BY <2>1, ToolIs DEF Loaded
  <2>3. job' \in Jobs /\ job'.program = job.program /\ job'.state # "leaving"
    BY <2>1, <2>2 DEF Jobs
  <2> QED
    BY <1>2, <2>1, <2>2, <2>3
<1>4. CASE Respawns
  <2>1. UNCHANGED <<there, plist, tool, reply>> /\ job.state = "scheduled" /\ StartOf(job.program)
    BY <1>4 DEF Respawns
  <2>2. Loaded /\ job \in Jobs
    BY <2>1, ToolIs DEF Loaded
  <2>3. job.program \in Programs
    BY <2>2 DEF Jobs
  <2> QED
    BY <1>2, <2>1, <2>2, <2>3, StartedJob DEF LaunchTypes
<1>5. CASE Login
  <2>1. UNCHANGED <<there, plist, tool, reply>> /\ tool.pc = "none"
    BY <1>5, ToolIs DEF Login
  <2>2. CASE plist = NoProgram
    <3>1. job' = NoJob /\ socket' = (socket /\ job.state = "scheduled")
      BY <1>5, <2>2 DEF Login
    <3>2. reply # "installed"
      <4>1. Loaded => job.program # NoProgram
        BY NoProgramIsNone, ToolIs DEF Jobs
      <4> QED
        BY <2>2, <4>1 DEF SaidInv, LoadedFromPlist
    <3> QED
      BY <2>1, <2>2, <3>1, <3>2 DEF LaunchTypes, ToolInv, SaidInv, Loaded
  <2>3. CASE plist # NoProgram
    <3>1. plist \in Programs /\ StartOf(plist)
      BY <1>5, <2>3 DEF Login, LaunchTypes
    <3>2. /\ job' \in Jobs /\ job'.program = plist' /\ job'.state # "leaving"
          /\ job' # NoJob /\ socket' \in BOOLEAN
      BY <2>1, <3>1, StartedJob DEF LaunchTypes
    <3> QED
      BY <2>1, <2>3, <3>2 DEF LaunchTypes, ToolInv, SaidInv, Loaded, LoadedFromPlist
  <2> QED
    BY <2>2, <2>3
<1>6. ASSUME NEW program \in Programs, Moves(program) PROVE LaunchInv'
  <2>1. there' \subseteq Programs /\ UNCHANGED <<plist, job, socket, tool, reply>>
    BY <1>6 DEF Moves, LaunchTypes
  <2> QED
    BY <2>1 DEF LaunchTypes, ToolInv, SaidInv, Loaded, LoadedFromPlist
<1> QED
  BY <1>1, <1>3, <1>4, <1>5, <1>6

\* Every step keeps the invariant.
LEMMA NextLaunch == LaunchInv /\ [LaunchNext]_launching => LaunchInv'
<1> SUFFICES ASSUME LaunchInv, [LaunchNext]_launching PROVE LaunchInv'
  OBVIOUS
<1>1. CASE UNCHANGED launching
  BY <1>1 DEF launching, LaunchInv, LaunchTypes, ToolInv, SaidInv, Loaded, LoadedFromPlist
<1> QED
  BY <1>1, CommandKeeps, ToolKeeps, OthersKeepLaunch DEF LaunchNext

\* What was installed is loaded from the plist of that install, whatever dies, logs
\* in or moves; what was removed is gone and does not come back (launchd.py,
\* install and uninstall).
THEOREM SaidIsSo == LaunchSpec => []AgentIsAsSaid
<1>1. LaunchInv => AgentIsAsSaid
  BY DEF LaunchInv, SaidInv, LoadedFromPlist, AgentIsAsSaid, Healthy
<1> QED
  BY <1>1, InitLaunch, NextLaunch, PTL DEF LaunchSpec

-----------------------------------------------------------------------------
(***************************************************************************)
(* The tray: the inductive invariant.                                      *)
(***************************************************************************)
OfDaemon  == {"lost", "back"}
OfTruth   == {"screen", "event"}
OfWatcher == {"appeared", "vanished"}
OfWindow  == {"gui appeared", "gui vanished"}
Mail == [kind : OfWatcher \union OfWindow \union OfDaemon \union {"name lost"}]
            \union [kind : OfTruth, wire : Wires]
Of(kinds) == {m \in Mail : m.kind \in kinds}

\* Whether mail of some sort is still to run, and whether whatever is wrong in
\* it is put right later on.
Waits(mail, sort) == \E i \in 1..Len(mail) : mail[i] \in sort
Settles(mail, wrong, right) ==
    \A i \in 1..Len(mail) : mail[i] \in wrong => \E j \in 1..Len(mail) : j > i /\ mail[j] \in right

\* What a tray believes is so, or it has still to run what says so; and what
\* says the contrary does not have the last word.
Believes(mail, yes, no, believed, so) ==
    IF so THEN Settles(mail, Of({no}), Of({yes})) /\ (believed \/ Waits(mail, Of({yes})))
    ELSE Settles(mail, Of({yes}), Of({no})) /\ (~believed \/ Waits(mail, Of({no})))

\* A row is of the connection there is, and its tone is of its state.
IsRow(row) == row.id = truth.id /\ row.tone = Tone(row.state)
Says(rows, state) == \E row \in rows : rows = {row} /\ IsRow(row) /\ row.state = state

\* The names on the bus: every change of them is in the mail.
MailInv(tray) ==
    /\ Believes(tray.mail, "appeared", "vanished", tray.watcher, bus.watcher)
    /\ Believes(tray.mail, "gui appeared", "gui vanished", tray.guiOpen, bus.gui)
    /\ Believes(tray.mail, "back", "lost", ~tray.offline, answering)

\* The daemon's word: a tray has it by now, or is still to hear it, or cannot
\* hear it because the daemon is down.  A tray without rows folds no event into
\* them.
Hears(tray) == tray.asking \/ Waits(tray.mail, Of({"back"})) \/ ~answering
OldWord == {m \in Of(OfTruth) : m.wire # truth}
Current == {m \in Of(OfTruth) : m.wire = truth}

TruthInv(tray) ==
    /\ tray.rows = {} \/ \E row \in tray.rows : tray.rows = {row} /\ IsRow(row)
    /\ tray.rows = {} => Hears(tray) \/ Waits(tray.mail, Of({"screen"}))
    /\ Hears(tray) \/ Settles(tray.mail, OldWord, Current)
    /\ Hears(tray) \/ Waits(tray.mail, Current) \/ Says(tray.rows, truth.state)

\* The icon: a tray that has heard that the daemon is back shows the old one
\* until it has the answer.
IndicatorInv(tray) ==
    /\ tray.offline => tray.indicator = OfflineIndicator
    /\ \/ tray.offline \/ tray.asking \/ Waits(tray.mail, Of({"screen", "lost"}))
       \/ tray.indicator = Indicator({}, tray.rows)

\* What the panel draws is the tray's, or the panel has been told otherwise.
PanelInv(tray, drawn) ==
    /\ drawn.listed => bus.watcher /\ tray.exported
    /\ (bus.watcher /\ tray.exported /\ ~Waits(tray.mail, Of({"appeared"}))) => drawn.listed
    /\ drawn.listed => drawn.told \/ drawn.status = tray.indicator.status
    /\ drawn.listed => (drawn.manage <=> ~tray.guiOpen)

\* Of two trays the older has been told that it lost the name.
SingleInv(t) == bus.tray = t \/ Waits(trays[t].mail, Of({"name lost"}))

IsTray(tray) ==
    /\ tray = [phase |-> tray.phase, exported |-> tray.exported, watcher |-> tray.watcher,
               guiOpen |-> tray.guiOpen, rows |-> tray.rows, offline |-> tray.offline,
               asking |-> tray.asking, indicator |-> tray.indicator, mail |-> tray.mail]
    /\ tray.phase \in {"none", "running", "gone"} /\ tray.mail \in Seq(Mail)
    /\ tray.exported \in BOOLEAN /\ tray.watcher \in BOOLEAN /\ tray.guiOpen \in BOOLEAN
    /\ tray.offline \in BOOLEAN /\ tray.asking \in BOOLEAN
IsDrawn(drawn) ==
    /\ drawn = [listed |-> drawn.listed, told |-> drawn.told, status |-> drawn.status,
                manage |-> drawn.manage]
    /\ drawn.listed \in BOOLEAN /\ drawn.told \in BOOLEAN /\ drawn.manage \in BOOLEAN

AroundInv ==
    /\ truth \in Wires /\ answering \in BOOLEAN
    /\ bus = [watcher |-> bus.watcher, gui |-> bus.gui, tray |-> bus.tray]
    /\ bus.watcher \in BOOLEAN /\ bus.gui \in BOOLEAN

RecordsInv ==
    /\ trays = [t \in Trays |-> trays[t]] /\ \A t \in Trays : IsTray(trays[t])
    /\ panel = [t \in Trays |-> panel[t]] /\ \A t \in Trays : IsDrawn(panel[t])
    /\ \A t \in Trays \ Alive : panel[t] = NotDrawn

TrayInv(t) ==
    /\ MailInv(trays[t]) /\ TruthInv(trays[t]) /\ IndicatorInv(trays[t])
    /\ PanelInv(trays[t], panel[t]) /\ SingleInv(t)

DesktopInv == AroundInv /\ RecordsInv /\ \A t \in Alive : TrayInv(t)

-----------------------------------------------------------------------------
(***************************************************************************)
(* The tray: what mail does to the invariant.                              *)
(***************************************************************************)
\* What is posted comes last.
LEMMA PostedLast ==
    ASSUME NEW mail \in Seq(Mail), NEW m \in Mail
    PROVE  /\ Append(mail, m) \in Seq(Mail)
           /\ \A sort : Waits(Append(mail, m), sort) <=> Waits(mail, sort) \/ m \in sort
           /\ \A wrong, right : Settles(mail, wrong, right) /\ m \notin wrong
                                    => Settles(Append(mail, m), wrong, right)
           /\ \A wrong, right : m \in right /\ m \notin wrong => Settles(Append(mail, m), wrong, right)
<1> DEFINE posted == Append(mail, m)
<1>1. /\ Len(posted) = Len(mail) + 1 /\ posted[Len(mail) + 1] = m /\ Len(mail) \in Nat
      /\ \A i \in 1..Len(mail) : posted[i] = mail[i]
      /\ posted \in Seq(Mail)
  OBVIOUS
<1> HIDE DEF posted
<1>2. ASSUME NEW sort PROVE Waits(posted, sort) <=> Waits(mail, sort) \/ m \in sort
  BY <1>1 DEF Waits
<1>3. ASSUME NEW wrong, NEW right, Settles(mail, wrong, right), m \notin wrong
      PROVE  Settles(posted, wrong, right)
  <2> SUFFICES ASSUME NEW i \in 1..Len(posted), posted[i] \in wrong
               PROVE  \E j \in 1..Len(posted) : j > i /\ posted[j] \in right
    BY DEF Settles
  <2>1. i \in 1..Len(mail)
    BY <1>1, <1>3
  <2>2. PICK j \in 1..Len(mail) : j > i /\ mail[j] \in right
    BY <1>1, <1>3, <2>1 DEF Settles
  <2> QED
    BY <1>1, <2>2
<1>4. ASSUME NEW wrong, NEW right, m \in right, m \notin wrong
      PROVE  Settles(posted, wrong, right)
  BY <1>1, <1>4 DEF Settles
<1> QED
  BY <1>1, <1>2, <1>3, <1>4 DEF posted

\* What is run came first.
LEMMA RunFirst ==
    ASSUME NEW mail \in Seq(Mail), mail # <<>>
    PROVE  /\ Head(mail) \in Mail /\ Tail(mail) \in Seq(Mail)
           /\ \A sort : Waits(mail, sort) <=> Waits(Tail(mail), sort) \/ Head(mail) \in sort
           /\ \A wrong, right : Settles(mail, wrong, right)
                  => /\ Settles(Tail(mail), wrong, right)
                     /\ Head(mail) \in wrong => Waits(Tail(mail), right)
<1> DEFINE rest == Tail(mail)
<1>1. /\ Len(mail) = Len(rest) + 1 /\ mail[1] = Head(mail) /\ Len(rest) \in Nat
      /\ \A i \in 1..Len(rest) : rest[i] = mail[i + 1]
      /\ rest \in Seq(Mail) /\ Head(mail) \in Mail
  OBVIOUS
<1> HIDE DEF rest
<1>2. ASSUME NEW k \in 1..Len(mail), k > 1 PROVE k - 1 \in 1..Len(rest) /\ mail[k] = rest[k - 1]
  <2>1. k - 1 \in 1..Len(rest) /\ (k - 1) + 1 = k
    BY <1>1, <1>2
  <2> QED
    BY <1>1, <2>1
<1>3. ASSUME NEW sort PROVE Waits(mail, sort) <=> Waits(rest, sort) \/ Head(mail) \in sort
  <2>1. Waits(rest, sort) => Waits(mail, sort)
    BY <1>1 DEF Waits
  <2>2. Waits(mail, sort) => Waits(rest, sort) \/ Head(mail) \in sort
    BY <1>1, <1>2 DEF Waits
  <2> QED
    BY <1>1, <2>1, <2>2 DEF Waits
<1>4. ASSUME NEW wrong, NEW right, Settles(mail, wrong, right)
      PROVE  Settles(rest, wrong, right) /\ (Head(mail) \in wrong => Waits(rest, right))
  <2>1. ASSUME NEW i \in 1..Len(rest), rest[i] \in wrong
        PROVE  \E j \in 1..Len(rest) : j > i /\ rest[j] \in right
    <3>1. i + 1 \in 1..Len(mail) /\ mail[i + 1] \in wrong
      BY <1>1, <2>1
    <3>2. PICK k \in 1..Len(mail) : k > i + 1 /\ mail[k] \in right
      BY <1>4, <3>1 DEF Settles
    <3>3. k - 1 \in 1..Len(rest) /\ mail[k] = rest[k - 1] /\ k - 1 > i
      BY <1>1, <1>2, <3>2
    <3> QED
      BY <3>2, <3>3
  <2>2. ASSUME Head(mail) \in wrong PROVE Waits(rest, right)
    <3>1. PICK k \in 1..Len(mail) : k > 1 /\ mail[k] \in right
      BY <1>1, <1>4, <2>2 DEF Settles
    <3> QED
      BY <1>2, <3>1 DEF Waits
  <2> QED
    BY <2>1, <2>2 DEF Settles
<1> QED
  BY <1>1, <1>3, <1>4 DEF rest

\* No mail says nothing.
LEMMA NoMail == \A sort, wrong, right : ~Waits(<<>>, sort) /\ Settles(<<>>, wrong, right)
  BY DEF Waits, Settles

\* A posted callback is of another kind,
LEMMA BelievesOther ==
    ASSUME NEW mail \in Seq(Mail), NEW m \in Mail, NEW yes, NEW no, m.kind # yes, m.kind # no,
           NEW believed, NEW so, Believes(mail, yes, no, believed, so)
    PROVE  Believes(Append(mail, m), yes, no, believed, so)
<1>1. m \notin Of({yes}) /\ m \notin Of({no})
  BY DEF Of
<1> QED
  BY <1>1, PostedLast DEF Believes

\* or says what is so.
LEMMA BelievesNew ==
    ASSUME NEW mail \in Seq(Mail), NEW m \in Mail, NEW yes, NEW no, yes # no,
           NEW believed, NEW so, m.kind = IF so THEN yes ELSE no
    PROVE  Believes(Append(mail, m), yes, no, believed, so)
<1>1. /\ m \in Of({yes}) <=> m.kind = yes
      /\ m \in Of({no}) <=> m.kind = no
  BY DEF Of
<1> QED
  BY <1>1, PostedLast DEF Believes

\* A callback that is run is believed.
Learns(m, yes, no, had, has) == IF m.kind \in {yes, no} THEN has <=> m.kind = yes ELSE has = had

\* The calls and the two messages are mail.
LEMMA MailTypes ==
    /\ \A kind \in OfWatcher \union OfWindow \union OfDaemon \union {"name lost"} :
          Call(kind) \in Mail /\ Call(kind).kind = kind
    /\ \A kind \in OfTruth, wire \in Wires : [kind |-> kind, wire |-> wire] \in Mail
    /\ \A m \in Mail : m.kind \in OfTruth => m.wire \in Wires
<1>1. ASSUME NEW kind \in OfWatcher \union OfWindow \union OfDaemon \union {"name lost"}
      PROVE  Call(kind) \in Mail /\ Call(kind).kind = kind
  BY <1>1 DEF Mail, Call
<1>2. ASSUME NEW kind \in OfTruth, NEW wire \in Wires
      PROVE  [kind |-> kind, wire |-> wire] \in Mail
  BY DEF Mail
<1>3. ASSUME NEW m \in Mail, m.kind \in OfTruth PROVE m.wire \in Wires
  <2>1. m \notin [kind : OfWatcher \union OfWindow \union OfDaemon \union {"name lost"}]
    BY <1>3 DEF OfTruth, OfWatcher, OfWindow, OfDaemon
  <2> QED
    BY <1>3, <2>1 DEF Mail
<1> QED
  BY <1>1, <1>2, <1>3

\* What a tray is after a callback, field by field.
AfterIs(tray, m, rest, new) ==
    /\ IsTray(new) /\ new.mail = rest /\ new.phase = tray.phase /\ new.exported = tray.exported
    /\ IF m.kind \in OfWatcher THEN new.watcher <=> m.kind = "appeared"
       ELSE new.watcher = tray.watcher
    /\ IF m.kind \in OfWindow THEN new.guiOpen <=> m.kind = "gui appeared"
       ELSE new.guiOpen = tray.guiOpen
    /\ IF m.kind \in OfDaemon THEN new.offline <=> m.kind = "lost"
       ELSE new.offline = tray.offline
    /\ new.asking <=> tray.asking \/ m.kind = "back"
    /\ new.rows = IF m.kind = "screen" THEN {ConnectionRow(m.wire)}
                  ELSE IF m.kind = "event" THEN ApplyEvent(tray.rows, m.wire) ELSE tray.rows
    /\ new.indicator = IF m.kind \notin OfTruth \union {"lost"} THEN tray.indicator
                       ELSE IF new.offline THEN OfflineIndicator ELSE Indicator({}, new.rows)

\* A callback changes a tray so.
LEMMA AfterFields ==
    ASSUME NEW tray, IsTray(tray), NEW m \in Mail, m.kind # "name lost", NEW rest \in Seq(Mail),
           NEW new, new = After([tray EXCEPT !.mail = rest], m)
    PROVE  AfterIs(tray, m, rest, new)
<1>1. PICK old : old = [tray EXCEPT !.mail = rest]
  OBVIOUS
<1>2. PICK ph, ex, wa, gu, ro, of, as, ind :
          /\ ph = tray.phase /\ ex = tray.exported /\ wa = tray.watcher /\ gu = tray.guiOpen
          /\ ro = tray.rows /\ of = tray.offline /\ as = tray.asking /\ ind = tray.indicator
  OBVIOUS
<1>3. /\ ph \in {"none", "running", "gone"} /\ ex \in BOOLEAN /\ wa \in BOOLEAN /\ gu \in BOOLEAN
      /\ of \in BOOLEAN /\ as \in BOOLEAN
  BY <1>2 DEF IsTray
<1>4. old = [phase |-> ph, exported |-> ex, watcher |-> wa, guiOpen |-> gu, rows |-> ro,
             offline |-> of, asking |-> as, indicator |-> ind, mail |-> rest]
  <2>1. PICK ma : tray = [phase |-> ph, exported |-> ex, watcher |-> wa, guiOpen |-> gu, rows |-> ro,
                          offline |-> of, asking |-> as, indicator |-> ind, mail |-> ma]
    BY <1>2 DEF IsTray
  <2> QED
    BY <1>1, <2>1
<1>5. new = After(old, m)
  BY <1>1
<1>6. ASSUME NEW yes \in BOOLEAN, m.kind = IF yes THEN "appeared" ELSE "vanished"
      PROVE  new = [phase |-> ph, exported |-> ex, watcher |-> yes, guiOpen |-> gu, rows |-> ro,
                    offline |-> of, asking |-> as, indicator |-> ind, mail |-> rest]
  <2>1. new = [old EXCEPT !.watcher = yes]
    <3>1. CASE yes = TRUE
      BY <1>5, <1>6, <3>1 DEF After
    <3>2. CASE yes = FALSE
      BY <1>5, <1>6, <3>2 DEF After
    <3> QED
      BY <3>1, <3>2
  <2> QED
    BY <1>4, <2>1
<1>7. ASSUME NEW yes \in BOOLEAN, m.kind = IF yes THEN "gui appeared" ELSE "gui vanished"
      PROVE  new = [phase |-> ph, exported |-> ex, watcher |-> wa, guiOpen |-> yes, rows |-> ro,
                    offline |-> of, asking |-> as, indicator |-> ind, mail |-> rest]
  <2>1. new = [old EXCEPT !.guiOpen = yes]
    <3>1. CASE yes = TRUE
      BY <1>5, <1>7, <3>1 DEF After
    <3>2. CASE yes = FALSE
      BY <1>5, <1>7, <3>2 DEF After
    <3> QED
      BY <3>1, <3>2
  <2> QED
    BY <1>4, <2>1
<1>8. ASSUME m.kind = "lost"
      PROVE  new = [phase |-> ph, exported |-> ex, watcher |-> wa, guiOpen |-> gu, rows |-> ro,
                    offline |-> TRUE, asking |-> as, indicator |-> OfflineIndicator, mail |-> rest]
  <2>1. PICK yes \in BOOLEAN : yes = TRUE
    OBVIOUS
  <2>2. PICK off : off = [old EXCEPT !.offline = yes]
    OBVIOUS
  <2>3. off = [phase |-> ph, exported |-> ex, watcher |-> wa, guiOpen |-> gu, rows |-> ro,
               offline |-> yes, asking |-> as, indicator |-> ind, mail |-> rest]
    BY <1>4, <2>2
  <2>4. new = Republished(off)
    BY <1>5, <1>8, <2>1, <2>2 DEF After
  <2>5. new = [off EXCEPT !.indicator = OfflineIndicator]
    BY <2>1, <2>3, <2>4 DEF Republished
  <2>6. PICK sign : sign = OfflineIndicator
    OBVIOUS
  <2> QED
    BY <2>1, <2>3, <2>5, <2>6
<1>9. ASSUME m.kind = "back"
      PROVE  new = [phase |-> ph, exported |-> ex, watcher |-> wa, guiOpen |-> gu, rows |-> ro,
                    offline |-> FALSE, asking |-> TRUE, indicator |-> ind, mail |-> rest]
  <2>1. PICK yes \in BOOLEAN, no \in BOOLEAN : yes = TRUE /\ no = FALSE
    OBVIOUS
  <2>2. PICK on : on = [old EXCEPT !.offline = no]
    OBVIOUS
  <2>3. on = [phase |-> ph, exported |-> ex, watcher |-> wa, guiOpen |-> gu, rows |-> ro,
              offline |-> no, asking |-> as, indicator |-> ind, mail |-> rest]
    BY <1>4, <2>2
  <2>4. new = [old EXCEPT !.offline = no, !.asking = yes]
    BY <1>5, <1>9, <2>1 DEF After
  <2>5. new = [on EXCEPT !.asking = yes]
    BY <2>2, <2>4
  <2> QED
    BY <2>1, <2>3, <2>5
<1>10. ASSUME NEW next, m.kind \in OfTruth,
              next = IF m.kind = "screen" THEN {ConnectionRow(m.wire)} ELSE ApplyEvent(ro, m.wire)
       PROVE  new = [phase |-> ph, exported |-> ex, watcher |-> wa, guiOpen |-> gu, rows |-> next,
                     offline |-> of, asking |-> as,
                     indicator |-> IF of THEN OfflineIndicator ELSE Indicator({}, next), mail |-> rest]
  <2>1. PICK with : with = [old EXCEPT !.rows = next]
    OBVIOUS
  <2>2. with = [phase |-> ph, exported |-> ex, watcher |-> wa, guiOpen |-> gu, rows |-> next,
                offline |-> of, asking |-> as, indicator |-> ind, mail |-> rest]
    BY <1>4, <2>1
  <2>3. old.rows = ro
    BY <1>4
  <2>4. new = Republished(with)
    <3>1. CASE m.kind = "screen"
      BY <1>5, <1>10, <2>1, <3>1 DEF After
    <3>2. CASE m.kind = "event"
      BY <1>5, <1>10, <2>1, <2>3, <3>2 DEF After
    <3> QED
      BY <1>10, <3>1, <3>2 DEF OfTruth
  <2>5. PICK sign : sign = IF of THEN OfflineIndicator ELSE Indicator({}, next)
    OBVIOUS
  <2>6. new = [with EXCEPT !.indicator = sign]
    BY <2>2, <2>4, <2>5 DEF Republished
  <2> QED
    BY <2>2, <2>5, <2>6
<1>11. /\ tray.phase = ph /\ tray.exported = ex /\ tray.watcher = wa /\ tray.guiOpen = gu
       /\ tray.rows = ro /\ tray.offline = of /\ tray.asking = as /\ tray.indicator = ind
  BY <1>2
<1> DEFINE Rec(a, b, c, d, e, f) ==
               [phase |-> ph, exported |-> ex, watcher |-> a, guiOpen |-> b, rows |-> c,
                offline |-> d, asking |-> e, indicator |-> f, mail |-> rest]
           Fields(n, a, b, c, d, e, f) ==
               /\ n.phase = ph /\ n.exported = ex /\ n.watcher = a /\ n.guiOpen = b /\ n.rows = c
               /\ n.offline = d /\ n.asking = e /\ n.indicator = f /\ n.mail = rest
<1>12. CASE m.kind \in OfWatcher
  <2>1. PICK yes \in BOOLEAN : m.kind = IF yes THEN "appeared" ELSE "vanished"
    BY <1>12 DEF OfWatcher
  <2>2. new = Rec(yes, gu, ro, of, as, ind)
    BY <1>6, <2>1
  <2>3. ASSUME NEW n, n = Rec(yes, gu, ro, of, as, ind) PROVE Fields(n, yes, gu, ro, of, as, ind)
    BY <2>3
  <2>4. Fields(new, yes, gu, ro, of, as, ind)
    BY <2>2, <2>3
  <2>5. IsTray(new)
    BY <1>3, <2>1, <2>2, <2>4 DEF IsTray
  <2> QED
    BY <1>3, <1>11, <1>12, <2>1, <2>4, <2>5 DEF AfterIs, OfWatcher, OfWindow, OfDaemon, OfTruth
<1>13. CASE m.kind \in OfWindow
  <2>1. PICK yes \in BOOLEAN : m.kind = IF yes THEN "gui appeared" ELSE "gui vanished"
    BY <1>13 DEF OfWindow
  <2>2. new = Rec(wa, yes, ro, of, as, ind)
    BY <1>7, <2>1
  <2>3. ASSUME NEW n, n = Rec(wa, yes, ro, of, as, ind) PROVE Fields(n, wa, yes, ro, of, as, ind)
    BY <2>3
  <2>4. Fields(new, wa, yes, ro, of, as, ind)
    BY <2>2, <2>3
  <2>5. IsTray(new)
    BY <1>3, <2>1, <2>2, <2>4 DEF IsTray
  <2> QED
    BY <1>3, <1>11, <1>13, <2>1, <2>4, <2>5 DEF AfterIs, OfWatcher, OfWindow, OfDaemon, OfTruth
<1>14. CASE m.kind = "lost"
  <2>1. PICK yes \in BOOLEAN : yes = TRUE
    OBVIOUS
  <2>2. PICK sign : sign = OfflineIndicator
    OBVIOUS
  <2>3. new = Rec(wa, gu, ro, yes, as, sign)
    BY <1>8, <1>14, <2>1, <2>2
  <2>4. ASSUME NEW n, n = Rec(wa, gu, ro, yes, as, sign) PROVE Fields(n, wa, gu, ro, yes, as, sign)
    BY <2>4
  <2>5. Fields(new, wa, gu, ro, yes, as, sign)
    BY <2>3, <2>4
  <2>6. IsTray(new)
    BY <1>3, <2>1, <2>2, <2>3, <2>5 DEF IsTray
  <2> QED
    BY <1>3, <1>11, <1>14, <2>1, <2>2, <2>5, <2>6 DEF AfterIs, OfWatcher, OfWindow, OfDaemon, OfTruth
<1>15. CASE m.kind = "back"
  <2>1. PICK yes \in BOOLEAN, no \in BOOLEAN : yes = TRUE /\ no = FALSE
    OBVIOUS
  <2>2. new = Rec(wa, gu, ro, no, yes, ind)
    BY <1>9, <1>15, <2>1
  <2>3. ASSUME NEW n, n = Rec(wa, gu, ro, no, yes, ind) PROVE Fields(n, wa, gu, ro, no, yes, ind)
    BY <2>3
  <2>4. Fields(new, wa, gu, ro, no, yes, ind)
    BY <2>2, <2>3
  <2>5. IsTray(new)
    BY <1>3, <2>1, <2>2, <2>4 DEF IsTray
  <2> QED
    BY <1>3, <1>11, <1>15, <2>1, <2>4, <2>5 DEF AfterIs, OfWatcher, OfWindow, OfDaemon, OfTruth
<1>16. CASE m.kind \in OfTruth
  <2>1. PICK next : next = IF m.kind = "screen" THEN {ConnectionRow(m.wire)} ELSE ApplyEvent(ro, m.wire)
    OBVIOUS
  <2>2. PICK sign : sign = IF of THEN OfflineIndicator ELSE Indicator({}, next)
    OBVIOUS
  <2>3. new = Rec(wa, gu, next, of, as, sign)
    BY <1>10, <1>16, <2>1, <2>2
  <2>4. ASSUME NEW n, n = Rec(wa, gu, next, of, as, sign) PROVE Fields(n, wa, gu, next, of, as, sign)
    BY <2>4
  <2>5. Fields(new, wa, gu, next, of, as, sign)
    BY <2>3, <2>4
  <2>6. IsTray(new)
    BY <1>3, <2>1, <2>3, <2>5 DEF IsTray
  <2> QED
    BY <1>3, <1>11, <1>16, <2>1, <2>2, <2>5, <2>6 DEF AfterIs, OfWatcher, OfWindow, OfDaemon, OfTruth
<1> QED
  BY <1>12, <1>13, <1>14, <1>15, <1>16 DEF Mail, OfWatcher, OfWindow, OfDaemon, OfTruth

\* A posted callback changes the mail of a tray and nothing else of it.
LEMMA PostedTray ==
    ASSUME NEW tray, IsTray(tray), NEW m \in Mail, NEW new, new = [tray EXCEPT !.mail = Append(@, m)]
    PROVE  /\ IsTray(new) /\ new.phase = tray.phase /\ new.exported = tray.exported
           /\ new.watcher = tray.watcher /\ new.guiOpen = tray.guiOpen /\ new.rows = tray.rows
           /\ new.offline = tray.offline /\ new.asking = tray.asking
           /\ new.indicator = tray.indicator /\ new.mail = Append(tray.mail, m)
<1>1. PICK mail : mail = Append(tray.mail, m)
  OBVIOUS
<1>2. mail \in Seq(Mail)
  BY <1>1 DEF IsTray
<1>3. new = [phase |-> tray.phase, exported |-> tray.exported, watcher |-> tray.watcher,
             guiOpen |-> tray.guiOpen, rows |-> tray.rows, offline |-> tray.offline,
             asking |-> tray.asking, indicator |-> tray.indicator, mail |-> mail]
  <2>1. new = [tray EXCEPT !.mail = mail]
    BY <1>1
  <2> QED
    BY <2>1 DEF IsTray
<1>4. /\ new.phase = tray.phase /\ new.exported = tray.exported
      /\ new.watcher = tray.watcher /\ new.guiOpen = tray.guiOpen /\ new.rows = tray.rows
      /\ new.offline = tray.offline /\ new.asking = tray.asking
      /\ new.indicator = tray.indicator /\ new.mail = mail
  BY <1>3
<1> QED
  BY <1>1, <1>2, <1>3, <1>4 DEF IsTray

-----------------------------------------------------------------------------
(***************************************************************************)
(* The tray: rows and the icon.                                            *)
(***************************************************************************)
\* A row of `status` is of the connection.
LEMMA RowOfStatus ==
    ASSUME AroundInv, NEW wire \in Wires
    PROVE  /\ IsRow(ConnectionRow(wire)) /\ ConnectionRow(wire).state = wire.state
<1>1. wire.id = truth.id
  BY OneConnection DEF AroundInv
<1> QED
  BY <1>1 DEF IsRow, ConnectionRow

\* An event is folded into the one row there is.
LEMMA RowOfEvent ==
    ASSUME AroundInv, NEW wire \in Wires, NEW row, IsRow(row)
    PROVE  /\ ApplyEvent({row}, wire) = {Folded(row, wire)}
           /\ IsRow(Folded(row, wire)) /\ Folded(row, wire).state = wire.state
<1>1. wire.id = row.id
  BY OneConnection DEF AroundInv, IsRow
<1>2. ApplyEvent({row}, wire) = {Folded(row, wire)}
  BY <1>1 DEF ApplyEvent
<1>3. /\ Folded(row, wire).id = row.id /\ Folded(row, wire).state = wire.state
      /\ Folded(row, wire).tone = Tone(wire.state)
  BY DEF Folded
<1> QED
  BY <1>2, <1>3 DEF IsRow

\* The icon is of the state and the tone of the one row.
LEMMA IconOfRow ==
    ASSUME NEW row, IsRow(row), row.state = truth.state
    PROVE  Indicator({}, {row}).status = Indicator({}, {ConnectionRow(truth)}).status
<1>1. PICK other : other = ConnectionRow(truth)
  OBVIOUS
<1>2. other.state = row.state /\ other.tone = row.tone
  BY <1>1 DEF IsRow, ConnectionRow
<1>3. ASSUME NEW r
      PROVE  Indicator({}, {r}).status = IF NeedsAttention(r) THEN "problem"
                                         ELSE IF r.state \in Connected THEN "ok" ELSE "idle"
  <2>1. {x \in {} \union {r} : NeedsAttention(x)} # {} <=> NeedsAttention(r)
    OBVIOUS
  <2>2. {x \in {} : x.state \in ServedStates} \union {x \in {r} : x.state \in Connected} # {}
            <=> r.state \in Connected
    OBVIOUS
  <2> QED
    BY <2>1, <2>2 DEF Indicator
<1>4. NeedsAttention(row) <=> NeedsAttention(other)
  BY <1>2 DEF NeedsAttention
<1> QED
  BY <1>1, <1>2, <1>3, <1>4

-----------------------------------------------------------------------------
(***************************************************************************)
(* The tray: its main loop.                                                *)
(***************************************************************************)
\* A callback that is run leaves the tray knowing what it should.
LEMMA RunKeepsTray ==
    ASSUME AroundInv, NEW tray, IsTray(tray), tray.mail # <<>>, Head(tray.mail).kind # "name lost",
           MailInv(tray), TruthInv(tray), IndicatorInv(tray),
           NEW new, new = After([tray EXCEPT !.mail = Tail(tray.mail)], Head(tray.mail))
    PROVE  IsTray(new) /\ MailInv(new) /\ TruthInv(new) /\ IndicatorInv(new)
<1>1. PICK m, rest : m = Head(tray.mail) /\ rest = Tail(tray.mail)
  OBVIOUS
<1>2. /\ m \in Mail /\ rest \in Seq(Mail) /\ m.kind # "name lost" /\ tray.mail \in Seq(Mail)
      /\ new = After([tray EXCEPT !.mail = rest], m)
  BY <1>1, RunFirst DEF IsTray
<1>3. /\ \A sort : Waits(tray.mail, sort) <=> Waits(rest, sort) \/ m \in sort
      /\ \A wrong, right : Settles(tray.mail, wrong, right)
             => Settles(rest, wrong, right) /\ (m \in wrong => Waits(rest, right))
  BY <1>1, <1>2, RunFirst
<1>4. AfterIs(tray, m, rest, new)
  BY <1>2, AfterFields
<1>5. /\ IsTray(new) /\ new.mail = rest /\ new.exported = tray.exported
      /\ IF m.kind \in OfWatcher THEN new.watcher <=> m.kind = "appeared"
         ELSE new.watcher = tray.watcher
      /\ IF m.kind \in OfWindow THEN new.guiOpen <=> m.kind = "gui appeared"
         ELSE new.guiOpen = tray.guiOpen
      /\ IF m.kind \in OfDaemon THEN new.offline <=> m.kind = "lost" ELSE new.offline = tray.offline
      /\ new.asking <=> tray.asking \/ m.kind = "back"
      /\ new.rows = IF m.kind = "screen" THEN {ConnectionRow(m.wire)}
                    ELSE IF m.kind = "event" THEN ApplyEvent(tray.rows, m.wire) ELSE tray.rows
      /\ new.indicator = IF m.kind \notin OfTruth \union {"lost"} THEN tray.indicator
                         ELSE IF new.offline THEN OfflineIndicator ELSE Indicator({}, new.rows)
  BY <1>4 DEF AfterIs
<1>6. /\ tray.watcher \in BOOLEAN /\ tray.guiOpen \in BOOLEAN /\ tray.offline \in BOOLEAN
      /\ new.watcher \in BOOLEAN /\ new.guiOpen \in BOOLEAN /\ new.offline \in BOOLEAN
      /\ tray.asking \in BOOLEAN /\ new.asking \in BOOLEAN
      /\ bus.watcher \in BOOLEAN /\ bus.gui \in BOOLEAN /\ answering \in BOOLEAN /\ truth \in Wires
  BY <1>5 DEF IsTray, AroundInv
<1>7. \A kinds : m \in Of(kinds) <=> m.kind \in kinds
  BY <1>2 DEF Of
<1>8. /\ Waits(tray.mail, Of({"back"})) <=> Waits(rest, Of({"back"})) \/ m.kind = "back"
      /\ Waits(tray.mail, Of({"screen"})) <=> Waits(rest, Of({"screen"})) \/ m.kind = "screen"
      /\ Waits(tray.mail, Of({"screen", "lost"}))
             <=> Waits(rest, Of({"screen", "lost"})) \/ m.kind \in {"screen", "lost"}
  <2>1. ASSUME NEW kinds PROVE Waits(tray.mail, Of(kinds)) <=> Waits(rest, Of(kinds)) \/ m.kind \in kinds
    BY <1>3, <1>7
  <2> QED
    BY <2>1
<1>9. "appeared" # "vanished" /\ "gui appeared" # "gui vanished" /\ "back" # "lost"
  OBVIOUS
<1>10. ASSUME NEW yes, NEW no
       PROVE  /\ Waits(tray.mail, Of({yes})) <=> Waits(rest, Of({yes})) \/ m.kind = yes
              /\ Settles(tray.mail, Of({no}), Of({yes}))
                    => Settles(rest, Of({no}), Of({yes})) /\ (m.kind = no => Waits(rest, Of({yes})))
  <2>1. /\ m \in Of({yes}) <=> m.kind = yes
        /\ m \in Of({no}) <=> m.kind = no
    BY <1>2 DEF Of
  <2>2. Waits(tray.mail, Of({yes})) <=> Waits(rest, Of({yes})) \/ m.kind = yes
    BY <1>3, <2>1
  <2>3. Settles(tray.mail, Of({no}), Of({yes}))
            => Settles(rest, Of({no}), Of({yes})) /\ (m.kind = no => Waits(rest, Of({yes})))
    BY <1>3, <2>1
  <2> QED
    BY <2>2, <2>3
<1>11. MailInv(new)
  <2>1. Believes(rest, "appeared", "vanished", new.watcher, bus.watcher)
    <3>1. Believes(tray.mail, "appeared", "vanished", tray.watcher, bus.watcher)
      BY DEF MailInv
    <3>2. PICK had \in BOOLEAN, has \in BOOLEAN, so \in BOOLEAN :
                had = tray.watcher /\ has = new.watcher /\ so = bus.watcher
      BY <1>6
    <3>3. Learns(m, "appeared", "vanished", had, has)
      BY <1>5, <1>6, <3>2 DEF Learns, OfWatcher
    <3>4. Believes(tray.mail, "appeared", "vanished", had, so)
      BY <3>1, <3>2
    <3>5. Believes(rest, "appeared", "vanished", has, so)
      BY <1>9, <1>10, <3>3, <3>4 DEF Believes, Learns
    <3> QED
      BY <3>2, <3>5
  <2>2. Believes(rest, "gui appeared", "gui vanished", new.guiOpen, bus.gui)
    <3>1. Believes(tray.mail, "gui appeared", "gui vanished", tray.guiOpen, bus.gui)
      BY DEF MailInv
    <3>2. PICK had \in BOOLEAN, has \in BOOLEAN, so \in BOOLEAN :
                had = tray.guiOpen /\ has = new.guiOpen /\ so = bus.gui
      BY <1>6
    <3>3. Learns(m, "gui appeared", "gui vanished", had, has)
      BY <1>5, <1>6, <3>2 DEF Learns, OfWindow
    <3>4. Believes(tray.mail, "gui appeared", "gui vanished", had, so)
      BY <3>1, <3>2
    <3>5. Believes(rest, "gui appeared", "gui vanished", has, so)
      BY <1>9, <1>10, <3>3, <3>4 DEF Believes, Learns
    <3> QED
      BY <3>2, <3>5
  <2>3. Believes(rest, "back", "lost", ~new.offline, answering)
    <3>1. Believes(tray.mail, "back", "lost", ~tray.offline, answering)
      BY DEF MailInv
    <3>2. PICK on \in BOOLEAN, next \in BOOLEAN, so \in BOOLEAN :
                (on <=> ~tray.offline) /\ (next <=> ~new.offline) /\ so = answering
      BY <1>6
    <3>3. Learns(m, "back", "lost", on, next)
      BY <1>5, <1>6, <3>2 DEF Learns, OfDaemon
    <3>4. Believes(tray.mail, "back", "lost", on, so)
      BY <3>1, <3>2, <1>6 DEF Believes
    <3>5. Believes(rest, "back", "lost", next, so)
      BY <1>9, <1>10, <3>3, <3>4 DEF Believes, Learns
    <3>6. next = ~new.offline
      BY <1>6, <3>2
    <3> QED
      BY <3>2, <3>5, <3>6
  <2> QED
    BY <1>5, <2>1, <2>2, <2>3 DEF MailInv
<1>12. Hears(tray) => Hears(new)
  BY <1>5, <1>6, <1>8 DEF Hears
<1>13. TruthInv(new)
  <2>1. CASE m.kind = "screen"
    <3>1. m.wire \in Wires
      BY <1>2, <2>1, MailTypes DEF OfTruth
    <3>2. PICK row : row = ConnectionRow(m.wire)
      OBVIOUS
    <3>3. IsRow(row) /\ row.state = m.wire.state /\ new.rows = {row}
      BY <1>5, <2>1, <3>1, <3>2, RowOfStatus
    <3>4. m \in OldWord <=> m.wire # truth
      BY <1>7, <2>1 DEF OldWord, OfTruth
    <3>5. Hears(new) \/ Settles(rest, OldWord, Current)
      BY <1>3, <1>12 DEF TruthInv
    <3>6. Hears(new) \/ Waits(rest, Current) \/ Says(new.rows, truth.state)
      BY <1>3, <1>12, <3>3, <3>4 DEF TruthInv, Says
    <3> QED
      BY <1>5, <3>3, <3>5, <3>6 DEF TruthInv
  <2>2. CASE m.kind = "event" /\ tray.rows = {}
    <3>1. new.rows = {}
      BY <1>5, <2>2 DEF ApplyEvent
    <3>2. Hears(new) \/ Waits(rest, Of({"screen"}))
      BY <1>12, <1>8, <2>2 DEF TruthInv
    <3>3. Hears(new) \/ Settles(rest, OldWord, Current)
      BY <1>3, <1>12 DEF TruthInv
    <3>4. m \in OldWord \/ m \in Current
      BY <1>7, <2>2 DEF OldWord, Current, OfTruth
    <3>5. ASSUME ~Hears(new) PROVE Waits(rest, Current)
      <4>1. ~Says(tray.rows, truth.state)
        BY <2>2 DEF Says
      <4>2. PICK i \in 1..Len(rest) : rest[i] \in Of({"screen"})
        BY <3>2, <3>5 DEF Waits
      <4>3. rest[i] \in OldWord \/ rest[i] \in Current
        BY <4>2 DEF OldWord, Current, Of, OfTruth
      <4> QED
        BY <3>3, <3>5, <4>2, <4>3 DEF Settles, Waits
    <3> QED
      BY <1>5, <3>1, <3>2, <3>3, <3>5 DEF TruthInv
  <2>3. CASE m.kind = "event" /\ tray.rows # {}
    <3>1. m.wire \in Wires
      BY <1>2, <2>3, MailTypes DEF OfTruth
    <3>2. PICK was : tray.rows = {was} /\ IsRow(was)
      BY <2>3 DEF TruthInv
    <3>3. PICK row : row = Folded(was, m.wire)
      OBVIOUS
    <3>4. IsRow(row) /\ row.state = m.wire.state /\ new.rows = {row}
      BY <1>5, <2>3, <3>1, <3>2, <3>3, RowOfEvent
    <3>5. m \in OldWord <=> m.wire # truth
      BY <1>7, <2>3 DEF OldWord, OfTruth
    <3>6. Hears(new) \/ Settles(rest, OldWord, Current)
      BY <1>3, <1>12 DEF TruthInv
    <3>7. Hears(new) \/ Waits(rest, Current) \/ Says(new.rows, truth.state)
      BY <1>3, <1>12, <3>4, <3>5 DEF TruthInv, Says
    <3> QED
      BY <1>5, <3>4, <3>6, <3>7 DEF TruthInv
  <2>4. CASE m.kind \notin OfTruth
    <3>1. m \notin Current /\ new.rows = tray.rows /\ m \notin Of({"screen"})
      BY <1>5, <1>7, <2>4 DEF Current, OfTruth
    <3>2. Hears(new) \/ Settles(rest, OldWord, Current)
      BY <1>3, <1>12 DEF TruthInv
    <3>3. Hears(new) \/ Waits(rest, Current) \/ Says(new.rows, truth.state)
      BY <1>3, <1>12, <3>1 DEF TruthInv
    <3>4. new.rows = {} => Hears(new) \/ Waits(rest, Of({"screen"}))
      BY <1>3, <1>12, <3>1 DEF TruthInv
    <3>5. new.rows = {} \/ \E row \in new.rows : new.rows = {row} /\ IsRow(row)
      BY <3>1 DEF TruthInv
    <3> QED
      BY <1>5, <3>2, <3>3, <3>4, <3>5 DEF TruthInv
  <2> QED
    BY <2>1, <2>2, <2>3, <2>4 DEF OfTruth
<1>14. IndicatorInv(new)
  <2>1. CASE m.kind \in OfTruth
    BY <1>5, <1>6, <2>1 DEF IndicatorInv, OfTruth, OfDaemon
  <2>2. CASE m.kind = "lost"
    BY <1>5, <1>6, <2>2 DEF IndicatorInv, OfTruth, OfDaemon
  <2>3. CASE m.kind = "back"
    BY <1>5, <1>6, <2>3 DEF IndicatorInv, OfTruth, OfDaemon
  <2>4. CASE m.kind \notin OfTruth \union OfDaemon
    BY <1>5, <1>6, <1>8, <2>4 DEF IndicatorInv, OfTruth, OfDaemon
  <2> QED
    BY <2>1, <2>2, <2>3, <2>4 DEF OfDaemon
<1> QED
  BY <1>5, <1>11, <1>13, <1>14

\* What the panel draws of a tray after a callback of it.
DrawnIs(t, old, tray, m, d) ==
    /\ IsDrawn(d)
    /\ IF m.kind = "appeared"
       THEN IF tray.exported /\ tray.watcher /\ bus.watcher
            THEN d.listed /\ ~d.told /\ d.status = tray.indicator.status /\ (d.manage <=> ~tray.guiOpen)
            ELSE d = panel[t]
       ELSE /\ d.listed = panel[t].listed /\ d.status = panel[t].status
            /\ IF m.kind \in OfWindow
               THEN /\ d.told = panel[t].told
                    /\ IF tray.exported /\ tray.guiOpen # old.guiOpen THEN d.manage <=> ~tray.guiOpen
                       ELSE d.manage = panel[t].manage
               ELSE /\ d.manage = panel[t].manage
                    /\ IF tray.exported /\ tray.indicator # old.indicator THEN d.told = panel[t].listed
                       ELSE d.told = panel[t].told

\* Of the others it draws what it drew.
DrawsSo(t, old, tray, m, next) ==
    /\ next = [u \in Trays |-> next[u]] /\ \A u \in Trays \ {t} : next[u] = panel[u]
    /\ DrawnIs(t, old, tray, m, next[t])

\* A callback tells the panel so.
LEMMA PanelFields ==
    ASSUME RecordsInv, NEW t \in Trays, NEW tray, NEW old, NEW m \in Mail, tray.guiOpen \in BOOLEAN,
           NEW next, next = PanelAfter(t, old, tray, m)
    PROVE  DrawsSo(t, old, tray, m, next)
<1>1. panel = [u \in Trays |-> panel[u]] /\ IsDrawn(panel[t])
  BY DEF RecordsInv
<1>2. PICK li, to, st, ma : /\ li = panel[t].listed /\ to = panel[t].told
                            /\ st = panel[t].status /\ ma = panel[t].manage
  OBVIOUS
<1>3. /\ panel[t] = [listed |-> li, told |-> to, status |-> st, manage |-> ma]
      /\ li \in BOOLEAN /\ to \in BOOLEAN /\ ma \in BOOLEAN
  BY <1>1, <1>2 DEF IsDrawn
<1>4. m.kind \in OfWindow => m.kind # "appeared"
  BY DEF OfWindow
<1>5. ASSUME NEW li1 \in BOOLEAN, NEW to1 \in BOOLEAN, NEW st1, NEW ma1 \in BOOLEAN, NEW d,
             d = [listed |-> li1, told |-> to1, status |-> st1, manage |-> ma1]
      PROVE  IsDrawn(d) /\ d.listed = li1 /\ d.told = to1 /\ d.status = st1 /\ d.manage = ma1
  BY <1>5 DEF IsDrawn
<1>6. ASSUME NEW d, next = [panel EXCEPT ![t] = d]
      PROVE  /\ next = [u \in Trays |-> next[u]] /\ \A u \in Trays \ {t} : next[u] = panel[u]
             /\ next[t] = d
  BY <1>1, <1>6
<1>7. CASE m.kind = "appeared" /\ tray.exported /\ tray.watcher /\ bus.watcher
  <2>1. PICK yes \in BOOLEAN, no \in BOOLEAN, manage \in BOOLEAN :
            yes = TRUE /\ no = FALSE /\ manage = ~tray.guiOpen
    OBVIOUS
  <2>2. PICK status : status = tray.indicator.status
    OBVIOUS
  <2>3. PICK d : d = [listed |-> yes, told |-> no, status |-> status, manage |-> manage]
    OBVIOUS
  <2>4. next = [panel EXCEPT ![t] = d]
    BY <1>7, <2>1, <2>2, <2>3 DEF PanelAfter, Announced, ManageEnabled
  <2>5. IsDrawn(d) /\ d.listed = yes /\ d.told = no /\ d.status = status /\ d.manage = manage
    BY <1>5, <2>3
  <2>6. DrawnIs(t, old, tray, m, d)
    BY <1>7, <2>1, <2>2, <2>5 DEF DrawnIs
  <2> QED
    BY <1>6, <2>4, <2>6 DEF DrawsSo
<1>8. CASE m.kind \in OfWindow /\ tray.exported /\ tray.guiOpen # old.guiOpen
  <2>1. PICK manage \in BOOLEAN : manage = ~tray.guiOpen
    OBVIOUS
  <2>2. PICK d : d = [panel[t] EXCEPT !.manage = manage]
    OBVIOUS
  <2>3. next = [panel EXCEPT ![t] = d]
    BY <1>4, <1>8, <2>1, <2>2 DEF PanelAfter, ManageEnabled, OfWindow
  <2>4. d = [listed |-> li, told |-> to, status |-> st, manage |-> manage]
    BY <1>3, <2>2
  <2>5. IsDrawn(d) /\ d.listed = li /\ d.told = to /\ d.status = st /\ d.manage = manage
    BY <1>3, <1>5, <2>4
  <2>6. DrawnIs(t, old, tray, m, d)
    BY <1>2, <1>4, <1>8, <2>1, <2>5 DEF DrawnIs
  <2> QED
    BY <1>6, <2>3, <2>6 DEF DrawsSo
<1>9. CASE /\ m.kind \notin OfWindow \union {"appeared"} /\ tray.exported
           /\ tray.indicator # old.indicator
  <2>1. PICK d : d = [panel[t] EXCEPT !.told = li]
    OBVIOUS
  <2>2. next = [panel EXCEPT ![t] = d]
    BY <1>2, <1>9, <2>1 DEF PanelAfter, Said, OfWindow
  <2>3. d = [listed |-> li, told |-> li, status |-> st, manage |-> ma]
    BY <1>3, <2>1
  <2>4. IsDrawn(d) /\ d.listed = li /\ d.told = li /\ d.status = st /\ d.manage = ma
    BY <1>3, <1>5, <2>3
  <2>5. DrawnIs(t, old, tray, m, d)
    BY <1>2, <1>9, <2>4 DEF DrawnIs
  <2> QED
    BY <1>6, <2>2, <2>5 DEF DrawsSo
<1>10. CASE /\ ~(m.kind = "appeared" /\ tray.exported /\ tray.watcher /\ bus.watcher)
            /\ ~(m.kind \in OfWindow /\ tray.exported /\ tray.guiOpen # old.guiOpen)
            /\ ~(m.kind \notin OfWindow \union {"appeared"} /\ tray.exported
                 /\ tray.indicator # old.indicator)
  <2>1. next = panel
    BY <1>10 DEF PanelAfter, Said, Announced, OfWindow
  <2>2. DrawnIs(t, old, tray, m, panel[t])
    BY <1>1, <1>4, <1>10 DEF DrawnIs
  <2> QED
    BY <1>1, <2>1, <2>2 DEF DrawsSo
<1> QED
  BY <1>7, <1>8, <1>9, <1>10

\* What it is told keeps what it draws right.
LEMMA RunKeepsPanel ==
    ASSUME AroundInv, RecordsInv, NEW t \in Trays, NEW old, NEW tray, NEW rest \in Seq(Mail),
           NEW m \in Mail, PanelInv(old, panel[t]), AfterIs(old, m, rest, tray), IsTray(old),
           \A sort : Waits(old.mail, sort) <=> Waits(rest, sort) \/ m \in sort,
           NEW d, DrawnIs(t, old, tray, m, d)
    PROVE  PanelInv(tray, d)
<1>1. m.kind # "appeared" => (Waits(old.mail, Of({"appeared"})) <=> Waits(rest, Of({"appeared"})))
  BY DEF Of
<1>2. /\ tray.mail = rest /\ tray.exported = old.exported
      /\ tray.exported \in BOOLEAN /\ tray.guiOpen \in BOOLEAN /\ tray.watcher \in BOOLEAN
      /\ old.guiOpen \in BOOLEAN /\ bus.watcher \in BOOLEAN
      /\ m.kind = "appeared" => tray.watcher
      /\ m.kind \notin OfWindow => tray.guiOpen = old.guiOpen
      /\ m.kind \notin OfTruth \union {"lost"} => tray.indicator = old.indicator
  BY DEF AfterIs, IsTray, AroundInv, OfWatcher
<1>3. /\ panel[t].listed \in BOOLEAN /\ panel[t].told \in BOOLEAN /\ panel[t].manage \in BOOLEAN
      /\ d.listed \in BOOLEAN /\ d.told \in BOOLEAN /\ d.manage \in BOOLEAN
  BY DEF RecordsInv, IsDrawn, DrawnIs
<1>4. CASE m.kind = "appeared"
  <2>1. m.kind \notin OfTruth \union {"lost"} \union OfWindow
    BY <1>4 DEF OfTruth, OfWindow
  <2> QED
    BY <1>2, <1>3, <1>4, <2>1 DEF PanelInv, DrawnIs
<1>5. CASE m.kind \in OfWindow
  <2>1. m.kind \notin OfTruth \union {"lost", "appeared"}
    BY <1>5 DEF OfTruth, OfWindow
  <2> QED
    BY <1>1, <1>2, <1>3, <1>5, <2>1 DEF PanelInv, DrawnIs
<1>6. CASE m.kind \notin OfWindow \union {"appeared"}
  BY <1>1, <1>2, <1>3, <1>6 DEF PanelInv, DrawnIs
<1> QED
  BY <1>4, <1>5, <1>6

-----------------------------------------------------------------------------
(***************************************************************************)
(* The tray: every step keeps the invariant.                               *)
(***************************************************************************)
\* A tray that a step does not touch is as it was.
LEMMA OtherTray ==
    ASSUME NEW u \in Trays, TrayInv(u), trays'[u] = trays[u], panel'[u] = panel[u],
           truth' = truth, answering' = answering, bus'.watcher = bus.watcher, bus'.gui = bus.gui,
           SingleInv(u)'
    PROVE  TrayInv(u)'
<1>1. MailInv(trays[u])'
  BY DEF TrayInv, MailInv
<1>2. TruthInv(trays[u])'
  BY DEF TrayInv, TruthInv, Hears, Says, IsRow, OldWord, Current
<1>3. IndicatorInv(trays[u])'
  BY DEF TrayInv, IndicatorInv
<1>4. PanelInv(trays[u], panel[u])'
  BY DEF TrayInv, PanelInv
<1> QED
  BY <1>1, <1>2, <1>3, <1>4 DEF TrayInv

\* A tray that is none, and a panel that draws none.
LEMMA Nobody ==
    /\ IsTray(NobodyYet) /\ IsDrawn(NotDrawn) /\ NotDrawn.listed = FALSE
    /\ IsTray([NobodyYet EXCEPT !.phase = "gone"]) /\ [NobodyYet EXCEPT !.phase = "gone"].phase = "gone"
    /\ NobodyYet.phase = "none" /\ ~NobodyYet.exported
<1>1. PICK no \in BOOLEAN : no = FALSE
  OBVIOUS
<1>2. PICK rows, sign, mail, status : /\ rows = {} /\ mail = <<>> /\ status = "none"
                                      /\ sign = Indicator({}, {})
  OBVIOUS
<1>3. mail \in Seq(Mail)
  BY <1>1, <1>2
<1>4. PICK nobody : nobody = NobodyYet
  OBVIOUS
<1>5. nobody = [phase |-> "none", exported |-> no, watcher |-> no, guiOpen |-> no, rows |-> rows,
                offline |-> no, asking |-> no, indicator |-> sign, mail |-> mail]
  BY <1>1, <1>2, <1>4 DEF NobodyYet
<1>6. PICK gone : gone = [nobody EXCEPT !.phase = "gone"]
  OBVIOUS
<1>7. gone = [phase |-> "gone", exported |-> no, watcher |-> no, guiOpen |-> no, rows |-> rows,
              offline |-> no, asking |-> no, indicator |-> sign, mail |-> mail]
  BY <1>5, <1>6
<1>8. IsTray(nobody) /\ nobody.phase = "none" /\ nobody.exported = no
  BY <1>3, <1>5 DEF IsTray
<1>9. IsTray(gone) /\ gone.phase = "gone"
  BY <1>3, <1>7 DEF IsTray
<1>10. PICK drawn : drawn = NotDrawn
  OBVIOUS
<1>11. drawn = [listed |-> no, told |-> no, status |-> status, manage |-> no]
  BY <1>1, <1>2, <1>10 DEF NotDrawn
<1>12. IsDrawn(drawn) /\ drawn.listed = no
  BY <1>11 DEF IsDrawn
<1> QED
  BY <1>1, <1>2, <1>4, <1>6, <1>8, <1>9, <1>10, <1>12

\* Where it starts.
LEMMA InitDesktop == DesktopInit => DesktopInv
<1> SUFFICES ASSUME DesktopInit PROVE DesktopInv
  OBVIOUS
<1>1. \A t \in Trays : trays[t] = NobodyYet /\ panel[t] = NotDrawn
  BY DEF DesktopInit
<1>2. Alive = {}
  BY <1>1, Nobody DEF Alive
<1>3. RecordsInv
  BY <1>1, Nobody DEF DesktopInit, RecordsInv
<1>4. AroundInv
  <2>1. PICK no \in BOOLEAN : no = FALSE
    OBVIOUS
  <2>2. bus = [watcher |-> no, gui |-> no, tray |-> 0]
    BY <2>1 DEF DesktopInit
  <2> QED
    BY <2>2 DEF DesktopInit, AroundInv
<1> QED
  BY <1>2, <1>3, <1>4 DEF DesktopInv

\* A tray that goes takes its icon with it.
LEMMA QuitsDesktop ==
    ASSUME DesktopInv, NEW t \in Trays, Quits(t), UNCHANGED <<truth, answering>>
    PROVE  DesktopInv'
<1>1. PICK gone : gone = [NobodyYet EXCEPT !.phase = "gone"]
  OBVIOUS
<1>2. IsTray(gone) /\ gone.phase = "gone"
  BY <1>1, Nobody
<1>3. /\ trays' = [trays EXCEPT ![t] = gone] /\ panel' = [panel EXCEPT ![t] = NotDrawn]
      /\ trays = [u \in Trays |-> trays[u]] /\ panel = [u \in Trays |-> panel[u]]
  BY <1>1 DEF Quits, DesktopInv, RecordsInv
<1>4. /\ trays'[t] = gone /\ panel'[t] = NotDrawn
      /\ \A u \in Trays \ {t} : trays'[u] = trays[u] /\ panel'[u] = panel[u]
      /\ trays' = [u \in Trays |-> trays'[u]] /\ panel' = [u \in Trays |-> panel'[u]]
  BY <1>3
<1>5. Alive' = Alive \ {t}
  BY <1>2, <1>4 DEF Alive
<1>6. RecordsInv'
  BY <1>2, <1>4, <1>5, Nobody DEF DesktopInv, RecordsInv
<1>7. PICK wa, gu, tr : bus = [watcher |-> wa, gui |-> gu, tray |-> tr] /\ wa = bus.watcher /\ gu = bus.gui
  BY DEF DesktopInv, AroundInv
<1>8. PICK next : next = IF tr = t THEN 0 ELSE tr
  OBVIOUS
<1>9. bus' = [watcher |-> wa, gui |-> gu, tray |-> next]
  <2>1. bus.tray = tr
    BY <1>7
  <2>2. bus' = [bus EXCEPT !.tray = next]
    BY <1>8, <2>1 DEF Quits
  <2> QED
    BY <1>7, <2>2
<1>10. AroundInv'
  BY <1>7, <1>9 DEF DesktopInv, AroundInv
<1>11. ASSUME NEW u \in Alive' PROVE TrayInv(u)'
  <2>1. u \in Alive \ {t} /\ u \in Trays \ {t} /\ trays'[u] = trays[u] /\ panel'[u] = panel[u]
    BY <1>4, <1>5, <1>11 DEF Alive
  <2>2. TrayInv(u)
    BY <2>1 DEF DesktopInv
  <2>3. SingleInv(u)'
    BY <1>7, <1>8, <1>9, <2>1, <2>2 DEF TrayInv, SingleInv
  <2> QED
    BY <1>7, <1>9, <2>1, <2>2, <2>3, OtherTray
<1> QED
  BY <1>6, <1>10, <1>11 DEF DesktopInv

\* A step of one tray that goes on running, and of its icon.
LEMMA OneTray ==
    ASSUME DesktopInv, NEW t \in Alive, NEW tray, IsTray(tray), tray.phase = "running",
           trays' = [trays EXCEPT ![t] = tray],
           NEW d, IsDrawn(d), panel' = [u \in Trays |-> panel'[u]], panel'[t] = d,
           \A u \in Trays \ {t} : panel'[u] = panel[u],
           UNCHANGED <<truth, answering, bus>>
    PROVE  /\ trays'[t] = tray /\ Alive' = Alive /\ AroundInv' /\ RecordsInv'
           /\ \A u \in Alive \ {t} : TrayInv(u)'
<1>1. trays = [u \in Trays |-> trays[u]] /\ t \in Trays
  BY DEF DesktopInv, RecordsInv, Alive
<1>2. /\ trays'[t] = tray /\ \A u \in Trays \ {t} : trays'[u] = trays[u]
      /\ trays' = [u \in Trays |-> trays'[u]]
  BY <1>1
<1>3. Alive' = Alive
  BY <1>1, <1>2 DEF Alive
<1>4. AroundInv'
  BY DEF DesktopInv, AroundInv
<1>5. RecordsInv'
  BY <1>1, <1>2, <1>3 DEF DesktopInv, RecordsInv
<1>6. ASSUME NEW u \in Alive \ {t} PROVE TrayInv(u)'
  <2>1. u \in Trays \ {t} /\ trays'[u] = trays[u] /\ panel'[u] = panel[u] /\ TrayInv(u)
    BY <1>2 DEF DesktopInv, Alive
  <2>2. SingleInv(u)'
    BY <2>1 DEF TrayInv, SingleInv
  <2> QED
    BY <2>1, <2>2, OtherTray
<1> QED
  BY <1>2, <1>3, <1>4, <1>5, <1>6

\* The main loop runs a callback.
LEMMA RunDesktop == ASSUME DesktopInv, NEW t \in Trays, Run(t) PROVE DesktopInv'
<1>1. CASE Head(trays[t].mail).kind = "name lost"
  BY <1>1, QuitsDesktop DEF Run
<1>2. CASE Head(trays[t].mail).kind # "name lost"
  <2>1. PICK was, m, rest : was = trays[t] /\ m = Head(was.mail) /\ rest = Tail(was.mail)
    OBVIOUS
  <2>2. t \in Alive /\ TrayInv(t) /\ IsTray(was) /\ was.mail # <<>> /\ was.phase = "running"
    BY <2>1 DEF Run, DesktopInv, RecordsInv, Alive
  <2>3. /\ m \in Mail /\ rest \in Seq(Mail) /\ m.kind # "name lost"
        /\ \A sort : Waits(was.mail, sort) <=> Waits(rest, sort) \/ m \in sort
    BY <1>2, <2>1, <2>2, RunFirst DEF IsTray
  <2>4. PICK old, new : old = [was EXCEPT !.mail = rest] /\ new = After(old, m)
    OBVIOUS
  <2>5. /\ trays' = [trays EXCEPT ![t] = new] /\ panel' = PanelAfter(t, old, new, m)
        /\ UNCHANGED <<truth, answering, bus>>
    BY <1>2, <2>1, <2>4 DEF Run
  <2>6. AroundInv /\ RecordsInv /\ MailInv(was) /\ TruthInv(was) /\ IndicatorInv(was)
        /\ PanelInv(was, panel[t]) /\ SingleInv(t)
    BY <2>1, <2>2 DEF DesktopInv, TrayInv
  <2>7. new = After([was EXCEPT !.mail = Tail(was.mail)], Head(was.mail))
    BY <2>1, <2>4
  <2>8. IsTray(new) /\ MailInv(new) /\ TruthInv(new) /\ IndicatorInv(new)
    BY <1>2, <2>1, <2>2, <2>6, <2>7, RunKeepsTray
  <2>9. AfterIs(was, m, rest, new)
    BY <2>2, <2>3, <2>4, AfterFields
  <2>10. new.mail = rest /\ new.phase = "running" /\ new.guiOpen \in BOOLEAN
    BY <2>2, <2>8, <2>9 DEF AfterIs, IsTray
  <2>11. PICK d : d = panel'[t]
    OBVIOUS
  <2>12. /\ panel' = [u \in Trays |-> panel'[u]] /\ \A u \in Trays \ {t} : panel'[u] = panel[u]
         /\ DrawnIs(t, old, new, m, d)
    <3>1. PICK next : next = panel'
      OBVIOUS
    <3>2. next = PanelAfter(t, old, new, m)
      BY <2>5, <3>1
    <3>3. DrawsSo(t, old, new, m, next)
      BY <2>3, <2>6, <2>10, <3>2, PanelFields
    <3> QED
      BY <2>11, <3>1, <3>3 DEF DrawsSo
  <2>13. old.guiOpen = was.guiOpen /\ old.indicator = was.indicator
    BY <2>2, <2>4 DEF IsTray
  <2>14. DrawnIs(t, was, new, m, d) /\ IsDrawn(d)
    BY <2>12, <2>13 DEF DrawnIs
  <2>15. PanelInv(new, d)
    BY <2>2, <2>3, <2>6, <2>9, <2>14, RunKeepsPanel
  <2>16. /\ trays'[t] = new /\ Alive' = Alive /\ AroundInv' /\ RecordsInv'
         /\ \A u \in Alive \ {t} : TrayInv(u)'
    BY <2>2, <2>5, <2>8, <2>10, <2>11, <2>12, <2>14, OneTray
  <2>17. TrayInv(t)'
    <3>1. MailInv(trays[t])'
      BY <2>5, <2>8, <2>16 DEF MailInv
    <3>2. TruthInv(trays[t])'
      BY <2>5, <2>8, <2>16 DEF TruthInv, Hears, Says, IsRow, OldWord, Current
    <3>3. IndicatorInv(trays[t])'
      BY <2>5, <2>8, <2>16 DEF IndicatorInv
    <3>4. PanelInv(trays[t], panel[t])'
      BY <2>5, <2>11, <2>15, <2>16 DEF PanelInv
    <3>5. SingleInv(t)'
      <4>1. m \notin Of({"name lost"})
        BY <2>3 DEF Of
      <4> QED
        BY <2>1, <2>3, <2>5, <2>6, <2>10, <2>16, <4>1 DEF SingleInv
    <3> QED
      BY <3>1, <3>2, <3>3, <3>4, <3>5 DEF TrayInv
  <2> QED
    BY <2>16, <2>17 DEF DesktopInv
<1> QED
  BY <1>1, <1>2

\* The answer to a refresh is posted, if the daemon is there to give one.
LEMMA RefreshedDesktop == ASSUME DesktopInv, NEW t \in Trays, Refreshed(t) PROVE DesktopInv'
<1>1. PICK was, m, mail : /\ was = trays[t] /\ m = [kind |-> "screen", wire |-> truth]
                          /\ mail = IF answering THEN Append(was.mail, m) ELSE was.mail
  OBVIOUS
<1>2. /\ t \in Alive /\ TrayInv(t) /\ IsTray(was) /\ was.phase = "running"
      /\ AroundInv /\ RecordsInv /\ MailInv(was) /\ TruthInv(was) /\ IndicatorInv(was)
      /\ PanelInv(was, panel[t]) /\ SingleInv(t) /\ answering \in BOOLEAN /\ truth \in Wires
  BY <1>1 DEF Refreshed, DesktopInv, RecordsInv, AroundInv, TrayInv, Alive
<1>3. m \in Mail /\ m.kind = "screen" /\ m.wire = truth
  BY <1>1, <1>2, MailTypes DEF OfTruth
<1>4. mail \in Seq(Mail)
  BY <1>1, <1>2, <1>3 DEF IsTray
<1>5. PICK no \in BOOLEAN : no = FALSE
  OBVIOUS
<1>6. PICK new : new = [was EXCEPT !.asking = no, !.mail = mail]
  OBVIOUS
<1>7. new = [phase |-> was.phase, exported |-> was.exported, watcher |-> was.watcher,
             guiOpen |-> was.guiOpen, rows |-> was.rows, offline |-> was.offline,
             asking |-> no, indicator |-> was.indicator, mail |-> mail]
  BY <1>2, <1>6 DEF IsTray
<1>8. /\ new.phase = was.phase /\ new.exported = was.exported /\ new.watcher = was.watcher
      /\ new.guiOpen = was.guiOpen /\ new.rows = was.rows /\ new.offline = was.offline
      /\ new.asking = no /\ new.indicator = was.indicator /\ new.mail = mail
  BY <1>7
<1>9. IsTray(new)
  BY <1>2, <1>4, <1>7, <1>8 DEF IsTray
<1>10. /\ trays' = [trays EXCEPT ![t] = new] /\ panel' = panel
       /\ UNCHANGED <<truth, answering, bus>>
  BY <1>1, <1>5, <1>6 DEF Refreshed
<1>11. MailInv(new)
  <2>1. CASE answering
    <3>1. was.mail \in Seq(Mail) /\ mail = Append(was.mail, m)
      BY <1>1, <1>2, <2>1 DEF IsTray
    <3>2. ASSUME NEW yes \in OfWatcher \union OfWindow \union OfDaemon,
                 NEW no2 \in OfWatcher \union OfWindow \union OfDaemon, NEW believed, NEW so,
                 Believes(was.mail, yes, no2, believed, so)
          PROVE  Believes(mail, yes, no2, believed, so)
      <4>1. m \notin Of({yes}) /\ m \notin Of({no2})
        BY <1>3 DEF Of, OfWatcher, OfWindow, OfDaemon
      <4> QED
        BY <1>3, <3>1, <3>2, <4>1, PostedLast DEF Believes
    <3> QED
      BY <1>2, <1>8, <3>2 DEF MailInv, OfWatcher, OfWindow, OfDaemon
  <2>2. CASE ~answering
    BY <1>1, <1>2, <1>8, <2>2 DEF MailInv
  <2> QED
    BY <2>1, <2>2
<1>12. TruthInv(new) /\ IndicatorInv(new)
  <2>1. CASE answering
    <3>1. m \in Current /\ m \notin OldWord /\ m \in Of({"screen"}) /\ m \in Of({"screen", "lost"})
      BY <1>3 DEF Current, OldWord, Of, OfTruth
    <3>2. /\ Settles(mail, OldWord, Current) /\ Waits(mail, Current) /\ Waits(mail, Of({"screen"}))
          /\ Waits(mail, Of({"screen", "lost"}))
      BY <1>1, <1>2, <1>3, <2>1, <3>1, PostedLast DEF IsTray
    <3> QED
      BY <1>2, <1>8, <3>2 DEF TruthInv, IndicatorInv
  <2>2. CASE ~answering
    <3>1. Hears(new) /\ new.mail = was.mail /\ new.rows = was.rows
      BY <1>1, <1>8, <2>2 DEF Hears
    <3>2. TruthInv(new)
      BY <1>2, <3>1 DEF TruthInv
    <3>3. Waits(was.mail, Of({"lost"})) => Waits(was.mail, Of({"screen", "lost"}))
      BY DEF Waits, Of
    <3>4. was.offline \/ Waits(was.mail, Of({"lost"}))
      BY <1>2, <2>2 DEF MailInv, Believes
    <3> QED
      BY <1>2, <1>8, <3>1, <3>2, <3>3, <3>4 DEF IndicatorInv
  <2> QED
    BY <2>1, <2>2
<1>13. ASSUME NEW sort, Waits(was.mail, sort) PROVE Waits(mail, sort)
  <2>1. was.mail \in Seq(Mail)
    BY <1>2 DEF IsTray
  <2> QED
    BY <1>1, <1>3, <1>13, <2>1, PostedLast
<1>14. PICK d : d = panel[t]
  OBVIOUS
<1>15. PanelInv(new, d)
  <2>1. Waits(was.mail, Of({"appeared"})) => Waits(mail, Of({"appeared"}))
    BY <1>13
  <2> QED
    BY <1>2, <1>8, <1>14, <2>1 DEF PanelInv
<1>16. /\ trays'[t] = new /\ Alive' = Alive /\ AroundInv' /\ RecordsInv'
       /\ \A u \in Alive \ {t} : TrayInv(u)'
  <2>1. panel' = [u \in Trays |-> panel'[u]] /\ panel'[t] = d /\ IsDrawn(d) /\ t \in Trays
    BY <1>2, <1>10, <1>14 DEF RecordsInv
  <2> QED
    BY <1>2, <1>8, <1>9, <1>10, <2>1, OneTray
<1>17. TrayInv(t)'
  <2>1. MailInv(trays[t])'
    BY <1>10, <1>11, <1>16 DEF MailInv
  <2>2. TruthInv(trays[t])'
    BY <1>10, <1>12, <1>16 DEF TruthInv, Hears, Says, IsRow, OldWord, Current
  <2>3. IndicatorInv(trays[t])'
    BY <1>10, <1>12, <1>16 DEF IndicatorInv
  <2>4. PanelInv(trays[t], panel[t])'
    BY <1>10, <1>14, <1>15, <1>16 DEF PanelInv
  <2>5. SingleInv(t)'
    <3>1. Waits(was.mail, Of({"name lost"})) => Waits(mail, Of({"name lost"}))
      BY <1>13
    <3>2. trays[t] = was
      BY <1>1
    <3>3. bus.tray = t \/ Waits(mail, Of({"name lost"}))
      BY <1>2, <3>1, <3>2 DEF SingleInv
    <3>4. bus'.tray = bus.tray /\ trays'[t].mail = mail
      BY <1>8, <1>10, <1>16
    <3> QED
      BY <3>3, <3>4 DEF SingleInv
  <2> QED
    BY <2>1, <2>2, <2>3, <2>4, <2>5 DEF TrayInv
<1> QED
  BY <1>16, <1>17 DEF DesktopInv

\* The panel reads what is there.
LEMMA PanelReadsDesktop == ASSUME DesktopInv, NEW t \in Trays, PanelReads(t) PROVE DesktopInv'
<1>1. PICK was, drawn, status : was = trays[t] /\ drawn = panel[t] /\ status = was.indicator.status
  OBVIOUS
<1>2. drawn # NotDrawn
  BY <1>1 DEF PanelReads, NotDrawn
<1>3. /\ t \in Alive /\ TrayInv(t) /\ IsTray(was) /\ was.phase = "running" /\ IsDrawn(drawn)
      /\ RecordsInv /\ PanelInv(was, drawn) /\ SingleInv(t)
  BY <1>1, <1>2 DEF DesktopInv, RecordsInv, TrayInv, Alive
<1>4. PICK no \in BOOLEAN : no = FALSE
  OBVIOUS
<1>5. PICK d : d = [drawn EXCEPT !.told = no, !.status = status]
  OBVIOUS
<1>6. d = [listed |-> drawn.listed, told |-> no, status |-> status, manage |-> drawn.manage]
  BY <1>3, <1>5 DEF IsDrawn
<1>7. d.listed = drawn.listed /\ d.told = no /\ d.status = status /\ d.manage = drawn.manage
  BY <1>6
<1>8. IsDrawn(d)
  BY <1>3, <1>6, <1>7 DEF IsDrawn
<1>9. PanelInv(was, d)
  BY <1>1, <1>3, <1>4, <1>7 DEF PanelInv
<1>10. /\ panel' = [panel EXCEPT ![t] = d] /\ trays' = trays /\ UNCHANGED <<truth, answering, bus>>
       /\ panel = [u \in Trays |-> panel[u]] /\ trays = [u \in Trays |-> trays[u]]
  BY <1>1, <1>3, <1>4, <1>5 DEF PanelReads, RecordsInv
<1>11. /\ panel' = [u \in Trays |-> panel'[u]] /\ panel'[t] = d
       /\ \A u \in Trays \ {t} : panel'[u] = panel[u]
       /\ trays' = [trays EXCEPT ![t] = was]
  BY <1>1, <1>10
<1>12. /\ trays'[t] = was /\ Alive' = Alive /\ AroundInv' /\ RecordsInv'
       /\ \A u \in Alive \ {t} : TrayInv(u)'
  BY <1>3, <1>8, <1>10, <1>11, OneTray
<1>13. TrayInv(t)'
  <2>1. MailInv(trays[t])'
    BY <1>3, <1>10 DEF TrayInv, MailInv
  <2>2. TruthInv(trays[t])'
    BY <1>3, <1>10 DEF TrayInv, TruthInv, Hears, Says, IsRow, OldWord, Current
  <2>3. IndicatorInv(trays[t])'
    BY <1>3, <1>10 DEF TrayInv, IndicatorInv
  <2>4. PanelInv(trays[t], panel[t])'
    BY <1>9, <1>10, <1>11, <1>12 DEF PanelInv
  <2>5. SingleInv(t)'
    BY <1>3, <1>10 DEF SingleInv
  <2> QED
    BY <2>1, <2>2, <2>3, <2>4, <2>5 DEF TrayInv
<1> QED
  BY <1>12, <1>13 DEF DesktopInv

\* The export is announced if the watcher came first.
LEMMA ExportDesktop == ASSUME DesktopInv, NEW t \in Trays, Export(t) PROVE DesktopInv'
<1>1. PICK was, yes : was = trays[t] /\ yes = TRUE
  OBVIOUS
<1>2. /\ t \in Alive /\ TrayInv(t) /\ IsTray(was) /\ was.phase = "running" /\ ~was.exported
      /\ AroundInv /\ RecordsInv /\ MailInv(was) /\ TruthInv(was) /\ IndicatorInv(was)
      /\ PanelInv(was, panel[t]) /\ SingleInv(t) /\ bus.watcher \in BOOLEAN
  BY <1>1 DEF Export, DesktopInv, RecordsInv, AroundInv, TrayInv, Alive
<1>3. PICK new : new = [was EXCEPT !.exported = yes]
  OBVIOUS
<1>4. new = [phase |-> was.phase, exported |-> yes, watcher |-> was.watcher,
             guiOpen |-> was.guiOpen, rows |-> was.rows, offline |-> was.offline,
             asking |-> was.asking, indicator |-> was.indicator, mail |-> was.mail]
  BY <1>2, <1>3 DEF IsTray
<1>5. /\ new.phase = was.phase /\ new.exported = yes /\ new.watcher = was.watcher
      /\ new.guiOpen = was.guiOpen /\ new.rows = was.rows /\ new.offline = was.offline
      /\ new.asking = was.asking /\ new.indicator = was.indicator /\ new.mail = was.mail
  BY <1>4
<1>6. IsTray(new)
  BY <1>1, <1>2, <1>4, <1>5 DEF IsTray
<1>7. /\ trays' = [trays EXCEPT ![t] = new] /\ panel' = Announced(t, new)
      /\ UNCHANGED <<truth, answering, bus>>
      /\ panel = [u \in Trays |-> panel[u]] /\ IsDrawn(panel[t]) /\ t \in Trays
  BY <1>1, <1>2, <1>3 DEF Export, RecordsInv
<1>8. ~panel[t].listed /\ (bus.watcher /\ ~was.watcher => Waits(was.mail, Of({"appeared"})))
  BY <1>2 DEF PanelInv, MailInv, Believes
<1>9. \E d : /\ IsDrawn(d) /\ panel' = [u \in Trays |-> panel'[u]] /\ panel'[t] = d
             /\ \A u \in Trays \ {t} : panel'[u] = panel[u]
             /\ PanelInv(new, d)
  <2>1. CASE new.watcher /\ bus.watcher
    <3>1. PICK no \in BOOLEAN, yes2 \in BOOLEAN, manage \in BOOLEAN :
              no = FALSE /\ yes2 = TRUE /\ manage = ~new.guiOpen
      OBVIOUS
    <3>2. PICK status : status = new.indicator.status
      OBVIOUS
    <3>3. PICK d : d = [listed |-> yes2, told |-> no, status |-> status, manage |-> manage]
      OBVIOUS
    <3>4. IsDrawn(d) /\ d.listed = yes2 /\ d.status = status /\ d.manage = manage
      BY <3>3 DEF IsDrawn
    <3>5. panel' = [panel EXCEPT ![t] = d]
      BY <1>1, <1>5, <1>7, <2>1, <3>1, <3>2, <3>3 DEF Announced, ManageEnabled
    <3>6. PanelInv(new, d)
      BY <1>1, <1>2, <1>5, <1>6, <2>1, <3>1, <3>2, <3>4 DEF PanelInv, IsTray
    <3> QED
      BY <1>7, <3>4, <3>5, <3>6
  <2>2. CASE ~(new.watcher /\ bus.watcher)
    <3>1. panel' = panel
      BY <1>7, <2>2 DEF Announced
    <3>2. PanelInv(new, panel[t])
      BY <1>5, <1>8, <2>2 DEF PanelInv
    <3> QED
      BY <1>7, <3>1, <3>2
  <2> QED
    BY <2>1, <2>2
<1>10. PICK d : /\ IsDrawn(d) /\ panel' = [u \in Trays |-> panel'[u]] /\ panel'[t] = d
                /\ \A u \in Trays \ {t} : panel'[u] = panel[u]
                /\ PanelInv(new, d)
  BY <1>9
<1>11. /\ trays'[t] = new /\ Alive' = Alive /\ AroundInv' /\ RecordsInv'
       /\ \A u \in Alive \ {t} : TrayInv(u)'
  BY <1>2, <1>5, <1>6, <1>7, <1>10, OneTray
<1>12. TrayInv(t)'
  <2>1. MailInv(trays[t])'
    BY <1>2, <1>5, <1>7, <1>11 DEF MailInv
  <2>2. TruthInv(trays[t])'
    BY <1>2, <1>5, <1>7, <1>11 DEF TruthInv, Hears, Says, IsRow, OldWord, Current
  <2>3. IndicatorInv(trays[t])'
    BY <1>2, <1>5, <1>7, <1>11 DEF IndicatorInv
  <2>4. PanelInv(trays[t], panel[t])'
    BY <1>7, <1>10, <1>11 DEF PanelInv
  <2>5. SingleInv(t)'
    BY <1>1, <1>2, <1>5, <1>7, <1>11 DEF SingleInv
  <2> QED
    BY <2>1, <2>2, <2>3, <2>4, <2>5 DEF TrayInv
<1> QED
  BY <1>11, <1>12 DEF DesktopInv

\* What is posted, every tray that runs has in its mail, and nothing else is
\* changed of it.
LEMMA PostedDesktop ==
    ASSUME DesktopInv, NEW m \in Mail, trays' = Posted(m)
    PROVE  /\ Alive' = Alive /\ trays' = [t \in Trays |-> trays'[t]]
           /\ \A t \in Trays : IsTray(trays'[t])
           /\ \A t \in Alive :
                 /\ t \in Trays /\ IsTray(trays[t]) /\ TrayInv(t) /\ trays[t].mail \in Seq(Mail)
                 /\ trays'[t].exported = trays[t].exported
                 /\ trays'[t].watcher = trays[t].watcher /\ trays'[t].guiOpen = trays[t].guiOpen
                 /\ trays'[t].rows = trays[t].rows /\ trays'[t].offline = trays[t].offline
                 /\ trays'[t].asking = trays[t].asking /\ trays'[t].indicator = trays[t].indicator
                 /\ trays'[t].mail = Append(trays[t].mail, m)
<1>1. trays' = [t \in Trays |-> IF t \in Alive THEN [trays[t] EXCEPT !.mail = Append(@, m)] ELSE trays[t]]
  BY DEF Posted
<1>2. ASSUME NEW t \in Alive
      PROVE  /\ t \in Trays /\ IsTray(trays[t]) /\ TrayInv(t) /\ trays[t].mail \in Seq(Mail)
             /\ trays'[t] = [trays[t] EXCEPT !.mail = Append(@, m)]
  BY <1>1 DEF DesktopInv, RecordsInv, IsTray, Alive
<1>3. ASSUME NEW t \in Alive
      PROVE  /\ IsTray(trays'[t]) /\ trays'[t].phase = trays[t].phase
             /\ trays'[t].exported = trays[t].exported
             /\ trays'[t].watcher = trays[t].watcher /\ trays'[t].guiOpen = trays[t].guiOpen
             /\ trays'[t].rows = trays[t].rows /\ trays'[t].offline = trays[t].offline
             /\ trays'[t].asking = trays[t].asking /\ trays'[t].indicator = trays[t].indicator
             /\ trays'[t].mail = Append(trays[t].mail, m)
  <2>1. PICK was, new : was = trays[t] /\ new = [was EXCEPT !.mail = Append(@, m)]
    OBVIOUS
  <2>2. IsTray(was) /\ trays'[t] = new
    BY <1>2, <2>1
  <2>3. /\ IsTray(new) /\ new.phase = was.phase /\ new.exported = was.exported
        /\ new.watcher = was.watcher /\ new.guiOpen = was.guiOpen /\ new.rows = was.rows
        /\ new.offline = was.offline /\ new.asking = was.asking
        /\ new.indicator = was.indicator /\ new.mail = Append(was.mail, m)
    BY <2>1, <2>2, PostedTray
  <2> QED
    BY <2>1, <2>2, <2>3
<1>4. ASSUME NEW t \in Trays \ Alive PROVE trays'[t] = trays[t] /\ IsTray(trays[t])
  BY <1>1 DEF DesktopInv, RecordsInv
<1>5. Alive' = Alive
  BY <1>2, <1>3, <1>4 DEF Alive
<1>6. \A t \in Trays : IsTray(trays'[t])
  BY <1>3, <1>4
<1>7. trays' = [t \in Trays |-> trays'[t]]
  BY <1>1
<1> QED
  BY <1>2, <1>3, <1>5, <1>6, <1>7

\* The monitor pushes a state.
LEMMA StateChangesDesktop ==
    ASSUME DesktopInv, NEW wire \in Wires, StateChanges(wire)
    PROVE  DesktopInv'
<1>1. /\ truth' = wire /\ answering' = answering /\ bus' = bus /\ panel' = panel
      /\ truth \in Wires /\ answering \in BOOLEAN /\ wire.id = truth.id
  BY OneConnection DEF StateChanges, DesktopInv, AroundInv
<1>2. AroundInv'
  BY <1>1 DEF DesktopInv, AroundInv
<1>3. CASE ~answering
  <2>1. trays' = trays /\ Alive' = Alive /\ RecordsInv'
    BY <1>1, <1>3 DEF StateChanges, DesktopInv, RecordsInv, Alive
  <2>2. ASSUME NEW t \in Alive PROVE TrayInv(t)'
    <3>1. TrayInv(t)
      BY DEF DesktopInv
    <3>2. TruthInv(trays[t])'
      BY <1>1, <1>3, <2>1, <3>1 DEF TrayInv, TruthInv, Hears, IsRow
    <3> QED
      BY <1>1, <2>1, <3>1, <3>2 DEF TrayInv, MailInv, IndicatorInv, PanelInv, SingleInv
  <2> QED
    BY <1>2, <2>1, <2>2 DEF DesktopInv
<1>4. CASE answering
  <2>1. PICK m : m = [kind |-> "event", wire |-> wire]
    OBVIOUS
  <2>2. m \in Mail /\ m.kind = "event" /\ m.wire = wire /\ trays' = Posted(m)
    BY <1>4, <2>1, MailTypes DEF StateChanges, OfTruth
  <2>3. RecordsInv' /\ Alive' = Alive
    BY <1>1, <2>2, PostedDesktop DEF DesktopInv, RecordsInv
  <2>4. ASSUME NEW t \in Alive PROVE TrayInv(t)'
    <3>1. /\ TrayInv(t) /\ trays[t].mail \in Seq(Mail)
          /\ trays'[t].exported = trays[t].exported
          /\ trays'[t].watcher = trays[t].watcher /\ trays'[t].guiOpen = trays[t].guiOpen
          /\ trays'[t].rows = trays[t].rows /\ trays'[t].offline = trays[t].offline
          /\ trays'[t].asking = trays[t].asking /\ trays'[t].indicator = trays[t].indicator
          /\ trays'[t].mail = Append(trays[t].mail, m)
      BY <2>2, PostedDesktop
    <3>2. ASSUME NEW sort, Waits(trays[t].mail, sort) PROVE Waits(trays'[t].mail, sort)
      BY <2>2, <3>1, <3>2, PostedLast
    <3>3. MailInv(trays[t])'
      BY <1>1, <2>2, <3>1, BelievesOther DEF TrayInv, MailInv
    <3>4. TruthInv(trays[t])'
      <4>1. m \in Current' /\ m \notin OldWord'
        BY <1>1, <2>2 DEF Current, OldWord, Of, OfTruth
      <4>2. Waits(trays'[t].mail, Current') /\ Settles(trays'[t].mail, OldWord', Current')
        BY <2>2, <3>1, <4>1, PostedLast
      <4>3. Hears(trays[t]) => Hears(trays[t])'
        BY <1>1, <3>1, <3>2 DEF Hears
      <4>4. trays[t].rows = {} \/ \E row \in trays[t].rows : trays[t].rows = {row} /\ IsRow(row)'
        BY <1>1, <3>1 DEF TrayInv, TruthInv, IsRow
      <4> QED
        BY <3>1, <3>2, <4>2, <4>3, <4>4 DEF TrayInv, TruthInv
    <3>5. IndicatorInv(trays[t])'
      BY <3>1, <3>2 DEF TrayInv, IndicatorInv
    <3>6. PanelInv(trays[t], panel[t])'
      BY <1>1, <3>1, <3>2 DEF TrayInv, PanelInv
    <3>7. SingleInv(t)'
      BY <1>1, <3>1, <3>2 DEF TrayInv, SingleInv
    <3> QED
      BY <3>3, <3>4, <3>5, <3>6, <3>7 DEF TrayInv
  <2> QED
    BY <1>2, <2>3, <2>4 DEF DesktopInv
<1> QED
  BY <1>3, <1>4

\* A tray that has one more callback to run, which changes nothing it owes.
LEMMA MoreMail ==
    ASSUME NEW t \in Alive, NEW m \in Mail, m.kind \notin OfTruth, TrayInv(t),
           trays[t].mail \in Seq(Mail), trays'[t].mail = Append(trays[t].mail, m),
           trays'[t].rows = trays[t].rows, trays'[t].offline = trays[t].offline,
           trays'[t].asking = trays[t].asking, trays'[t].indicator = trays[t].indicator,
           truth' = truth, bus'.tray = bus.tray,
           Hears(trays[t]) => Hears(trays[t])'
    PROVE  /\ TruthInv(trays[t])' /\ IndicatorInv(trays[t])' /\ SingleInv(t)'
           /\ \A sort : Waits(trays[t].mail, sort) => Waits(trays'[t].mail, sort)
           /\ \A sort : m \in sort => Waits(trays'[t].mail, sort)
<1>1. ASSUME NEW sort, Waits(trays[t].mail, sort) \/ m \in sort PROVE Waits(trays'[t].mail, sort)
  BY <1>1, PostedLast
<1>2. TruthInv(trays[t])'
  <2>1. m \notin OldWord /\ OldWord' = OldWord /\ Current' = Current
    BY DEF OldWord, Current, Of
  <2>2. Settles(trays[t].mail, OldWord, Current) => Settles(trays'[t].mail, OldWord, Current)
    BY <2>1, PostedLast
  <2>3. \A rows, state : Says(rows, state)' <=> Says(rows, state)
    BY DEF Says, IsRow
  <2>4. trays[t].rows = {} \/ \E row \in trays[t].rows : trays[t].rows = {row} /\ IsRow(row)'
    BY DEF TrayInv, TruthInv, IsRow
  <2>5. Hears(trays[t])' \/ Waits(trays'[t].mail, Current) \/ Says(trays[t].rows, truth.state)
    BY <1>1 DEF TrayInv, TruthInv
  <2>6. trays[t].rows = {} => Hears(trays[t])' \/ Waits(trays'[t].mail, Of({"screen"}))
    BY <1>1 DEF TrayInv, TruthInv
  <2>7. Hears(trays[t])' \/ Settles(trays'[t].mail, OldWord, Current)
    BY <2>2 DEF TrayInv, TruthInv
  <2>8. Hears(trays[t])' \/ Waits(trays'[t].mail, Current) \/ Says(trays[t].rows, truth.state)'
    BY <2>5 DEF Says, IsRow
  <2> QED
    BY <2>1, <2>4, <2>6, <2>7, <2>8 DEF TruthInv
<1>3. IndicatorInv(trays[t])'
  BY <1>1 DEF TrayInv, IndicatorInv
<1>4. SingleInv(t)'
  BY <1>1 DEF TrayInv, SingleInv
<1> QED
  BY <1>1, <1>2, <1>3, <1>4

\* The daemon goes or is back.
LEMMA DaemonGoesDesktop == ASSUME DesktopInv, DaemonGoes PROVE DesktopInv'
<1>1. PICK m : m = Call(IF answering THEN "lost" ELSE "back")
  OBVIOUS
<1>2. /\ truth' = truth /\ answering' = ~answering /\ bus' = bus /\ panel' = panel
      /\ answering \in BOOLEAN /\ trays' = Posted(m)
  BY <1>1 DEF DaemonGoes, DesktopInv, AroundInv
<1>3. m \in Mail /\ m.kind = IF answering THEN "lost" ELSE "back"
  BY <1>1, MailTypes DEF OfDaemon
<1>4. AroundInv'
  BY <1>2 DEF DesktopInv, AroundInv
<1>5. RecordsInv' /\ Alive' = Alive
  BY <1>2, <1>3, PostedDesktop DEF DesktopInv, RecordsInv
<1>6. ASSUME NEW t \in Alive PROVE TrayInv(t)'
  <2>1. /\ TrayInv(t) /\ trays[t].mail \in Seq(Mail)
        /\ trays'[t].exported = trays[t].exported
        /\ trays'[t].watcher = trays[t].watcher /\ trays'[t].guiOpen = trays[t].guiOpen
        /\ trays'[t].rows = trays[t].rows /\ trays'[t].offline = trays[t].offline
        /\ trays'[t].asking = trays[t].asking /\ trays'[t].indicator = trays[t].indicator
        /\ trays'[t].mail = Append(trays[t].mail, m)
    BY <1>2, <1>3, PostedDesktop
  <2>2. Hears(trays[t])'
    <3>1. CASE answering
      BY <1>2, <3>1 DEF Hears
    <3>2. CASE ~answering
      <4>1. m \in Of({"back"})
        BY <1>3, <3>2 DEF Of
      <4>2. Waits(trays'[t].mail, Of({"back"}))
        BY <1>3, <2>1, <4>1, PostedLast
      <4> QED
        BY <4>2 DEF Hears
    <3> QED
      BY <3>1, <3>2
  <2>3. /\ TruthInv(trays[t])' /\ IndicatorInv(trays[t])' /\ SingleInv(t)'
        /\ \A sort : Waits(trays[t].mail, sort) => Waits(trays'[t].mail, sort)
    <3>1. m.kind \notin OfTruth
      BY <1>3 DEF OfTruth
    <3> QED
      BY <1>2, <1>3, <2>1, <2>2, <3>1, MoreMail
  <2>4. MailInv(trays[t])'
    <3>1. m.kind \notin {"appeared", "vanished", "gui appeared", "gui vanished"}
      BY <1>3
    <3>2. m.kind = IF answering' THEN "back" ELSE "lost"
      BY <1>2, <1>3
    <3>3. /\ Believes(trays'[t].mail, "appeared", "vanished", trays'[t].watcher, bus'.watcher)
          /\ Believes(trays'[t].mail, "gui appeared", "gui vanished", trays'[t].guiOpen, bus'.gui)
      BY <1>2, <1>3, <2>1, <3>1, BelievesOther DEF TrayInv, MailInv
    <3>4. Believes(trays'[t].mail, "back", "lost", ~trays'[t].offline, answering')
      BY <1>3, <2>1, <3>2, BelievesNew
    <3> QED
      BY <3>3, <3>4 DEF MailInv
  <2>5. PanelInv(trays[t], panel[t])'
    BY <1>2, <2>1, <2>3 DEF TrayInv, PanelInv
  <2> QED
    BY <2>3, <2>4, <2>5 DEF TrayInv
<1> QED
  BY <1>4, <1>5, <1>6 DEF DesktopInv

\* The panel comes or goes, and with it every icon it drew.
LEMMA WatcherGoesDesktop == ASSUME DesktopInv, WatcherGoes PROVE DesktopInv'
<1>1. PICK m : m = Call(IF bus.watcher THEN "vanished" ELSE "appeared")
  OBVIOUS
<1>2. /\ truth' = truth /\ answering' = answering /\ panel' = [t \in Trays |-> NotDrawn]
      /\ bus.watcher \in BOOLEAN /\ trays' = Posted(m)
  BY <1>1 DEF WatcherGoes, DesktopInv, AroundInv
<1>3. m \in Mail /\ m.kind = IF bus.watcher THEN "vanished" ELSE "appeared"
  BY <1>1, MailTypes DEF OfWatcher
<1>4. bus'.watcher = ~bus.watcher /\ bus'.gui = bus.gui /\ bus'.tray = bus.tray /\ AroundInv'
  <2>1. PICK wa, gu, tr : bus = [watcher |-> wa, gui |-> gu, tray |-> tr] /\ wa = bus.watcher /\ gu = bus.gui
    BY DEF DesktopInv, AroundInv
  <2>2. PICK next \in BOOLEAN : next = ~wa
    OBVIOUS
  <2>3. bus' = [bus EXCEPT !.watcher = next]
    BY <2>1, <2>2 DEF WatcherGoes
  <2>4. bus' = [watcher |-> next, gui |-> gu, tray |-> tr]
    BY <2>1, <2>3
  <2>5. bus'.watcher = next /\ bus'.gui = gu /\ bus'.tray = tr /\ bus.tray = tr
    BY <2>1, <2>4
  <2>6. AroundInv'
    BY <1>2, <2>1, <2>4, <2>5 DEF DesktopInv, AroundInv
  <2> QED
    BY <2>1, <2>2, <2>5, <2>6
<1>5. RecordsInv' /\ Alive' = Alive
  BY <1>2, <1>3, PostedDesktop, Nobody DEF DesktopInv, RecordsInv
<1>6. ASSUME NEW t \in Alive PROVE TrayInv(t)'
  <2>1. /\ TrayInv(t) /\ trays[t].mail \in Seq(Mail) /\ t \in Trays
        /\ trays'[t].exported = trays[t].exported
        /\ trays'[t].watcher = trays[t].watcher /\ trays'[t].guiOpen = trays[t].guiOpen
        /\ trays'[t].rows = trays[t].rows /\ trays'[t].offline = trays[t].offline
        /\ trays'[t].asking = trays[t].asking /\ trays'[t].indicator = trays[t].indicator
        /\ trays'[t].mail = Append(trays[t].mail, m)
    BY <1>2, <1>3, PostedDesktop
  <2>2. m.kind \notin OfTruth \union OfDaemon \union OfWindow
    BY <1>3 DEF OfTruth, OfDaemon, OfWindow
  <2>3. Hears(trays[t]) => Hears(trays[t])'
    <3>1. ASSUME NEW sort, Waits(trays[t].mail, sort) PROVE Waits(trays'[t].mail, sort)
      <4>1. m \in Mail /\ trays[t].mail \in Seq(Mail) /\ trays'[t].mail = Append(trays[t].mail, m)
        BY <1>3, <2>1
      <4> QED
        BY <3>1, <4>1, PostedLast
    <3> QED
      BY <1>2, <2>1, <3>1 DEF Hears
  <2>4. /\ TruthInv(trays[t])' /\ IndicatorInv(trays[t])' /\ SingleInv(t)'
        /\ \A sort : m \in sort => Waits(trays'[t].mail, sort)
    BY <1>2, <1>3, <1>4, <2>1, <2>2, <2>3, MoreMail
  <2>5. MailInv(trays[t])'
    <3>1. m.kind = IF bus'.watcher THEN "appeared" ELSE "vanished"
      BY <1>2, <1>3, <1>4
    <3>2. Believes(trays'[t].mail, "appeared", "vanished", trays'[t].watcher, bus'.watcher)
      BY <1>3, <2>1, <3>1, BelievesNew
    <3>3. /\ Believes(trays'[t].mail, "back", "lost", ~trays'[t].offline, answering')
          /\ Believes(trays'[t].mail, "gui appeared", "gui vanished", trays'[t].guiOpen, bus'.gui)
      BY <1>2, <1>3, <1>4, <2>1, <2>2, BelievesOther DEF TrayInv, MailInv, OfDaemon, OfWindow
    <3> QED
      BY <3>2, <3>3 DEF MailInv
  <2>6. PanelInv(trays[t], panel[t])'
    <3>1. ~panel'[t].listed
      BY <1>2, <2>1, Nobody
    <3>2. bus'.watcher => Waits(trays'[t].mail, Of({"appeared"}))
      <4>1. ~bus.watcher => m \in Of({"appeared"})
        BY <1>3 DEF Of
      <4> QED
        BY <1>4, <2>4, <4>1
    <3> QED
      BY <3>1, <3>2 DEF PanelInv
  <2> QED
    BY <2>4, <2>5, <2>6 DEF TrayInv
<1> QED
  BY <1>4, <1>5, <1>6 DEF DesktopInv

\* The window opens or closes.
LEMMA WindowGoesDesktop == ASSUME DesktopInv, WindowGoes PROVE DesktopInv'
<1>1. PICK m : m = Call(IF bus.gui THEN "gui vanished" ELSE "gui appeared")
  OBVIOUS
<1>2. /\ truth' = truth /\ answering' = answering /\ panel' = panel
      /\ bus.gui \in BOOLEAN /\ trays' = Posted(m)
  BY <1>1 DEF WindowGoes, DesktopInv, AroundInv
<1>3. m \in Mail /\ m.kind = IF bus.gui THEN "gui vanished" ELSE "gui appeared"
  BY <1>1, MailTypes DEF OfWindow
<1>4. bus'.gui = ~bus.gui /\ bus'.watcher = bus.watcher /\ bus'.tray = bus.tray /\ AroundInv'
  <2>1. PICK wa, gu, tr : bus = [watcher |-> wa, gui |-> gu, tray |-> tr] /\ wa = bus.watcher /\ gu = bus.gui
    BY DEF DesktopInv, AroundInv
  <2>2. PICK next \in BOOLEAN : next = ~gu
    OBVIOUS
  <2>3. bus' = [bus EXCEPT !.gui = next]
    BY <2>1, <2>2 DEF WindowGoes
  <2>4. bus' = [watcher |-> wa, gui |-> next, tray |-> tr]
    BY <2>1, <2>3
  <2>5. bus'.watcher = wa /\ bus'.gui = next /\ bus'.tray = tr /\ bus.tray = tr
    BY <2>1, <2>4
  <2>6. AroundInv'
    BY <1>2, <2>1, <2>4, <2>5 DEF DesktopInv, AroundInv
  <2> QED
    BY <2>1, <2>2, <2>5, <2>6
<1>5. RecordsInv' /\ Alive' = Alive
  BY <1>2, <1>3, PostedDesktop DEF DesktopInv, RecordsInv
<1>6. ASSUME NEW t \in Alive PROVE TrayInv(t)'
  <2>1. /\ TrayInv(t) /\ trays[t].mail \in Seq(Mail)
        /\ trays'[t].exported = trays[t].exported
        /\ trays'[t].watcher = trays[t].watcher /\ trays'[t].guiOpen = trays[t].guiOpen
        /\ trays'[t].rows = trays[t].rows /\ trays'[t].offline = trays[t].offline
        /\ trays'[t].asking = trays[t].asking /\ trays'[t].indicator = trays[t].indicator
        /\ trays'[t].mail = Append(trays[t].mail, m)
    BY <1>2, <1>3, PostedDesktop
  <2>2. m.kind \notin OfTruth \union OfDaemon \union OfWatcher
    BY <1>3 DEF OfTruth, OfDaemon, OfWatcher
  <2>3. Hears(trays[t]) => Hears(trays[t])'
    <3>1. ASSUME NEW sort, Waits(trays[t].mail, sort) PROVE Waits(trays'[t].mail, sort)
      <4>1. m \in Mail /\ trays[t].mail \in Seq(Mail) /\ trays'[t].mail = Append(trays[t].mail, m)
        BY <1>3, <2>1
      <4> QED
        BY <3>1, <4>1, PostedLast
    <3> QED
      BY <1>2, <2>1, <3>1 DEF Hears
  <2>4. /\ TruthInv(trays[t])' /\ IndicatorInv(trays[t])' /\ SingleInv(t)'
        /\ \A sort : Waits(trays[t].mail, sort) => Waits(trays'[t].mail, sort)
    BY <1>2, <1>3, <1>4, <2>1, <2>2, <2>3, MoreMail
  <2>5. MailInv(trays[t])'
    <3>1. m.kind = IF bus'.gui THEN "gui appeared" ELSE "gui vanished"
      BY <1>2, <1>3, <1>4
    <3>2. Believes(trays'[t].mail, "gui appeared", "gui vanished", trays'[t].guiOpen, bus'.gui)
      BY <1>3, <2>1, <3>1, BelievesNew
    <3>3. /\ Believes(trays'[t].mail, "back", "lost", ~trays'[t].offline, answering')
          /\ Believes(trays'[t].mail, "appeared", "vanished", trays'[t].watcher, bus'.watcher)
      BY <1>2, <1>3, <1>4, <2>1, <2>2, BelievesOther DEF TrayInv, MailInv, OfDaemon, OfWatcher
    <3> QED
      BY <3>2, <3>3 DEF MailInv
  <2>6. PanelInv(trays[t], panel[t])'
    BY <1>2, <1>4, <2>1, <2>4 DEF TrayInv, PanelInv
  <2> QED
    BY <2>4, <2>5, <2>6 DEF TrayInv
<1> QED
  BY <1>4, <1>5, <1>6 DEF DesktopInv

\* The mail of a tray that starts.
LEMMA FirstTwo ==
    ASSUME NEW a \in Mail, NEW b \in Mail, NEW mail, mail = <<a, b>> \o <<>>
    PROVE  mail \in Seq(Mail) /\ Len(mail) = 2 /\ mail[1] = a /\ mail[2] = b
<1>1. mail = <<a, b>>
  OBVIOUS
<1> QED
  BY <1>1

\* The mail of a tray that starts while the daemon is not there.
LEMMA FirstThree ==
    ASSUME NEW a \in Mail, NEW b \in Mail, NEW l \in Mail, NEW mail, mail = <<a, b>> \o <<l>>
    PROVE  mail \in Seq(Mail) /\ Len(mail) = 3 /\ mail[1] = a /\ mail[2] = b /\ mail[3] = l
<1>1. PICK pair, one : pair = <<a, b>> /\ one = <<l>>
  OBVIOUS
<1>2. pair \in Seq(Mail) /\ Len(pair) = 2 /\ pair[1] = a /\ pair[2] = b
  BY <1>1
<1>3. one \in Seq(Mail) /\ Len(one) = 1 /\ one[1] = l
  BY <1>1
<1>4. mail = pair \o one
  BY <1>1
<1>5. mail \in Seq(Mail) /\ Len(mail) = 3
  BY <1>2, <1>3, <1>4
<1>6. mail[1] = a /\ mail[2] = b /\ mail[3] = l
  BY <1>2, <1>3, <1>4
<1> QED
  BY <1>5, <1>6

\* The newest tray takes the name and asks; the one before it hears that it
\* lost it.
LEMMA LaunchDesktop == ASSUME DesktopInv, NEW t \in Trays, Launch(t) PROVE DesktopInv'
<1>1. PICK a, b, m, tail :
          /\ a = Call(IF bus.watcher THEN "appeared" ELSE "vanished")
          /\ b = Call(IF bus.gui THEN "gui appeared" ELSE "gui vanished")
          /\ m = Call("name lost") /\ tail = (IF answering THEN <<>> ELSE <<Call("lost")>>)
  OBVIOUS
<1>2. PICK mail : mail = <<a, b>> \o tail
  OBVIOUS
<1>3. /\ truth' = truth /\ answering' = answering /\ panel' = panel
      /\ bus.watcher \in BOOLEAN /\ bus.gui \in BOOLEAN /\ answering \in BOOLEAN
      /\ trays[t].phase = "none" /\ t \notin Alive
      /\ panel[t] = NotDrawn
  BY DEF Launch, DesktopInv, AroundInv, RecordsInv, Started, Alive
<1>4. /\ a \in Mail /\ a.kind = IF bus.watcher THEN "appeared" ELSE "vanished"
      /\ b \in Mail /\ b.kind = IF bus.gui THEN "gui appeared" ELSE "gui vanished"
      /\ m \in Mail /\ m.kind = "name lost"
      /\ Call("lost") \in Mail /\ Call("lost").kind = "lost"
  BY <1>1, MailTypes DEF OfWatcher, OfWindow, OfDaemon
<1>5. /\ mail \in Seq(Mail) /\ Len(mail) = (IF answering THEN 2 ELSE 3) /\ mail[1] = a /\ mail[2] = b
      /\ ~answering => mail[3] = Call("lost")
  <2>1. CASE answering
    <3>1. a \in Mail /\ b \in Mail /\ tail = <<>>
      BY <1>1, <1>4, <2>1
    <3>2. mail = <<a, b>> \o <<>>
      BY <1>2, <3>1
    <3> QED
      BY <2>1, <3>1, <3>2, FirstTwo
  <2>2. CASE ~answering
    <3>1. PICK l : l = Call("lost")
      OBVIOUS
    <3>2. a \in Mail /\ b \in Mail /\ l \in Mail /\ tail = <<l>>
      BY <1>1, <1>4, <2>2, <3>1
    <3>3. mail = <<a, b>> \o <<l>>
      BY <1>2, <3>2
    <3>4. mail \in Seq(Mail) /\ Len(mail) = 3 /\ mail[1] = a /\ mail[2] = b /\ mail[3] = l
      BY <3>2, <3>3, FirstThree
    <3> QED
      BY <2>2, <3>1, <3>4
  <2> QED
    BY <2>1, <2>2
<1>6. PICK new : new = [NobodyYet EXCEPT !.phase = "running", !.asking = TRUE, !.mail = mail]
  OBVIOUS
<1>7. /\ IsTray(new) /\ new.phase = "running" /\ ~new.exported /\ ~new.watcher /\ ~new.guiOpen
      /\ new.rows = {} /\ ~new.offline /\ new.asking /\ new.mail = mail
  <2>1. PICK no \in BOOLEAN, yes \in BOOLEAN : no = FALSE /\ yes = TRUE
    OBVIOUS
  <2>2. PICK rows, sign, nothing : rows = {} /\ sign = Indicator({}, {}) /\ nothing = <<>>
    OBVIOUS
  <2>3. PICK nobody : nobody = NobodyYet
    OBVIOUS
  <2>4. nobody = [phase |-> "none", exported |-> no, watcher |-> no, guiOpen |-> no, rows |-> rows,
                  offline |-> no, asking |-> no, indicator |-> sign, mail |-> nothing]
    BY <2>1, <2>2, <2>3 DEF NobodyYet
  <2>5. new = [nobody EXCEPT !.phase = "running", !.asking = yes, !.mail = mail]
    BY <1>6, <2>1, <2>2, <2>3
  <2>6. new = [phase |-> "running", exported |-> no, watcher |-> no, guiOpen |-> no, rows |-> rows,
               offline |-> no, asking |-> yes, indicator |-> sign, mail |-> mail]
    BY <2>4, <2>5
  <2>7. /\ new.phase = "running" /\ new.exported = no /\ new.watcher = no /\ new.guiOpen = no
        /\ new.rows = rows /\ new.offline = no /\ new.asking = yes /\ new.mail = mail
        /\ new.indicator = sign
    BY <2>6
  <2>8. IsTray(new)
    BY <1>5, <2>6, <2>7 DEF IsTray
  <2> QED
    BY <2>1, <2>2, <2>7, <2>8
<1>8. trays' = [u \in Trays |-> IF u = t THEN new
                                ELSE IF u = bus.tray THEN [trays[u] EXCEPT !.mail = Append(@, m)]
                                ELSE trays[u]]
  BY <1>1, <1>2, <1>6 DEF Launch
<1>9. /\ trays'[t] = new /\ trays' = [u \in Trays |-> trays'[u]]
      /\ \A u \in Trays \ {t, bus.tray} : trays'[u] = trays[u]
  BY <1>8
<1>10. bus'.watcher = bus.watcher /\ bus'.gui = bus.gui /\ bus'.tray = t /\ AroundInv'
  <2>1. PICK wa, gu, tr : bus = [watcher |-> wa, gui |-> gu, tray |-> tr] /\ wa = bus.watcher /\ gu = bus.gui
    BY DEF DesktopInv, AroundInv
  <2>2. bus' = [bus EXCEPT !.tray = t]
    BY DEF Launch
  <2>3. bus' = [watcher |-> wa, gui |-> gu, tray |-> t]
    BY <2>1, <2>2
  <2>4. bus'.watcher = wa /\ bus'.gui = gu /\ bus'.tray = t
    BY <2>3
  <2>5. AroundInv'
    BY <1>3, <2>1, <2>3, <2>4 DEF DesktopInv, AroundInv
  <2> QED
    BY <2>1, <2>4, <2>5
<1>11. ASSUME NEW u \in Trays, u = bus.tray, u # t
       PROVE  /\ IsTray(trays'[u]) /\ trays'[u].phase = trays[u].phase
              /\ trays'[u].exported = trays[u].exported
              /\ trays'[u].watcher = trays[u].watcher /\ trays'[u].guiOpen = trays[u].guiOpen
              /\ trays'[u].rows = trays[u].rows /\ trays'[u].offline = trays[u].offline
              /\ trays'[u].asking = trays[u].asking /\ trays'[u].indicator = trays[u].indicator
              /\ trays'[u].mail = Append(trays[u].mail, m) /\ trays[u].mail \in Seq(Mail)
  <2>1. PICK was, post : was = trays[u] /\ post = [was EXCEPT !.mail = Append(@, m)]
    OBVIOUS
  <2>2. IsTray(was) /\ trays'[u] = post
    BY <1>8, <1>11, <2>1 DEF DesktopInv, RecordsInv
  <2>3. /\ IsTray(post) /\ post.phase = was.phase /\ post.exported = was.exported
        /\ post.watcher = was.watcher /\ post.guiOpen = was.guiOpen /\ post.rows = was.rows
        /\ post.offline = was.offline /\ post.asking = was.asking
        /\ post.indicator = was.indicator /\ post.mail = Append(was.mail, m)
    <3>1. m \in Mail /\ IsTray(was) /\ post = [was EXCEPT !.mail = Append(@, m)]
      BY <1>4, <2>1, <2>2
    <3> QED
      BY <3>1, PostedTray
  <2>4. was.mail \in Seq(Mail)
    BY <2>2 DEF IsTray
  <2> QED
    BY <2>1, <2>2, <2>3, <2>4
<1>12. ASSUME NEW u \in Trays, u # t PROVE IsTray(trays'[u]) /\ trays'[u].phase = trays[u].phase
  BY <1>9, <1>11, <1>12 DEF DesktopInv, RecordsInv
<1>13. Alive' = Alive \union {t}
  BY <1>7, <1>9, <1>12 DEF Alive
<1>14. RecordsInv'
  BY <1>3, <1>7, <1>9, <1>12, <1>13 DEF DesktopInv, RecordsInv
<1>15. TrayInv(t)'
  <2>1. /\ 1 \in 1..Len(mail) /\ 2 \in 1..Len(mail) /\ mail[1] = a /\ mail[2] = b
        /\ ~answering => 3 \in 1..Len(mail) /\ mail[3] = Call("lost")
        /\ \A i \in 1..Len(mail) : \/ mail[i] = a \/ mail[i] = b
                                   \/ ~answering /\ mail[i] = Call("lost")
    BY <1>3, <1>5
  <2>2. ASSUME NEW yes, NEW no, NEW so \in BOOLEAN, yes # no,
               \/ a.kind = (IF so THEN yes ELSE no) /\ b.kind \notin {yes, no} /\ "lost" \notin {yes, no}
               \/ b.kind = (IF so THEN yes ELSE no) /\ a.kind \notin {yes, no} /\ "lost" \notin {yes, no}
        PROVE  Believes(mail, yes, no, FALSE, so)
    <3>1. Waits(mail, Of({IF so THEN yes ELSE no}))
      BY <1>4, <2>1, <2>2 DEF Waits, Of
    <3>2. ~Waits(mail, Of({IF so THEN no ELSE yes}))
      BY <1>4, <2>1, <2>2 DEF Waits, Of
    <3>3. \A right : Settles(mail, Of({IF so THEN no ELSE yes}), right)
      BY <3>2 DEF Settles, Waits
    <3> QED
      BY <3>1, <3>3 DEF Believes
  <2>3. Believes(mail, "appeared", "vanished", FALSE, bus.watcher)
    BY <1>3, <1>4, <2>2
  <2>4. Believes(mail, "gui appeared", "gui vanished", FALSE, bus.gui)
    BY <1>3, <1>4, <2>2
  <2>5. Believes(mail, "back", "lost", TRUE, answering)
    <3>1. ~Waits(mail, Of({"back"}))
      BY <1>4, <2>1 DEF Waits, Of
    <3>2. IF answering THEN ~Waits(mail, Of({"lost"})) ELSE Waits(mail, Of({"lost"}))
      BY <1>4, <2>1 DEF Waits, Of
    <3> QED
      BY <1>3, <3>1, <3>2 DEF Believes, Settles, Waits
  <2>6. MailInv(trays[t])'
    <3>1. new.watcher = FALSE /\ new.guiOpen = FALSE /\ (~new.offline) = TRUE
      BY <1>7 DEF IsTray
    <3> QED
      BY <1>3, <1>7, <1>9, <1>10, <2>3, <2>4, <2>5, <3>1 DEF MailInv
  <2>7. TruthInv(trays[t])' /\ IndicatorInv(trays[t])'
    BY <1>7, <1>9 DEF TruthInv, IndicatorInv, Hears
  <2>8. PanelInv(trays[t], panel[t])'
    BY <1>3, <1>7, <1>9, Nobody DEF PanelInv
  <2>9. SingleInv(t)'
    BY <1>10 DEF SingleInv
  <2> QED
    BY <2>6, <2>7, <2>8, <2>9 DEF TrayInv
<1>16. ASSUME NEW u \in Alive, u # bus.tray PROVE TrayInv(u)'
  <2>1. TrayInv(u) /\ trays'[u] = trays[u] /\ u \in Trays
    BY <1>3, <1>9, <1>16 DEF DesktopInv, Alive
  <2>2. SingleInv(u)'
    BY <1>16, <2>1 DEF TrayInv, SingleInv
  <2> QED
    BY <1>3, <1>10, <2>1, <2>2, OtherTray
<1>17. ASSUME NEW u \in Alive, u = bus.tray PROVE TrayInv(u)'
  <2>1. TrayInv(u) /\ u # t /\ u \in Trays
    BY <1>3 DEF DesktopInv, Alive
  <2>2. /\ trays'[u].exported = trays[u].exported
        /\ trays'[u].watcher = trays[u].watcher /\ trays'[u].guiOpen = trays[u].guiOpen
        /\ trays'[u].rows = trays[u].rows /\ trays'[u].offline = trays[u].offline
        /\ trays'[u].asking = trays[u].asking /\ trays'[u].indicator = trays[u].indicator
        /\ trays'[u].mail = Append(trays[u].mail, m) /\ trays[u].mail \in Seq(Mail)
    BY <1>11, <1>17, <2>1
  <2>3. ASSUME NEW sort, Waits(trays[u].mail, sort) \/ m \in sort PROVE Waits(trays'[u].mail, sort)
    <3>1. m \in Mail /\ trays[u].mail \in Seq(Mail) /\ trays'[u].mail = Append(trays[u].mail, m)
      BY <1>4, <2>2
    <3> QED
      BY <2>3, <3>1, PostedLast
  <2>4. MailInv(trays[u])'
    <3>1. m.kind \notin {"appeared", "vanished", "gui appeared", "gui vanished", "back", "lost"}
      BY <1>4
    <3> QED
      BY <1>3, <1>4, <1>10, <2>1, <2>2, <3>1, BelievesOther DEF TrayInv, MailInv
  <2>5. TruthInv(trays[u])'
    <3>1. m \notin OldWord /\ OldWord' = OldWord /\ Current' = Current
      BY <1>3, <1>4 DEF OldWord, Current, Of, OfTruth
    <3>2. Settles(trays[u].mail, OldWord, Current) => Settles(trays'[u].mail, OldWord, Current)
      <4>1. m \in Mail /\ trays[u].mail \in Seq(Mail) /\ trays'[u].mail = Append(trays[u].mail, m)
        BY <1>4, <2>2
      <4> QED
        BY <3>1, <4>1, PostedLast
    <3>3. Hears(trays[u]) => Hears(trays[u])'
      BY <1>3, <2>2, <2>3 DEF Hears
    <3>4. trays[u].rows = {} \/ \E row \in trays[u].rows : trays[u].rows = {row} /\ IsRow(row)'
      BY <1>3, <2>1 DEF TrayInv, TruthInv, IsRow
    <3>5. Hears(trays[u])' \/ Waits(trays'[u].mail, Current) \/ Says(trays[u].rows, truth.state)
      BY <2>1, <2>3, <3>3 DEF TrayInv, TruthInv
    <3>6. trays[u].rows = {} => Hears(trays[u])' \/ Waits(trays'[u].mail, Of({"screen"}))
      BY <2>1, <2>3, <3>3 DEF TrayInv, TruthInv
    <3>7. Hears(trays[u])' \/ Settles(trays'[u].mail, OldWord, Current)
      BY <2>1, <3>2, <3>3 DEF TrayInv, TruthInv
    <3>8. Hears(trays[u])' \/ Waits(trays'[u].mail, Current) \/ Says(trays[u].rows, truth.state)'
      <4>1. trays'[u].rows = trays[u].rows /\ truth' = truth
        BY <1>3, <2>2
      <4> QED
        BY <3>5, <4>1 DEF Says, IsRow
    <3> QED
      <4>1. trays'[u].rows = trays[u].rows /\ OldWord' = OldWord /\ Current' = Current
        BY <2>2, <3>1
      <4> QED
        BY <3>4, <3>6, <3>7, <3>8, <4>1 DEF TruthInv
  <2>6. IndicatorInv(trays[u])'
    BY <2>1, <2>2, <2>3 DEF TrayInv, IndicatorInv
  <2>7. PanelInv(trays[u], panel[u])'
    BY <1>3, <1>10, <2>1, <2>2, <2>3 DEF TrayInv, PanelInv
  <2>8. SingleInv(u)'
    <3>1. m \in Of({"name lost"})
      BY <1>4 DEF Of
    <3> QED
      BY <2>3, <3>1 DEF SingleInv
  <2> QED
    BY <2>4, <2>5, <2>6, <2>7, <2>8 DEF TrayInv
<1> QED
  BY <1>10, <1>13, <1>14, <1>15, <1>16, <1>17 DEF DesktopInv

\* Every step keeps the invariant.
LEMMA NextDesktop == DesktopInv /\ [DesktopNext]_desktop => DesktopInv'
<1> SUFFICES ASSUME DesktopInv, [DesktopNext]_desktop PROVE DesktopInv'
  OBVIOUS
<1>1. ASSUME NEW t \in Trays, Close(t) PROVE DesktopInv'
  BY <1>1, QuitsDesktop DEF Close
<1>2. CASE UNCHANGED desktop
  <2>1. /\ truth' = truth /\ answering' = answering /\ bus' = bus /\ trays' = trays /\ panel' = panel
        /\ Alive' = Alive
    BY <1>2 DEF desktop, Alive
  <2>2. AroundInv' /\ RecordsInv'
    BY <2>1 DEF DesktopInv, AroundInv, RecordsInv
  <2>3. ASSUME NEW t \in Alive PROVE TrayInv(t)'
    <3>1. TrayInv(t) /\ SingleInv(t)' /\ t \in Trays
      BY <2>1 DEF DesktopInv, TrayInv, SingleInv, Alive
    <3> QED
      BY <2>1, <3>1, OtherTray
  <2> QED
    BY <2>1, <2>2, <2>3 DEF DesktopInv
<1> QED
  BY <1>1, <1>2, LaunchDesktop, ExportDesktop, RunDesktop, RefreshedDesktop, PanelReadsDesktop,
     StateChangesDesktop, DaemonGoesDesktop, WatcherGoesDesktop, WindowGoesDesktop DEF DesktopNext

\* Tray.announce, _republish and the singleton name: once a tray has run its
\* callbacks it is the newest, has one icon on the panel that is there, and the
\* icon says what the daemon says.
THEOREM IconTellsTruth == DesktopSpec => []IconIsRight
<1>1. DesktopInv => IconIsRight
  <2> SUFFICES ASSUME DesktopInv, NEW t \in Alive, Quiet(t), trays[t].exported
               PROVE  /\ bus.tray = t
                      /\ panel[t].listed = bus.watcher
                      /\ panel[t].listed =>
                            /\ panel[t].status = (IF answering THEN Indicator({}, {ConnectionRow(truth)})
                                                  ELSE OfflineIndicator).status
                            /\ panel[t].manage = ~bus.gui
    BY DEF IconIsRight
  <2>1. /\ TrayInv(t) /\ IsTray(trays[t]) /\ IsDrawn(panel[t])
        /\ bus.watcher \in BOOLEAN /\ bus.gui \in BOOLEAN /\ answering \in BOOLEAN
    BY DEF DesktopInv, RecordsInv, AroundInv, Alive
  <2>2. /\ trays[t].mail = <<>> /\ ~trays[t].asking /\ ~panel[t].told
        /\ \A sort : ~Waits(trays[t].mail, sort)
    BY NoMail DEF Quiet
  <2>3. bus.tray = t
    BY <2>1, <2>2 DEF TrayInv, SingleInv
  <2>4. /\ trays[t].watcher <=> bus.watcher
        /\ trays[t].guiOpen <=> bus.gui
        /\ trays[t].offline <=> ~answering
    BY <2>1, <2>2 DEF TrayInv, MailInv, Believes
  <2>5. panel[t].listed = bus.watcher /\ (panel[t].listed => panel[t].manage = ~bus.gui)
    BY <2>1, <2>2, <2>4 DEF TrayInv, PanelInv, IsDrawn
  <2>6. panel[t].listed => panel[t].status = trays[t].indicator.status
    BY <2>1, <2>2 DEF TrayInv, PanelInv
  <2>7. CASE ~answering
    BY <2>1, <2>3, <2>4, <2>5, <2>6, <2>7 DEF TrayInv, IndicatorInv
  <2>8. CASE answering
    <3>1. trays[t].indicator = Indicator({}, trays[t].rows)
      BY <2>1, <2>2, <2>4, <2>8 DEF TrayInv, IndicatorInv
    <3>2. Says(trays[t].rows, truth.state)
      BY <2>1, <2>2, <2>8 DEF TrayInv, TruthInv, Hears
    <3>3. PICK row : trays[t].rows = {row} /\ IsRow(row) /\ row.state = truth.state
      BY <3>2 DEF Says
    <3>4. trays[t].indicator.status = Indicator({}, {ConnectionRow(truth)}).status
      BY <3>1, <3>3, IconOfRow
    <3> QED
      BY <2>3, <2>5, <2>6, <2>8, <3>4
  <2> QED
    BY <2>1, <2>7, <2>8
<1> QED
  BY <1>1, InitDesktop, NextDesktop, PTL DEF DesktopSpec

-----------------------------------------------------------------------------
(***************************************************************************)
(* The documents: the inductive invariant.                                 *)
(***************************************************************************)
IsList(records) == (\E R : records \in Seq(R)) /\ Len(records) <= MaxRecords
IsDoc(doc) ==
    /\ doc = [shares |-> doc.shares, connections |-> doc.connections]
    /\ IsList(doc.shares) /\ IsList(doc.connections)

\* Two connections race each other for a share or for a mountpoint.
Race(c, d) ==
    c.mountpoint = d.mountpoint \/ <<Small[c.host], Lower(c.share)>> = <<Small[d.host], Lower(d.share)>>
Apart(records) == \A i, j \in DOMAIN records : i # j => ~Race(records[i], records[j])

DocumentsInv == IsDoc(file) /\ (~tampered => Apart(file.connections))

-----------------------------------------------------------------------------
\* The least of a set of numbers is in it.
LEMMA HasLeast ==
    ASSUME NEW S \in SUBSET Nat, S # {}
    PROVE  Min(S) \in S /\ \A i \in S : Min(S) <= i
<1>1. PICK R : R = OpToRel(<, Nat)
  OBVIOUS
<1>2. \A i, j \in Nat : i < j => <<i, j>> \in R
  BY <1>1 DEF OpToRel
<1>3. IsWellFoundedOn(R, Nat)
  BY <1>1, NatLessThanWellFounded
<1>4. \E x \in S : \A y \in S : ~ (<<y, x>> \in R)
  BY <1>3, WFMin
<1>5. PICK x \in S : \A y \in S : <<y, x>> \notin R
  BY <1>4
<1>6. ASSUME NEW y \in S PROVE x <= y
  <2>1. ~(y < x)
    BY <1>2, <1>5
  <2> QED
    BY <2>1
<1> QED
  BY <1>6 DEF Min

\* A record is added at the end.
LEMMA Appended ==
    ASSUME NEW records, IsList(records), Len(records) < MaxRecords, NEW r,
           NEW more, more = Append(records, r)
    PROVE  /\ IsList(more) /\ Len(records) \in Nat /\ Len(more) = Len(records) + 1
           /\ DOMAIN records = 1..Len(records) /\ DOMAIN more = 1..Len(more)
           /\ \A i \in DOMAIN records : more[i] = records[i]
           /\ more[Len(more)] = r
<1>1. PICK R : records \in Seq(R)
  BY DEF IsList
<1>2. records \in Seq(R \union {r}) /\ r \in R \union {r}
  BY <1>1
<1>3. /\ more \in Seq(R \union {r}) /\ Len(records) \in Nat /\ Len(more) = Len(records) + 1
      /\ DOMAIN records = 1..Len(records) /\ DOMAIN more = 1..Len(more)
      /\ \A i \in 1..Len(records) : more[i] = records[i]
      /\ more[Len(records) + 1] = r
  BY <1>2
<1>4. MaxRecords \in Nat
  BY DocumentsBounds
<1> QED
  BY <1>3, <1>4 DEF IsList

\* And it is the last.
LEMMA LastAppended ==
    ASSUME NEW records, IsList(records), Len(records) < MaxRecords, NEW r,
           NEW more, more = Append(records, r)
    PROVE  IsList(more) /\ DOMAIN more = 1..Len(more) /\ more[Len(more)] = r
<1>1. IsList(more)
  BY Appended
<1>2. DOMAIN more = 1..Len(more)
  BY Appended
<1>3. more[Len(more)] = r
  BY Appended
<1> QED
  BY <1>1, <1>2, <1>3

\* A record is taken out, and those behind it move up.
LEMMA Removed ==
    ASSUME NEW records, IsList(records), NEW k \in DOMAIN records,
           NEW less, less = RemoveAt(records, k)
    PROVE  /\ IsList(less)
           /\ \A i \in DOMAIN less : \E j \in DOMAIN records :
                 less[i] = records[j] /\ j = (IF i < k THEN i ELSE i + 1)
<1>1. PICK R : records \in Seq(R)
  BY DEF IsList
<1>2. Len(records) \in Nat /\ DOMAIN records = 1..Len(records) /\ k \in 1..Len(records)
  BY <1>1
<1>3. PICK front, back : front = SubSeq(records, 1, k - 1) /\ back = SubSeq(records, k + 1, Len(records))
  OBVIOUS
<1>4. /\ front \in Seq(R) /\ Len(front) = k - 1 /\ \A i \in 1..(k - 1) : front[i] = records[i]
  BY <1>1, <1>2, <1>3
<1>5. /\ back \in Seq(R) /\ Len(back) = Len(records) - k
      /\ \A i \in 1..(Len(records) - k) : back[i] = records[i + k]
  BY <1>1, <1>2, <1>3
<1>6. less = front \o back
  BY <1>3 DEF RemoveAt
<1>7. /\ less \in Seq(R) /\ Len(less) = Len(front) + Len(back)
      /\ \A i \in 1..Len(less) : less[i] = IF i <= Len(front) THEN front[i] ELSE back[i - Len(front)]
  BY <1>4, <1>5, <1>6, ConcatProperties, SMTT(30)
<1>8. /\ Len(less) = Len(records) - 1 /\ DOMAIN less = 1..(Len(records) - 1)
      /\ \A i \in 1..(Len(records) - 1) :
            less[i] = IF i < k THEN front[i] ELSE back[i - (k - 1)]
  BY <1>2, <1>4, <1>5, <1>7
<1>9. ASSUME NEW i \in DOMAIN less
       PROVE  less[i] = records[IF i < k THEN i ELSE i + 1] /\ (IF i < k THEN i ELSE i + 1) \in DOMAIN records
  <2>1. i \in Nat /\ 1 <= i /\ i <= Len(records) - 1
    BY <1>2, <1>8
  <2>2. CASE i < k
    BY <1>2, <1>4, <1>8, <2>1, <2>2
  <2>3. CASE ~(i < k)
    <3>1. i - (k - 1) \in 1..(Len(records) - k) /\ (i - (k - 1)) + k = i + 1
      BY <1>2, <2>1, <2>3
    <3>2. less[i] = records[i + 1]
      BY <1>5, <1>8, <2>3, <3>1
    <3> QED
      BY <1>2, <2>1, <2>3, <3>2
  <2> QED
    BY <2>2, <2>3
<1>10. MaxRecords \in Nat
  BY DocumentsBounds
<1> QED
  BY <1>2, <1>7, <1>8, <1>10, <1>9 DEF IsList

\* What is found is there.
LEMMA FoundThere ==
    ASSUME NEW records, IsList(records), NEW ref
    PROVE  Find(records, ref) = 0 \/ Find(records, ref) \in DOMAIN records
<1>1. DOMAIN records \subseteq Nat
  BY DEF IsList
<1>2. PICK byName, byId : /\ byName = {i \in DOMAIN records : Lower(Human(records[i])) = Lower(ref)}
                          /\ byId = {i \in DOMAIN records : records[i].id = ref}
  OBVIOUS
<1>3. Find(records, ref) = IF byId # {} THEN Min(byId) ELSE IF byName # {} THEN Min(byName) ELSE 0
  BY <1>2 DEF Find
<1>4. byId \in SUBSET Nat /\ byName \in SUBSET Nat /\ byId \subseteq DOMAIN records /\ byName \subseteq DOMAIN records
  BY <1>1, <1>2
<1>5. byId # {} => Min(byId) \in byId
  BY <1>4, HasLeast
<1>6. byName # {} => Min(byName) \in byName
  BY <1>4, HasLeast
<1> QED
  BY <1>3, <1>4, <1>5, <1>6

\* An answer changes the file only when it is "ok".
LEMMA AnsweredIs ==
    ASSUME NEW r, NEW answer, NEW doc, Answered(r, answer, doc)
    PROVE  /\ query' = r
           /\ \/ file' = file /\ said' # "ok"
              \/ answer = "ok" /\ said' = "ok" /\ file' = doc
  BY DEF Answered

-----------------------------------------------------------------------------
(***************************************************************************)
(* The documents: names.                                                   *)
(***************************************************************************)
\* A list of n has n places.
LEMMA PlacesOfList ==
    ASSUME NEW n \in Nat
    PROVE  IsFiniteSet(1..n) /\ Cardinality(1..n) = n
<1>1. IsFiniteSet(1..n) /\ Cardinality(1..n) = IF 1 > n THEN 0 ELSE n - 1 + 1
  BY FS_Interval
<1> QED
  BY <1>1

\* As many values at most as there are places in a list.
LEMMA FewValues ==
    ASSUME NEW n \in Nat, NEW f, NEW S, S = {f[i] : i \in 1..n}
    PROVE  IsFiniteSet(S) /\ Cardinality(S) <= n /\ Cardinality(S) \in Nat
<1>1. PICK g : g = [i \in 1..n |-> f[i]]
  OBVIOUS
<1>2. g \in Surjection(1..n, S)
  BY <1>1 DEF Surjection
<1>3. IsFiniteSet(1..n) /\ Cardinality(1..n) = n
  BY PlacesOfList
<1>4. IsFiniteSet(S) /\ Cardinality(S) <= Cardinality(1..n)
  BY <1>2, <1>3, FS_Surjection
<1> QED
  BY <1>3, <1>4, FS_CardinalityType

\* The first free name is free while numbers last.
LEMMA FirstFreeIsFree ==
    ASSUME NEW words \in Seq(DOMAIN Small), NEW taken, IsFiniteSet(taken), Cardinality(taken) < Len(Numbers)
    PROVE  FirstFree(words, taken) \notin taken
<1>1. CASE words \notin taken
  BY <1>1 DEF FirstFree
<1>2. CASE words \in taken
  <2>1. /\ Len(Numbers) \in Nat /\ DOMAIN Numbers = 1..Len(Numbers)
        /\ \A i \in DOMAIN Numbers : Numbers[i] \in DOMAIN Small
        /\ \A i, j \in DOMAIN Numbers : Numbers[i] = Numbers[j] => i = j
    BY EnoughNumbers
  <2>2. PICK name : name = [k \in DOMAIN Numbers |-> Append(words, Numbers[k])]
    OBVIOUS
  <2>3. ASSUME NEW i \in DOMAIN Numbers, NEW j \in DOMAIN Numbers, name[i] = name[j] PROVE i = j
    <3>1. /\ Append(words, Numbers[i])[Len(words) + 1] = Numbers[i]
          /\ Append(words, Numbers[j])[Len(words) + 1] = Numbers[j]
      BY <2>1
    <3> QED
      BY <2>1, <2>2, <2>3, <3>1
  <2>4. PICK S : S = {k \in DOMAIN Numbers : Append(words, Numbers[k]) \notin taken}
    OBVIOUS
  <2>5. ASSUME S = {} PROVE FALSE
    <3>1. \A k \in DOMAIN Numbers : name[k] \in taken
      BY <2>2, <2>4, <2>5
    <3>2. name \in [DOMAIN Numbers -> taken]
      BY <2>2, <3>1
    <3>3. name \in Injection(DOMAIN Numbers, taken)
      BY <2>3, <3>2 DEF Injection, IsInjective
    <3>4. Cardinality(DOMAIN Numbers) <= Cardinality(taken)
      BY <3>3, FS_Injection
    <3>5. Cardinality(DOMAIN Numbers) = Len(Numbers)
      BY <2>1, PlacesOfList
    <3>6. Cardinality(taken) \in Nat
      BY FS_CardinalityType
    <3> QED
      BY <2>1, <3>4, <3>5, <3>6
  <2>6. S \in SUBSET Nat
    BY <2>1, <2>4
  <2>7. Min(S) \in S
    BY <2>5, <2>6, HasLeast
  <2>8. FirstFree(words, taken) = Append(words, Numbers[Min(S)])
    BY <1>2, <2>4 DEF FirstFree
  <2> QED
    BY <2>4, <2>7, <2>8
<1> QED
  BY <1>1, <1>2

\* An id that is made is no other record's.
LEMMA MadeIdIsFree ==
    ASSUME NEW doc, IsDoc(doc), Len(doc.connections) < MaxRecords, NEW words \in Seq(DOMAIN Small)
    PROVE  MakeId(words, AllIds(doc)) \notin AllIds(doc)
<1>1. PICK R, T : doc.shares \in Seq(R) /\ doc.connections \in Seq(T)
  BY DEF IsDoc, IsList
<1>2. PICK all : all = doc.shares \o doc.connections
  OBVIOUS
<1>3. all \in Seq(R \union T) /\ Len(all) = Len(doc.shares) + Len(doc.connections)
  BY <1>1, <1>2
<1>4. PICK n \in Nat : n = Len(all) /\ n < 2 * MaxRecords /\ DOMAIN all = 1..n
  BY <1>1, <1>3, DocumentsBounds DEF IsDoc, IsList
<1>5. PICK f : f = [i \in 1..n |-> all[i].id]
  OBVIOUS
<1>6. PICK taken : taken = AllIds(doc)
  OBVIOUS
<1>7. taken = {f[i] : i \in 1..n}
  BY <1>2, <1>4, <1>5, <1>6 DEF AllIds, ToSet
<1>8. IsFiniteSet(taken) /\ Cardinality(taken) <= n /\ Cardinality(taken) \in Nat
  BY <1>7, FewValues
<1>9. Cardinality(BusyPaths) \in Nat /\ Len(Numbers) >= 2 * MaxRecords + Cardinality(BusyPaths)
      /\ Len(Numbers) \in Nat /\ MaxRecords \in Nat
  BY EnoughNumbers, DocumentsBounds, FS_CardinalityType
<1>10. Cardinality(taken) < Len(Numbers)
  BY <1>4, <1>8, <1>9
<1>11. Lower(words) \in Seq(DOMAIN Small)
  BY DocumentsWords DEF Lower
<1> QED
  BY <1>6, <1>8, <1>10, <1>11, FirstFreeIsFree DEF MakeId

\* A mountpoint that is derived is no connection's, and nothing is mounted on it.
LEMMA DerivedIsFree ==
    ASSUME NEW records, IsList(records), Len(records) < MaxRecords, NEW busy \in SUBSET BusyPaths,
           NEW share \in Titles, NEW host \in Hosts,
           NEW taken, taken = {c.mountpoint : c \in ToSet(records)} \union busy
    PROVE  DefaultMountpoint(share, host, taken) \notin taken
<1>1. PICK paths : paths = {c.mountpoint : c \in ToSet(records)}
  OBVIOUS
<1>2. PICK n \in Nat : n = Len(records) /\ n < MaxRecords /\ DOMAIN records = 1..n
  BY DEF IsList
<1>3. PICK f : f = [i \in 1..n |-> records[i].mountpoint]
  OBVIOUS
<1>4. paths = {f[i] : i \in 1..n}
  BY <1>1, <1>2, <1>3 DEF ToSet
<1>5. IsFiniteSet(paths) /\ Cardinality(paths) <= n /\ Cardinality(paths) \in Nat
  BY <1>4, FewValues
<1>6. /\ IsFiniteSet(BusyPaths) /\ Cardinality(BusyPaths) \in Nat /\ MaxRecords \in Nat
      /\ Len(Numbers) >= 2 * MaxRecords + Cardinality(BusyPaths) /\ Len(Numbers) \in Nat
  BY EnoughNumbers, DocumentsBounds, FS_CardinalityType
<1>7. IsFiniteSet(busy) /\ Cardinality(busy) <= Cardinality(BusyPaths) /\ Cardinality(busy) \in Nat
  BY <1>6, FS_Subset, FS_CardinalityType
<1>8. IsFiniteSet(paths \union busy) /\ Cardinality(paths \union busy) \in Nat
      /\ Cardinality(paths \union busy) <= Cardinality(paths) + Cardinality(busy)
  <2>1. /\ IsFiniteSet(paths \cup busy)
        /\ Cardinality(paths \cup busy) = Cardinality(paths) + Cardinality(busy) - Cardinality(paths \cap busy)
    BY <1>5, <1>7, FS_Union
  <2>2. IsFiniteSet(paths \cap busy)
    BY <1>5, FS_Subset
  <2>3. Cardinality(paths \cap busy) \in Nat /\ Cardinality(paths \cup busy) \in Nat
    BY <2>1, <2>2, FS_CardinalityType
  <2> QED
    BY <1>5, <1>7, <2>1, <2>3
<1>9. IsFiniteSet(taken) /\ Cardinality(taken) < Len(Numbers)
  BY <1>1, <1>2, <1>5, <1>6, <1>7, <1>8
<1>10. Root \o share \o <<"on", host>> \in Seq(DOMAIN Small)
  <2>1. Root \in Seq(DOMAIN Small) /\ share \in Seq(DOMAIN Small)
    BY DocumentsWords
  <2>2. "on" \in DOMAIN Small /\ host \in DOMAIN Small
    BY DocumentsWords
  <2>3. <<"on", host>> \in Seq(DOMAIN Small)
    BY <2>2
  <2> QED
    BY <2>1, <2>3
<1> QED
  BY <1>9, <1>10, FirstFreeIsFree DEF DefaultMountpoint

-----------------------------------------------------------------------------
(***************************************************************************)
(* The documents: the operations.                                          *)
(***************************************************************************)
\* A list in the place of another.
LEMMA DocWith ==
    ASSUME NEW doc, IsDoc(doc), NEW records, IsList(records)
    PROVE  /\ IsDoc([doc EXCEPT !.connections = records]) /\ IsDoc([doc EXCEPT !.shares = records])
           /\ [doc EXCEPT !.connections = records].connections = records
           /\ [doc EXCEPT !.connections = records].shares = doc.shares
           /\ [doc EXCEPT !.shares = records].connections = doc.connections
<1>1. PICK served, connections : served = doc.shares /\ connections = doc.connections
  OBVIOUS
<1>2. doc = [shares |-> served, connections |-> connections] /\ IsList(served) /\ IsList(connections)
  BY <1>1 DEF IsDoc
<1>3. [doc EXCEPT !.connections = records] = [shares |-> served, connections |-> records]
  BY <1>2
<1>4. [doc EXCEPT !.shares = records] = [shares |-> records, connections |-> connections]
  BY <1>2
<1> QED
  BY <1>1, <1>2, <1>3, <1>4 DEF IsDoc

\* A connection with an id of its own leaves a valid document valid.
LEMMA ValidWithMore ==
    ASSUME NEW doc, IsDoc(doc), Len(doc.connections) < MaxRecords, Valid(doc), NEW r, r.id \notin AllIds(doc),
           NEW more, more.shares = doc.shares, more.connections = Append(doc.connections, r)
    PROVE  Valid(more)
<1>1. PICK R, T : doc.shares \in Seq(R) /\ doc.connections \in Seq(T)
  BY DEF IsDoc, IsList
<1>2. PICK all, next : all = doc.shares \o doc.connections /\ next = more.shares \o more.connections
  OBVIOUS
<1>3. next = Append(all, r)
  <2>1. PICK U : U = R \union T \union {r}
    OBVIOUS
  <2>2. doc.shares \in Seq(U) /\ doc.connections \in Seq(U) /\ <<r>> \in Seq(U) /\ r \in U
    BY <1>1, <2>1
  <2>3. Append(doc.connections, r) = doc.connections \o <<r>>
    BY <2>2, AppendIsConcat
  <2>4. all \in Seq(U)
    BY <1>2, <2>2
  <2>5. Append(all, r) = all \o <<r>>
    BY <2>2, <2>4, AppendIsConcat
  <2>6. PICK a, b, c : a = doc.shares /\ b = doc.connections /\ c = <<r>>
    OBVIOUS
  <2>7. (a \o b) \o c = a \o (b \o c)
    <3>1. a \in Seq(U) /\ b \in Seq(U) /\ c \in Seq(U)
      BY <2>2, <2>6
    <3> QED
      BY <3>1, ConcatAssociative, SMTT(30)
  <2> QED
    BY <1>2, <2>3, <2>5, <2>6, <2>7
<1>4. PICK n \in Nat : n = Len(all) /\ DOMAIN all = 1..n /\ all \in Seq(R \union T)
  <2>1. all \in Seq(R \union T)
    BY <1>1, <1>2
  <2> QED
    BY <2>1
<1>5. /\ DOMAIN next = 1..(n + 1) /\ next[n + 1] = r
      /\ \A i \in 1..n : next[i] = all[i]
  <2>1. all \in Seq(R \union T \union {r})
    BY <1>4
  <2> QED
    BY <1>3, <1>4, <2>1
<1>6. \A i \in 1..n : all[i].id # r.id
  BY <1>2, <1>4 DEF AllIds, ToSet
<1>7. \A i, j \in 1..n : all[i].id = all[j].id => i = j
  BY <1>2, <1>4 DEF Valid, IdsDiffer, Distinct
<1>8. \A i, j \in 1..(n + 1) : next[i].id = next[j].id => i = j
  <2>1. \A i \in 1..(n + 1) : i \in 1..n \/ i = n + 1
    OBVIOUS
  <2> QED
    BY <1>5, <1>6, <1>7, <2>1
<1>9. IdsDiffer(more)
  BY <1>2, <1>5, <1>8 DEF IdsDiffer, Distinct
<1> QED
  BY <1>9 DEF Valid, ServedNamesDiffer, NamesAllowed

\* Connections that are apart stay so when one is added that races none of them.
LEMMA ApartWithMore ==
    ASSUME NEW records, IsList(records), Len(records) < MaxRecords, Apart(records), NEW r,
           \A i \in DOMAIN records : ~Race(records[i], r),
           NEW more, more = Append(records, r)
    PROVE  Apart(more)
<1>1. /\ Len(records) \in Nat /\ Len(more) = Len(records) + 1
      /\ DOMAIN records = 1..Len(records) /\ DOMAIN more = 1..Len(more)
      /\ \A i \in DOMAIN records : more[i] = records[i]
      /\ more[Len(more)] = r
  BY Appended
<1>2. \A i \in DOMAIN more : i \in DOMAIN records \/ i = Len(more)
  BY <1>1
<1>3. \A c, d : Race(c, d) <=> Race(d, c)
  BY DEF Race
<1> QED
  BY <1>1, <1>2, <1>3 DEF Apart

\* A share that is added touches no connection.
LEMMA AddShareKeeps ==
    ASSUME DocumentsInv, NEW name, NEW id, AddShare(name, id)
    PROVE  DocumentsInv' /\ OnlyRepeatsAreRefused'
<1>1. PICK more, r : /\ r = [id |-> IF id = Nothing THEN MakeId(name, AllIds(file)) ELSE id, name |-> name]
                     /\ more = Append(file.shares, r)
  OBVIOUS
<1>2. PICK doc : doc = [file EXCEPT !.shares = more]
  OBVIOUS
<1>3. Len(file.shares) < MaxRecords /\ UNCHANGED tampered /\ query'.what = "add share" /\ (file' = file \/ file' = doc)
  BY <1>1, <1>2 DEF AddShare, Answered
<1>4. IsList(more)
  BY <1>1, <1>3, Appended DEF DocumentsInv, IsDoc
<1>5. IsDoc(doc) /\ doc.connections = file.connections
  BY <1>2, <1>4, DocWith DEF DocumentsInv
<1>6. DocumentsInv'
  BY <1>3, <1>5 DEF DocumentsInv
<1> QED
  BY <1>3, <1>6 DEF OnlyRepeatsAreRefused

\* A connection that is added races no other, and is refused for a repeat alone
\* when its place was left to the daemon.
LEMMA AddConnectionKeeps ==
    ASSUME DocumentsInv, NEW host \in Hosts, NEW share \in Titles, NEW place, NEW fallback, NEW inUse \in SUBSET BusyPaths,
           AddConnection(host, share, place, fallback, inUse)
    PROVE  DocumentsInv' /\ OnlyRepeatsAreRefused'
<1>1. PICK paths : paths = {c.mountpoint : c \in ToSet(file.connections)}
  OBVIOUS
<1>2. PICK mountpoint :
            mountpoint = IF place = Nothing THEN DefaultMountpoint(share, host, paths \union inUse) ELSE place
  OBVIOUS
<1>3. PICK id : id = MakeId(<<host>> \o share, AllIds(file))
  OBVIOUS
<1>4. PICK r : r = [id |-> id, host |-> host, share |-> share, mountpoint |-> mountpoint, fallback |-> fallback]
  OBVIOUS
<1>5. PICK more : more = Append(file.connections, r)
  OBVIOUS
<1>6. PICK doc : doc = [file EXCEPT !.connections = more]
  OBVIOUS
<1>7. PICK q : q = [what |-> "add connection", host |-> host, share |-> share, place |-> place, inUse |-> inUse]
  OBVIOUS
<1>8. PICK answer : answer = IF Repeats(file, host, share) \/ mountpoint \in paths THEN "exists" ELSE "ok"
  OBVIOUS
<1>9. Len(file.connections) < MaxRecords /\ Answered(q, answer, doc) /\ UNCHANGED <<tampered, byHand>>
  BY <1>1, <1>2, <1>3, <1>4, <1>5, <1>6, <1>7, <1>8 DEF AddConnection
<1>10. IsDoc(file) /\ IsList(file.connections)
  BY DEF DocumentsInv, IsDoc
<1>11. /\ IsList(more) /\ DOMAIN more = 1..Len(more) /\ more[Len(more)] = r
  <2>1. PICK records : records = file.connections
    OBVIOUS
  <2>2. IsList(records) /\ Len(records) < MaxRecords /\ more = Append(records, r)
    BY <1>5, <1>9, <1>10, <2>1
  <2> QED
    BY <2>2, LastAppended
<1>12. IsDoc(doc) /\ doc.connections = more /\ doc.shares = file.shares
  BY <1>6, <1>10, <1>11, DocWith
<1>13. /\ r.host = host /\ r.share = share /\ r.mountpoint = mountpoint /\ r.id = id
       /\ q.what = "add connection" /\ q.host = host /\ q.share = share /\ q.place = place /\ q.inUse = inUse
  BY <1>4, <1>7
<1>14. ASSUME answer = "ok", NEW i \in DOMAIN file.connections PROVE ~Race(file.connections[i], r)
  <2>1. ~Repeats(file, host, share) /\ mountpoint \notin paths
    BY <1>8, <1>14
  <2>2. file.connections[i] \in ToSet(file.connections)
    BY DEF ToSet
  <2> QED
    BY <1>1, <1>13, <2>1, <2>2 DEF Repeats, Race
<1>15. DocumentsInv'
  <2>1. CASE file' = file
    BY <1>9, <2>1 DEF DocumentsInv
  <2>2. CASE file' = doc /\ answer = "ok"
    <3>1. ~tampered => Apart(more)
      BY <1>5, <1>9, <1>10, <1>14, <2>2, ApartWithMore DEF DocumentsInv
    <3> QED
      BY <1>9, <1>12, <2>2, <3>1 DEF DocumentsInv
  <2> QED
    BY <1>9, <2>1, <2>2, AnsweredIs
<1>16. ASSUME place = Nothing PROVE mountpoint \notin paths \union inUse
  BY <1>1, <1>2, <1>9, <1>10, <1>16, DerivedIsFree
<1>17. Valid(file) => Valid(doc)
  <2>1. <<host>> \o share \in Seq(DOMAIN Small)
    <3>1. <<host>> \in Seq(DOMAIN Small) /\ share \in Seq(DOMAIN Small)
      BY DocumentsWords
    <3> QED
      BY <3>1
  <2>2. id \notin AllIds(file)
    BY <1>3, <1>9, <1>10, <2>1, MadeIdIsFree
  <2> QED
    BY <1>5, <1>9, <1>10, <1>12, <1>13, <2>2, ValidWithMore
<1>18. OnlyRepeatsAreRefused'
  <2>1. query' = q /\ said' = IF ~Valid(file) THEN "unreadable"
                              ELSE IF answer = "ok" /\ ~Valid(doc) THEN "invalid" ELSE answer
    BY <1>9 DEF Answered
  <2>2. CASE place # Nothing \/ said' = "unreadable"
    BY <1>13, <2>1, <2>2 DEF OnlyRepeatsAreRefused
  <2>3. CASE place = Nothing /\ said' # "unreadable"
    <3>1. said' = answer /\ answer \in {"ok", "exists"}
      BY <1>8, <1>17, <2>1, <2>3
    <3>2. answer = "exists" => Repeats(file, host, share) /\ file' = file
      BY <1>8, <1>9, <1>16, <2>3, AnsweredIs
    <3>3. answer = "ok" => file' = doc /\ Last(more).mountpoint \notin inUse
      BY <1>9, <1>11, <1>13, <1>16, <2>3, <3>1, AnsweredIs DEF Last
    <3> QED
      BY <1>12, <1>13, <2>1, <3>1, <3>2, <3>3 DEF OnlyRepeatsAreRefused
  <2> QED
    BY <2>2, <2>3
<1> QED
  BY <1>15, <1>18

\* What is taken out leaves the others apart.
LEMMA RemoveRecordKeeps ==
    ASSUME DocumentsInv, NEW kind \in Kinds, NEW ref, RemoveRecord(kind, ref)
    PROVE  DocumentsInv' /\ OnlyRepeatsAreRefused'
<1>1. PICK found : found = Find(file[kind], ref)
  OBVIOUS
<1>2. PICK less : less = RemoveAt(file[kind], found)
  OBVIOUS
<1>3. /\ UNCHANGED tampered /\ query'.what = "remove"
      /\ \/ file' = file
         \/ found # 0 /\ file' = [file EXCEPT ![kind] = less]
  BY <1>1, <1>2 DEF RemoveRecord, Answered
<1>4. OnlyRepeatsAreRefused'
  BY <1>3 DEF OnlyRepeatsAreRefused
<1>5. CASE file' = file
  BY <1>3, <1>4, <1>5 DEF DocumentsInv
<1>6. CASE found # 0 /\ file' = [file EXCEPT ![kind] = less]
  <2>1. IsDoc(file) /\ IsList(file[kind]) /\ kind \in {"shares", "connections"}
    BY DEF DocumentsInv, IsDoc, Kinds
  <2>2. found \in DOMAIN file[kind]
    BY <1>1, <1>6, <2>1, FoundThere
  <2>3. /\ IsList(less)
        /\ \A i \in DOMAIN less : \E j \in DOMAIN file[kind] :
               less[i] = file[kind][j] /\ j = (IF i < found THEN i ELSE i + 1)
    BY <1>2, <2>1, <2>2, Removed
  <2>4. CASE kind = "shares"
    <3>1. IsDoc(file') /\ file'.connections = file.connections
      <4>1. file' = [file EXCEPT !.shares = less] /\ IsList(less)
        BY <1>6, <2>3, <2>4
      <4> QED
        BY <2>1, <4>1, DocWith
    <3> QED
      BY <1>3, <1>4, <3>1 DEF DocumentsInv
  <2>5. CASE kind = "connections"
    <3>1. IsDoc(file') /\ file'.connections = less
      <4>1. file' = [file EXCEPT !.connections = less] /\ IsList(less)
        BY <1>6, <2>3, <2>5
      <4> QED
        BY <2>1, <4>1, DocWith
    <3>2. DOMAIN less \subseteq Nat
      BY <2>3 DEF IsList
    <3>3. found \in Nat
      BY <2>1, <2>2 DEF IsList
    <3>4. ASSUME Apart(file.connections) PROVE Apart(less)
      <4>1. ASSUME NEW i \in DOMAIN less, NEW j \in DOMAIN less, i # j PROVE ~Race(less[i], less[j])
        <5>1. PICK k \in DOMAIN file.connections :
                  less[i] = file.connections[k] /\ k = (IF i < found THEN i ELSE i + 1)
          BY <2>3, <2>5
        <5>2. PICK l \in DOMAIN file.connections :
                  less[j] = file.connections[l] /\ l = (IF j < found THEN j ELSE j + 1)
          BY <2>3, <2>5
        <5>3. k # l
          BY <3>2, <3>3, <4>1, <5>1, <5>2
        <5> QED
          BY <3>4, <5>1, <5>2, <5>3 DEF Apart
      <4> QED
        BY <4>1 DEF Apart
    <3> QED
      BY <1>3, <1>4, <3>1, <3>4 DEF DocumentsInv
  <2> QED
    BY <2>1, <2>4, <2>5
<1> QED
  BY <1>3, <1>5, <1>6

\* A record in the place of another.
LEMMA Replaced ==
    ASSUME NEW records, IsList(records), NEW i, NEW r, NEW more, more = [records EXCEPT ![i] = r]
    PROVE  IsList(more)
<1>1. PICK R : records \in Seq(R)
  BY DEF IsList
<1>2. PICK n \in Nat : n = Len(records) /\ records \in [1..n -> R]
  BY <1>1
<1>3. more \in [1..n -> R \union {r}]
  BY <1>2
<1>4. more \in Seq(R \union {r}) /\ Len(more) = n
  BY <1>2, <1>3
<1> QED
  BY <1>2, <1>4 DEF IsList

\* Two addresses that change places are remembered as that.
LEMMA UseFallbackKeeps ==
    ASSUME DocumentsInv, NEW ref, UseFallback(ref)
    PROVE  DocumentsInv' /\ OnlyRepeatsAreRefused'
<1>1. PICK found : found = Find(file.connections, ref)
  OBVIOUS
<1>2. PICK new : new = [file.connections[found] EXCEPT !.host = file.connections[found].fallback,
                                                       !.fallback = file.connections[found].host]
  OBVIOUS
<1>3. PICK answer : answer = IF found = 0 THEN "not found"
                             ELSE IF file.connections[found].fallback = NoFallback THEN "invalid" ELSE "ok"
  OBVIOUS
<1>4. PICK doc : doc = IF answer = "ok" THEN [file EXCEPT !.connections[found] = new] ELSE file
  OBVIOUS
<1>5. PICK q : q = [what |-> "use fallback", ref |-> ref]
  OBVIOUS
<1>6. Answered(q, answer, doc) /\ tampered' = (tampered \/ said' = "ok")
  BY <1>1, <1>2, <1>3, <1>4, <1>5 DEF UseFallback
<1>7. query'.what = "use fallback"
  BY <1>6, <1>5 DEF Answered
<1>8. OnlyRepeatsAreRefused'
  BY <1>7 DEF OnlyRepeatsAreRefused
<1>9. IsDoc(file) /\ IsList(file.connections)
  BY DEF DocumentsInv, IsDoc
<1>10. CASE file' = file /\ said' # "ok"
  BY <1>6, <1>8, <1>10 DEF DocumentsInv
<1>11. CASE answer = "ok" /\ said' = "ok" /\ file' = doc
  <2>1. found \in DOMAIN file.connections
    BY <1>1, <1>3, <1>9, <1>11, FoundThere
  <2>2. PICK more : more = [file.connections EXCEPT ![found] = new]
    OBVIOUS
  <2>3. IsList(more)
    BY <1>9, <2>1, <2>2, Replaced
  <2>4. doc = [file EXCEPT !.connections = more]
    BY <1>4, <1>11, <2>2
  <2>5. IsDoc(doc)
    BY <1>9, <2>3, <2>4, DocWith
  <2> QED
    BY <1>6, <1>8, <1>11, <2>5 DEF DocumentsInv
<1> QED
  BY <1>6, <1>10, <1>11, AnsweredIs

\* An editor keeps the shape of the file.
LEMMA EditKeeps ==
    ASSUME DocumentsInv, NEW kind \in Kinds, NEW field, NEW i, NEW j, EditByHand(kind, field, i, j)
    PROVE  DocumentsInv' /\ OnlyRepeatsAreRefused'
<1>1. PICK new : new = [file[kind][i] EXCEPT ![field] = file[kind][j][field]]
  OBVIOUS
<1>2. PICK more : more = [file[kind] EXCEPT ![i] = new]
  OBVIOUS
<1>3. /\ tampered' = TRUE /\ query' = NoQuery /\ i \in DOMAIN file[kind]
      /\ file' = [file EXCEPT ![kind] = more]
  BY <1>1, <1>2 DEF EditByHand
<1>4. query'.what = "none"
  BY <1>3 DEF NoQuery
<1>5. OnlyRepeatsAreRefused'
  BY <1>4 DEF OnlyRepeatsAreRefused
<1>6. IsDoc(file) /\ IsList(file[kind]) /\ kind \in {"shares", "connections"}
  BY DEF DocumentsInv, IsDoc, Kinds
<1>7. IsList(more)
  BY <1>2, <1>3, <1>6, Replaced
<1>8. IsDoc(file')
  <2>1. CASE kind = "shares"
    BY <1>3, <1>6, <1>7, <2>1, DocWith
  <2>2. CASE kind = "connections"
    BY <1>3, <1>6, <1>7, <2>2, DocWith
  <2> QED
    BY <1>6, <2>1, <2>2
<1> QED
  BY <1>3, <1>5, <1>8 DEF DocumentsInv

\* An empty config is in order.
LEMMA InitDocuments == DocumentsInit => DocumentsInv /\ OnlyRepeatsAreRefused
<1> SUFFICES ASSUME DocumentsInit PROVE DocumentsInv /\ OnlyRepeatsAreRefused
  OBVIOUS
<1>1. PICK none : none = <<>>
  OBVIOUS
<1>2. none \in Seq({}) /\ Len(none) = 0 /\ DOMAIN none = {}
  BY <1>1
<1>3. IsList(none)
  BY <1>2, DocumentsBounds DEF IsList
<1>4. file = [shares |-> none, connections |-> none]
  BY <1>1 DEF DocumentsInit, EmptyConfig
<1>5. IsDoc(file) /\ Apart(file.connections)
  BY <1>2, <1>3, <1>4 DEF IsDoc, Apart
<1>6. query.what = "none"
  BY DEF DocumentsInit, NoQuery
<1> QED
  BY <1>5, <1>6 DEF DocumentsInv, OnlyRepeatsAreRefused

\* Every step keeps the invariant.
LEMMA NextDocuments ==
    DocumentsInv /\ OnlyRepeatsAreRefused /\ [DocumentsNext]_documents => DocumentsInv' /\ OnlyRepeatsAreRefused'
<1> SUFFICES ASSUME DocumentsInv, OnlyRepeatsAreRefused, [DocumentsNext]_documents
             PROVE  DocumentsInv' /\ OnlyRepeatsAreRefused'
  OBVIOUS
<1>1. CASE UNCHANGED documents
  BY <1>1 DEF documents, DocumentsInv, OnlyRepeatsAreRefused
<1>2. CASE DocumentsNext
  BY <1>2, AddShareKeeps, AddConnectionKeeps, RemoveRecordKeeps, UseFallbackKeeps, EditKeeps DEF DocumentsNext
<1> QED
  BY <1>1, <1>2

\* add_connection: no sequence of requests leaves two connections to one share or
\* on one mountpoint, unless the file was edited or two addresses changed places.
THEOREM SharesApart == DocumentsSpec => []OneShareOnePlace
<1>1. DocumentsInv => OneShareOnePlace
  BY DEF DocumentsInv, Apart, Race, OneShareOnePlace
<1> QED
  BY <1>1, InitDocuments, NextDocuments, PTL DEF DocumentsSpec

\* default_mountpoint and make_id: a connection whose place is left to the daemon
\* is refused only as a repeat, and what the daemon derives nothing is mounted on.
THEOREM DerivedNamesDo == DocumentsSpec => []OnlyRepeatsAreRefused
  BY InitDocuments, NextDocuments, PTL DEF DocumentsSpec

-----------------------------------------------------------------------------
(***************************************************************************)
(* The two pure parts, of which MCParts picks a case.                      *)
(***************************************************************************)
\* A journal of any length: the last errno decides, and a resolution failure is
\* heard only where there is no errno (translate_journal).
LEMMA LastErrnoIs ==
    ASSUME NEW lines \in Seq(Int), NEW i \in DOMAIN lines, lines[i] > Noise,
           \A j \in DOMAIN lines : j > i => lines[j] <= Noise
    PROVE  TranslateJournal(lines) = Cause(lines[i])
<1> DEFINE errnoAt == {j \in DOMAIN lines : lines[j] > Noise}
           last    == CHOOSE k \in errnoAt : \A j \in errnoAt : j <= k
<1>1. DOMAIN lines \subseteq Int /\ i \in errnoAt /\ \A j \in errnoAt : j <= i
  BY DEF Noise
<1>2. last \in errnoAt /\ \A j \in errnoAt : j <= last
  BY <1>1
<1>3. last = i
  BY <1>1, <1>2
<1> QED
  BY <1>1, <1>3 DEF TranslateJournal

\* A set of places of a journal that is not empty has a last one.
LEMMA HasLast ==
    ASSUME NEW n \in Nat, NEW S \in SUBSET (1..n), S # {}
    PROVE  \E i \in S : \A j \in S : j <= i
<1>1. PICK back : back = {n - i : i \in S}
  OBVIOUS
<1>2. back \in SUBSET Nat /\ back # {}
  <2>1. \A i \in S : n - i \in Nat
    OBVIOUS
  <2>2. \A k \in back : k \in Nat
    BY <1>1, <2>1
  <2>3. PICK i \in S : TRUE
    OBVIOUS
  <2>4. n - i \in back
    BY <1>1
  <2> QED
    BY <2>2, <2>4
<1>3. Min(back) \in back /\ \A k \in back : Min(back) <= k
  BY <1>2, HasLeast
<1>4. PICK i \in S : Min(back) = n - i
  BY <1>1, <1>3
<1>5. ASSUME NEW j \in S PROVE j <= i
  <2>1. n - j \in back
    BY <1>1
  <2>2. n - i <= n - j /\ i \in Int /\ j \in Int
    BY <1>3, <1>4, <2>1
  <2> QED
    BY <2>2
<1> QED
  BY <1>5

\* translate_journal: of a journal of any length the last errno is heard, whatever
\* came before and after it; and where there is none, a name that was not found.
THEOREM JournalIsHeard ==
    ASSUME NEW lines \in Seq(Int)
    PROVE  \/ \E i \in DOMAIN lines : /\ lines[i] > Noise
                                      /\ \A j \in DOMAIN lines : j > i => lines[j] <= Noise
                                      /\ TranslateJournal(lines) = Cause(lines[i])
           \/ /\ \A j \in DOMAIN lines : lines[j] <= Noise
              /\ TranslateJournal(lines) =
                    IF \E j \in DOMAIN lines : lines[j] = Unresolved THEN UnresolvedCause ELSE NoCause
<1>1. PICK errnoAt : errnoAt = {i \in DOMAIN lines : lines[i] > Noise}
  OBVIOUS
<1>2. DOMAIN lines = 1..Len(lines) /\ Len(lines) \in Nat /\ \A i \in DOMAIN lines : lines[i] \in Int
  OBVIOUS
<1>3. CASE errnoAt = {}
  <2>1. \A j \in DOMAIN lines : lines[j] <= Noise
    BY <1>1, <1>2, <1>3 DEF Noise
  <2>2. TranslateJournal(lines) =
           IF \E j \in DOMAIN lines : lines[j] = Unresolved THEN UnresolvedCause ELSE NoCause
    BY <1>1, <1>3 DEF TranslateJournal
  <2> QED
    BY <2>1, <2>2
<1>4. CASE errnoAt # {}
  <2>1. PICK i \in errnoAt : \A j \in errnoAt : j <= i
    BY <1>1, <1>2, <1>4, HasLast
  <2>2. i \in DOMAIN lines /\ lines[i] > Noise
    BY <1>1, <2>1
  <2>3. ASSUME NEW j \in DOMAIN lines, j > i PROVE lines[j] <= Noise
    <3>1. j \notin errnoAt
      BY <1>2, <2>1, <2>2, <2>3
    <3> QED
      BY <1>1, <1>2, <3>1 DEF Noise
  <2> QED
    BY <2>2, <2>3, LastErrnoIs
<1> QED
  BY <1>3, <1>4

\* What is said of a unit that failed, latched or not.
SaidOf(cause, latched) ==
    LET named == IF cause.retryable /\ cause.state = FAILED THEN RECONNECTING ELSE cause.state
        shown == IF ~latched THEN named
                 ELSE IF named = AUTH_FAILED THEN AUTH_FAILED ELSE FAILED
    IN  IF cause = NoCause THEN Verdict(FAILED, <<"exit status", latched>>, ~latched)
        ELSE Verdict(shown, <<"errno", cause.errno, latched>>, ~latched /\ cause.retryable)
GivenUp(v) == v.retryable = FALSE /\ v.state \in {AUTH_FAILED, FAILED}

\* A verdict has what it was made of.
LEMMA VerdictHas ==
    ASSUME NEW v, NEW state, NEW message, NEW retryable, v = Verdict(state, message, retryable)
    PROVE  v.state = state /\ v.retryable = retryable
  BY Zenon DEF Verdict

\* A verdict of a unit that was given up.
LEMMA VerdictGivenUp ==
    ASSUME NEW v, NEW state \in {AUTH_FAILED, FAILED}, NEW message, v = Verdict(state, message, FALSE)
    PROVE  GivenUp(v)
<1>1. v.state = state /\ v.retryable = FALSE
  BY VerdictHas, Zenon
<1> QED
  BY <1>1, Zenon DEF GivenUp

\* Whatever the journal said: a latched unit is given up.
LEMMA LatchedIsGivenUp == \A cause : GivenUp(SaidOf(cause, TRUE))
<1> SUFFICES ASSUME NEW cause PROVE GivenUp(SaidOf(cause, TRUE))
  OBVIOUS
<1>1. CASE cause = NoCause
  <2>1. SaidOf(cause, TRUE) = Verdict(FAILED, <<"exit status", TRUE>>, FALSE)
    BY <1>1 DEF SaidOf
  <2> QED
    BY <2>1, VerdictGivenUp, Zenon
<1>2. CASE cause # NoCause
  <2>1. PICK s \in {AUTH_FAILED, FAILED} :
            SaidOf(cause, TRUE) = Verdict(s, <<"errno", cause.errno, TRUE>>, FALSE)
    BY <1>2 DEF SaidOf
  <2> QED
    BY <2>1, VerdictGivenUp, Zenon
<1> QED
  BY <1>1, <1>2, Zenon

\* The paths through `derive`, when a unit that failed is given up.
LEMMA PathsOfDerive ==
    ASSUME NEW r, GivenUp(DeriveFailed(r.result, r.cause)), NEW v, v = Derive(r)
    PROVE  \/ v.state \in {CONNECTED, UNREACHABLE, CONNECTING}
           \/ v.retryable = FALSE /\ v.state \in {DISABLED, UNKNOWN, AUTH_FAILED, FAILED, IDLE}
<1>1. CASE v = DeriveMounted(r)
  <2>1. \/ \E message, retryable : v = Verdict(UNREACHABLE, message, retryable)
        \/ \E message, retryable : v = Verdict(CONNECTED, message, retryable)
    BY <1>1, Zenon DEF DeriveMounted
  <2>2. v.state = UNREACHABLE \/ v.state = CONNECTED
    BY <2>1, VerdictHas, Zenon
  <2> QED
    BY <2>2, Zenon
<1>2. CASE v = DeriveUnmounted(r)
  <2>1. \/ v = DeriveFailed(r.result, r.cause)
        \/ \E message, retryable : v = Verdict(CONNECTING, message, retryable)
        \/ \E message : v = Verdict(UNKNOWN, message, FALSE)
        \/ \E message : v = Verdict(FAILED, message, FALSE)
        \/ \E message : v = Verdict(IDLE, message, FALSE)
    BY <1>2, Zenon DEF DeriveUnmounted
  <2>2. \/ v.retryable = FALSE /\ (v.state = AUTH_FAILED \/ v.state = FAILED)
        \/ v.state = CONNECTING
        \/ v.retryable = FALSE /\ (v.state = UNKNOWN \/ v.state = FAILED \/ v.state = IDLE)
    <3>1. CASE v = DeriveFailed(r.result, r.cause)
      <4>1. GivenUp(v)
        BY <3>1, Zenon
      <4> QED
        BY <4>1, Zenon DEF GivenUp
    <3>2. CASE \E message, retryable : v = Verdict(CONNECTING, message, retryable)
      BY <3>2, VerdictHas, Zenon
    <3>3. CASE \/ \E message : v = Verdict(UNKNOWN, message, FALSE)
               \/ \E message : v = Verdict(FAILED, message, FALSE)
               \/ \E message : v = Verdict(IDLE, message, FALSE)
      BY <3>3, VerdictHas, Zenon
    <3> QED
      BY <2>1, <3>1, <3>2, <3>3, Zenon
  <2> QED
    BY <2>2, Zenon
<1>3. CASE \E message : v = Verdict(DISABLED, message, FALSE) \/ v = Verdict(FAILED, message, FALSE)
  <2>1. v.retryable = FALSE /\ (v.state = DISABLED \/ v.state = FAILED)
    BY <1>3, VerdictHas, Zenon
  <2> QED
    BY <2>1, Zenon
<1>4. \/ v = DeriveMounted(r) \/ v = DeriveUnmounted(r)
      \/ \E message : v = Verdict(DISABLED, message, FALSE) \/ v = Verdict(FAILED, message, FALSE)
  BY Zenon DEF Derive
<1> QED
  BY <1>1, <1>2, <1>3, <1>4, Zenon

\* Whatever `derive` is given: once systemd has stopped trying, no verdict about a
\* unit that failed says that somebody is retrying.
THEOREM LatchedIsNotRetried ==
    ASSUME NEW r, r.result = "start-limit-hit",
           Derive(r).state \notin {CONNECTED, UNREACHABLE, CONNECTING}
    PROVE  ~Derive(r).retryable /\ Derive(r).state # RECONNECTING
<1>1. DeriveFailed(r.result, r.cause) = SaidOf(r.cause, TRUE)
  <2>1. (r.result = "start-limit-hit") = TRUE
    BY Zenon
  <2> QED
    BY <2>1, Zenon DEF DeriveFailed, SaidOf
<1>2. GivenUp(DeriveFailed(r.result, r.cause))
  BY <1>1, LatchedIsGivenUp, Zenon
<1>3. PICK v : v = Derive(r)
  BY Zenon
<1>4. v.retryable = FALSE /\ v.state \in {DISABLED, UNKNOWN, AUTH_FAILED, FAILED, IDLE}
  BY <1>2, <1>3, PathsOfDerive, Zenon
<1>5. RECONNECTING \notin {DISABLED, UNKNOWN, AUTH_FAILED, FAILED, IDLE}
  BY Zenon DEF RECONNECTING, DISABLED, UNKNOWN, AUTH_FAILED, FAILED, IDLE
<1> QED
  BY <1>3, <1>4, <1>5, Zenon

\* The server refused.
LEMMA RefusedCause ==
    ASSUME NEW errno \in RefusedErrno
    PROVE  Cause(errno).state = AUTH_FAILED /\ Cause(errno).retryable = FALSE
<1>1. Cause(errno).state = AUTH_FAILED
  BY Zenon DEF Cause
<1>2. (errno \notin RefusedErrno \cup NoShareErrno) = FALSE
  BY Zenon
<1> QED
  BY <1>1, <1>2, Zenon DEF Cause

\* translate_journal and `derive` together: a unit whose last errno was a refusal,
\* in a journal of any length, has the one verdict that nobody retries, and has it
\* whether systemd has stopped trying or not.
THEOREM RefusalIsSaid ==
    ASSUME NEW lines \in Seq(Int), NEW i \in DOMAIN lines, lines[i] \in RefusedErrno,
           \A j \in DOMAIN lines : j > i => lines[j] <= Noise,
           NEW r, r.cause = TranslateJournal(lines), r.auto # "never", ~r.occupied, r.mounted # TRUE,
           r.active # "activating", UnitFailed(r.active, r.result)
    PROVE  Derive(r).state = AUTH_FAILED /\ Derive(r).retryable = FALSE
<1>1. r.cause = Cause(lines[i])
  <2>1. lines[i] > Noise
    BY DEF RefusedErrno, Noise
  <2> QED
    BY <2>1, LastErrnoIs
<1>2. PICK cause : cause = r.cause
  OBVIOUS
<1>3. cause.state = AUTH_FAILED /\ cause.retryable = FALSE
  BY <1>1, <1>2, RefusedCause, Zenon
<1>4. cause # NoCause
  BY <1>3 DEF NoCause
<1>5. PICK latched : latched = (r.result = "start-limit-hit")
  OBVIOUS
<1>6. Derive(r) = DeriveFailed(r.result, cause)
  <2>1. r.active # None
    BY Zenon DEF UnitFailed
  <2>2. Derive(r) = DeriveUnmounted(r)
    BY Zenon DEF Derive
  <2> QED
    BY <1>2, <2>1, <2>2, Zenon DEF DeriveUnmounted
<1>7. DeriveFailed(r.result, cause) = SaidOf(cause, latched)
  <2>1. DeriveFailed(r.result, cause) = SaidOf(cause, r.result = "start-limit-hit")
    BY Zenon DEF DeriveFailed, SaidOf
  <2> QED
    BY <1>5, <2>1
<1>8. AUTH_FAILED # FAILED
  BY Zenon DEF AUTH_FAILED, FAILED
<1>9. ASSUME NEW known PROVE \E message : SaidOf(cause, known) = Verdict(AUTH_FAILED, message, FALSE)
  <2>1. (~known /\ cause.retryable) = FALSE
    BY <1>3, Zenon
  <2>2. SaidOf(cause, known) = Verdict(AUTH_FAILED, <<"errno", cause.errno, known>>, ~known /\ cause.retryable)
    BY <1>3, <1>4, <1>8, Zenon DEF SaidOf
  <2> QED
    BY <2>1, <2>2, Zenon
<1>10. PICK message : Derive(r) = Verdict(AUTH_FAILED, message, FALSE)
  BY <1>6, <1>7, <1>9, Zenon
<1> QED
  BY <1>10, VerdictHas, Zenon

\* Whatever `derive` is given: a question that could not be asked is as good as a
\* healthy answer to it, and nothing but what it is given counts.
THEOREM NotKnowingIsWell ==
    ASSUME NEW r, NEW s, r.auto = s.auto, r.occupied = s.occupied, r.mounted = s.mounted,
           r.readOnly = s.readOnly, r.active = s.active, r.result = s.result, r.cause = s.cause,
           s.answering = (IF r.answering = None THEN TRUE ELSE r.answering),
           s.armed = (IF r.armed = None THEN TRUE ELSE r.armed)
    PROVE  Derive(r) = Derive(s)
<1>1. (r.answering = FALSE) = (s.answering = FALSE) /\ (r.armed = FALSE) = (s.armed = FALSE)
  BY NoneIsNoAnswer
<1>2. DeriveMounted(r) = DeriveMounted(s)
  BY <1>1 DEF DeriveMounted
<1>3. DeriveUnmounted(r) = DeriveUnmounted(s)
  BY <1>1 DEF DeriveUnmounted
<1> QED
  BY <1>2, <1>3 DEF Derive

\* The invariant: the case is one that can be, and what came of it is what the
\* code makes of it.
CaseInv ==
    /\ part = "verdicts" => given \in Readings /\ Possible(given)
    /\ part = "rows" => given \in SharesSeen
    /\ \/ outcome = NotYet
       \/ part = "verdicts" /\ outcome = Derived(given)
       \/ part = "rows" /\ outcome = ShareRow(ShareWire(given))

\* The case is picked at the start and decided once.
LEMMA CaseHolds == Spec => []CaseInv
<1>1. Init => CaseInv
  <2> SUFFICES ASSUME Init PROVE CaseInv
    OBVIOUS
  <2>1. /\ part = "verdicts" => given \in {r \in Readings : Possible(r)}
        /\ part = "rows" => given \in SharesSeen
        /\ outcome = NotYet
    BY DEF Init
  <2> QED
    BY <2>1 DEF CaseInv
<1>2. CaseInv /\ [Next]_vars => CaseInv'
  <2> SUFFICES ASSUME CaseInv, [Next]_vars PROVE CaseInv'
    OBVIOUS
  <2>1. CASE Decide
    BY <2>1 DEF Decide, CaseInv
  <2>2. CASE UNCHANGED <<part, given, outcome>>
    BY <2>2 DEF CaseInv
  <2> QED
    BY <2>1, <2>2 DEF Next, Rest, vars
<1> QED
  BY <1>1, <1>2, PTL DEF Spec

\* state/machine.py: of a unit that systemd has given up nothing says that somebody
\* is retrying it, on whatever path `derive` comes to it.
THEOREM LatchedIsLeft == Spec => []NobodyRetriesALatchedUnit
<1>1. CaseInv => NobodyRetriesALatchedUnit
  <2> SUFFICES ASSUME CaseInv, Is("verdicts"), given.result = "start-limit-hit",
                      outcome.state \notin {CONNECTED, UNREACHABLE, CONNECTING}
               PROVE  ~outcome.retryable /\ outcome.state # RECONNECTING
    BY DEF NobodyRetriesALatchedUnit
  <2>1. PICK r : outcome = Derive(r) /\ r.result = given.result
    BY DEF CaseInv, Is, Derived
  <2> QED
    BY <2>1, LatchedIsNotRetried
<1> QED
  BY <1>1, CaseHolds, PTL

\* state/machine.py: what could not be asked gives the verdict that a healthy
\* answer would have given.
THEOREM UnknownIsNoFault == Spec => []NotKnowingIsNotAFault
<1>1. CaseInv => NotKnowingIsNotAFault
  <2> SUFFICES ASSUME CaseInv, Is("verdicts")
               PROVE  outcome = Derived([given EXCEPT !.answering = IF @ = None THEN TRUE ELSE @,
                                                      !.armed     = IF @ = None THEN TRUE ELSE @])
    BY DEF NotKnowingIsNotAFault
  <2>1. given \in Readings /\ outcome = Derived(given)
    BY DEF CaseInv, Is
  <2> DEFINE sure == [given EXCEPT !.answering = IF @ = None THEN TRUE ELSE @,
                                   !.armed     = IF @ = None THEN TRUE ELSE @]
  <2>2. /\ sure.auto = given.auto /\ sure.occupied = given.occupied /\ sure.mounted = given.mounted
        /\ sure.readOnly = given.readOnly /\ sure.active = given.active
        /\ sure.result = given.result /\ sure.journal = given.journal
    BY <2>1 DEF Readings
  <2>3. /\ sure.answering = (IF given.answering = None THEN TRUE ELSE given.answering)
        /\ sure.armed = (IF given.armed = None THEN TRUE ELSE given.armed)
    BY <2>1 DEF Readings
  <2> QED
    BY <2>1, <2>2, <2>3, NotKnowingIsWell DEF Derived
<1> QED
  BY <1>1, CaseHolds, PTL

\* Any share: what its row comes of, and with which buttons.
LEMMA RowOfShare ==
    ASSUME NEW share, NEW wire, wire = ShareWire(share), NEW row, row = ShareRow(wire)
    PROVE  \E readOnly, unusable \in BOOLEAN :
              /\ readOnly <=> wire.readOnly \/ wire.state = "read-only"
              /\ unusable <=> wire.state \in ServedStates /\ wire.canSignIn = FALSE
              /\ row.tone = (IF readOnly \/ unusable THEN "attention" ELSE ShareTone[wire.state])
              /\ row.because = (IF unusable THEN "no SMB password"
                                ELSE IF readOnly
                                THEN IF wire.reason = "none" THEN "belongs to someone else" ELSE wire.reason
                                ELSE wire.state)
              /\ row.buttons = ShareButtons(wire, readOnly, unusable)
<1> DEFINE readOnly == wire.readOnly \/ wire.state = "read-only"
           unusable == wire.state \in ServedStates /\ wire.canSignIn = FALSE
<1>1. readOnly \in BOOLEAN /\ unusable \in BOOLEAN
  OBVIOUS
<1> QED
  BY <1>1 DEF ShareRow

\* The first button is the one for what is in the way.
LEMMA FirstButton ==
    ASSUME NEW wire, NEW readOnly \in BOOLEAN, NEW unusable \in BOOLEAN
    PROVE  /\ unusable => Head(ShareButtons(wire, readOnly, unusable)) = "set_smb_password"
           /\ ~unusable /\ readOnly /\ wire.account # "nobody"
                 => Head(ShareButtons(wire, readOnly, unusable)) = "make_writable"
<1>1. CASE unusable
  <2>1. CASE readOnly /\ wire.account # "nobody"
    BY <1>1, <2>1 DEF ShareButtons
  <2>2. CASE ~(readOnly /\ wire.account # "nobody")
    BY <1>1, <2>2 DEF ShareButtons
  <2> QED
    BY <1>1, <2>1, <2>2
<1>2. CASE ~unusable /\ readOnly /\ wire.account # "nobody"
  BY <1>2 DEF ShareButtons
<1> QED
  BY <1>1, <1>2

\* Of the mode only the class that applies counts.
LEMMA NotWritable ==
    ASSUME NEW folder, folder.owner \notin folder.bits
    PROVE  WritableBy(folder) = FALSE
  BY DEF WritableBy

\* A share that is served, that somebody can sign in to, and that can be written to
\* as far as anybody knows.
Usable(share) ==
    /\ share.enabled /\ share.served = TRUE /\ CanSignIn(share) # FALSE
    /\ share.account # "nobody" /\ share.folder.there
          /\ ~(share.folder.acl /\ share.folder.access = Unknown) => MayWrite(share.folder)

\* What is told of a share, and that its row is calm.
IsCalm(share) ==
    /\ share.enabled \in BOOLEAN /\ share.readOnly \in BOOLEAN
    /\ share.served \in {TRUE, FALSE, Unknown} /\ share.folder.there \in BOOLEAN
    /\ ShareRow(ShareWire(share)).tone = "ok"

\* Any share: only a served one is calm, and one that is served to be written to a
\* person whose rights are known lets them write.
LEMMA CalmShare ==
    ASSUME NEW share, IsCalm(share)
    PROVE  Usable(share)
<1>1. PICK wire : wire = ShareWire(share)
  OBVIOUS
<1>2. /\ wire.state = ShareState(share) /\ wire.readOnly = share.readOnly
      /\ wire.canSignIn = CanSignIn(share)
  BY <1>1 DEF ShareWire
<1>3. PICK row : row = ShareRow(wire)
  OBVIOUS
<1>4. PICK readOnly \in BOOLEAN, unusable \in BOOLEAN :
         /\ readOnly <=> wire.readOnly \/ wire.state = "read-only"
         /\ unusable <=> wire.state \in ServedStates /\ wire.canSignIn = FALSE
         /\ row.tone = (IF readOnly \/ unusable THEN "attention" ELSE ShareTone[wire.state])
  BY <1>1, <1>3, RowOfShare
<1>5. ~readOnly /\ ~unusable /\ ShareTone[wire.state] = "ok"
  <2>1. row.tone = "ok"
    BY <1>1, <1>3 DEF IsCalm
  <2> QED
    BY <1>4, <2>1
<1>6. wire.state \in {"serving", "read-only", "not served", "disabled", "unknown"}
  BY <1>2 DEF ShareState
<1>7. wire.state = "serving"
  BY <1>5, <1>6 DEF ShareTone
<1>8. share.enabled /\ share.served = TRUE /\ ~EffectiveReadOnly(share).readOnly
  BY <1>2, <1>7 DEF ShareState
<1>9. CanSignIn(share) # FALSE
  BY <1>2, <1>4, <1>5, <1>7 DEF ServedStates
<1>10. Writable(share.folder, share.account) # FALSE
  BY <1>2, <1>4, <1>5, <1>8 DEF EffectiveReadOnly
<1>11. ASSUME share.account # "nobody", share.folder.there,
              ~(share.folder.acl /\ share.folder.access = Unknown)
       PROVE  MayWrite(share.folder)
  <2>1. share.folder.access # "deny"
    BY <1>10, <1>11 DEF Writable
  <2>2. share.folder.access = "allow" \/ WritableBy(share.folder) # FALSE
    BY <1>10, <1>11, <2>1 DEF Writable
  <2>3. ASSUME share.folder.owner \notin share.folder.bits PROVE WritableBy(share.folder) = FALSE
    BY <2>3, NotWritable, Zenon
  <2> QED
    BY <2>1, <2>2, <2>3, Zenon DEF MayWrite
<1> QED
  BY <1>8, <1>9, <1>11, Zenon DEF Usable

\* Any share: the button that is offered first is the one for what the row says is
\* in the way.
LEMMA ButtonForIt ==
    ASSUME NEW share, NEW row, row = ShareRow(ShareWire(share))
    PROVE  /\ row.because = "no SMB password" => Head(row.buttons) = "set_smb_password"
           /\ row.because = "folder" => Head(row.buttons) = "make_writable"
<1>1. PICK wire : wire = ShareWire(share)
  OBVIOUS
<1>2. /\ wire.state = ShareState(share) /\ wire.account = share.account
      /\ wire.reason = EffectiveReadOnly(share).reason
  BY <1>1 DEF ShareWire
<1>3. wire.state \in {"serving", "read-only", "not served", "disabled", "unknown"}
  BY <1>2 DEF ShareState
<1>4. wire.reason \in {"none", "folder"} /\ (wire.reason = "folder" => wire.account # "nobody")
  <2>1. EffectiveReadOnly(share).reason \in {"none", "folder"}
    BY DEF EffectiveReadOnly
  <2>2. share.account = "nobody" => Writable(share.folder, share.account) # FALSE
    BY UnknownIsNoAnswer DEF Writable
  <2>3. EffectiveReadOnly(share).reason = "folder" => Writable(share.folder, share.account) = FALSE
    BY DEF EffectiveReadOnly
  <2> QED
    BY <1>2, <2>1, <2>2, <2>3
<1>5. PICK readOnly \in BOOLEAN, unusable \in BOOLEAN :
         /\ row.because = (IF unusable THEN "no SMB password"
                           ELSE IF readOnly
                           THEN IF wire.reason = "none" THEN "belongs to someone else" ELSE wire.reason
                           ELSE wire.state)
         /\ row.buttons = ShareButtons(wire, readOnly, unusable)
  BY <1>1, RowOfShare
<1>6. row.because = "no SMB password" => unusable
  BY <1>3, <1>4, <1>5
<1>7. row.because = "folder" => ~unusable /\ readOnly /\ wire.account # "nobody"
  BY <1>3, <1>4, <1>5
<1> QED
  BY <1>5, <1>6, <1>7, FirstButton

\* gui/model.py, ownership.py: a row that is calm is of a share that is served,
\* that somebody can sign in to and that can be written to as it was shared, or of
\* one that nobody could ask about; and the first button of another is for it.
THEOREM CalmRowsAreUsable == Spec => []CalmIsUsable
<1>1. CaseInv => CalmIsUsable
  <2> SUFFICES ASSUME CaseInv, Is("rows") PROVE CalmIsUsable
    BY DEF CalmIsUsable
  <2>1. given \in SharesSeen /\ outcome = ShareRow(ShareWire(given))
    BY DEF CaseInv, Is
  <2>2. /\ given.enabled \in BOOLEAN /\ given.readOnly \in BOOLEAN
        /\ given.served \in {TRUE, FALSE, Unknown} /\ given.folder \in FoldersSeen
    BY <2>1 DEF SharesSeen
  <2>3. given.folder.there \in BOOLEAN
    BY <2>2 DEF FoldersSeen
  <2>4. ASSUME outcome.tone = "ok"
        PROVE  Usable(given)
    <3>1. ShareRow(ShareWire(given)).tone = "ok"
      BY <2>1, <2>4, Zenon
    <3>2. PICK share : share = given
      OBVIOUS
    <3>3. IsCalm(share)
      BY <2>2, <2>3, <3>1, <3>2 DEF IsCalm
    <3>4. Usable(share)
      BY <3>3, CalmShare, Zenon
    <3> QED
      BY <3>2, <3>4, Zenon
  <2>5. /\ outcome.because = "no SMB password" => Head(outcome.buttons) = "set_smb_password"
        /\ outcome.because = "folder" => Head(outcome.buttons) = "make_writable"
    BY <2>1, ButtonForIt
  <2> QED
    BY <2>4, <2>5, Zenon DEF CalmIsUsable, Usable
<1> QED
  BY <1>1, CaseHolds, PTL

-----------------------------------------------------------------------------
(***************************************************************************)
(* The documents: the types.                                               *)
(***************************************************************************)
IsShare(s) == s = [id |-> s.id, name |-> s.name] /\ s.name \in Titles
IsConnection(c) ==
    /\ c = [id |-> c.id, host |-> c.host, share |-> c.share, mountpoint |-> c.mountpoint,
            fallback |-> c.fallback]
    /\ c.host \in Hosts /\ c.share \in Titles /\ c.fallback \in Hosts \union {NoFallback}

RecordsTyped(doc) ==
    /\ \A i \in DOMAIN doc.shares : IsShare(doc.shares[i])
    /\ \A i \in DOMAIN doc.connections : IsConnection(doc.connections[i])
Replies == {"nothing", "ok", "exists", "not found", "invalid", "unreadable"}
DocumentTypes == RecordsTyped(file) /\ said \in Replies

\* What was answered is an answer, and the file is the document or what it was.
LEMMA AnsweredTyped ==
    ASSUME DocumentTypes, NEW r, NEW answer \in Replies, NEW doc, Answered(r, answer, doc),
           answer = "ok" => RecordsTyped(doc)
    PROVE  DocumentTypes'
<1>1. said' \in Replies
  BY DEF Answered, Replies
<1>2. RecordsTyped(file')
  BY AnsweredIs DEF DocumentTypes
<1> QED
  BY <1>1, <1>2 DEF DocumentTypes, RecordsTyped

\* Dispatcher._share_add keeps the types.
LEMMA AddShareTyped ==
    ASSUME DocumentsInv, DocumentTypes, NEW name \in Titles, NEW id, AddShare(name, id)
    PROVE  DocumentTypes'
<1>1. PICK it, r, more, doc, answer, q :
         /\ r = [id |-> it, name |-> name] /\ more = Append(file.shares, r)
         /\ doc = [file EXCEPT !.shares = more]
         /\ answer \in {"exists", "ok"} /\ Answered(q, answer, doc)
  BY DEF AddShare
<1>2. IsShare(r)
  BY <1>1 DEF IsShare
<1>3. IsDoc(file) /\ IsList(file.shares) /\ Len(file.shares) < MaxRecords
  BY DEF AddShare, DocumentsInv, IsDoc
<1>4. /\ DOMAIN file.shares = 1..Len(file.shares) /\ DOMAIN more = 1..Len(more)
      /\ Len(file.shares) \in Nat /\ Len(more) = Len(file.shares) + 1 /\ more[Len(more)] = r
  BY <1>1, <1>3, Appended
<1>5. \A i \in DOMAIN file.shares : more[i] = file.shares[i]
  BY <1>1, <1>3, Appended
<1>6. \A i \in DOMAIN more : IsShare(more[i])
  BY <1>2, <1>4, <1>5 DEF DocumentTypes, RecordsTyped
<1>7. doc.shares = more /\ doc.connections = file.connections
  BY <1>1, <1>3 DEF IsDoc
<1>8. Answered(q, answer, doc) /\ answer \in Replies
  BY <1>1 DEF Replies
<1> QED
  BY <1>6, <1>7, <1>8, AnsweredTyped DEF DocumentTypes, RecordsTyped

\* Dispatcher._connection_add keeps the types.
LEMMA AddConnectionTyped ==
    ASSUME DocumentsInv, DocumentTypes, NEW host \in Hosts, NEW share \in Titles, NEW place,
           NEW fallback \in Hosts \union {NoFallback}, NEW inUse,
           AddConnection(host, share, place, fallback, inUse)
    PROVE  DocumentTypes'
<1>1. PICK mountpoint, id, r, more, doc, answer, q :
         /\ r = [id |-> id, host |-> host, share |-> share, mountpoint |-> mountpoint, fallback |-> fallback]
         /\ more = Append(file.connections, r) /\ doc = [file EXCEPT !.connections = more]
         /\ answer \in {"exists", "ok"} /\ Answered(q, answer, doc)
  BY DEF AddConnection
<1>2. IsConnection(r)
  BY <1>1 DEF IsConnection
<1>3. IsDoc(file) /\ IsList(file.connections) /\ Len(file.connections) < MaxRecords
  BY DEF AddConnection, DocumentsInv, IsDoc
<1>4. /\ DOMAIN file.connections = 1..Len(file.connections) /\ DOMAIN more = 1..Len(more)
      /\ Len(file.connections) \in Nat /\ Len(more) = Len(file.connections) + 1 /\ more[Len(more)] = r
  BY <1>1, <1>3, Appended
<1>5. \A i \in DOMAIN file.connections : more[i] = file.connections[i]
  BY <1>1, <1>3, Appended
<1>6. \A i \in DOMAIN more : IsConnection(more[i])
  BY <1>2, <1>4, <1>5 DEF DocumentTypes, RecordsTyped
<1>7. doc.connections = more /\ doc.shares = file.shares
  BY <1>1, <1>3 DEF IsDoc
<1>8. Answered(q, answer, doc) /\ answer \in Replies
  BY <1>1 DEF Replies
<1> QED
  BY <1>6, <1>7, <1>8, AnsweredTyped DEF DocumentTypes, RecordsTyped

\* A list of a document is replaced: the other stays.
LEMMA OtherList ==
    ASSUME NEW doc, IsDoc(doc), NEW kind \in Kinds, NEW records, NEW next, next = [doc EXCEPT ![kind] = records]
    PROVE  /\ kind = "shares" => next.shares = records /\ next.connections = doc.connections
           /\ kind = "connections" => next.connections = records /\ next.shares = doc.shares
           /\ doc[kind] = (IF kind = "shares" THEN doc.shares ELSE doc.connections)
<1>1. PICK served, connections : doc = [shares |-> served, connections |-> connections]
  BY DEF IsDoc
<1>2. CASE kind = "shares"
  BY <1>1, <1>2
<1>3. CASE kind = "connections"
  BY <1>1, <1>3
<1> QED
  BY <1>2, <1>3 DEF Kinds

\* remove_share and remove_connection keep the types.
LEMMA RemoveRecordTyped ==
    ASSUME DocumentsInv, DocumentTypes, NEW kind \in Kinds, NEW ref, RemoveRecord(kind, ref)
    PROVE  DocumentTypes'
<1>1. PICK found : found = Find(file[kind], ref)
  OBVIOUS
<1>2. PICK less : less = RemoveAt(file[kind], found)
  OBVIOUS
<1>3. PICK answer, q, doc :
         /\ answer = (IF found = 0 THEN "not found" ELSE "ok") /\ Answered(q, answer, doc)
         /\ doc = (IF found = 0 THEN file ELSE [file EXCEPT ![kind] = less])
  BY <1>1, <1>2 DEF RemoveRecord
<1>4. IsDoc(file) /\ IsList(file[kind]) /\ kind \in {"shares", "connections"}
  BY DEF DocumentsInv, IsDoc, Kinds
<1>5. ASSUME found # 0 PROVE RecordsTyped(doc)
  <2>1. found \in DOMAIN file[kind]
    BY <1>1, <1>4, <1>5, FoundThere
  <2>2. \A i \in DOMAIN less : \E j \in DOMAIN file[kind] :
             less[i] = file[kind][j] /\ j = (IF i < found THEN i ELSE i + 1)
    BY <1>2, <1>4, <2>1, Removed
  <2>3. doc = [file EXCEPT ![kind] = less]
    BY <1>3, <1>5
  <2>4. CASE kind = "shares"
    <3>1. doc.shares = less /\ doc.connections = file.connections
      <4>1. "shares" \in Kinds /\ doc = [file EXCEPT !["shares"] = less]
        BY <2>3, <2>4 DEF Kinds
      <4> QED
        BY <1>4, <4>1 DEF IsDoc
    <3>2. file[kind] = file.shares
      BY <2>4
    <3>3. \A i \in DOMAIN less : IsShare(less[i])
      BY <2>2, <3>2 DEF DocumentTypes, RecordsTyped
    <3> QED
      BY <3>1, <3>3 DEF DocumentTypes, RecordsTyped
  <2>5. CASE kind = "connections"
    <3>1. doc.connections = less /\ doc.shares = file.shares
      BY <1>4, <2>3, <2>5, OtherList
    <3>2. file[kind] = file.connections
      BY <2>5
    <3>3. \A i \in DOMAIN less : IsConnection(less[i])
      BY <2>2, <3>2 DEF DocumentTypes, RecordsTyped
    <3> QED
      BY <3>1, <3>3 DEF DocumentTypes, RecordsTyped
  <2> QED
    BY <1>4, <2>4, <2>5
<1>6. RecordsTyped(doc)
  BY <1>3, <1>5 DEF DocumentTypes
<1>7. Answered(q, answer, doc) /\ answer \in Replies
  BY <1>3 DEF Replies
<1> QED
  BY <1>6, <1>7, AnsweredTyped

\* connection.use_fallback keeps the types: both addresses are hosts.
LEMMA UseFallbackTyped ==
    ASSUME DocumentsInv, DocumentTypes, NEW ref, UseFallback(ref)
    PROVE  DocumentTypes'
<1>1. PICK found, old, new, answer, q, doc :
         /\ found = Find(file.connections, ref) /\ old = file.connections[found]
         /\ new = [[old EXCEPT !.host = old.fallback] EXCEPT !.fallback = old.host]
         /\ answer = (IF found = 0 THEN "not found" ELSE IF old.fallback = NoFallback THEN "invalid" ELSE "ok")
         /\ doc = (IF answer = "ok" THEN [file EXCEPT !.connections[found] = new] ELSE file)
         /\ Answered(q, answer, doc)
  BY DEF UseFallback
<1>2. IsDoc(file) /\ IsList(file.connections)
  BY DEF DocumentsInv, IsDoc
<1>3. ASSUME answer = "ok" PROVE RecordsTyped(doc)
  <2>1. found # 0 /\ old.fallback # NoFallback
    BY <1>1, <1>3
  <2>2. found \in DOMAIN file.connections
    BY <1>1, <1>2, <2>1, FoundThere
  <2>3. IsConnection(old)
    BY <1>1, <2>2 DEF DocumentTypes, RecordsTyped
  <2>4. PICK id, host, share, mountpoint, fallback :
           old = [id |-> id, host |-> host, share |-> share, mountpoint |-> mountpoint, fallback |-> fallback]
           /\ host \in Hosts /\ share \in Titles /\ fallback \in Hosts
    BY <2>1, <2>3 DEF IsConnection
  <2>5. new = [id |-> id, host |-> fallback, share |-> share, mountpoint |-> mountpoint, fallback |-> host]
    <3>1. old.host = host /\ old.fallback = fallback
      BY <2>4
    <3>2. PICK half : half = [old EXCEPT !.host = fallback]
      OBVIOUS
    <3>3. half = [id |-> id, host |-> fallback, share |-> share, mountpoint |-> mountpoint, fallback |-> fallback]
      BY <2>4, <3>2
    <3>4. new = [half EXCEPT !.fallback = host]
      BY <1>1, <3>1, <3>2
    <3> QED
      BY <3>3, <3>4
  <2>6. IsConnection(new)
    BY <2>4, <2>5 DEF IsConnection
  <2>7. PICK more : more = [file.connections EXCEPT ![found] = new]
    OBVIOUS
  <2>8. doc.connections = more /\ doc.shares = file.shares
    BY <1>1, <1>2, <1>3, <2>7 DEF IsDoc
  <2>9. DOMAIN more = DOMAIN file.connections
        /\ \A i \in DOMAIN more : more[i] = new \/ more[i] = file.connections[i]
    BY <2>7
  <2> QED
    BY <2>6, <2>8, <2>9 DEF DocumentTypes, RecordsTyped
<1>4. Answered(q, answer, doc) /\ answer \in Replies
  BY <1>1 DEF Replies
<1> QED
  BY <1>3, <1>4, AnsweredTyped

\* Somebody with an editor keeps the types: a value is copied to where its like is.
LEMMA EditTyped ==
    ASSUME DocumentsInv, DocumentTypes, NEW kind \in Kinds,
           NEW field \in {"id", "mountpoint", "host", "name"}, NEW i, NEW j, EditByHand(kind, field, i, j)
    PROVE  DocumentTypes'
<1>1. PICK old, other, new, more :
         /\ old = file[kind][i] /\ other = file[kind][j]
         /\ new = [old EXCEPT ![field] = other[field]] /\ more = [file[kind] EXCEPT ![i] = new]
  OBVIOUS
<1>2. /\ i \in DOMAIN file[kind] /\ j \in DOMAIN file[kind] /\ field \in DOMAIN old
      /\ file' = [file EXCEPT ![kind] = more] /\ said' = "nothing"
  BY <1>1 DEF EditByHand
<1>3. IsDoc(file) /\ kind \in {"shares", "connections"}
  BY DEF DocumentsInv, IsDoc, Kinds
<1>4. DOMAIN more = DOMAIN file[kind] /\ \A k \in DOMAIN more : more[k] = new \/ more[k] = file[kind][k]
  BY <1>1
<1>5. CASE kind = "shares"
  <2>1. file'.shares = more /\ file'.connections = file.connections /\ file[kind] = file.shares
    BY <1>2, <1>3, <1>5, OtherList
  <2>2. IsShare(old) /\ IsShare(other)
    BY <1>1, <1>2, <2>1 DEF DocumentTypes, RecordsTyped
  <2>3. PICK id, name, a, b : /\ old = [id |-> id, name |-> name] /\ name \in Titles
                              /\ other = [id |-> a, name |-> b] /\ b \in Titles
    BY <2>2 DEF IsShare
  <2>4. PICK v : v = other[field] /\ new = [old EXCEPT ![field] = v]
    BY <1>1
  <2>5. field = "name" => v \in Titles
    BY <2>3, <2>4
  <2>6. field \in {"id", "name"}
    BY <1>2, <2>3
  <2>7. IsShare(new)
    <3>1. CASE field = "id"
      <4>1. new = [id |-> v, name |-> name]
        BY <2>3, <2>4, <3>1
      <4> QED
        BY <2>3, <4>1 DEF IsShare
    <3>2. CASE field = "name"
      <4>1. new = [id |-> id, name |-> v]
        BY <2>3, <2>4, <3>2
      <4> QED
        BY <2>5, <3>2, <4>1 DEF IsShare
    <3> QED
      BY <2>6, <3>1, <3>2
  <2> QED
    BY <1>2, <1>4, <2>1, <2>7 DEF DocumentTypes, RecordsTyped, Replies
<1>6. CASE kind = "connections"
  <2>1. file'.connections = more /\ file'.shares = file.shares /\ file[kind] = file.connections
    BY <1>2, <1>3, <1>6, OtherList
  <2>2. IsConnection(old) /\ IsConnection(other)
    BY <1>1, <1>2, <2>1 DEF DocumentTypes, RecordsTyped
  <2>3. PICK id, host, share, place, fallback :
           /\ old = [id |-> id, host |-> host, share |-> share, mountpoint |-> place, fallback |-> fallback]
           /\ host \in Hosts /\ share \in Titles /\ fallback \in Hosts \union {NoFallback}
    BY <2>2 DEF IsConnection
  <2>4. PICK v : v = other[field]
    OBVIOUS
  <2>5. field = "host" => v \in Hosts
    BY <2>2, <2>4 DEF IsConnection
  <2>6. new = [old EXCEPT ![field] = v] /\ field \in {"id", "host", "mountpoint"}
    BY <1>1, <1>2, <2>3, <2>4
  <2>7. IsConnection(new)
    <3>1. CASE field = "id"
      <4>1. new = [id |-> v, host |-> host, share |-> share, mountpoint |-> place, fallback |-> fallback]
        BY <2>3, <2>6, <3>1
      <4> QED
        BY <2>3, <4>1 DEF IsConnection
    <3>2. CASE field = "host"
      <4>1. new = [id |-> id, host |-> v, share |-> share, mountpoint |-> place, fallback |-> fallback]
        BY <2>3, <2>6, <3>2
      <4> QED
        BY <2>3, <2>5, <3>2, <4>1 DEF IsConnection
    <3>3. CASE field = "mountpoint"
      <4>1. new = [id |-> id, host |-> host, share |-> share, mountpoint |-> v, fallback |-> fallback]
        BY <2>3, <2>6, <3>3
      <4> QED
        BY <2>3, <4>1 DEF IsConnection
    <3> QED
      BY <2>6, <3>1, <3>2, <3>3
  <2> QED
    BY <1>2, <1>4, <2>1, <2>7 DEF DocumentTypes, RecordsTyped, Replies
<1> QED
  BY <1>3, <1>5, <1>6

\* Every step keeps the types.
LEMMA NextDocumentTypes ==
    ASSUME DocumentsInv, DocumentTypes, [DocumentsNext]_documents
    PROVE  DocumentTypes'
<1>1. CASE UNCHANGED documents
  BY <1>1 DEF documents, DocumentTypes, RecordsTyped
<1>2. ASSUME NEW name \in Titles, NEW id \in {Nothing} \union GivenIds, AddShare(name, id)
      PROVE  DocumentTypes'
  BY <1>2, AddShareTyped
<1>3. ASSUME NEW host \in Hosts, NEW share \in Titles, NEW place \in {Nothing} \union Places,
             NEW fallback \in Hosts \union {NoFallback}, NEW inUse \in SUBSET BusyPaths,
             AddConnection(host, share, place, fallback, inUse)
      PROVE  DocumentTypes'
  BY <1>3, AddConnectionTyped
<1>4. ASSUME NEW kind \in Kinds, NEW ref \in Refs, RemoveRecord(kind, ref) PROVE DocumentTypes'
  BY <1>4, RemoveRecordTyped
<1>5. ASSUME NEW ref \in Refs, UseFallback(ref) PROVE DocumentTypes'
  BY <1>5, UseFallbackTyped
<1>6. ASSUME NEW kind \in Kinds, NEW field \in {"id", "mountpoint", "host", "name"},
             NEW i \in 1..MaxRecords, NEW j \in 1..MaxRecords, EditByHand(kind, field, i, j)
      PROVE  DocumentTypes'
  BY <1>6, EditTyped
<1> QED
  BY <1>1, <1>2, <1>3, <1>4, <1>5, <1>6 DEF DocumentsNext

\* The operations of config/operations.py and an editor leave records of the kinds
\* there are, and every request is answered.
THEOREM DocumentsTyped == DocumentsSpec => []DocumentsTypeOK
<1>1. DocumentsInit => DocumentTypes
  <2> SUFFICES ASSUME DocumentsInit PROVE DocumentTypes
    OBVIOUS
  <2>1. PICK none : none = <<>>
    OBVIOUS
  <2>2. file = [shares |-> none, connections |-> none] /\ DOMAIN none = {}
    BY <2>1 DEF DocumentsInit, EmptyConfig
  <2>3. said \in Replies
    BY DEF DocumentsInit, Replies
  <2> QED
    BY <2>2, <2>3 DEF DocumentTypes, RecordsTyped
<1>2. DocumentTypes => DocumentsTypeOK
  BY DEF DocumentTypes, RecordsTyped, IsShare, IsConnection, Replies, DocumentsTypeOK, ToSet
<1>3. DocumentsInv /\ DocumentTypes /\ [DocumentsNext]_documents => DocumentTypes'
  BY NextDocumentTypes
<1> QED
  BY <1>1, <1>2, <1>3, InitDocuments, NextDocuments, PTL DEF DocumentsSpec

-----------------------------------------------------------------------------
(***************************************************************************)
(* The launch agent and the tray: the types.                               *)
(***************************************************************************)
\* What is on disk and with launchd is of the programs there are, and a tool is
\* where the code can be.
THEOREM LaunchTyped == LaunchSpec => []LaunchTypeOK
<1>1. LaunchInv => LaunchTypeOK
  <2> SUFFICES ASSUME LaunchInv PROVE LaunchTypeOK
    OBVIOUS
  <2>1. tool.pc \in {"none", "write", "bootout", "gone", "bootstrap", "print", "unlink"}
    BY DEF LaunchInv, LaunchTypes, Tools, NoTool
  <2> QED
    BY <2>1 DEF LaunchInv, LaunchTypes, Jobs, LaunchTypeOK
<1> QED
  BY <1>1, InitLaunch, NextLaunch, PTL DEF LaunchSpec

Icons == {"problem", "ok", "idle", "muted"}
IconTypes ==
    /\ bus.tray \in Trays \union {0}
    /\ \A t \in Trays : trays[t].indicator.status \in Icons

\* indicator and offline_indicator: one of four icons.
LEMMA IconOf ==
    /\ \A rows, others : Indicator(rows, others).status \in Icons
    /\ OfflineIndicator.status \in Icons
  BY DEF Indicator, OfflineIndicator, Icons

\* What a tray that has not started, or is gone, has.
LEMMA IconOfNobody ==
    /\ NobodyYet.indicator.status \in Icons /\ IsTray(NobodyYet)
    /\ [NobodyYet EXCEPT !.phase = "gone"].indicator.status \in Icons
<1>1. PICK nobody, sign : nobody = NobodyYet /\ sign = Indicator({}, {})
  OBVIOUS
<1>2. nobody.indicator = sign
  BY <1>1 DEF NobodyYet
<1>3. IsTray(nobody)
  BY <1>1, Nobody
<1>4. PICK gone : gone = [nobody EXCEPT !.phase = "gone"]
  OBVIOUS
<1>5. gone.indicator = nobody.indicator
  BY <1>3, <1>4 DEF IsTray
<1> QED
  BY <1>1, <1>2, <1>3, <1>4, <1>5, IconOf

\* A callback: the icon is what it was, or one of the four.
LEMMA IconAfter ==
    ASSUME NEW was, IsTray(was), was.indicator.status \in Icons, NEW mail
    PROVE  After(was, mail).indicator.status \in Icons
<1>1. ASSUME NEW tray, "indicator" \in DOMAIN tray PROVE Republished(tray).indicator.status \in Icons
  BY <1>1, IconOf DEF Republished
<1>2. ASSUME NEW f \in {"watcher", "guiOpen", "offline", "asking", "rows"}, NEW v
      PROVE  /\ [was EXCEPT ![f] = v].indicator = was.indicator
             /\ "indicator" \in DOMAIN [was EXCEPT ![f] = v]
  BY <1>2 DEF IsTray
<1>3. CASE mail.kind = "appeared"
  <2>1. After(was, mail) = [was EXCEPT !.watcher = TRUE]
    BY <1>3, Zenon DEF After
  <2> QED
    BY <1>2, <2>1
<1>4. CASE mail.kind = "vanished"
  <2>1. After(was, mail) = [was EXCEPT !.watcher = FALSE]
    BY <1>4 DEF After
  <2> QED
    BY <1>2, <2>1
<1>5. CASE mail.kind = "gui appeared"
  <2>1. After(was, mail) = [was EXCEPT !.guiOpen = TRUE]
    BY <1>5 DEF After
  <2> QED
    BY <1>2, <2>1
<1>6. CASE mail.kind = "gui vanished"
  <2>1. After(was, mail) = [was EXCEPT !.guiOpen = FALSE]
    BY <1>6 DEF After
  <2> QED
    BY <1>2, <2>1
<1>7. CASE mail.kind = "lost"
  <2>1. After(was, mail) = Republished([was EXCEPT !.offline = TRUE])
    BY <1>7 DEF After
  <2> QED
    BY <1>1, <1>2, <2>1
<1>8. CASE mail.kind = "back"
  <2>1. After(was, mail) = [[was EXCEPT !.offline = FALSE] EXCEPT !.asking = TRUE]
    BY <1>8 DEF After
  <2>2. PICK half : half = [was EXCEPT !.offline = FALSE]
    OBVIOUS
  <2>3. half.indicator = was.indicator /\ "indicator" \in DOMAIN half
    BY <1>2, <2>2
  <2>4. [half EXCEPT !.asking = TRUE].indicator = half.indicator
    BY <2>3
  <2> QED
    BY <2>1, <2>2, <2>3, <2>4
<1>9. CASE mail.kind \notin {"appeared", "vanished", "gui appeared", "gui vanished", "lost", "back"}
  <2>1. \E rows : After(was, mail) = Republished([was EXCEPT !.rows = rows])
    BY <1>9 DEF After
  <2> QED
    BY <1>1, <1>2, <2>1
<1> QED
  BY <1>3, <1>4, <1>5, <1>6, <1>7, <1>8, <1>9

\* One tray changes, and its icon is one of the four.
LEMMA IconsOfOne ==
    ASSUME DesktopInv, IconTypes, NEW t \in Trays, NEW new, new.indicator.status \in Icons,
           trays' = [trays EXCEPT ![t] = new], bus'.tray \in Trays \union {0}
    PROVE  IconTypes'
  BY DEF IconTypes, DesktopInv, RecordsInv

\* Mail comes, and the icons stay.
LEMMA IconsWithMail ==
    ASSUME DesktopInv, IconTypes, NEW m \in Mail, trays' = Posted(m), bus'.tray = bus.tray
    PROVE  IconTypes'
<1>1. ASSUME NEW t \in Trays PROVE trays'[t].indicator.status \in Icons
  <2>1. CASE t \in Alive
    BY <2>1, PostedDesktop DEF IconTypes
  <2>2. CASE t \notin Alive
    BY <2>2 DEF IconTypes, Posted
  <2> QED
    BY <2>1, <2>2
<1> QED
  BY <1>1 DEF IconTypes

\* A tray starts: it has no rows to show, and another hears that it lost the name.
LEMMA IconsLaunch == ASSUME DesktopInv, IconTypes, NEW t \in Trays, Launch(t) PROVE IconTypes'
<1>1. PICK call : trays' = [u \in Trays |->
           IF u = t
           THEN [NobodyYet EXCEPT !.phase = "running", !.asking = TRUE, !.mail = call]
           ELSE IF u = bus.tray THEN [trays[u] EXCEPT !.mail = Append(@, Call("name lost"))] ELSE trays[u]]
  BY DEF Launch
<1>2. bus'.tray = t
  BY DEF Launch, DesktopInv, AroundInv
<1>3. ASSUME NEW was, IsTray(was), NEW mail PROVE [was EXCEPT !.mail = mail].indicator = was.indicator
  BY <1>3 DEF IsTray
<1>4. ASSUME NEW u \in Trays, u # t PROVE trays'[u].indicator.status \in Icons
  <2>1. PICK was, mail : was = trays[u] /\ (trays'[u] = [was EXCEPT !.mail = mail] \/ trays'[u] = was)
    BY <1>1, <1>4
  <2>2. IsTray(was) /\ was.indicator.status \in Icons
    BY <2>1 DEF DesktopInv, RecordsInv, IconTypes
  <2>3. trays'[u].indicator = was.indicator
    BY <1>3, <2>1, <2>2
  <2> QED
    BY <2>2, <2>3
<1>5. trays'[t].indicator.status \in Icons
  <2>1. PICK nobody, phase, yes : nobody = NobodyYet /\ phase = "running" /\ yes = TRUE
    OBVIOUS
  <2>2. trays'[t] = [nobody EXCEPT !.phase = phase, !.asking = yes, !.mail = call]
    BY <1>1, <2>1
  <2>3. IsTray(nobody) /\ nobody.indicator.status \in Icons
    BY <2>1, IconOfNobody
  <2>4. trays'[t].indicator = nobody.indicator
    BY <2>2, <2>3 DEF IsTray
  <2> QED
    BY <2>3, <2>4
<1> QED
  BY <1>2, <1>4, <1>5 DEF IconTypes

\* Every step keeps the icons.
LEMMA NextIcons ==
    ASSUME DesktopInv, IconTypes, [DesktopNext]_desktop
    PROVE  IconTypes'
<1>1. CASE UNCHANGED desktop
  BY <1>1 DEF desktop, IconTypes
<1>2. ASSUME NEW t \in Trays, Export(t) PROVE IconTypes'
  <2>1. PICK was, yes : was = trays[t] /\ yes = TRUE
    OBVIOUS
  <2>2. IsTray(was) /\ was.indicator.status \in Icons
    BY <2>1 DEF DesktopInv, RecordsInv, IconTypes
  <2>3. PICK new : new = [was EXCEPT !.exported = yes]
    OBVIOUS
  <2>4. new.indicator = was.indicator
    BY <2>2, <2>3 DEF IsTray
  <2>5. trays' = [trays EXCEPT ![t] = new] /\ bus' = bus
    BY <1>2, <2>1, <2>3 DEF Export
  <2> QED
    BY <2>2, <2>4, <2>5, IconsOfOne DEF IconTypes
<1>3. ASSUME NEW t \in Trays, Quits(t) PROVE IconTypes'
  <2>1. bus'.tray \in Trays \union {0}
    BY <1>3 DEF Quits, DesktopInv, AroundInv, IconTypes
  <2>2. trays' = [trays EXCEPT ![t] = [NobodyYet EXCEPT !.phase = "gone"]]
    BY <1>3 DEF Quits
  <2> QED
    BY <2>1, <2>2, IconOfNobody, IconsOfOne
<1>4. ASSUME NEW t \in Trays, Run(t) PROVE IconTypes'
  <2>1. CASE Quits(t)
    BY <1>3, <2>1
  <2>2. CASE ~Quits(t)
    <3>1. PICK was, mail, rest, m : /\ was = trays[t] /\ rest = Tail(was.mail) /\ m = Head(was.mail)
                                    /\ mail = was.mail
      OBVIOUS
    <3>2. IsTray(was) /\ was.indicator.status \in Icons /\ mail \in Seq(Mail) /\ mail # <<>>
      BY <1>4, <3>1 DEF DesktopInv, RecordsInv, IconTypes, IsTray, Run
    <3>3. PICK old : old = [was EXCEPT !.mail = rest]
      OBVIOUS
    <3>4. rest \in Seq(Mail)
      BY <3>1, <3>2
    <3>5. IsTray(old) /\ old.indicator = was.indicator
      BY <3>2, <3>3, <3>4 DEF IsTray
    <3>6. trays' = [trays EXCEPT ![t] = After(old, m)] /\ bus' = bus
      BY <1>4, <2>2, <3>1, <3>3 DEF Run
    <3>7. After(old, m).indicator.status \in Icons
      BY <3>2, <3>5, IconAfter
    <3> QED
      BY <3>6, <3>7, IconsOfOne DEF IconTypes
  <2> QED
    BY <2>1, <2>2
<1>5. ASSUME NEW t \in Trays, Refreshed(t) PROVE IconTypes'
  <2>1. PICK was, no, mail : /\ was = trays[t] /\ no = FALSE
           /\ trays' = [trays EXCEPT ![t] = [[was EXCEPT !.asking = no] EXCEPT !.mail = mail]]
    <3>1. trays[t] = trays[t]
      OBVIOUS
    <3>2. PICK mail : trays' = [trays EXCEPT ![t].asking = FALSE, ![t].mail = mail]
      BY <1>5 DEF Refreshed
    <3> QED
      BY <3>2
  <2>2. IsTray(was) /\ was.indicator.status \in Icons
    BY <2>1 DEF DesktopInv, RecordsInv, IconTypes
  <2>3. [[was EXCEPT !.asking = no] EXCEPT !.mail = mail].indicator = was.indicator
    BY <2>2 DEF IsTray
  <2> QED
    BY <1>5, <2>1, <2>2, <2>3, IconsOfOne DEF IconTypes, Refreshed
<1>6. ASSUME NEW t \in Trays, PanelReads(t) PROVE IconTypes'
  BY <1>6 DEF PanelReads, IconTypes
<1>7. ASSUME NEW wire \in Wires, StateChanges(wire) PROVE IconTypes'
  <2>1. [kind |-> "event", wire |-> wire] \in Mail
    BY MailTypes DEF OfTruth
  <2> QED
    BY <1>7, <2>1, IconsWithMail DEF StateChanges, IconTypes
<1>8. CASE DaemonGoes
  <2>1. Call("lost") \in Mail /\ Call("back") \in Mail
    BY MailTypes DEF OfDaemon
  <2> QED
    BY <1>8, <2>1, IconsWithMail DEF DaemonGoes
<1>9. CASE WatcherGoes
  <2>1. Call("vanished") \in Mail /\ Call("appeared") \in Mail
    BY MailTypes DEF OfWatcher
  <2>2. bus'.tray = bus.tray
    BY <1>9 DEF WatcherGoes, DesktopInv, AroundInv
  <2> QED
    BY <1>9, <2>1, <2>2, IconsWithMail DEF WatcherGoes
<1>10. CASE WindowGoes
  <2>1. Call("gui vanished") \in Mail /\ Call("gui appeared") \in Mail
    BY MailTypes DEF OfWindow
  <2>2. bus'.tray = bus.tray
    BY <1>10 DEF WindowGoes, DesktopInv, AroundInv
  <2> QED
    BY <1>10, <2>1, <2>2, IconsWithMail DEF WindowGoes
<1>11. ASSUME NEW t \in Trays, Close(t) PROVE IconTypes'
  BY <1>3, <1>11 DEF Close
<1> QED
  BY <1>1, <1>2, <1>4, <1>5, <1>6, <1>7, <1>8, <1>9, <1>10, <1>11, IconsLaunch DEF DesktopNext

\* Tray: the bus has at most one newest tray, and every icon is one that a panel
\* knows.
THEOREM DesktopTyped == DesktopSpec => []DesktopTypeOK
<1>1. DesktopInit => IconTypes
  <2> SUFFICES ASSUME DesktopInit PROVE IconTypes
    OBVIOUS
  <2>1. bus.tray = 0 /\ \A t \in Trays : trays[t] = NobodyYet
    BY DEF DesktopInit
  <2> QED
    BY <2>1, IconOfNobody DEF IconTypes
<1>2. DesktopInv /\ IconTypes => DesktopTypeOK
  <2> SUFFICES ASSUME DesktopInv, IconTypes PROVE DesktopTypeOK
    OBVIOUS
  <2>1. bus \in [watcher : BOOLEAN, gui : BOOLEAN, tray : Trays \union {0}]
    BY DEF DesktopInv, AroundInv, IconTypes
  <2>2. \A t \in Trays : trays[t].phase \in {"none", "running", "gone"}
    BY DEF DesktopInv, RecordsInv, IsTray
  <2> QED
    BY <2>1, <2>2 DEF DesktopInv, AroundInv, IconTypes, Icons, DesktopTypeOK
<1>3. DesktopInv /\ IconTypes /\ [DesktopNext]_desktop => IconTypes'
  BY NextIcons
<1> QED
  BY <1>1, <1>2, <1>3, InitDesktop, NextDesktop, PTL DEF DesktopSpec

-----------------------------------------------------------------------------
(***************************************************************************)
(* The parts together.                                                     *)
(***************************************************************************)
\* A behaviour of the parts is, of each, one of its own: the others rest.
LEMMA PartsRest ==
    Spec => BelongingsSpec /\ ServingSpec /\ DesktopSpec /\ DocumentsSpec /\ LaunchSpec
<1>1. Init => BelongingsInit /\ ServingInit /\ DesktopInit /\ DocumentsInit /\ LaunchInit
  BY DEF Init
<1>2. [Next]_vars => /\ [BelongingsNext]_belongings /\ [ServingNext]_serving /\ [DesktopNext]_desktop
                     /\ [DocumentsNext]_documents /\ [LaunchNext]_launching
  BY Zenon DEF Next, vars, Decide
<1> QED
  BY <1>1, <1>2, PTL DEF Spec, BelongingsSpec, ServingSpec, DesktopSpec, DocumentsSpec, LaunchSpec

\* Every part's variables hold what its code can put in them.
THEOREM PartsTyped == Spec => []TypeOK
  BY PartsRest, BelongingsTypes, ServingTyped, DesktopTyped, DocumentsTyped, LaunchTyped, PTL DEF TypeOK
=============================================================================
