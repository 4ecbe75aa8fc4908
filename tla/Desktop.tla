------------------------------ MODULE Desktop ------------------------------
(***************************************************************************)
(* The tray (gui/tray.py): a process with one icon, on a session bus where *)
(* the panel, the window and other trays come and go.  What a main loop    *)
(* has still to run is its mail, in the order it arrived.  The thread that *)
(* talks to the daemon is Session's; here it only posts, and a `status` is *)
(* posted as it is read.                                                   *)
(***************************************************************************)
EXTENDS Presentation

CONSTANTS
    Trays,          \* processes, by the order they start in
    Wires,          \* what `status` can say of the connection
    MaxTurns        \* bound: what happens around the trays

ASSUME DesktopBounds == MaxTurns \in Nat /\ Trays \subseteq Nat
\* Whatever `status` says, it says it of one connection.
ASSUME OneConnection == \A v, w \in Wires : v.id = w.id

VARIABLES
    truth,          \* the daemon's word for the connection
    answering,      \* the daemon is up
    bus,            \* who is on the session bus: the watcher, the window, the singleton name
    trays,          \* process -> its state
    panel,          \* process -> what the panel draws for it, if anything
    turns

desktop == <<truth, answering, bus, trays, panel, turns>>

NobodyYet == [phase |-> "none", exported |-> FALSE, watcher |-> FALSE, guiOpen |-> FALSE, rows |-> {},
              offline |-> FALSE, asking |-> FALSE, indicator |-> Indicator({}, {}), mail |-> <<>>]
NotDrawn == [listed |-> FALSE, told |-> FALSE, status |-> "none", manage |-> FALSE]
Alive == {t \in Trays : trays[t].phase = "running"}

DesktopInit ==
    /\ truth \in Wires /\ answering = TRUE
    /\ bus = [watcher |-> FALSE, gui |-> FALSE, tray |-> 0]
    /\ trays = [t \in Trays |-> NobodyYet] /\ panel = [t \in Trays |-> NotDrawn] /\ turns = 0

Turn == turns < MaxTurns /\ turns' = turns + 1

\* Mail: a callback, and the row that some bring.
Call(what) == [kind |-> what]
\* Mail for every tray that runs.
Posted(what) == [t \in Trays |-> IF t \in Alive THEN [trays[t] EXCEPT !.mail = Append(@, what)] ELSE trays[t]]

\* How a tray that is told the menu's state stands: Manage is for when there
\* is no window.
ManageEnabled(tray) == ~tray.guiOpen

-----------------------------------------------------------------------------
(***************************************************************************)
(* The icon and the panel.                                                 *)
(***************************************************************************)
\* Tray.announce: both the export and the watcher can come first.  The panel
\* reads the item when it is told of it.
Announced(t, tray) ==
    IF tray.exported /\ tray.watcher /\ bus.watcher
    THEN [panel EXCEPT ![t] = [listed |-> TRUE, told |-> FALSE, status |-> tray.indicator.status,
                               manage |-> ManageEnabled(tray)]]
    ELSE panel

\* (bug) The tooltip is said to have changed, and the status never is.
SaidOfTitle(t, tray, old) == panel
\* Tray._republish: a signal for what differs, once there is somebody to signal.
Said(t, tray, old) ==
    IF tray.exported /\ tray.indicator # old THEN [panel EXCEPT ![t].told = panel[t].listed] ELSE panel

\* The panel reads again what it was told has changed.
PanelReads(t) ==
    /\ panel[t].told
    /\ panel' = [panel EXCEPT ![t].told = FALSE, ![t].status = trays[t].indicator.status]
    /\ UNCHANGED <<truth, answering, bus, trays, turns>>

Republished(tray) ==
    [tray EXCEPT !.indicator = IF tray.offline THEN OfflineIndicator ELSE Indicator({}, tray.rows)]

-----------------------------------------------------------------------------
(***************************************************************************)
(* The main loop.                                                          *)
(***************************************************************************)
Started(t) == trays[t].phase # "none"

\* main: the newest tray takes the singleton name, and asks who is there.
Launch(t) ==
    /\ ~Started(t) /\ \A u \in Trays : u < t => Started(u)
    /\ trays' = [u \in Trays |->
           IF u = t
           THEN [NobodyYet EXCEPT !.phase = "running", !.asking = TRUE,
                    !.mail = <<Call(IF bus.watcher THEN "appeared" ELSE "vanished"),
                               Call(IF bus.gui THEN "gui appeared" ELSE "gui vanished")>>
                             \o (IF answering THEN <<>> ELSE <<Call("lost")>>)]
           ELSE IF u = bus.tray THEN [trays[u] EXCEPT !.mail = Append(@, Call("name lost"))] ELSE trays[u]]
    /\ bus' = [bus EXCEPT !.tray = t]
    /\ UNCHANGED <<truth, answering, panel, turns>>

\* The bus gives the item its name, and the tray exports it (`register`).
Export(t) ==
    /\ t \in Alive /\ ~trays[t].exported
    /\ LET tray == [trays[t] EXCEPT !.exported = TRUE] IN
       /\ trays' = [trays EXCEPT ![t] = tray] /\ panel' = Announced(t, tray)
    /\ UNCHANGED <<truth, answering, bus, turns>>

\* quit: the process goes, and with it its names.
Quits(t) ==
    /\ trays' = [trays EXCEPT ![t] = [NobodyYet EXCEPT !.phase = "gone"]]
    /\ panel' = [panel EXCEPT ![t] = NotDrawn]
    /\ bus' = [bus EXCEPT !.tray = IF @ = t THEN 0 ELSE @]

\* The callbacks: what the tray is after one.
After(tray, mail) ==
    CASE mail.kind = "appeared"     -> [tray EXCEPT !.watcher = TRUE]
      [] mail.kind = "vanished"     -> [tray EXCEPT !.watcher = FALSE]
      [] mail.kind = "gui appeared" -> [tray EXCEPT !.guiOpen = TRUE]
      [] mail.kind = "gui vanished" -> [tray EXCEPT !.guiOpen = FALSE]
      [] mail.kind = "lost"         -> Republished([tray EXCEPT !.offline = TRUE])
      \* the icon says so until the answer is there
      [] mail.kind = "back"         -> [tray EXCEPT !.offline = FALSE, !.asking = TRUE]
      [] OTHER -> IF mail.kind = "screen" THEN Republished([tray EXCEPT !.rows = {ConnectionRow(mail.wire)}])
                  ELSE Republished([tray EXCEPT !.rows = ApplyEvent(tray.rows, mail.wire)])

\* What the panel is told by it.
PanelAfter(t, old, tray, mail) ==
    CASE mail.kind = "appeared" -> Announced(t, tray)
      [] mail.kind \in {"gui appeared", "gui vanished"} ->
            IF tray.exported /\ tray.guiOpen # old.guiOpen
            THEN [panel EXCEPT ![t].manage = ManageEnabled(tray)] ELSE panel
      [] OTHER -> Said(t, tray, old.indicator)

Run(t) ==
    /\ t \in Alive /\ trays[t].mail # <<>>
    /\ LET mail == Head(trays[t].mail)
           old == [trays[t] EXCEPT !.mail = Tail(@)] IN
       IF mail.kind = "name lost" THEN Quits(t)
       ELSE /\ trays' = [trays EXCEPT ![t] = After(old, mail)]
            /\ panel' = PanelAfter(t, old, After(old, mail), mail)
            /\ UNCHANGED bus
    /\ UNCHANGED <<truth, answering, turns>>

\* The answer to a refresh, or none.
Refreshed(t) ==
    /\ t \in Alive /\ trays[t].asking
    /\ trays' = [trays EXCEPT ![t].asking = FALSE,
                     ![t].mail = IF answering THEN Append(@, [kind |-> "screen", wire |-> truth]) ELSE @]
    /\ UNCHANGED <<truth, answering, bus, panel, turns>>

-----------------------------------------------------------------------------
(***************************************************************************)
(* Around the trays.                                                       *)
(***************************************************************************)
\* The monitor pushes to whoever watches.
StateChanges(wire) ==
    /\ Turn /\ wire # truth /\ truth' = wire
    /\ trays' = IF answering THEN Posted([kind |-> "event", wire |-> wire]) ELSE trays
    /\ UNCHANGED <<answering, bus, panel>>

DaemonGoes ==
    /\ Turn /\ answering' = ~answering
    /\ trays' = Posted(Call(IF answering THEN "lost" ELSE "back"))
    /\ UNCHANGED <<truth, bus, panel>>

WatcherGoes ==
    /\ Turn /\ bus' = [bus EXCEPT !.watcher = ~@]
    /\ trays' = Posted(Call(IF bus.watcher THEN "vanished" ELSE "appeared"))
    /\ panel' = [t \in Trays |-> NotDrawn]
    /\ UNCHANGED <<truth, answering>>

\* The window: opened by whoever, or by the menu's Manage, which is checked
\* again because a panel may have kept the layout.
WindowGoes ==
    /\ Turn /\ bus' = [bus EXCEPT !.gui = ~@]
    /\ trays' = Posted(Call(IF bus.gui THEN "gui vanished" ELSE "gui appeared"))
    /\ UNCHANGED <<truth, answering, panel>>

\* The menu's Close.
Close(t) ==
    /\ Turn /\ t \in Alive /\ panel[t].listed /\ Quits(t)
    /\ UNCHANGED <<truth, answering>>

DesktopNext ==
    \/ \E t \in Trays : Launch(t) \/ Export(t) \/ Run(t) \/ Refreshed(t) \/ PanelReads(t) \/ Close(t)
    \/ \E wire \in Wires : StateChanges(wire)
    \/ DaemonGoes \/ WatcherGoes \/ WindowGoes

DesktopSpec == DesktopInit /\ [][DesktopNext]_desktop

-----------------------------------------------------------------------------
\* Every variable holds what the code can put in it.
DesktopTypeOK ==
    /\ truth \in Wires /\ bus \in [watcher : BOOLEAN, gui : BOOLEAN, tray : Trays \union {0}]
    /\ \A t \in Trays : /\ trays[t].phase \in {"none", "running", "gone"}
                        /\ trays[t].indicator.status \in {"problem", "ok", "idle", "muted"}

\* Nothing is on its way to a tray or from it.
Quiet(t) == trays[t].mail = <<>> /\ ~trays[t].asking /\ ~panel[t].told

\* Tray.announce and _republish: whatever the panel, the window and the daemon
\* did and in whatever order, a tray that has run its callbacks has one icon on
\* every panel that is there, with the daemon's word for the connection on it
\* and Manage for when there is no window; and of two trays the newest stays.
IconIsRight ==
    \A t \in Alive : (Quiet(t) /\ trays[t].exported) =>
        /\ bus.tray = t
        /\ panel[t].listed = bus.watcher
        /\ panel[t].listed =>
              /\ panel[t].status = (IF answering THEN Indicator({}, {ConnectionRow(truth)}) ELSE OfflineIndicator).status
              /\ panel[t].manage = ~bus.gui
=============================================================================
