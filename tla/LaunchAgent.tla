---------------------------- MODULE LaunchAgent ----------------------------
(***************************************************************************)
(* Installing the agent for launchd, and asking after it: `smbpal-agent    *)
(* --install`, `--uninstall` and `--status` (agent/launchd.py).  launchd   *)
(* keeps the definition of a job as it was when it was loaded, and loads   *)
(* the plist again at each login; programs come and go with Homebrew.      *)
(***************************************************************************)
EXTENDS Naturals

CONSTANTS
    Programs,       \* paths that a copy of smbpal-agent can be at
    NoProgram,      \* what no plist and no job names
    MaxTools,       \* bound: installs and uninstalls
    MaxUpsets       \* bound: calls that go wrong, deaths, moves and logins

ASSUME LaunchBounds == {MaxTools, MaxUpsets} \subseteq Nat
ASSUME NoProgramIsNone == NoProgram \notin Programs

VARIABLES
    there,          \* the programs that exist
    plist,          \* what the plist on disk runs, if there is one
    job,            \* what launchd has loaded: its program and its state
    socket,         \* the agent's socket file is there
    tool,           \* the install or uninstall under way
    reply,          \* what the last one said
    tools, upsets

launching == <<there, plist, job, socket, tool, reply, tools, upsets>>

NoJob  == [program |-> NoProgram, state |-> "none"]
NoTool == [pc |-> "none"]
Loaded == job # NoJob

LaunchInit ==
    /\ there \in SUBSET Programs /\ plist = NoProgram /\ job = NoJob /\ socket = FALSE
    /\ tool = NoTool /\ reply = "nothing" /\ tools = 0 /\ upsets = 0

Upset     == upsets < MaxUpsets /\ upsets' = upsets + 1
NoUpset   == UNCHANGED upsets
Step(pc)  == tool.pc = pc
Then(pc)  == tool' = [tool EXCEPT !.pc = pc] /\ UNCHANGED reply
Ends(say) == tool' = NoTool /\ reply' = say

\* launchd starts the program of a job, and the agent binds its socket.
StartOf(program) ==
    /\ job' = [program |-> program, state |-> IF program \in there THEN "running" ELSE "scheduled"]
    /\ socket' = (socket \/ program \in there)

-----------------------------------------------------------------------------
(***************************************************************************)
(* The tools.                                                              *)
(***************************************************************************)
\* program_path: a program that is not there is refused before anything.
Command(what, program) ==
    /\ tool = NoTool /\ tools < MaxTools /\ tools' = tools + 1
    /\ IF what = "install" /\ program \notin there
       THEN Ends("failed")
       ELSE /\ tool' = [pc |-> IF what = "install" THEN "write" ELSE "bootout", what |-> what,
                        program |-> program, warned |-> FALSE]
            /\ reply' = "nothing"
    /\ UNCHANGED <<there, plist, job, socket, upsets>>

\* write_plist, by a rename.
WritePlist ==
    /\ Step("write")
    /\ \/ plist' = tool.program /\ Then("bootout") /\ NoUpset
       \/ Ends("failed") /\ Upset /\ UNCHANGED plist
    /\ UNCHANGED <<there, job, socket, tools>>

AfterBootout == IF tool.what = "install" THEN "bootstrap" ELSE "unlink"

\* bootout: the job is told to go.  A refusal is only a warning.
Bootout ==
    /\ Step("bootout")
    /\ \/ ~Loaded /\ Then(AfterBootout) /\ NoUpset /\ UNCHANGED job
       \/ Loaded /\ job' = [job EXCEPT !.state = "leaving"] /\ Then("gone") /\ NoUpset
       \/ /\ Loaded /\ Upset /\ UNCHANGED <<job, reply>>
          /\ tool' = [tool EXCEPT !.pc = AfterBootout, !.warned = TRUE]
    /\ UNCHANGED <<there, plist, socket, tools>>

\* And waited for until it has gone, or for ten seconds.
AwaitGone ==
    /\ Step("gone")
    /\ \/ ~Loaded /\ Then(AfterBootout) /\ NoUpset
       \/ Loaded /\ Ends("failed") /\ Upset
    /\ UNCHANGED <<there, plist, job, socket, tools>>

\* bootstrap: refused while the label is loaded, and known to have done nothing
\* with exit status 0.
Bootstrap ==
    /\ Step("bootstrap")
    /\ \/ ~Loaded /\ StartOf(plist) /\ Then("print") /\ NoUpset
       \/ ~Loaded /\ Then("print") /\ Upset /\ UNCHANGED <<job, socket>>
       \/ Ends("failed") /\ UNCHANGED <<job, socket>>
          /\ IF Loaded THEN NoUpset ELSE Upset
    /\ UNCHANGED <<there, plist, tools>>

\* (bug) launchctl's exit status is taken for the answer.
CheckNothing ==
    /\ Step("print") /\ Ends("installed")
    /\ UNCHANGED <<there, plist, job, socket, tools, upsets>>

\* print_job: "then check that launchd really has it".
Check ==
    /\ Step("print") /\ Ends(IF Loaded THEN "installed" ELSE "failed")
    /\ UNCHANGED <<there, plist, job, socket, tools, upsets>>

\* uninstall: the plist and the socket, whatever became of the job.
Unlink ==
    /\ Step("unlink")
    /\ plist' = NoProgram /\ socket' = FALSE /\ Ends(IF tool.warned THEN "warned" ELSE "removed")
    /\ UNCHANGED <<there, job, tools, upsets>>

-----------------------------------------------------------------------------
(***************************************************************************)
(* launchd, Homebrew and the person.                                       *)
(***************************************************************************)
\* A job that was told to go has gone: main ends by removing its socket.
Leaves ==
    /\ job.state = "leaving" /\ job' = NoJob /\ socket' = FALSE
    /\ UNCHANGED <<there, plist, tool, reply, tools, upsets>>

\* KeepAlive: a death is followed by a start, and a clean exit is not.
Exits ==
    /\ job.state = "running" /\ Upset
    /\ \/ job' = [job EXCEPT !.state = "scheduled"] /\ UNCHANGED socket
       \/ job' = [job EXCEPT !.state = "stopped"] /\ socket' = FALSE
    /\ UNCHANGED <<there, plist, tool, reply, tools>>

Respawns ==
    /\ job.state = "scheduled" /\ job.program \in there /\ StartOf(job.program)
    /\ UNCHANGED <<there, plist, tool, reply, tools, upsets>>

\* Another session: what is loaded is what the plist says now.
Login ==
    /\ tool = NoTool /\ Upset
    /\ IF plist = NoProgram THEN job' = NoJob /\ socket' = (socket /\ job.state = "scheduled")
       ELSE StartOf(plist)
    /\ UNCHANGED <<there, plist, tool, reply, tools>>

\* brew installs, upgrades and uninstalls.
Moves(program) ==
    /\ Upset /\ there' = (IF program \in there THEN there \ {program} ELSE there \union {program})
    /\ UNCHANGED <<plist, job, socket, tool, reply, tools>>

LaunchNext ==
    \/ \E what \in {"install", "uninstall"}, program \in Programs : Command(what, program)
    \/ WritePlist \/ Bootout \/ AwaitGone \/ Bootstrap \/ Check \/ Unlink
    \/ Leaves \/ Exits \/ Respawns \/ Login
    \/ \E program \in Programs : Moves(program)

LaunchSpec == LaunchInit /\ [][LaunchNext]_launching

-----------------------------------------------------------------------------
\* status, asked of the copy at a path: "ok".
Healthy(program) ==
    /\ plist = program /\ program \in there
    /\ job.state = "running"

\* Every variable holds what the code can put in it.
LaunchTypeOK ==
    /\ there \subseteq Programs /\ plist \in Programs \union {NoProgram} /\ socket \in BOOLEAN
    /\ job \in {NoJob} \union [program : Programs, state : {"running", "scheduled", "stopped", "leaving"}]
    /\ tool.pc \in {"none", "write", "bootout", "gone", "bootstrap", "print", "unlink"}
    /\ reply \in {"nothing", "installed", "removed", "warned", "failed"}

\* install and uninstall do what they say, and it lasts over deaths, logins and
\* what Homebrew moves: what was installed is loaded from the plist of that
\* install, and a copy that calls itself healthy is the copy that runs; what
\* was removed is not there and does not come back.
AgentIsAsSaid ==
    /\ reply = "installed" =>
          /\ Loaded /\ job.program = plist
          /\ \A program \in Programs : Healthy(program) => job.program = program
    /\ reply = "removed" => plist = NoProgram /\ ~Loaded /\ ~socket
=============================================================================
