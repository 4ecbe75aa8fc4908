------------------------------ MODULE MCParts ------------------------------
(***************************************************************************)
(* The smaller parts of the system for TLC, checked in one run: which part *)
(* a behaviour is of is chosen at its start, and the variables of the      *)
(* others rest.  Two parts are pure: a case is picked, and what the code   *)
(* makes of it follows in one step.                                        *)
(***************************************************************************)
EXTENDS ConnectionState, Belongings, Serving, Desktop, Documents,
        LaunchAgent

VARIABLES
    part,       \* whose behaviour this is
    given,      \* the case of a pure part
    outcome     \* what the code makes of it

vars == <<part, given, outcome, belongings, serving, desktop, documents, launching>>

NotYet == [state |-> "not yet"]

-----------------------------------------------------------------------------
(***************************************************************************)
(* Every reading that `derive` can be given.  A journal of two lines is    *)
(* enough for one to overtake another, and it is read only for a failed    *)
(* unit that is not mounted (StateMonitor._state_of).                      *)
(***************************************************************************)
Lines    == { Noise, Unresolved, 2, 5, 13, 112, 115 }
Journals == { <<>> } \cup { <<a>> : a \in Lines } \cup { <<a, b>> : a, b \in Lines }
Ternary  == { TRUE, FALSE, None }

Readings ==
    [ auto : Autos, occupied : BOOLEAN, mounted : Ternary,
      answering : Ternary, readOnly : BOOLEAN,
      active : { "inactive", "activating", "failed", None },
      result : { "success", "exit-code", "start-limit-hit" },
      armed : Ternary, journal : Journals ]

Possible(r) ==
    /\ r.mounted # TRUE => ~r.readOnly
    /\ (~UnitFailed(r.active, r.result) \/ r.mounted = TRUE) => r.journal = <<>>

Derived(r) ==
    Derive([ auto |-> r.auto, occupied |-> r.occupied, mounted |-> r.mounted,
             answering |-> r.answering, readOnly |-> r.readOnly,
             active |-> r.active, result |-> r.result, armed |-> r.armed,
             cause |-> IF r.journal = <<>> THEN NoCause ELSE TranslateJournal(r.journal) ])

-----------------------------------------------------------------------------
(***************************************************************************)
(* Every share that the daemon can describe.                               *)
(***************************************************************************)
SharesSeen ==
    [ readOnly : BOOLEAN, enabled : BOOLEAN, served : { TRUE, FALSE, Unknown },
      account : { "nobody", "pi" }, folder : FoldersSeen,
      smbAccounts : { {}, { "pi" }, { "luke" }, Unknown } ]

-----------------------------------------------------------------------------
Init ==
    /\ part \in { "verdicts", "rows", "belongings", "serving", "desktop", "documents", "launchd" }
    /\ given \in IF part = "verdicts" THEN { r \in Readings : Possible(r) }
                 ELSE IF part = "rows" THEN SharesSeen ELSE { NotYet }
    /\ outcome = NotYet
    /\ BelongingsInit /\ ServingInit /\ DocumentsInit
    /\ LaunchInit /\ (part = "launchd" \/ there = {})
    /\ DesktopInit /\ truth.state = "connected"

Decide ==
    /\ outcome = NotYet
    /\ \/ part = "verdicts" /\ outcome' = Derived(given)
       \/ part = "rows" /\ outcome' = ShareRow(ShareWire(given))
    /\ UNCHANGED <<part, given, belongings, serving, desktop, documents, launching>>

Rest == UNCHANGED <<part, given, outcome>>

Next ==
    \/ Decide
    \/ part = "belongings" /\ BelongingsNext /\ Rest /\ UNCHANGED <<serving, desktop, documents, launching>>
    \/ part = "serving" /\ ServingNext /\ Rest /\ UNCHANGED <<belongings, desktop, documents, launching>>
    \/ part = "desktop" /\ DesktopNext /\ Rest /\ UNCHANGED <<belongings, serving, documents, launching>>
    \/ part = "documents" /\ DocumentsNext /\ Rest /\ UNCHANGED <<belongings, serving, desktop, launching>>
    \/ part = "launchd" /\ LaunchNext /\ Rest /\ UNCHANGED <<belongings, serving, desktop, documents>>

Spec == Init /\ [][Next]_vars

-----------------------------------------------------------------------------
\* Every part's variables hold what its code can put in them.
TypeOK == BelongingsTypeOK /\ ServingTypeOK /\ DesktopTypeOK /\ DocumentsTypeOK /\ LaunchTypeOK

Is(what) == part = what /\ outcome # NotYet

\* Once systemd has stopped trying (start-limit-hit), nothing says that
\* somebody is retrying: neither the state nor the retryable flag, on any path
\* through `derive` that reaches a failed unit.
NobodyRetriesALatchedUnit ==
    (/\ Is("verdicts") /\ given.result = "start-limit-hit"
     /\ outcome.state \notin { CONNECTED, UNREACHABLE, CONNECTING })
        => /\ ~outcome.retryable
           /\ outcome.state # RECONNECTING

\* Not knowing is not a fault: a reading that could not be taken (the kernel's
\* view of the server, the autofs trigger) gives the verdict a healthy answer
\* would have given, never a problem of its own.
NotKnowingIsNotAFault ==
    Is("verdicts") =>
        outcome = Derived([given EXCEPT !.answering = IF @ = None THEN TRUE ELSE @,
                                        !.armed     = IF @ = None THEN TRUE ELSE @])

\* What the kernel would answer the account, an access entry first and then the
\* one class of the mode that applies to it.
MayWrite(folder) ==
    folder.access # "deny" /\ (folder.access = "allow" \/ folder.owner \in folder.bits)

\* share_row: a row that is calm is of a share that works, or of one that nobody
\* could ask about: it is served, somebody can sign in to it, and what was
\* shared to be written can be written.  A row that is not says what is in the
\* way, and its first button is the one for it.
CalmIsUsable ==
    Is("rows") =>
        LET known == given.account # "nobody" /\ given.folder.there
                        /\ ~(given.folder.acl /\ given.folder.access = Unknown) IN
        /\ outcome.tone = "ok" =>
              /\ given.enabled /\ given.served = TRUE /\ CanSignIn(given) # FALSE
              /\ known => MayWrite(given.folder)
        /\ outcome.because = "no SMB password" => Head(outcome.buttons) = "set_smb_password"
        /\ outcome.because = "folder" => Head(outcome.buttons) = "make_writable"
-----------------------------------------------------------------------------
(***************************************************************************)
(* The values of the constants.                                            *)
(***************************************************************************)
MCTrays == 1..2
MCWires == {[id |-> "c", state |-> s, message |-> s, fallback |-> FALSE] : s \in {"connected", "failed"}}

MCTitles == {<<"Media">>, <<"media">>, <<"Media", "on", "nas">>, <<"global">>}
MCNumbers == <<"2", "3", "4", "5", "6", "7", "8">>
MCSmall == [w \in {"Media", "media", "nas", "pi", "on", "global", "mnt"} \union ToSet(MCNumbers) |->
               IF w = "Media" THEN "media" ELSE w]
MCPlaces == {<<"mnt", "Media">>}
MCGivenIds == {<<"media">>}
MCReserved == {<<"global">>}
MCRoot == <<"mnt">>
=============================================================================
