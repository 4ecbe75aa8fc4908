--------------------------- MODULE ConnectionState ---------------------------
(***************************************************************************)
(* What the daemon says about one connection: smbpal/state/machine.py      *)
(* (`derive`) and smbpal/state/translate.py (`translate_journal`).         *)
(*                                                                         *)
(* Both are pure, so they are operators.  A message is a tag naming the    *)
(* branch that wrote it; the wording is left out.  None stands for the     *)
(* Python None, "the question could not be asked", which `derive` keeps    *)
(* apart from False.                                                       *)
(***************************************************************************)
EXTENDS Integers, Sequences

CONSTANT None

\* Python's None is neither True nor False.
ASSUME NoneIsNoAnswer == None \notin BOOLEAN

IDLE         == "idle"
CONNECTING   == "connecting"
CONNECTED    == "connected"
RECONNECTING == "reconnecting"
UNREACHABLE  == "unreachable"
UNRESOLVED   == "unresolved"
AUTH_FAILED  == "auth_failed"
FAILED       == "failed"
DISABLED     == "disabled"
UNKNOWN      == "unknown"

Autos == { "always", "on_this_network", "never" }

(***************************************************************************)
(* Causes.  A journal line is the errno of a `mount error(n)` line, or     *)
(* Unresolved for a resolution failure, or Noise for any other text.       *)
(***************************************************************************)
Noise      == 0
Unresolved == -1

RefusedErrno     == { 1, 13 }
NoShareErrno     == { 2, 6 }
UnreachableErrno == { 101, 110, 111, 112, 113 }

Cause(errno) ==
    [ state     |-> IF errno \in RefusedErrno THEN AUTH_FAILED
                    ELSE IF errno \in UnreachableErrno THEN UNREACHABLE
                    ELSE IF errno = 115 THEN CONNECTING
                    ELSE FAILED,
      errno     |-> errno,
      retryable |-> errno \notin RefusedErrno \cup NoShareErrno ]

UnresolvedCause == [ state |-> UNRESOLVED, errno |-> Unresolved, retryable |-> TRUE ]

NoCause == [ state |-> None, errno |-> Noise, retryable |-> TRUE ]

\* `translate_journal`: the last errno wins, and a resolution failure is
\* reported only when the journal holds no errno at all.
TranslateJournal(lines) ==
    LET errnoAt == { i \in DOMAIN lines : lines[i] > Noise }
        last    == CHOOSE i \in errnoAt : \A j \in errnoAt : j <= i
    IN  IF errnoAt # {} THEN Cause(lines[last])
        ELSE IF \E i \in DOMAIN lines : lines[i] = Unresolved
             THEN UnresolvedCause
             ELSE NoCause

(***************************************************************************)
(* `derive`.  A reading holds everything it is given:                      *)
(*   auto       auto_connect                                               *)
(*   occupied   somebody else's filesystem holds the mountpoint            *)
(*   mounted    TRUE, FALSE or None, from the kernel's mount table         *)
(*   answering  TRUE, FALSE or None, from the kernel's cifs client         *)
(*   readOnly   whether the mount is read-only                             *)
(*   active     the unit's ActiveState, or None when `show` failed         *)
(*   result     the unit's Result                                          *)
(*   cause      what the journal said, or NoCause                          *)
(*   armed      TRUE, FALSE or None: an autofs trigger is there            *)
(***************************************************************************)
Verdict(state, message, retryable) ==
    [ state |-> state, message |-> message, retryable |-> retryable ]

States   == { IDLE, CONNECTING, CONNECTED, RECONNECTING, UNREACHABLE, UNRESOLVED,
              AUTH_FAILED, FAILED, DISABLED, UNKNOWN }
Messages == { <<"not connected">>, <<"occupied">>, <<"still mounted">>, <<"no unit">>,
              <<"mounting">>, <<"not armed">>, <<"ready">> }
            \cup ({ "mounted", "exit status" } \X BOOLEAN)
            \cup ({ "errno" } \X Int \X BOOLEAN)
Verdicts == [ state : States, message : Messages, retryable : BOOLEAN ]

UnitFailed(active, result) ==
    /\ active # None
    /\ \/ active = "failed"
       \/ result # "success"

\* (bug) the refusal to retry is reported only when the journal has a cause
DeriveFailedForgetsLatch(result, cause) ==
    IF cause = NoCause
    THEN Verdict(FAILED, <<"exit status", FALSE>>, TRUE)
    ELSE Verdict(cause.state, <<"errno", cause.errno, FALSE>>, cause.retryable)

\* The branch for a unit that failed.  start-limit-hit means systemd has
\* stopped trying, whatever the journal says about why.
DeriveFailed(result, cause) ==
    LET latched == result = "start-limit-hit"
        named   == IF cause.retryable /\ cause.state = FAILED
                   THEN RECONNECTING ELSE cause.state
        shown   == IF ~latched THEN named
                   ELSE IF named = AUTH_FAILED THEN AUTH_FAILED ELSE FAILED
    IN  IF cause = NoCause
        THEN Verdict(FAILED, <<"exit status", latched>>, ~latched)
        ELSE Verdict(shown, <<"errno", cause.errno, latched>>,
                     ~latched /\ cause.retryable)

\* (bug) a server the kernel has no opinion about is called gone
DeriveMountedUnsure(r) ==
    IF r.answering = TRUE
    THEN Verdict(CONNECTED, <<"mounted", r.readOnly>>, FALSE)
    ELSE Verdict(UNREACHABLE, <<"still mounted">>, TRUE)

DeriveMounted(r) ==
    IF r.answering = FALSE
    THEN Verdict(UNREACHABLE, <<"still mounted">>, TRUE)
    ELSE Verdict(CONNECTED, <<"mounted", r.readOnly>>, FALSE)

DeriveUnmounted(r) ==
    IF r.active = None THEN Verdict(UNKNOWN, <<"no unit">>, FALSE)
    ELSE IF r.active = "activating"
         THEN Verdict(CONNECTING, <<"mounting">>, TRUE)
    ELSE IF UnitFailed(r.active, r.result) THEN DeriveFailed(r.result, r.cause)
    ELSE IF r.armed = FALSE THEN Verdict(FAILED, <<"not armed">>, FALSE)
    ELSE Verdict(IDLE, <<"ready">>, FALSE)

Derive(r) ==
    IF r.auto = "never" THEN Verdict(DISABLED, <<"not connected">>, FALSE)
    ELSE IF r.occupied THEN Verdict(FAILED, <<"occupied">>, FALSE)
    ELSE IF r.mounted = TRUE THEN DeriveMounted(r)
    ELSE DeriveUnmounted(r)

\* `_differs`: what makes a poll tell the clients about a connection.
Differs(previous, current) ==
    \/ previous.state # current.state
    \/ previous.message # current.message
=============================================================================
