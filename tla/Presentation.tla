---------------------------- MODULE Presentation ----------------------------
(***************************************************************************)
(* What a person is shown of a share and of a connection: what the folder  *)
(* lets an account do (shares/ownership.py), what the daemon says of the   *)
(* share (daemon/handlers.py), and the row, the buttons and the icon that  *)
(* come of it (gui/model.py).  Words are left out, but for which reason a  *)
(* row gives.                                                              *)
(***************************************************************************)
EXTENDS Naturals, FiniteSets, Sequences

CONSTANT Unknown    \* could not be asked, or was not

\* Python's None is neither True nor False.
ASSUME UnknownIsNoAnswer == Unknown \notin BOOLEAN

-----------------------------------------------------------------------------
(***************************************************************************)
(* A folder, and the account it is served as.                              *)
(***************************************************************************)
FoldersSeen ==
    [there : BOOLEAN, owner : {"account", "group", "other"}, bits : SUBSET {"account", "group", "other"},
     acl : BOOLEAN, access : {"allow", "deny", "none", Unknown}]

\* (bug) Any class of bits that lets somebody write will do.
WritableBySomebody(folder) == folder.bits # {}
\* Of the mode bits only the class that applies to the account counts.
WritableBy(folder) == folder.owner \in folder.bits

\* ownership.describe: an access entry outranks the mode, and an ACL that
\* nobody has read leaves it open.
Writable(folder, account) ==
    IF ~folder.there \/ account = "nobody" THEN Unknown
    ELSE IF folder.access = "allow" THEN TRUE
    ELSE IF folder.access = "deny" THEN FALSE
    ELSE IF folder.acl /\ folder.access = Unknown THEN Unknown
    ELSE WritableBy(folder)

\* ownership.effective_read_only, with its reason.
EffectiveReadOnly(share) ==
    IF share.readOnly THEN [readOnly |-> TRUE, reason |-> "none"]
    ELSE IF Writable(share.folder, share.account) = FALSE THEN [readOnly |-> TRUE, reason |-> "folder"]
    ELSE [readOnly |-> FALSE, reason |-> "none"]

-----------------------------------------------------------------------------
(***************************************************************************)
(* The daemon's word for a share: Dispatcher._share_states.                *)
(***************************************************************************)
ShareState(share) ==
    IF ~share.enabled THEN "disabled"
    ELSE IF share.served = Unknown THEN "unknown"
    ELSE IF ~share.served THEN "not served"
    ELSE IF EffectiveReadOnly(share).readOnly THEN "read-only" ELSE "serving"

\* `_can_sign_in`: one account, or anybody at all; or the accounts are unknown.
CanSignIn(share) ==
    IF share.smbAccounts = Unknown THEN Unknown
    ELSE IF share.account = "nobody" THEN share.smbAccounts # {} ELSE share.account \in share.smbAccounts

\* The record on the wire.
ShareWire(share) ==
    [state |-> ShareState(share), readOnly |-> share.readOnly, reason |-> EffectiveReadOnly(share).reason,
     account |-> share.account, canSignIn |-> CanSignIn(share)]

-----------------------------------------------------------------------------
(***************************************************************************)
(* gui/model.py: the rows.                                                 *)
(***************************************************************************)
ShareTone ==
    [s \in {"serving", "read-only", "not served", "disabled", "unknown"} |->
        CASE s = "serving" -> "ok" [] s = "read-only" -> "attention" [] s = "not served" -> "problem"
          [] OTHER -> "muted"]

ServedStates == {"serving", "read-only"}

ShareButtons(wire, readOnly, unusable) ==
    (IF unusable THEN <<"set_smb_password">> ELSE <<>>)
        \o (IF readOnly /\ wire.account # "nobody" THEN <<"make_writable">> ELSE <<>>) \o <<"remove">>

\* share_row.  "because" is what the row gives as its reason.
ShareRow(wire) ==
    LET readOnly == wire.readOnly \/ wire.state = "read-only"
        unusable == wire.state \in ServedStates /\ wire.canSignIn = FALSE
        reason == IF wire.reason = "none" THEN "belongs to someone else" ELSE wire.reason IN
    [state   |-> wire.state,
     tone    |-> IF readOnly \/ unusable THEN "attention" ELSE ShareTone[wire.state],
     because |-> IF unusable THEN "no SMB password" ELSE IF readOnly THEN reason ELSE wire.state,
     buttons |-> ShareButtons(wire, readOnly, unusable)]

\* _CONNECTION_PRESENTATION: the monitor's words and the planner's.
Tone(state) ==
    CASE state \in {"connected", "mounted"} -> "ok"
      [] state \in {"connecting", "reconnecting", "checking"} -> "busy"
      [] state \in {"idle", "not mounted"} -> "idle"
      [] state \in {"failed", "auth_failed", "unreachable", "unresolved", "mountpoint in use",
                    "no credentials"} -> "problem"
      [] OTHER -> "muted"

WantsCredentials == {"auth_failed", "no credentials"}
Connected        == {"connected", "mounted"}
NotConnected     == {"idle", "not mounted", "failed", "auth_failed", "unreachable", "unresolved", "unknown"}

\* _connection_actions.
ConnectionButtons(state, fallback) ==
    (IF state \in WantsCredentials THEN <<"set_credentials">> ELSE <<>>)
        \o (IF state \in Connected THEN <<"disconnect">>
            ELSE IF state \in NotConnected THEN <<"connect">> ELSE <<>>)
        \o (IF state = "unresolved" /\ fallback THEN <<"use_fallback">> ELSE <<>>) \o <<"remove">>

\* connection_row, of a row of `status`.
ConnectionRow(wire) ==
    [id |-> wire.id, state |-> wire.state, message |-> wire.message, tone |-> Tone(wire.state),
     buttons |-> ConnectionButtons(wire.state, wire.fallback)]

\* apply_event: the row of a pushed `state.changed`, which says nothing of a
\* fallback address.
Folded(row, event) ==
    [id |-> row.id, state |-> event.state, message |-> event.message,
     tone |-> Tone(event.state), buttons |-> ConnectionButtons(event.state, FALSE)]

ApplyEvent(rows, event) == {IF row.id = event.id THEN Folded(row, event) ELSE row : row \in rows}

-----------------------------------------------------------------------------
(***************************************************************************)
(* The icon: does anything need you?                                       *)
(***************************************************************************)
NeedsAttention(row) == row.tone \in {"problem", "attention"}

\* indicator: one status, and the count of both axes behind it.
Indicator(shareRows, connectionRows) ==
    LET problems == {row \in shareRows \union connectionRows : NeedsAttention(row)}
        shared == {row \in shareRows : row.state \in ServedStates}
        mounted == {row \in connectionRows : row.state \in Connected} IN
    [status |-> IF problems # {} THEN "problem" ELSE IF shared \union mounted # {} THEN "ok"
                ELSE IF shareRows \union connectionRows # {} THEN "idle" ELSE "muted",
     detail |-> <<problems, Cardinality(shared), Cardinality(mounted)>>]

\* (bug) Offline is a status of its own, which no panel knows.
OfflineStatus == [status |-> "offline", detail |-> <<{}, 0, 0>>]
\* offline_indicator.
OfflineIndicator == [status |-> "problem", detail |-> <<{}, 0, 0>>]
=============================================================================
