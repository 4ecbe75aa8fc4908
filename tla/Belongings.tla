----------------------------- MODULE Belongings -----------------------------
(***************************************************************************)
(* What SMBPal made on a Mac and may take away again, and what it found    *)
(* and must leave: the items of the login Keychain (agent/keychain.py),    *)
(* one for each server and account, and the mounts that the agent writes   *)
(* into its ledger (agent/ledger.py).  Only the config knows whose an item *)
(* is, so the handlers of daemon/handlers.py that store, share and forget  *)
(* a password are here, each a step for a call to the agent.               *)
(***************************************************************************)
EXTENDS Naturals, FiniteSets

CONSTANTS
    Links,          \* connections; each to a share of its own
    Servers,        \* names and addresses of servers
    Accounts,       \* accounts on them
    NoAccount,      \* no account is recorded
    MaxDoings,      \* bound: what people ask for and do
    MaxFsid,        \* bound: filesystem ids in one boot
    MaxMishaps      \* bound: calls and writes that fail, deaths and restarts

ASSUME BelongingsBounds == {MaxDoings, MaxFsid, MaxMishaps} \subseteq Nat
ASSUME NoAccountIsNone == NoAccount \notin Accounts
ASSUME ServersExist == Servers # {}

VARIABLES
    book,           \* the config: per connection its record
    items,          \* (server, account) -> whose Keychain item it is
    errand,         \* the request a handler runs, and how far it is
    volumes,        \* connection -> its mount: filesystem id and who made it
    nextFsid, ledger, ledgerFile,
    moved,          \* history: a record was moved off its item, or a step was lost
    doings, mishaps, boots

store  == <<book, items>>
agent  == <<volumes, nextFsid, ledger, ledgerFile>>
counts == <<doings, mishaps, boots>>
belongings == <<store, errand, agent, moved, counts>>

Unlisted == [there |-> FALSE, host |-> CHOOSE s \in Servers : TRUE, account |-> NoAccount, mark |-> "none"]
Keys    == Servers \X Accounts
Key(r)  == <<r.host, r.account>>
Known   == {c \in Links : book[c].there}
NoMount == [fsid |-> 0, by |-> "nobody"]
AtRest  == [pc |-> "idle"]

BelongingsInit ==
    /\ book = [c \in Links |-> Unlisted] /\ items = [k \in Keys |-> "absent"]
    /\ errand = AtRest /\ volumes = [c \in Links |-> NoMount] /\ nextFsid = 1
    /\ ledger = {} /\ ledgerFile = {} /\ moved = FALSE
    /\ doings = 0 /\ mishaps = 0 /\ boots = 0

Asked  == errand = AtRest /\ doings < MaxDoings /\ doings' = doings + 1
Doing   == doings < MaxDoings /\ doings' = doings + 1
Mishap == mishaps < MaxMishaps /\ mishaps' = mishaps + 1
Goes(pc) == errand' = [errand EXCEPT !.pc = pc]

-----------------------------------------------------------------------------
(***************************************************************************)
(* Storing a password: the agent first, then the record.                   *)
(***************************************************************************)
\* Connections that mount with the item of a server and account.
Sharing(doc, k) == {c \in Links : doc[c].there /\ doc[c].account # NoAccount /\ Key(doc[c]) = k}

\* (bug) The agent's word is taken for whose item it is.
MarkAsTold(doc, k, outcome) == outcome

\* An item that another record says SMBPal created is "replaced" by the agent.
Mark(doc, k, outcome) ==
    IF outcome = "created" \/ \E c \in Sharing(doc, k) : doc[c].mark = "created"
    THEN "created" ELSE outcome

\* connection.add with a user, and connection.set_credentials.
AskToStore(c, host, account) ==
    /\ Asked /\ (book[c].there => host = book[c].host)
    /\ errand' = [pc |-> "store", link |-> c, doc |-> book, host |-> host, account |-> account, mark |-> "none"]
    /\ UNCHANGED <<store, agent, moved, mishaps, boots>>

\* agent.credential_set: one item for a server and an account.
StoreItem ==
    /\ errand.pc = "store"
    /\ LET k == <<errand.host, errand.account>>
           outcome == IF items[k] = "absent" THEN "created" ELSE "replaced" IN
       /\ items' = [items EXCEPT ![k] = IF @ = "absent" THEN "ours" ELSE @]
       /\ errand' = [errand EXCEPT !.pc = "record", !.mark = Mark(errand.doc, k, outcome)]
    /\ UNCHANGED <<book, agent, moved, counts>>

\* The record keeps the account and the mark.  An account that it had before
\* is forgotten, and its item is not.
RecordItem ==
    /\ errand.pc = "record"
    /\ LET c == errand.link IN
       /\ book' = [errand.doc EXCEPT ![c] = [there |-> TRUE, host |-> errand.host,
                                            account |-> errand.account, mark |-> errand.mark]]
       /\ moved' = (moved \/ (book[c].account \notin {NoAccount, errand.account}))
    /\ errand' = AtRest
    /\ UNCHANGED <<items, agent, counts>>

\* connection.use_fallback: the two addresses change places.
Swap(c, host) ==
    /\ Asked /\ book[c].there /\ host # book[c].host
    /\ book' = [book EXCEPT ![c].host = host] /\ moved' = TRUE
    /\ UNCHANGED <<items, errand, agent, mishaps, boots>>

-----------------------------------------------------------------------------
(***************************************************************************)
(* connection.remove: the record, then the item, then the mounts.          *)
(***************************************************************************)
\* The mark moves to the connections that are left with the item.
Without(c) ==
    [d \in Links |->
        IF d = c THEN Unlisted
        ELSE IF d \in Sharing(book, Key(book[c])) /\ book[c].mark = "created"
             THEN [book[d] EXCEPT !.mark = "created"] ELSE book[d]]

\* (bug) Whoever created the item takes it away.
LastAnyway(c) == book[c].mark = "created"
\* An item SMBPal created goes with the last connection that uses it.
LastUser(c) == book[c].mark = "created" /\ Sharing(book, Key(book[c])) \subseteq {c}

AskToRemove(c) ==
    /\ Asked /\ book[c].there /\ book' = Without(c)
    /\ errand' = [pc |-> IF book[c].account # NoAccount /\ LastUser(c) THEN "forget" ELSE "release",
                  link |-> c, host |-> book[c].host, account |-> book[c].account]
    /\ UNCHANGED <<items, agent, moved, mishaps, boots>>

\* agent.credential_forget does not ask whose the item is.
ForgetItem ==
    /\ errand.pc = "forget"
    /\ items' = [items EXCEPT ![<<errand.host, errand.account>>] = "absent"] /\ Goes("release")
    /\ UNCHANGED <<book, agent, moved, counts>>

\* (bug) The ledger keeps the share of a mount, not its filesystem id.
OwnsByShare(c) == \E e \in ledger : e.link = c
\* MountLedger.owns.
Owns(c) == \E e \in ledger : e.fsid = volumes[c].fsid

\* The file is written whole, and a write that fails is only logged.
SaveLedger(entries) ==
    /\ ledger' = entries
    /\ \/ ledgerFile' = entries /\ UNCHANGED mishaps
       \/ entries # ledger /\ Mishap /\ UNCHANGED ledgerFile

\* agent.release: a mount in use stays, and so does one that is not ours.
Release ==
    /\ errand.pc = "release" /\ errand' = AtRest
    /\ LET c == errand.link IN
       \/ /\ volumes[c] # NoMount /\ Owns(c)
          /\ volumes' = [volumes EXCEPT ![c] = NoMount]
          /\ SaveLedger({e \in ledger : e.fsid # volumes[c].fsid})
       \/ UNCHANGED <<volumes, ledger, ledgerFile, mishaps>>
    /\ UNCHANGED <<store, nextFsid, moved, doings, boots>>

\* The agent cannot be reached: what was done stays done, and the rest undone.
NoAgent ==
    /\ errand.pc \in {"store", "forget", "release"} /\ Mishap
    /\ errand' = AtRest /\ moved' = (moved \/ errand.pc = "forget")
    /\ UNCHANGED <<store, agent, doings, boots>>

\* The daemon dies with a request half done.
DaemonDies ==
    /\ errand # AtRest /\ Mishap
    /\ errand' = AtRest /\ moved' = TRUE
    /\ UNCHANGED <<store, agent, doings, boots>>

-----------------------------------------------------------------------------
(***************************************************************************)
(* Mounts: the reconnect loop, the person's Finder, and the machine.       *)
(***************************************************************************)
Mounted(c, who) ==
    /\ volumes[c] = NoMount /\ nextFsid <= MaxFsid /\ nextFsid' = nextFsid + 1
    /\ volumes' = [volumes EXCEPT ![c] = [fsid |-> nextFsid, by |-> who]]

Live == {volumes[c].fsid : c \in Links}

\* Handlers._mount_now and _remember: the entries of mounts that are gone go.
AgentMounts(c) ==
    /\ book[c].there /\ Mounted(c, "smbpal")
    /\ SaveLedger({e \in ledger : e.fsid \in Live} \union {[fsid |-> nextFsid, link |-> c]})
    /\ UNCHANGED <<store, errand, moved, doings, boots>>

FinderMounts(c) ==
    /\ Doing /\ Mounted(c, "person")
    /\ UNCHANGED <<store, errand, ledger, ledgerFile, moved, mishaps, boots>>

Ejects(c) ==
    /\ volumes[c] # NoMount /\ Doing /\ volumes' = [volumes EXCEPT ![c] = NoMount]
    /\ UNCHANGED <<store, errand, nextFsid, ledger, ledgerFile, moved, mishaps, boots>>

\* Finder keeps the password of a share it mounts.
FinderStores(k) ==
    /\ items[k] = "absent" /\ Doing /\ items' = [items EXCEPT ![k] = "theirs"]
    /\ UNCHANGED <<book, errand, agent, moved, mishaps, boots>>

AgentRestarts ==
    /\ Mishap /\ ledger' = ledgerFile
    /\ UNCHANGED <<store, errand, volumes, nextFsid, ledgerFile, moved, doings, boots>>

\* The kernel numbers filesystems from the start again.
Reboots ==
    /\ errand = AtRest /\ Mishap /\ boots' = boots + 1 /\ ledger' = ledgerFile
    /\ volumes' = [c \in Links |-> NoMount] /\ nextFsid' = 1
    /\ UNCHANGED <<store, errand, ledgerFile, moved, doings>>

BelongingsNext ==
    \/ \E c \in Links, s \in Servers, a \in Accounts : AskToStore(c, s, a)
    \/ \E c \in Links, s \in Servers : Swap(c, s)
    \/ \E c \in Links : AskToRemove(c) \/ AgentMounts(c) \/ FinderMounts(c) \/ Ejects(c)
    \/ \E k \in Keys : FinderStores(k)
    \/ StoreItem \/ RecordItem \/ ForgetItem \/ Release \/ NoAgent \/ DaemonDies
    \/ AgentRestarts \/ Reboots

BelongingsSpec == BelongingsInit /\ [][BelongingsNext]_belongings

-----------------------------------------------------------------------------
\* Every variable holds what the code can put in it.
BelongingsTypeOK ==
    /\ \A c \in Links : book[c] \in [there : BOOLEAN, host : Servers, account : Accounts \union {NoAccount},
                                     mark : {"none", "created", "replaced"}]
    /\ items \in [Keys -> {"absent", "ours", "theirs"}]
    /\ errand.pc \in {"idle", "store", "record", "forget", "release"}
    /\ volumes \in [Links -> [fsid : 0..MaxFsid, by : {"nobody", "person", "smbpal"}]]
    /\ ledger \union ledgerFile \subseteq [fsid : 1..MaxFsid, link : Links]

\* Handlers._connection_remove: an item that a connection still mounts with is
\* not deleted with another one.
UsedItemStays ==
    [][\A k \in Keys : (items[k] # "absent" /\ items'[k] = "absent") => Sharing(book, k) = {}]_belongings

\* What SMBPal created it removes: an item of ours is the item of a connection
\* that knows so, unless a record was moved off its item or a call was lost.
OursIsKnown ==
    (errand = AtRest /\ ~moved) =>
        \A k \in Keys : items[k] = "ours" => \E c \in Sharing(book, k) : book[c].mark = "created"

\* agent.release: a mount that the person made is never unmounted, for as long
\* as a filesystem id means one mount.
OnlyOursIsReleased ==
    [][(errand.pc = "release" /\ errand' = AtRest /\ volumes' # volumes /\ boots = 0) =>
          volumes[errand.link].by = "smbpal"]_belongings
=============================================================================
