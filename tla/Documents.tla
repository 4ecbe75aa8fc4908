----------------------------- MODULE Documents -----------------------------
(***************************************************************************)
(* The config file as a document: what the operations of                   *)
(* config/operations.py make of it, what config/schema.py accepts, and the *)
(* load and save of config/store.py around every request.  A name, an id   *)
(* and a path are sequences of words, since a derived one is made by       *)
(* adding words to another.  One handler runs at a time: Commit has two.   *)
(***************************************************************************)
EXTENDS Naturals, SequencesExt

CONSTANTS
    Hosts,          \* one word each
    Titles,         \* names of shares
    GivenIds,       \* ids that somebody may choose
    Small,          \* word -> the word without its capitals
    Numbers,        \* what is added to a name that is taken, in this order
    Reserved,       \* names that Samba keeps for itself
    Root,           \* the path that derived mountpoints lie below
    Places,         \* other paths that somebody may give, by what they spell
    BusyPaths,      \* paths that may be mounted on already
    MaxRequests,    \* bound: requests
    MaxRecords,     \* bound: records of a kind
    MaxByHand       \* bound: edits of the file by hand

ASSUME DocumentsBounds == {MaxRequests, MaxRecords, MaxByHand} \subseteq Nat
\* Names are made of words.
ASSUME DocumentsWords ==
    /\ Small \in [DOMAIN Small -> DOMAIN Small] /\ Hosts \union {"on"} \subseteq DOMAIN Small
    /\ Titles \union {Root} \subseteq Seq(DOMAIN Small)
\* default_mountpoint counts on, and make_id to 999: more than there are records.
ASSUME EnoughNumbers ==
    /\ Numbers \in Seq(DOMAIN Small) /\ \A i, j \in DOMAIN Numbers : Numbers[i] = Numbers[j] => i = j
    /\ IsFiniteSet(BusyPaths) /\ Len(Numbers) >= 2 * MaxRecords + Cardinality(BusyPaths)

VARIABLES
    file,           \* the document on disk
    said,           \* what the last request was answered
    query,          \* and what it was
    tampered,       \* history: the file was edited, or two addresses were swapped
    requests, byHand

documents == <<file, said, query, tampered, requests, byHand>>

NoFallback  == "no fallback"
Nothing     == <<>>
EmptyConfig == [shares |-> <<>>, connections |-> <<>>]
NoQuery   == [what |-> "none"]

DocumentsInit ==
    /\ file = EmptyConfig /\ said = "nothing" /\ query = NoQuery
    /\ tampered = FALSE /\ requests = 0 /\ byHand = 0

-----------------------------------------------------------------------------
(***************************************************************************)
(* Names.                                                                  *)
(***************************************************************************)
Lower(words) == [i \in DOMAIN words |-> Small[words[i]]]

\* The words, or the words and the first number that is free.
FirstFree(words, taken) ==
    IF words \notin taken THEN words
    ELSE Append(words, Numbers[Min({k \in DOMAIN Numbers : Append(words, Numbers[k]) \notin taken})])

MakeId(words, taken) == FirstFree(Lower(words), taken)

AllIds(doc) == {r.id : r \in ToSet(doc.shares \o doc.connections)}

\* (bug) What is mounted already is no reason to go elsewhere by host.
MountpointByShare(share, host, taken) == Root \o share
\* default_mountpoint: the share, the share "on" its host, and then a number.
DefaultMountpoint(share, host, taken) ==
    IF Root \o share \notin taken THEN Root \o share
    ELSE FirstFree(Root \o share \o <<"on", host>>, taken)

-----------------------------------------------------------------------------
(***************************************************************************)
(* schema.validate.                                                        *)
(***************************************************************************)
Distinct(values) == \A i, j \in DOMAIN values : values[i] = values[j] => i = j

\* _check_id_unique: one namespace for both kinds.
IdsDiffer(doc) == LET all == doc.shares \o doc.connections IN Distinct([i \in DOMAIN all |-> all[i].id])

\* _check_unique_share_names.
ServedNamesDiffer(doc) == Distinct([i \in DOMAIN doc.shares |-> Lower(doc.shares[i].name)])

\* _check_share_name: only a share that SMBPal serves may not be Samba's.
NamesAllowed(doc) == \A s \in ToSet(doc.shares) : Lower(s.name) \notin Reserved

\* A mountpoint need not be another's: validation does not compare them.
Valid(doc) == IdsDiffer(doc) /\ ServedNamesDiffer(doc) /\ NamesAllowed(doc)

-----------------------------------------------------------------------------
(***************************************************************************)
(* The operations.  Each is given the document that was loaded, and ends   *)
(* with an answer; what it changed is saved when it is valid.              *)
(***************************************************************************)
Answered(r, answer, doc) ==
    /\ requests < MaxRequests /\ requests' = requests + 1 /\ query' = r
    \* ConfigStore.load and save
    /\ said' = IF ~Valid(file) THEN "unreadable" ELSE IF answer = "ok" /\ ~Valid(doc) THEN "invalid" ELSE answer
    /\ file' = IF said' = "ok" THEN doc ELSE file

AddShare(name, id) ==
    LET doc == [file EXCEPT !.shares = Append(@, [id |-> IF id = Nothing THEN MakeId(name, AllIds(file)) ELSE id,
                                                  name |-> name])]
        taken == \/ \E s \in ToSet(file.shares) : Lower(s.name) = Lower(name)
                 \/ id \in AllIds(file) IN
    /\ Len(file.shares) < MaxRecords
    /\ Answered([what |-> "add share", name |-> name, id |-> id], IF taken THEN "exists" ELSE "ok", doc)
    /\ UNCHANGED <<tampered, byHand>>

\* (bug) A repeat is looked for by the mountpoint alone.
RepeatsByMountpoint(doc, host, share) == FALSE
\* Same host and share, however they are spelt.
Repeats(doc, host, share) ==
    \E c \in ToSet(doc.connections) : Small[c.host] = Small[host] /\ Lower(c.share) = Lower(share)

\* The daemon adds the paths that it sees something mounted on.
AddConnection(host, share, place, fallback, inUse) ==
    LET paths == {c.mountpoint : c \in ToSet(file.connections)}
        mountpoint == IF place = Nothing THEN DefaultMountpoint(share, host, paths \union inUse) ELSE place
        doc == [file EXCEPT !.connections = Append(@,
                   [id |-> MakeId(<<host>> \o share, AllIds(file)), host |-> host, share |-> share,
                    mountpoint |-> mountpoint, fallback |-> fallback])]
        taken == Repeats(file, host, share) \/ mountpoint \in paths IN
    /\ Len(file.connections) < MaxRecords
    /\ Answered([what |-> "add connection", host |-> host, share |-> share, place |-> place, inUse |-> inUse],
              IF taken THEN "exists" ELSE "ok", doc)
    /\ UNCHANGED <<tampered, byHand>>

\* What people call a record.
Human(r) == IF "mountpoint" \in DOMAIN r THEN r.mountpoint ELSE r.name

\* _find: an id first, then what people call a record.
Find(records, ref) ==
    LET byName == {i \in DOMAIN records : Lower(Human(records[i])) = Lower(ref)}
        byId == {i \in DOMAIN records : records[i].id = ref} IN
    IF byId # {} THEN Min(byId) ELSE IF byName # {} THEN Min(byName) ELSE 0

\* remove_share and remove_connection.
RemoveRecord(kind, ref) ==
    LET found == Find(file[kind], ref) IN
    /\ Answered([what |-> "remove", kind |-> kind, ref |-> ref], IF found = 0 THEN "not found" ELSE "ok",
              IF found = 0 THEN file ELSE [file EXCEPT ![kind] = RemoveAt(@, found)])
    /\ UNCHANGED <<tampered, byHand>>

\* connection.use_fallback: a swap, "so the same command undoes it".
UseFallback(ref) ==
    LET found == Find(file.connections, ref)
        old == file.connections[found]
        new == [old EXCEPT !.host = old.fallback, !.fallback = old.host]
        answer == IF found = 0 THEN "not found" ELSE IF old.fallback = NoFallback THEN "invalid" ELSE "ok" IN
    /\ Answered([what |-> "use fallback", ref |-> ref], answer,
              IF answer = "ok" THEN [file EXCEPT !.connections[found] = new] ELSE file)
    /\ tampered' = (tampered \/ said' = "ok") /\ UNCHANGED byHand

-----------------------------------------------------------------------------
\* Somebody with an editor: a value of one record is copied to another.
EditByHand(kind, field, i, j) ==
    /\ byHand < MaxByHand /\ byHand' = byHand + 1 /\ tampered' = TRUE
    /\ {i, j} \subseteq DOMAIN file[kind] /\ field \in DOMAIN file[kind][i]
    /\ file' = [file EXCEPT ![kind][i][field] = file[kind][j][field]]
    /\ said' = "nothing" /\ query' = NoQuery /\ UNCHANGED requests

Kinds == {"shares", "connections"}
Refs  == {r.id : r \in ToSet(file.shares \o file.connections)}
             \union {Human(r) : r \in ToSet(file.shares \o file.connections)} \union Titles

DocumentsNext ==
    \/ \E name \in Titles, id \in {Nothing} \union GivenIds : AddShare(name, id)
    \/ \E host \in Hosts, share \in Titles, place \in {Nothing} \union Places,
          fallback \in Hosts \union {NoFallback}, inUse \in SUBSET BusyPaths :
             fallback # host /\ AddConnection(host, share, place, fallback, inUse)
    \/ \E kind \in Kinds, ref \in Refs : RemoveRecord(kind, ref)
    \/ \E ref \in Refs : UseFallback(ref)
    \/ \E kind \in Kinds, field \in {"id", "mountpoint", "host", "name"}, i, j \in 1..MaxRecords :
          EditByHand(kind, field, i, j)

DocumentsSpec == DocumentsInit /\ [][DocumentsNext]_documents

-----------------------------------------------------------------------------
\* Every variable holds what the code can put in it.
DocumentsTypeOK ==
    /\ \A s \in ToSet(file.shares) : s.name \in Titles
    /\ \A c \in ToSet(file.connections) : c.host \in Hosts /\ c.share \in Titles
    /\ said \in {"nothing", "ok", "exists", "not found", "invalid", "unreadable"}

\* add_connection: two connections race each other when they are to one share
\* or on one mountpoint, and no sequence of requests leaves two such, unless
\* the file was edited or two addresses changed places.
OneShareOnePlace ==
    ~tampered =>
        \A i, j \in DOMAIN file.connections :
            LET c == file.connections[i]  d == file.connections[j] IN
            i # j => /\ c.mountpoint # d.mountpoint
                     /\ <<Small[c.host], Lower(c.share)>> # <<Small[d.host], Lower(d.share)>>

\* default_mountpoint and make_id: what the daemon derives is free, so of what
\* was left to it nothing is refused but a share of a host that is there.
OnlyRepeatsAreRefused ==
    (query.what = "add connection" /\ query.place = Nothing /\ said # "unreadable") =>
        /\ said \in {"ok", "exists"}
        /\ said = "exists" => Repeats(file, query.host, query.share)
        /\ said = "ok" => Last(file.connections).mountpoint \notin query.inUse

=============================================================================
