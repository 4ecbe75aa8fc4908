---------------------------- MODULE BelongingsProofs ----------------------------
(***************************************************************************)
(* Theorems about Belongings, for any connections, servers, accounts and   *)
(* every bound: an item in use is not deleted, what SMBPal created it      *)
(* knows of, and a mount the person made is not unmounted.                 *)
(***************************************************************************)
EXTENDS Belongings, TLAPS

-----------------------------------------------------------------------------
(***************************************************************************)
(* The inductive invariant.                                                *)
(***************************************************************************)
Marks     == {"none", "created", "replaced"}
Records   == [there : BOOLEAN, host : Servers, account : Accounts \union {NoAccount}, mark : Marks]
Docs      == [Links -> Records]
Storing   == [pc : {"store", "record"}, link : Links, doc : Docs, host : Servers,
              account : Accounts, mark : Marks]
Removing  == [pc : {"forget", "release"}, link : Links, host : Servers,
              account : Accounts \union {NoAccount}]
Volumes   == [fsid : 0..MaxFsid, by : {"nobody", "person", "smbpal"}]
Entries   == [fsid : 1..MaxFsid, link : Links]

ErrandKey == <<errand.host, errand.account>>

StoreTypes ==
    /\ book \in Docs /\ items \in [Keys -> {"absent", "ours", "theirs"}]
    /\ errand \in {AtRest} \union Storing \union Removing
    /\ errand.pc = "forget" => errand.account \in Accounts
    /\ moved \in BOOLEAN
MountTypes ==
    /\ volumes \in [Links -> Volumes] /\ nextFsid \in 1..(MaxFsid + 1)
    /\ ledger \subseteq Entries /\ ledgerFile \subseteq Entries /\ boots \in Nat

\* A connection that uses an item knows that SMBPal created it.
Told(doc, k) == \E c \in Links : c \in Sharing(doc, k) /\ doc[c].mark = "created"

\* A request works on the config as it read it, and knows what it says of its item.
ErrandInv ==
    /\ errand.pc \in {"store", "record"} =>
          /\ errand.doc = book
          /\ book[errand.link].there => book[errand.link].host = errand.host
    /\ errand.pc = "record" /\ Told(book, ErrandKey) => errand.mark = "created"
    /\ errand.pc = "forget" => Sharing(book, ErrandKey) = {}

\* An item of ours is known of, or is the one that a request is about to record
\* or to delete.
KnownInv ==
    ~moved => \A k \in Keys : items[k] = "ours" =>
        \/ Told(book, k)
        \/ errand.pc = "record" /\ k = ErrandKey /\ errand.mark = "created"
        \/ errand.pc = "forget" /\ k = ErrandKey

\* Until the next boot a filesystem id stands for one mount, and the ledger has
\* the ids of mounts of ours alone.
LedgerInv ==
    boots = 0 =>
        /\ \A c \in Links : volumes[c].fsid < nextFsid
        /\ \A e \in ledger \union ledgerFile : e.fsid < nextFsid
        /\ \A e \in ledger \union ledgerFile, c \in Links :
              volumes[c].fsid = e.fsid => volumes[c].by = "smbpal"

StoreInv == StoreTypes /\ ErrandInv /\ KnownInv
BelongingsInv == StoreInv /\ MountTypes /\ LedgerInv

-----------------------------------------------------------------------------
(***************************************************************************)
(* Records and errands.                                                    *)
(***************************************************************************)
\* What a request is, by where it is.
LEMMA ErrandIs ==
    ASSUME StoreTypes
    PROVE  /\ AtRest.pc = "idle"
           /\ errand.pc \in {"store", "record"} => errand \in Storing
           /\ errand.pc \in {"forget", "release"} => errand \in Removing
           /\ errand = AtRest <=> errand.pc = "idle"
  BY DEF StoreTypes, AtRest, Storing, Removing

\* The record that is not there is a record that mounts with no item.
LEMMA UnlistedIs == Unlisted \in Records /\ ~Unlisted.there
<1>1. (CHOOSE s \in Servers : TRUE) \in Servers
  BY ServersExist
<1> QED
  BY <1>1 DEF Unlisted, Records, Marks

\* Which item a connection uses depends on its record alone.
LEMMA SharingIs ==
    ASSUME NEW doc, NEW k, NEW c \in Links
    PROVE  c \in Sharing(doc, k) <=> doc[c].there /\ doc[c].account # NoAccount /\ Key(doc[c]) = k
  BY DEF Sharing

\* A record that is marked keeps everything else.
Marked(r) == [r EXCEPT !.mark = "created"]
LEMMA MarkedIs ==
    ASSUME NEW r \in Records
    PROVE  /\ Marked(r) \in Records /\ Marked(r).mark = "created" /\ Marked(r).there = r.there
           /\ Marked(r).host = r.host /\ Marked(r).account = r.account
  BY DEF Marked, Records, Marks

\* A request whose item has been stored.
Stored(e, m) == [e EXCEPT !.pc = "record", !.mark = m]
LEMMA StoredIs ==
    ASSUME NEW e \in Storing, NEW m \in Marks
    PROVE  LET n == Stored(e, m) IN
           /\ n \in Storing /\ n.pc = "record" /\ n.mark = m /\ n.doc = e.doc
           /\ n.link = e.link /\ n.host = e.host /\ n.account = e.account
<1> DEFINE r == [e EXCEPT !.pc = "record"]
<1>1. /\ r \in Storing /\ r.pc = "record" /\ r.doc = e.doc
      /\ r.link = e.link /\ r.host = e.host /\ r.account = e.account
  BY DEF Storing
<1>2. Stored(e, m) = [r EXCEPT !.mark = m]
  BY DEF Stored
<1> HIDE DEF r
<1> QED
  BY <1>1, <1>2 DEF Storing

\* The config without a connection: the others use what they used, and are told of
\* the item if the one that goes was the only one to know.
LEMMA WithoutIs ==
    ASSUME book \in Docs, NEW c \in Links, book[c].there
    PROVE  /\ Without(c) \in Docs
           /\ \A k \in Keys : Sharing(Without(c), k) = Sharing(book, k) \ {c}
           /\ \A d \in Links : d # c /\ book[d].mark = "created" => Without(c)[d].mark = "created"
           /\ \A d \in Links : d # c /\ d \in Sharing(book, Key(book[c])) /\ book[c].mark = "created"
                => Without(c)[d].mark = "created"
<1> DEFINE w == Without(c)
<1>1. \A d \in Links : /\ d = c => w[d] = Unlisted
                       /\ d # c => w[d] = book[d] \/ w[d] = Marked(book[d])
                       /\ d # c /\ d \in Sharing(book, Key(book[c])) /\ book[c].mark = "created"
                            => w[d] = Marked(book[d])
  BY DEF Without, Marked
<1>2. w = [d \in Links |-> w[d]]
  BY DEF Without
<1> HIDE DEF w
<1>3. \A d \in Links : book[d] \in Records
  BY DEF Docs
<1>4. \A d \in Links : /\ w[d] \in Records
                       /\ d # c => /\ w[d].there = book[d].there /\ w[d].host = book[d].host
                                   /\ w[d].account = book[d].account
                                   /\ book[d].mark = "created" => w[d].mark = "created"
  <2> SUFFICES ASSUME NEW d \in Links
               PROVE  /\ w[d] \in Records
                      /\ d # c => /\ w[d].there = book[d].there /\ w[d].host = book[d].host
                                  /\ w[d].account = book[d].account
                                  /\ book[d].mark = "created" => w[d].mark = "created"
    OBVIOUS
  <2> DEFINE m == Marked(book[d])
  <2>1. /\ m \in Records /\ m.mark = "created" /\ m.there = book[d].there
        /\ m.host = book[d].host /\ m.account = book[d].account
    BY <1>3, MarkedIs
  <2>2. /\ d = c => w[d] = Unlisted
        /\ d # c => w[d] = book[d] \/ w[d] = m
    BY <1>1
  <2> HIDE DEF m
  <2> QED
    BY <1>3, <2>1, <2>2, UnlistedIs
<1>5. w \in Docs
  BY <1>2, <1>4 DEF Docs
<1>6. ~w[c].there
  BY <1>1, UnlistedIs
<1>7. \A k \in Keys : Sharing(w, k) = Sharing(book, k) \ {c}
  BY <1>4, <1>6 DEF Sharing, Key
<1>8. \A d \in Links : d # c /\ d \in Sharing(book, Key(book[c])) /\ book[c].mark = "created"
        => w[d].mark = "created"
  BY <1>1, <1>3, MarkedIs
<1>9. \A d \in Links : d # c /\ book[d].mark = "created" => w[d].mark = "created"
  BY <1>4
<1> HIDE DEF Sharing
<1> QED
  BY <1>5, <1>7, <1>8, <1>9 DEF w

-----------------------------------------------------------------------------
(***************************************************************************)
(* Whose item it is.                                                       *)
(***************************************************************************)
\* The steps that leave config, items and errand alone.
LEMMA StoreRests ==
    ASSUME StoreInv, UNCHANGED <<store, errand, moved>>
    PROVE  StoreInv'
  BY DEF StoreInv, StoreTypes, ErrandInv, KnownInv, Told, Sharing, ErrandKey, store

\* A request that ends leaves nothing to be recorded or deleted, or says so.
LEMMA ErrandEnds ==
    ASSUME StoreInv, errand' = AtRest, UNCHANGED store, moved' \in BOOLEAN,
           moved' \/ (~moved /\ errand.pc \notin {"record", "forget"})
    PROVE  StoreInv'
<1>1. AtRest.pc = "idle" /\ errand'.pc = "idle"
  BY DEF AtRest
<1>2. StoreTypes' /\ ErrandInv'
  BY <1>1 DEF StoreInv, StoreTypes, ErrandInv, store
<1>3. KnownInv'
  BY DEF StoreInv, KnownInv, Told, store
<1> QED
  BY <1>2, <1>3 DEF StoreInv

\* Storing a password is asked for.
LEMMA AskToStoreKeeps ==
    ASSUME StoreInv, NEW c \in Links, NEW s \in Servers, NEW a \in Accounts, AskToStore(c, s, a)
    PROVE  StoreInv'
<1> DEFINE e == [pc |-> "store", link |-> c, doc |-> book, host |-> s, account |-> a, mark |-> "none"]
<1>1. errand' = e /\ UNCHANGED <<store, moved>> /\ errand = AtRest
      /\ (book[c].there => s = book[c].host)
  BY DEF AskToStore, Asked
<1>2. e \in Storing /\ e.pc = "store" /\ e.doc = book /\ e.link = c /\ e.host = s
  BY DEF StoreInv, StoreTypes, Storing, Marks
<1> HIDE DEF e
<1>3. AtRest.pc = "idle"
  BY DEF AtRest
<1>4. StoreTypes'
  BY <1>1, <1>2 DEF StoreInv, StoreTypes, store
<1>5. ErrandInv'
  BY <1>1, <1>2 DEF ErrandInv, store
<1>6. KnownInv'
  BY <1>1, <1>3 DEF StoreInv, KnownInv, Told, Sharing, store
<1> QED
  BY <1>4, <1>5, <1>6 DEF StoreInv

\* The item is stored.
LEMMA StoreItemKeeps == ASSUME StoreInv, StoreItem PROVE StoreInv'
<1>0. /\ errand \in Storing /\ errand.pc = "store" /\ ErrandKey \in Keys /\ errand.doc = book
      /\ book[errand.link].there => book[errand.link].host = errand.host
  BY ErrandIs DEF StoreInv, StoreItem, ErrandInv, Storing, Keys, ErrandKey
<1>1. PICK k \in Keys : k = ErrandKey
  BY <1>0
<1> DEFINE outcome == IF items[k] = "absent" THEN "created" ELSE "replaced"
<1>2. PICK m : m = Mark(book, k, outcome)
  OBVIOUS
<1>3. m \in Marks /\ (m = "created" <=> items[k] = "absent" \/ Told(book, k))
  <2>1. (\E c \in Sharing(book, k) : book[c].mark = "created") <=> Told(book, k)
    BY DEF Told, Sharing
  <2>2. outcome \in {"created", "replaced"} /\ (outcome = "created" <=> items[k] = "absent")
    OBVIOUS
  <2> HIDE DEF outcome
  <2> QED
    BY <1>2, <2>1, <2>2 DEF Mark, Marks
<1>4. PICK n : n = Stored(errand, m)
  OBVIOUS
<1>5. /\ errand' = n /\ UNCHANGED <<book, moved>>
      /\ items' = [items EXCEPT ![k] = IF @ = "absent" THEN "ours" ELSE @]
  BY <1>0, <1>1, <1>2, <1>4 DEF StoreItem, ErrandKey, Stored
<1>6. /\ n \in Storing /\ n.pc = "record" /\ n.mark = m /\ n.doc = book
      /\ n.link = errand.link /\ n.host = errand.host /\ n.account = errand.account
  <2>1. errand \in Storing /\ m \in Marks
    BY <1>0, <1>3
  <2> QED
    BY <1>0, <1>4, <2>1, StoredIs
<1>7. ErrandKey' = k
  BY <1>1, <1>5, <1>6 DEF ErrandKey
<1> HIDE DEF outcome
<1>8. StoreTypes'
  BY <1>0, <1>5, <1>6 DEF StoreInv, StoreTypes
<1>9. ErrandInv'
  <2>1. errand'.pc = "record" /\ errand'.doc = book' /\ errand'.mark = m
        /\ (book'[errand'.link].there => book'[errand'.link].host = errand'.host)
    BY <1>0, <1>5, <1>6
  <2>2. Told(book', ErrandKey') => m = "created"
    BY <1>3, <1>5, <1>7
  <2> QED
    BY <2>1, <2>2 DEF ErrandInv
<1>10. KnownInv'
  <2> SUFFICES ASSUME ~moved, NEW q \in Keys, items'[q] = "ours"
               PROVE  Told(book, q) \/ (q = k /\ m = "created")
    BY <1>5, <1>6, <1>7 DEF KnownInv, Told
  <2>1. \A p \in Keys : items[p] = "ours" => Told(book, p)
    BY <1>0 DEF StoreInv, KnownInv
  <2>2. CASE q # k
    BY <1>5, <2>1, <2>2 DEF StoreInv, StoreTypes
  <2>3. CASE q = k
    <3>1. items[k] = "absent" \/ items[k] = "ours"
      BY <1>5, <2>3 DEF StoreInv, StoreTypes
    <3> QED
      BY <1>3, <2>1, <2>3, <3>1
  <2> QED
    BY <2>2, <2>3
<1> QED
  BY <1>8, <1>9, <1>10 DEF StoreInv

\* The record is written.
LEMMA RecordItemKeeps == ASSUME StoreInv, RecordItem PROVE StoreInv'
<1> DEFINE c == errand.link
           r == [there |-> TRUE, host |-> errand.host, account |-> errand.account,
                 mark |-> errand.mark]
<1>0. /\ errand \in Storing /\ errand.pc = "record" /\ errand.doc = book
      /\ book[c].there => book[c].host = errand.host
      /\ Told(book, ErrandKey) => errand.mark = "created"
  BY ErrandIs DEF StoreInv, RecordItem, ErrandInv
<1>1. /\ c \in Links /\ r \in Records /\ r.there /\ r.host = errand.host /\ r.mark = errand.mark
      /\ r.account = errand.account /\ r.account # NoAccount
  BY <1>0, NoAccountIsNone DEF Storing, Records
<1>2. /\ book' = [book EXCEPT ![c] = r] /\ errand' = AtRest /\ UNCHANGED items
      /\ moved' = (moved \/ (book[c].account \notin {NoAccount, errand.account}))
  BY <1>0 DEF RecordItem
<1>3. PICK link \in Links : link = c
  BY <1>1
<1>4. PICK k : k = ErrandKey
  OBVIOUS
<1>5. Key(r) = k
  BY <1>1, <1>4 DEF Key, ErrandKey
<1> HIDE DEF c, r
<1>6. /\ book'[link] = r /\ \A d \in Links : d # link => book'[d] = book[d]
      /\ book' \in Docs
  BY <1>1, <1>2, <1>3 DEF StoreInv, StoreTypes, Docs
<1>7. errand'.pc = "idle"
  BY <1>2 DEF AtRest
<1>8. StoreTypes' /\ ErrandInv'
  BY <1>2, <1>6, <1>7 DEF StoreInv, StoreTypes, ErrandInv
<1>9. KnownInv'
  <2> SUFFICES ASSUME ~moved', NEW q \in Keys, items[q] = "ours"
               PROVE  Told(book', q)
    BY <1>2 DEF KnownInv
  <2>1. ~moved /\ book[c].account \in {NoAccount, errand.account}
    BY <1>2 DEF StoreInv, StoreTypes
  <2>2. link \in Sharing(book', k)
    BY <1>1, <1>5, <1>6 DEF Sharing
  <2>3. Told(book, q) \/ (q = k /\ errand.mark = "created")
    BY <1>0, <1>4, <2>1 DEF StoreInv, KnownInv
  <2>4. CASE q = k
    <3>1. errand.mark = "created"
      BY <1>0, <1>4, <2>3, <2>4
    <3> QED
      BY <1>1, <1>6, <2>2, <2>4, <3>1 DEF Told
  <2>5. CASE q # k
    <3>1. PICK d \in Links : d \in Sharing(book, q) /\ book[d].mark = "created"
      BY <2>3, <2>5 DEF Told
    <3>2. d # link
      <4>1. ASSUME d = link PROVE q = k
        <5>1. book[c].there /\ book[c].account # NoAccount /\ Key(book[c]) = q
          BY <1>3, <3>1, <4>1 DEF Sharing
        <5>2. book[c].host = errand.host /\ book[c].account = errand.account
          BY <1>0, <2>1, <5>1
        <5> QED
          BY <1>4, <5>1, <5>2 DEF Key, ErrandKey
      <4> QED
        BY <2>5, <4>1
    <3>3. d \in Sharing(book', q) /\ book'[d].mark = "created"
      BY <1>6, <3>1, <3>2 DEF Sharing
    <3> QED
      BY <3>3 DEF Told
  <2> QED
    BY <2>4, <2>5
<1> QED
  BY <1>8, <1>9 DEF StoreInv

\* The two addresses of a connection change places.
LEMMA SwapKeeps ==
    ASSUME StoreInv, NEW c \in Links, NEW s \in Servers, Swap(c, s)
    PROVE  StoreInv'
<1> DEFINE r == [book[c] EXCEPT !.host = s]
<1>1. errand = AtRest /\ UNCHANGED <<errand, items>> /\ book' = [book EXCEPT ![c] = r] /\ moved' = TRUE
  BY DEF Swap, Asked
<1>2. r \in Records
  BY DEF StoreInv, StoreTypes, Docs, Records
<1> HIDE DEF r
<1>3. book' \in Docs /\ errand'.pc = "idle"
  BY <1>1, <1>2 DEF StoreInv, StoreTypes, Docs, AtRest
<1> QED
  BY <1>1, <1>3 DEF StoreInv, StoreTypes, ErrandInv, KnownInv

\* A connection is removed: whoever else uses its item is told, and the last one
\* takes the item with it.
LEMMA AskToRemoveKeeps ==
    ASSUME StoreInv, NEW c \in Links, AskToRemove(c)
    PROVE  StoreInv'
<1> DEFINE forgets == book[c].account # NoAccount /\ LastUser(c)
           e == [pc |-> IF forgets THEN "forget" ELSE "release", link |-> c,
                 host |-> book[c].host, account |-> book[c].account]
<1>0. /\ errand.pc = "idle" /\ book[c].there /\ book' = Without(c) /\ errand' = e
      /\ UNCHANGED <<items, moved>> /\ book \in Docs /\ book[c] \in Records
  BY DEF AskToRemove, Asked, AtRest, StoreInv, StoreTypes, Docs
<1>1. /\ e \in Removing /\ e.host = book[c].host /\ e.account = book[c].account
      /\ e.pc = "forget" <=> forgets
      /\ e.pc # "store" /\ e.pc # "record" /\ <<e.host, e.account>> = Key(book[c])
  BY <1>0 DEF Removing, Records, Key
<1> HIDE DEF e
<1>2. PICK k : k = Key(book[c]) /\ k = ErrandKey'
  BY <1>0, <1>1 DEF ErrandKey
<1>3. forgets => /\ k \in Keys /\ book[c].account \in Accounts
                 /\ Sharing(book, k) \subseteq {c} /\ book[c].mark = "created"
  BY <1>0, <1>2 DEF LastUser, Keys, Key, Records
<1>4. ~forgets /\ book[c].account # NoAccount /\ book[c].mark = "created" =>
        \E d \in Sharing(book, k) : d # c
  BY <1>2 DEF LastUser
<1> HIDE DEF forgets
<1>5. StoreTypes'
  BY <1>0, <1>1, <1>3, WithoutIs DEF StoreInv, StoreTypes
<1>6. ErrandInv'
  <2>1. forgets => Sharing(book', k) = {}
    BY <1>0, <1>3, WithoutIs
  <2> QED
    BY <1>0, <1>1, <1>2, <2>1 DEF ErrandInv
<1>7. KnownInv'
  <2> SUFFICES ASSUME ~moved, NEW q \in Keys, items[q] = "ours"
               PROVE  Told(book', q) \/ (forgets /\ q = k)
    BY <1>0, <1>1, <1>2 DEF KnownInv
  <2>1. PICK d \in Links : d \in Sharing(book, q) /\ book[d].mark = "created"
    BY <1>0 DEF StoreInv, KnownInv, Told
  <2>2. CASE d # c
    <3>1. d \in Sharing(book', q) /\ book'[d].mark = "created"
      BY <1>0, <2>1, <2>2, WithoutIs
    <3> QED
      BY <3>1 DEF Told
  <2>3. CASE d = c /\ ~forgets
    <3>1. q = k /\ book[c].account # NoAccount /\ book[c].mark = "created"
      BY <1>2, <2>1, <2>3 DEF Sharing
    <3>2. PICK g \in Sharing(book, k) : g # c
      BY <1>4, <2>3, <3>1
    <3>3. g \in Links
      BY <3>2 DEF Sharing
    <3>4. g \in Sharing(book', q) /\ book'[g].mark = "created"
      BY <1>0, <1>2, <3>1, <3>2, <3>3, WithoutIs
    <3> QED
      BY <3>3, <3>4 DEF Told
  <2>4. CASE d = c /\ forgets
    BY <1>2, <2>1, <2>4 DEF Sharing
  <2> QED
    BY <2>2, <2>3, <2>4
<1> QED
  BY <1>5, <1>6, <1>7 DEF StoreInv

\* The item of the connection that went is deleted.
LEMMA ForgetItemKeeps == ASSUME StoreInv, ForgetItem PROVE StoreInv'
<1> DEFINE e == [errand EXCEPT !.pc = "release"]
<1>0. errand \in Removing /\ errand.pc = "forget" /\ errand.account \in Accounts
      /\ ErrandKey \in Keys
  BY ErrandIs DEF StoreInv, ForgetItem, StoreTypes, Removing, Keys, ErrandKey
<1>1. /\ errand' = e /\ UNCHANGED <<book, moved>>
      /\ items' = [items EXCEPT ![ErrandKey] = "absent"]
  BY DEF ForgetItem, Goes, ErrandKey
<1>2. e \in Removing /\ e.pc = "release"
  BY <1>0 DEF Removing
<1> HIDE DEF e
<1>3. StoreTypes' /\ ErrandInv'
  BY <1>0, <1>1, <1>2 DEF StoreInv, StoreTypes, ErrandInv
<1>4. KnownInv'
  <2> SUFFICES ASSUME ~moved, NEW q \in Keys, items'[q] = "ours"
               PROVE  Told(book, q)
    BY <1>1 DEF KnownInv, Told
  <2>1. q # ErrandKey /\ items[q] = "ours"
    BY <1>0, <1>1 DEF StoreInv, StoreTypes
  <2> QED
    BY <1>0, <2>1 DEF StoreInv, KnownInv
<1> QED
  BY <1>3, <1>4 DEF StoreInv

\* The person's Finder keeps a password.
LEMMA FinderStoresKeeps ==
    ASSUME StoreInv, NEW k \in Keys, FinderStores(k)
    PROVE  StoreInv'
<1>1. UNCHANGED <<book, errand, moved>> /\ items' = [items EXCEPT ![k] = "theirs"]
  BY DEF FinderStores
<1>2. \A q \in Keys : items'[q] = "ours" => items[q] = "ours"
  BY <1>1 DEF StoreInv, StoreTypes
<1> QED
  BY <1>1, <1>2 DEF StoreInv, StoreTypes, ErrandInv, KnownInv, Told, Sharing, ErrandKey

\* Every step keeps what is known of the items.
LEMMA NextStore ==
    ASSUME StoreInv, [BelongingsNext]_belongings
    PROVE  StoreInv'
<1>1. CASE Release \/ NoAgent \/ DaemonDies
  <2>1. errand' = AtRest /\ UNCHANGED store /\ moved \in BOOLEAN
    BY <1>1 DEF Release, NoAgent, DaemonDies, StoreInv, StoreTypes
  <2>2. \/ moved'
        \/ ~moved /\ errand.pc \notin {"record", "forget"}
    BY <1>1, <2>1 DEF Release, NoAgent, DaemonDies
  <2>3. moved' \in BOOLEAN
    BY <1>1, <2>1 DEF Release, NoAgent, DaemonDies
  <2> QED
    BY <2>1, <2>2, <2>3, ErrandEnds
<1>2. CASE AgentRestarts \/ Reboots \/ UNCHANGED belongings
  BY <1>2, StoreRests DEF AgentRestarts, Reboots, belongings
<1>3. ASSUME NEW c \in Links, AgentMounts(c) \/ FinderMounts(c) \/ Ejects(c) PROVE StoreInv'
  BY <1>3, StoreRests DEF AgentMounts, FinderMounts, Ejects
<1> QED
  BY <1>1, <1>2, <1>3, AskToStoreKeeps, StoreItemKeeps, RecordItemKeeps, SwapKeeps,
     AskToRemoveKeeps, ForgetItemKeeps, FinderStoresKeeps DEF BelongingsNext

-----------------------------------------------------------------------------
(***************************************************************************)
(* Whose mount it is.                                                      *)
(***************************************************************************)
MountInv == MountTypes /\ LedgerInv

\* Where nothing is mounted there is no filesystem id.
LEMMA NoMountIs == NoMount \in Volumes /\ NoMount.fsid = 0 /\ MaxFsid \in Nat
  BY BelongingsBounds DEF NoMount, Volumes

\* The steps that leave the mounts and the ledger alone.
LEMMA MountsRest ==
    ASSUME MountInv, UNCHANGED <<agent, boots>>
    PROVE  MountInv'
  BY DEF MountInv, MountTypes, LedgerInv, agent

\* Written or not, the ledger and its file have no entry that is not an old one of
\* theirs or one of those that are saved.
LEMMA SaveLedgerIs ==
    ASSUME NEW entries, SaveLedger(entries)
    PROVE  ledger' \union ledgerFile' \subseteq entries \union ledger \union ledgerFile
  BY DEF SaveLedger

\* A mount that is gone takes nothing with it that the ledger says.
LEMMA MountGoes ==
    ASSUME MountInv, NEW c \in Links, volumes' = [volumes EXCEPT ![c] = NoMount],
           ledger' \union ledgerFile' \subseteq ledger \union ledgerFile,
           UNCHANGED <<nextFsid, boots>>
    PROVE  MountInv'
<1>1. /\ volumes' \in [Links -> Volumes] /\ volumes'[c].fsid = 0
      /\ \A d \in Links : d # c => volumes'[d] = volumes[d]
  BY NoMountIs DEF MountInv, MountTypes
<1>2. \A e \in ledger' \union ledgerFile' : e \in ledger \union ledgerFile /\ e.fsid \in 1..MaxFsid
  BY DEF MountInv, MountTypes, Entries
<1>3. MountTypes'
  BY <1>1 DEF MountInv, MountTypes
<1>4. LedgerInv'
  <2> SUFFICES ASSUME boots = 0
               PROVE  /\ \A d \in Links : volumes'[d].fsid < nextFsid
                      /\ \A e \in ledger' \union ledgerFile' : e.fsid < nextFsid
                      /\ \A e \in ledger' \union ledgerFile', d \in Links :
                            volumes'[d].fsid = e.fsid => volumes'[d].by = "smbpal"
    BY DEF LedgerInv
  <2>1. nextFsid \in Nat /\ 0 < nextFsid /\ MaxFsid \in Nat
    BY NoMountIs DEF MountInv, MountTypes
  <2>2. \A d \in Links : volumes'[d].fsid < nextFsid
    BY <1>1, <2>1 DEF MountInv, LedgerInv
  <2>3. \A e \in ledger' \union ledgerFile' : e.fsid < nextFsid
    BY <1>2 DEF MountInv, LedgerInv
  <2>4. ASSUME NEW e \in ledger' \union ledgerFile', NEW d \in Links, volumes'[d].fsid = e.fsid
        PROVE  volumes'[d].by = "smbpal"
    <3>1. d # c
      BY <1>1, <1>2, <2>1, <2>4
    <3> QED
      BY <1>1, <1>2, <2>4, <3>1 DEF MountInv, LedgerInv
  <2> QED
    BY <2>2, <2>3, <2>4
<1> QED
  BY <1>3, <1>4 DEF MountInv

\* A new mount has an id that no ledger has yet; the ledger gets it when it is ours.
LEMMA MountComes ==
    ASSUME MountInv, NEW c \in Links, NEW who \in {"person", "smbpal"}, Mounted(c, who),
           NEW made \in SUBSET Entries, \A e \in made : e.fsid = nextFsid,
           ledger' \union ledgerFile' \subseteq ledger \union ledgerFile \union made,
           who = "person" => made = {}, UNCHANGED boots
    PROVE  MountInv'
<1> DEFINE v == [fsid |-> nextFsid, by |-> who]
<1>0. nextFsid \in 1..MaxFsid /\ nextFsid' = nextFsid + 1 /\ nextFsid \in Nat /\ MaxFsid \in Nat
  BY NoMountIs DEF Mounted, MountInv, MountTypes
<1>1. v \in Volumes /\ v.fsid = nextFsid /\ v.by = who
  BY <1>0 DEF Volumes
<1>2. volumes' = [volumes EXCEPT ![c] = v]
  BY DEF Mounted
<1> HIDE DEF v
<1>3. /\ volumes' \in [Links -> Volumes] /\ volumes'[c] = v
      /\ \A d \in Links : d # c => volumes'[d] = volumes[d]
  BY <1>1, <1>2 DEF MountInv, MountTypes
<1>4. \A e \in ledger' \union ledgerFile' : e.fsid \in 1..MaxFsid
        /\ (e \in ledger \union ledgerFile \/ (e.fsid = nextFsid /\ who = "smbpal"))
  BY DEF MountInv, MountTypes, Entries
<1>5. \A d \in Links : volumes[d].fsid \in 0..MaxFsid
  BY DEF MountInv, MountTypes, Volumes
<1>6. MountTypes'
  BY <1>0, <1>3 DEF MountInv, MountTypes
<1>7. LedgerInv'
  <2> SUFFICES ASSUME boots = 0
               PROVE  /\ \A d \in Links : volumes'[d].fsid < nextFsid'
                      /\ \A e \in ledger' \union ledgerFile' : e.fsid < nextFsid'
                      /\ \A e \in ledger' \union ledgerFile', d \in Links :
                            volumes'[d].fsid = e.fsid => volumes'[d].by = "smbpal"
    BY DEF LedgerInv
  <2>1. \A e \in ledger \union ledgerFile : e.fsid < nextFsid
    BY DEF MountInv, LedgerInv
  <2>2. ASSUME NEW d \in Links PROVE volumes'[d].fsid < nextFsid'
    <3>1. CASE d = c
      BY <1>0, <1>1, <1>3, <3>1
    <3>2. CASE d # c
      <4>1. volumes[d].fsid < nextFsid
        BY DEF MountInv, LedgerInv
      <4> QED
        BY <1>0, <1>3, <1>5, <3>2, <4>1
    <3> QED
      BY <3>1, <3>2
  <2>3. ASSUME NEW e \in ledger' \union ledgerFile' PROVE e.fsid < nextFsid'
    <3>1. e.fsid < nextFsid \/ e.fsid = nextFsid
      BY <1>4, <2>1
    <3> QED
      BY <1>0, <1>4, <3>1
  <2>4. ASSUME NEW e \in ledger' \union ledgerFile', NEW d \in Links, volumes'[d].fsid = e.fsid
        PROVE  volumes'[d].by = "smbpal"
    <3>1. CASE e.fsid = nextFsid /\ who = "smbpal"
      <4>1. d = c
        <5> SUFFICES ASSUME d # c PROVE FALSE
          OBVIOUS
        <5>1. volumes[d].fsid < nextFsid /\ volumes[d].fsid = nextFsid
          BY <1>3, <2>4, <3>1 DEF MountInv, LedgerInv
        <5> QED
          BY <1>0, <5>1
      <4> QED
        BY <1>1, <1>3, <3>1, <4>1
    <3>2. CASE e \in ledger \union ledgerFile
      <4>1. d # c
        BY <1>0, <1>1, <1>3, <1>4, <2>1, <2>4, <3>2
      <4> QED
        BY <1>3, <2>4, <3>2, <4>1 DEF MountInv, LedgerInv
    <3> QED
      BY <1>4, <3>1, <3>2
  <2> QED
    BY <2>2, <2>3, <2>4
<1> QED
  BY <1>6, <1>7 DEF MountInv

\* Every step keeps what the ledger means.
LEMMA NextMount ==
    ASSUME BelongingsInv, [BelongingsNext]_belongings
    PROVE  MountInv'
<1>0. MountInv /\ StoreTypes
  BY DEF BelongingsInv, MountInv, StoreInv
<1>1. ASSUME NEW c \in Links, AgentMounts(c) PROVE MountInv'
  <2> DEFINE e == [fsid |-> nextFsid, link |-> c]
  <2>1. e \in Entries /\ e.fsid = nextFsid
    BY <1>0, <1>1, NoMountIs DEF AgentMounts, Mounted, MountInv, MountTypes, Entries
  <2>2. SaveLedger({d \in ledger : d.fsid \in Live} \union {e})
    BY <1>1 DEF AgentMounts
  <2> HIDE DEF e
  <2>3. ledger' \union ledgerFile' \subseteq ledger \union ledgerFile \union {e}
    BY <2>2, SaveLedgerIs
  <2>4. Mounted(c, "smbpal") /\ UNCHANGED boots
    BY <1>1 DEF AgentMounts
  <2>5. PICK made \in SUBSET Entries : made = {e}
    BY <2>1
  <2> QED
    BY <1>0, <2>1, <2>3, <2>4, <2>5, MountComes
<1>2. ASSUME NEW c \in Links, FinderMounts(c) PROVE MountInv'
  <2>1. Mounted(c, "person") /\ UNCHANGED <<boots, ledger, ledgerFile>>
    BY <1>2 DEF FinderMounts
  <2>2. PICK made \in SUBSET Entries : made = {}
    OBVIOUS
  <2> QED
    BY <1>0, <2>1, <2>2, MountComes
<1>3. ASSUME NEW c \in Links, Ejects(c) PROVE MountInv'
  BY <1>0, <1>3, MountGoes DEF Ejects
<1>4. CASE Release
  <2>1. errand.link \in Links
    BY <1>0, <1>4, ErrandIs DEF Release, Removing
  <2>2. PICK c \in Links : c = errand.link
    BY <2>1
  <2>3. CASE UNCHANGED <<volumes, ledger, ledgerFile, mishaps>>
    BY <1>0, <1>4, <2>3, MountsRest DEF Release, agent
  <2>4. CASE /\ volumes' = [volumes EXCEPT ![c] = NoMount]
             /\ SaveLedger({e \in ledger : e.fsid # volumes[c].fsid})
    <3>1. ledger' \union ledgerFile' \subseteq ledger \union ledgerFile
      BY <2>4, SaveLedgerIs
    <3> QED
      BY <1>0, <1>4, <2>4, <3>1, MountGoes DEF Release
  <2> QED
    BY <1>4, <2>2, <2>3, <2>4 DEF Release
<1>5. CASE AgentRestarts
  BY <1>0, <1>5 DEF AgentRestarts, MountInv, MountTypes, LedgerInv
<1>6. CASE Reboots
  <2>1. boots' # 0 /\ boots' \in Nat
    BY <1>0, <1>6 DEF Reboots, MountInv, MountTypes
  <2>2. MountTypes'
    BY <1>0, <1>6, <2>1, NoMountIs DEF Reboots, MountInv, MountTypes
  <2> QED
    BY <2>1, <2>2 DEF MountInv, LedgerInv
<1>7. CASE UNCHANGED <<agent, boots>>
  BY <1>0, <1>7, MountsRest
<1> QED
  BY <1>1, <1>2, <1>3, <1>4, <1>5, <1>6, <1>7
  DEF BelongingsNext, belongings, counts, AskToStore, Swap, AskToRemove, FinderStores, StoreItem, RecordItem,
      ForgetItem, NoAgent, DaemonDies

-----------------------------------------------------------------------------
(***************************************************************************)
(* The theorems.                                                           *)
(***************************************************************************)
\* At first nothing is known of and nothing is mounted.
LEMMA InitBelongings == BelongingsInit => BelongingsInv
<1> SUFFICES ASSUME BelongingsInit PROVE BelongingsInv
  OBVIOUS
<1>1. AtRest.pc = "idle"
  BY DEF AtRest
<1>2. StoreTypes
  BY <1>1, UnlistedIs DEF BelongingsInit, StoreTypes, Docs
<1>3. ErrandInv
  BY <1>1 DEF BelongingsInit, ErrandInv
<1>4. KnownInv
  BY DEF BelongingsInit, KnownInv
<1>5. MountTypes
  BY NoMountIs DEF BelongingsInit, MountTypes
<1>6. LedgerInv
  BY NoMountIs DEF BelongingsInit, LedgerInv
<1> QED
  BY <1>2, <1>3, <1>4, <1>5, <1>6 DEF BelongingsInv, StoreInv

\* The invariant holds in every state.
THEOREM BelongingsHold == BelongingsSpec => []BelongingsInv
<1>1. BelongingsInv /\ [BelongingsNext]_belongings => BelongingsInv'
  BY NextStore, NextMount DEF BelongingsInv, MountInv
<1> QED
  BY <1>1, InitBelongings, PTL DEF BelongingsSpec

\* Every variable holds what the code can put in it.
THEOREM BelongingsTypes == BelongingsSpec => []BelongingsTypeOK
<1>1. BelongingsInv => BelongingsTypeOK
  <2> SUFFICES ASSUME BelongingsInv PROVE BelongingsTypeOK
    OBVIOUS
  <2>1. errand.pc \in {"idle", "store", "record", "forget", "release"}
    BY DEF BelongingsInv, StoreInv, StoreTypes, AtRest, Storing, Removing
  <2> QED
    BY <2>1 DEF BelongingsInv, StoreInv, StoreTypes, MountTypes, BelongingsTypeOK, Docs, Records,
       Marks, Volumes, Entries
<1> QED
  BY <1>1, BelongingsHold, PTL

\* Handlers._connection_remove: an item that a connection still mounts with is not
\* deleted, whatever is stored, removed and lost meanwhile.
THEOREM NobodyLosesAnItem == BelongingsSpec => UsedItemStays
<1>1. ASSUME BelongingsInv, [BelongingsNext]_belongings, NEW k \in Keys,
             items[k] # "absent", items'[k] = "absent"
      PROVE  Sharing(book, k) = {}
  <2>0. items \in [Keys -> {"absent", "ours", "theirs"}]
    BY <1>1 DEF BelongingsInv, StoreInv, StoreTypes
  <2>1. ASSUME NEW q \in Keys, FinderStores(q) PROVE items'[k] # "absent"
    BY <1>1, <2>0, <2>1 DEF FinderStores
  <2>2. CASE StoreItem
    BY <1>1, <2>0, <2>2 DEF StoreItem
  <2>3. CASE ForgetItem
    <3>1. items' = [items EXCEPT ![ErrandKey] = "absent"]
      BY <2>3 DEF ForgetItem, ErrandKey
    <3>2. k = ErrandKey
      BY <1>1, <2>0, <3>1
    <3> QED
      BY <1>1, <2>3, <3>2 DEF ForgetItem, BelongingsInv, StoreInv, ErrandInv
  <2>4. CASE UNCHANGED items
    BY <1>1, <2>4
  <2> QED
    BY <1>1, <2>1, <2>2, <2>3, <2>4
    DEF BelongingsNext, belongings, store, AskToStore, Swap, AskToRemove, AgentMounts, FinderMounts,
        Ejects, RecordItem, Release, NoAgent, DaemonDies, AgentRestarts, Reboots
<1>2. BelongingsInv /\ [BelongingsNext]_belongings
        => [\A k \in Keys : (items[k] # "absent" /\ items'[k] = "absent") => Sharing(book, k) = {}]_belongings
  BY <1>1
<1> QED
  BY <1>2, BelongingsHold, PTL DEF BelongingsSpec, UsedItemStays

\* Handlers._connection_remove and set_credentials: an item that SMBPal created is
\* the item of a connection that says so, or a step of a request was lost.
THEOREM OursStayKnown == BelongingsSpec => []OursIsKnown
<1>1. BelongingsInv => OursIsKnown
  <2> SUFFICES ASSUME BelongingsInv, errand = AtRest, ~moved, NEW k \in Keys, items[k] = "ours"
               PROVE  \E c \in Sharing(book, k) : book[c].mark = "created"
    BY DEF OursIsKnown
  <2>1. Told(book, k)
    BY DEF BelongingsInv, StoreInv, KnownInv, AtRest
  <2> QED
    BY <2>1 DEF Told
<1> QED
  BY <1>1, BelongingsHold, PTL

\* agent.release: in the boot in which it was made, a mount that the person made is
\* not unmounted for a removed connection.
THEOREM TheirsStaysMounted == BelongingsSpec => OnlyOursIsReleased
<1>1. ASSUME BelongingsInv, [BelongingsNext]_belongings,
             errand.pc = "release", errand' = AtRest, volumes' # volumes, boots = 0
      PROVE  volumes[errand.link].by = "smbpal"
  <2>0. StoreTypes /\ LedgerInv /\ errand.link \in Links /\ errand # AtRest
    BY <1>1, ErrandIs DEF BelongingsInv, StoreInv, Removing
  <2>1. CASE Release
    <3>1. Owns(errand.link)
      BY <1>1, <2>1 DEF Release
    <3> QED
      BY <1>1, <2>0, <3>1 DEF Owns, LedgerInv
  <2>2. CASE UNCHANGED errand
    BY <1>1, <2>0, <2>2
  <2>3. CASE UNCHANGED volumes
    BY <1>1, <2>3
  <2> QED
    BY <1>1, <2>1, <2>2, <2>3
    DEF BelongingsNext, belongings, agent, AskToStore, Swap, AskToRemove, AgentMounts, FinderMounts,
        Ejects, FinderStores, StoreItem, RecordItem, ForgetItem, NoAgent, DaemonDies, AgentRestarts, Reboots
<1>2. BelongingsInv /\ [BelongingsNext]_belongings
        => [(errand.pc = "release" /\ errand' = AtRest /\ volumes' # volumes /\ boots = 0) =>
              volumes[errand.link].by = "smbpal"]_belongings
  BY <1>1
<1> QED
  BY <1>2, BelongingsHold, PTL DEF BelongingsSpec, OnlyOursIsReleased
=============================================================================
