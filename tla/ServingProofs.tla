---------------------------- MODULE ServingProofs ----------------------------
(***************************************************************************)
(* Theorems about Serving, for every set of names and folders and every    *)
(* bound: what the helper published it lists, what the person made it      *)
(* leaves alone, a request leaves the Mac serving the config, and what the *)
(* variables hold through failures and rollbacks.                          *)
(***************************************************************************)
EXTENDS Serving, TLAPS

\* A sharepoint is a record, whatever it serves.
IsPoint(p) ==
    /\ p = [folder |-> p.folder, readOnly |-> p.readOnly, by |-> p.by]
    /\ p.by \in {"nobody", "person", "smbpal"}

PointsAreRecords ==
    /\ points = [n \in ShareNames |-> points[n]]
    /\ \A n \in ShareNames : IsPoint(points[n])

\* A name on the helper's list that the person has a sharepoint of was theirs
\* after it was SMBPal's.
ListedIsReused == \A n \in published \intersect ShareNames : points[n].by = "person" => n \in reused

\* The inductive invariant: both lists of names against the points.  It holds of
\* whatever names a request brings.
OwnershipInv == PointsAreRecords /\ NothingForgotten /\ ListedIsReused

Ownership == <<points, published, reused>>

USE DEF machine, counters, NoFailure, Failure

-----------------------------------------------------------------------------
(***************************************************************************)
(* What a change of the points does to the invariant.                      *)
(***************************************************************************)
\* The initial state: nothing is shared and nothing is listed.
LEMMA InitOwnership == ServingInit => OwnershipInv
<1> SUFFICES ASSUME ServingInit PROVE OwnershipInv
  OBVIOUS
<1>1. points = [n \in ShareNames |-> NoPoint] /\ published = {}
  BY DEF ServingInit
<1>2. \A n \in ShareNames : points[n] = NoPoint
  BY <1>1
<1>3. points = [n \in ShareNames |-> points[n]]
  BY <1>1, <1>2
<1>4. IsPoint(NoPoint)
  BY DEF IsPoint, NoPoint
<1> QED
  BY <1>1, <1>2, <1>3, <1>4
  DEF OwnershipInv, PointsAreRecords, NothingForgotten, ListedIsReused, NoPoint

\* share.unpublish: the point is away before its name is off the list.
LEMMA UnpublishedOwnership ==
    ASSUME OwnershipInv, NEW n \in published, NEW recorded \in BOOLEAN,
           Unpublished(n, recorded), UNCHANGED reused
    PROVE  /\ OwnershipInv'
           /\ \A m \in ShareNames \ reused : points[m].by = "person" => points'[m] = points[m]
<1>1. /\ published' \subseteq published /\ published \ published' \subseteq {n}
      /\ n \in ShareNames => points'[n] = NoPoint
      /\ \A m \in ShareNames \ {n} : points'[m] = points[m]
      /\ points' = [m \in ShareNames |-> points'[m]]
  BY DEF OwnershipInv, PointsAreRecords, Unpublished
<1>2. PointsAreRecords'
  BY <1>1 DEF OwnershipInv, PointsAreRecords, IsPoint, NoPoint
<1>3. NothingForgotten'
  BY <1>1 DEF OwnershipInv, NothingForgotten, NoPoint
<1>4. ListedIsReused'
  BY <1>1 DEF OwnershipInv, ListedIsReused, NoPoint
<1> QED
  BY <1>1, <1>2, <1>3, <1>4 DEF OwnershipInv, ListedIsReused

\* Every way that a call of share.unpublish ends.
LEMMA UnpublishOwnership ==
    ASSUME OwnershipInv, NEW n, Unpublishes(n) \/ UnpublishFails(n), UNCHANGED reused
    PROVE  /\ OwnershipInv'
           /\ \A m \in ShareNames \ reused : points[m].by = "person" => points'[m] = points[m]
<1>1. CASE UNCHANGED machine
  BY <1>1 DEF OwnershipInv, PointsAreRecords, IsPoint, NothingForgotten, ListedIsReused
<1>2. CASE n \in published /\ \E recorded \in BOOLEAN : Unpublished(n, recorded)
  BY <1>2, UnpublishedOwnership
<1> QED
  BY <1>1, <1>2 DEF Unpublishes, UnpublishFails

\* share.publish: a free name, and the list is written or the point goes again.
LEMMA PublishOwnership ==
    ASSUME OwnershipInv, NEW n, NEW share, Publish(n, share), UNCHANGED reused
    PROVE  /\ OwnershipInv'
           /\ \A m \in ShareNames \ reused : points[m].by = "person" => points'[m] = points[m]
<1>1. CASE UNCHANGED machine
  BY <1>1 DEF OwnershipInv, PointsAreRecords, IsPoint, NothingForgotten, ListedIsReused
<1>2. ASSUME NEW readOnly, Free(n), published' = published \union {n},
             points' = [points EXCEPT ![n] = [folder |-> share.folder, readOnly |-> readOnly, by |-> "smbpal"]]
      PROVE  /\ OwnershipInv'
             /\ \A m \in ShareNames \ reused : points[m].by = "person" => points'[m] = points[m]
  <2>1. /\ n \in ShareNames => points'[n] = [folder |-> share.folder, readOnly |-> readOnly, by |-> "smbpal"]
        /\ \A m \in ShareNames \ {n} : points'[m] = points[m]
        /\ points' = [m \in ShareNames |-> points'[m]]
    BY <1>2 DEF OwnershipInv, PointsAreRecords
  <2>2. points[n].by = "nobody"
    BY <1>2 DEF Free, NoPoint
  <2>3. PointsAreRecords'
    BY <2>1 DEF OwnershipInv, PointsAreRecords, IsPoint
  <2>4. NothingForgotten' /\ ListedIsReused'
    BY <1>2, <2>1 DEF OwnershipInv, NothingForgotten, ListedIsReused
  <2> QED
    BY <1>2, <2>1, <2>2, <2>3, <2>4 DEF OwnershipInv
<1>3. \/ UNCHANGED machine
      \/ /\ Free(n) /\ published' = published \union {n}
         /\ \E readOnly \in {share.readOnly, FALSE} :
               points' = [points EXCEPT ![n] =
                             [folder |-> share.folder, readOnly |-> readOnly, by |-> "smbpal"]]
  BY DEF Publish, NotKept
<1> QED
  BY <1>1, <1>2, <1>3

-----------------------------------------------------------------------------
(***************************************************************************)
(* The helper's steps.                                                     *)
(***************************************************************************)
\* SharepointApplier.apply, its verification and its teardown: neither forgets
\* what was published nor touches what the person made.
LEMMA HelperOwnership ==
    ASSUME OwnershipInv, ByHelper
    PROVE  /\ OwnershipInv'
           /\ \A m \in ShareNames \ reused : points[m].by = "person" => points'[m] = points[m]
<1>1. CASE UNCHANGED Ownership
  BY <1>1 DEF Ownership, OwnershipInv, PointsAreRecords, IsPoint, NothingForgotten, ListedIsReused
<1>2. CASE Change
  <2>1. CASE \E n \in request.stale : Unpublishes(n) \/ UnpublishFails(n)
    BY <1>2, <2>1, UnpublishOwnership DEF Change
  <2>2. CASE \E n \in request.missing : Publish(n, request.doc[n])
    BY <1>2, <2>2, PublishOwnership DEF Change
  <2> QED
    BY <1>1, <1>2, <2>1, <2>2 DEF Change, Ownership
<1>3. CASE VerifyReadOnly
  <2>1. SUFFICES ASSUME NEW gone \in SUBSET published,
                        points' = [n \in ShareNames |-> IF n \in gone THEN NoPoint ELSE points[n]],
                        published' = published \ gone, UNCHANGED reused
                 PROVE  /\ OwnershipInv'
                        /\ \A m \in ShareNames \ reused : points[m].by = "person" => points'[m] = points[m]
    BY <1>1, <1>3 DEF VerifyReadOnly, Ownership
  <2>2. PointsAreRecords'
    BY <2>1 DEF OwnershipInv, PointsAreRecords, IsPoint, NoPoint
  <2>3. NothingForgotten' /\ ListedIsReused'
    BY <2>1 DEF OwnershipInv, NothingForgotten, ListedIsReused, NoPoint
  <2> QED
    BY <2>1, <2>2, <2>3 DEF OwnershipInv, ListedIsReused
<1>4. CASE Teardown
  BY <1>1, <1>4, UnpublishOwnership DEF Teardown, Ownership
<1> QED
  BY <1>2, <1>3, <1>4 DEF ByHelper
-----------------------------------------------------------------------------
(***************************************************************************)
(* The other steps.                                                        *)
(***************************************************************************)
\* A client, the daemon between two calls of the helper, and a grant that dies
\* change no sharepoint and no list.
LEMMA OthersKeep ==
    ASSUME ServingNext, ~ByHelper,
           ~\E n \in ShareNames : PersonEdits(n) \/ \E f \in Folders : PersonShares(n, f)
    PROVE  UNCHANGED Ownership
<1>1. CASE \E task \in Tasks, root \in BOOLEAN : Ask(task, root)
  BY <1>1 DEF Ask, Ownership
<1>2. CASE Prompt \/ CheckGrant \/ GrantDies
  BY <1>2 DEF Prompt, CheckGrant, GrantDies, Ownership
<1>3. CASE Begin \/ Survey \/ VerifyPresent
  BY <1>3 DEF Begin, Survey, VerifyPresent, Ownership
<1>4. CASE \E f \in Folders : PersonMoves(f)
  BY <1>4 DEF PersonMoves, Ownership
<1> QED
  BY <1>1, <1>2, <1>3, <1>4 DEF ServingNext

\* The person takes a name: if it is on the list, it is one used again.
LEMMA PersonSharesOwnership ==
    ASSUME OwnershipInv, NEW n \in ShareNames, NEW f \in Folders, PersonShares(n, f)
    PROVE  OwnershipInv'
<1>1. /\ points'[n] = [folder |-> f, readOnly |-> FALSE, by |-> "person"]
      /\ \A m \in ShareNames \ {n} : points'[m] = points[m]
      /\ points' = [m \in ShareNames |-> points'[m]]
      /\ UNCHANGED published /\ reused' = reused \union ({n} \intersect published)
  BY DEF OwnershipInv, PointsAreRecords, PersonShares
<1>2. PointsAreRecords'
  BY <1>1 DEF OwnershipInv, PointsAreRecords, IsPoint
<1>3. NothingForgotten' /\ ListedIsReused'
  BY <1>1 DEF OwnershipInv, NothingForgotten, ListedIsReused
<1> QED
  BY <1>2, <1>3 DEF OwnershipInv

\* The person takes a sharepoint away, or changes one: it stays whose it was.
LEMMA PersonEditsOwnership ==
    ASSUME OwnershipInv, NEW n \in ShareNames, PersonEdits(n)
    PROVE  OwnershipInv'
<1>1. /\ \A m \in ShareNames \ {n} : points'[m] = points[m]
      /\ points' = [m \in ShareNames |-> points'[m]]
      /\ UNCHANGED <<published, reused>>
  BY DEF OwnershipInv, PointsAreRecords, PersonEdits
<1>2. \/ points'[n] = NoPoint
      \/ points'[n] = [points[n] EXCEPT !.readOnly = ~@]
  BY DEF OwnershipInv, PointsAreRecords, PersonEdits
<1>3. IsPoint(points[n])
  BY DEF OwnershipInv, PointsAreRecords
<1>4. IsPoint(points'[n]) /\ points'[n].by \in {"nobody", points[n].by}
  <2>1. CASE points'[n] = NoPoint
    BY <2>1 DEF IsPoint, NoPoint
  <2>2. CASE points'[n] = [points[n] EXCEPT !.readOnly = ~@]
    <3>1. points'[n] = [folder |-> points[n].folder, readOnly |-> ~points[n].readOnly,
                        by |-> points[n].by]
      BY <1>3, <2>2 DEF IsPoint
    <3> QED
      BY <1>3, <3>1 DEF IsPoint
  <2> QED
    BY <1>2, <2>1, <2>2
<1>5. PointsAreRecords'
  BY <1>1, <1>4 DEF OwnershipInv, PointsAreRecords
<1>6. NothingForgotten' /\ ListedIsReused'
  BY <1>1, <1>4 DEF OwnershipInv, NothingForgotten, ListedIsReused
<1> QED
  BY <1>5, <1>6 DEF OwnershipInv

-----------------------------------------------------------------------------
(***************************************************************************)
(* The theorems.                                                           *)
(***************************************************************************)
\* The invariant is kept by every step of the program and of the person.
LEMMA NextOwnership == OwnershipInv /\ [ServingNext]_serving => OwnershipInv'
<1> SUFFICES ASSUME OwnershipInv, [ServingNext]_serving PROVE OwnershipInv'
  OBVIOUS
<1>1. CASE UNCHANGED Ownership
  BY <1>1 DEF Ownership, OwnershipInv, PointsAreRecords, IsPoint, NothingForgotten, ListedIsReused
<1>2. CASE UNCHANGED serving
  BY <1>1, <1>2 DEF serving, Ownership
<1>3. CASE ServingNext
  BY <1>1, <1>3, HelperOwnership, OthersKeep, PersonSharesOwnership, PersonEditsOwnership
<1> QED
  BY <1>2, <1>3

\* The invariant behind the two results below.
THEOREM OwnershipIsKept == ServingSpec => []OwnershipInv
  BY InitOwnership, NextOwnership, PTL DEF ServingSpec

\* "A sharepoint SMBPal cannot remember publishing is one uninstall would leave
\* behind" (smbpal-helper.c): whatever fails and whoever edits, what SMBPal
\* published is on the helper's list.
THEOREM PublishedIsListed == ServingSpec => []NothingForgotten
<1>1. OwnershipInv => NothingForgotten
  BY DEF OwnershipInv
<1> QED
  BY <1>1, OwnershipIsKept, PTL

\* SharepointApplier and the helper leave every sharepoint that the person made
\* as it is, unless its name was one of SMBPal's before.
THEOREM PersonsPointIsKept == ServingSpec => PersonsPointStays
<1> DEFINE Stays == \A n \in ShareNames \ reused : points[n].by = "person" => points'[n] = points[n]
<1>1. OwnershipInv /\ [ServingNext]_serving => [ByHelper => Stays]_serving
  BY HelperOwnership
<1> QED
  BY <1>1, OwnershipIsKept, PTL DEF ServingSpec, PersonsPointStays

-----------------------------------------------------------------------------
(***************************************************************************)
(* What a request that was answered leaves: the config as it is served.    *)
(***************************************************************************)
\* A document: what is served is of a folder.
GoodDoc(doc) ==
    /\ doc = [n \in ShareNames |-> doc[n]]
    /\ \A n \in ShareNames : doc[n].on => doc[n].folder \in Folders

\* The Mac serves what a document says, and nothing else is on the list.
Configured(doc) == published = Served(doc) /\ \A n \in published : Serves(n, doc[n])

\* How far the request is and what it holds: the document it applies is the
\* one that is saved, and the one before it is at hand until it goes back.
Asking   == {"prompt", "check", "begin", "teardown"}
Applying == {"survey", "change", "present", "readOnly"}
RequestInv ==
    \/ request = Resting
    \/ /\ request.pc \in Asking /\ request.task \in Tasks
       /\ request = [pc |-> request.pc, task |-> request.task]
    \/ /\ request.pc \in Applying
       /\ request = [pc |-> request.pc, task |-> request.task, doc |-> shares, back |-> request.back,
                     stale |-> request.stale, missing |-> request.missing]
       /\ request.back # <<>> => request.back = <<request.back[1]>> /\ GoodDoc(request.back[1])

DocInv == GoodDoc(shares) /\ RequestInv

\* What is left of the plan: everything listed that is not stale is as it should
\* be, everything else that is wanted is missing, and a missing name is free or
\* about to be.
Underway ==
    /\ request.stale \subseteq published
    /\ \A n \in published \ request.stale : n \in Served(shares) /\ Serves(n, shares[n])
    /\ \A n \in Served(shares) : n \in request.missing \/ n \in published \ request.stale
    /\ \A n \in request.missing :
          /\ n \in Served(shares)
          /\ n \in request.stale \/ points[n] = NoPoint
    /\ \A n \in Served(shares) : shares[n].folder \in shareable
    /\ grant = "none" => request.stale \union request.missing = {}

\* The document that the Mac is as, while nothing came in between: a request
\* that is about to survey has not touched it yet.
Standing == IF request.pc = "survey" /\ request.back # <<>> THEN request.back[1] ELSE shares

\* Nothing has come in between since the last apply.
UndisturbedInv ==
    drift = "none" =>
        /\ grant # "dead"
        /\ request.pc \in {"idle", "prompt", "check", "begin", "survey"} => Configured(Standing)
        /\ request.pc = "teardown" => grant = "live" \/ published = {}

\* Nothing has come in between since the survey.
SurveyedInv ==
    drift # "new" =>
        /\ request.pc = "change" => Underway
        /\ request.pc \in {"present", "readOnly"} => Configured(shares)

\* Nobody's sharepoint serves nothing.
KindInv ==
    /\ drift \in {"none", "new", "seen"} /\ grant \in {"none", "live", "dead"}
    /\ \A n \in ShareNames : points[n].by = "nobody" => points[n].folder = NoFolder

ConfiguredInv == KindInv /\ DocInv /\ UndisturbedInv /\ SurveyedInv

-----------------------------------------------------------------------------
(***************************************************************************)
(* What the steps have in common.                                          *)
(***************************************************************************)
\* Once something came in between, only the types and the documents are owed.
LEMMA SpoiltConfigured ==
    ASSUME drift' = "new", KindInv', DocInv'
    PROVE  ConfiguredInv'
  BY DEF ConfiguredInv, UndisturbedInv, SurveyedInv

\* Where a failure leaves a request: answered, or about to apply the document
\* it came from.
LEMMA FailsDocs ==
    ASSUME DocInv, request.pc \in Applying, grant \in {"none", "live", "dead"}, Fails
    PROVE  /\ DocInv' /\ grant' \in {"none", "live", "dead"}
           /\ request'.pc \in {"idle", "survey"}
           /\ request.back = <<>> => request' = Resting /\ UNCHANGED shares
           /\ request.back # <<>> => /\ request'.pc = "survey" /\ request'.back = <<>>
                                    /\ shares' = request.back[1] /\ UNCHANGED grant
<1>1. request = [pc |-> request.pc, task |-> request.task, doc |-> shares, back |-> request.back,
                 stale |-> request.stale, missing |-> request.missing]
  BY DEF DocInv, RequestInv, Asking, Applying, Resting
<1>2. CASE request.back = <<>>
  BY <1>2 DEF Fails, Answer, DocInv, RequestInv, Resting
<1>3. CASE request.back # <<>>
  <2>1. PICK old : request.back = <<old>> /\ GoodDoc(old)
    BY <1>3 DEF DocInv, RequestInv, Asking, Applying, Resting
  <2>2. /\ shares' = old /\ UNCHANGED grant
        /\ request' = [request EXCEPT !.pc = "survey", !.doc = old, !.back = <<>>,
                                      !.stale = {}, !.missing = {}]
    BY <1>3, <2>1 DEF Fails
  <2>3. request' = [pc |-> "survey", task |-> request.task, doc |-> old, back |-> <<>>,
                    stale |-> {}, missing |-> {}]
    BY <1>1, <2>2
  <2>4. DocInv'
    BY <2>1, <2>2, <2>3 DEF DocInv, RequestInv, Applying
  <2> QED
    BY <1>3, <2>1, <2>2, <2>3, <2>4
<1> QED
  BY <1>2, <1>3

\* A request moves on with the record it has.
LEMMA ToRequest ==
    ASSUME DocInv, NEW pc \in Asking \union Applying, To(pc), UNCHANGED shares,
           request.pc \in Asking => pc \in Asking, request.pc \in Applying => pc \in Applying,
           request # Resting
    PROVE  /\ DocInv' /\ request'.pc = pc
           /\ pc \in Applying => request'.back = request.back /\ request'.stale = request.stale
                                 /\ request'.missing = request.missing
<1>1. CASE request = [pc |-> request.pc, task |-> request.task] /\ request.pc \in Asking
           /\ request.task \in Tasks
  <2>1. request' = [pc |-> pc, task |-> request.task]
    BY <1>1 DEF To
  <2> QED
    BY <1>1, <2>1 DEF DocInv, RequestInv, Asking, Applying
<1>2. CASE /\ request = [pc |-> request.pc, task |-> request.task, doc |-> shares,
                        back |-> request.back, stale |-> request.stale, missing |-> request.missing]
           /\ request.pc \in Applying
           /\ request.back # <<>> => request.back = <<request.back[1]>> /\ GoodDoc(request.back[1])
  <2>1. request' = [pc |-> pc, task |-> request.task, doc |-> shares, back |-> request.back,
                    stale |-> request.stale, missing |-> request.missing]
    BY <1>2 DEF To
  <2> QED
    BY <1>2, <2>1 DEF DocInv, RequestInv
<1> QED
  BY <1>1, <1>2 DEF DocInv, RequestInv

\* An answer is the end of the request and of the grant.
LEMMA AnsweredConfigured ==
    ASSUME GoodDoc(shares), Answer, UNCHANGED shares, KindInv', drift' = "none" => Configured(shares)'
    PROVE  ConfiguredInv'
<1>1. request' = Resting /\ grant' = "none"
  BY DEF Answer
<1>2. DocInv'
  BY <1>1 DEF DocInv, GoodDoc, RequestInv
<1>3. UndisturbedInv' /\ SurveyedInv'
  BY <1>1 DEF UndisturbedInv, SurveyedInv, Standing, Configured, Serves, Resting
<1> QED
  BY <1>2, <1>3 DEF ConfiguredInv

-----------------------------------------------------------------------------
(***************************************************************************)
(* Before the document is applied.                                         *)
(***************************************************************************)
\* The initial state: an empty config, and nothing served.
LEMMA InitConfigured == ServingInit => ConfiguredInv
<1> SUFFICES ASSUME ServingInit PROVE ConfiguredInv
  OBVIOUS
<1>1. /\ shares = [n \in ShareNames |-> NoShare] /\ points = [n \in ShareNames |-> NoPoint]
      /\ published = {} /\ request = Resting /\ drift = "none" /\ grant = "none"
  BY DEF ServingInit
<1>2. KindInv
  BY <1>1 DEF KindInv, NoPoint
<1>3. GoodDoc(shares) /\ Served(shares) = {}
  BY <1>1 DEF GoodDoc, NoShare, Served
<1>4. DocInv
  BY <1>1, <1>3 DEF DocInv, RequestInv
<1>5. UndisturbedInv
  BY <1>1, <1>3 DEF UndisturbedInv, Standing, Configured, Resting
<1>6. SurveyedInv
  BY <1>1 DEF SurveyedInv, Resting
<1> QED
  BY <1>2, <1>4, <1>5, <1>6 DEF ConfiguredInv

\* Asking, and the dialog.
LEMMA AskConfigured ==
    ASSUME ConfiguredInv, \/ \E task \in Tasks, root \in BOOLEAN : Ask(task, root)
                          \/ Prompt
    PROVE  ConfiguredInv'
<1>1. UNCHANGED <<shares, points, published, shareable, drift>>
  BY DEF Ask, Prompt
<1>2. CASE \E task \in Tasks, root \in BOOLEAN : Ask(task, root)
  <2>1. PICK task \in Tasks, pc \in {"begin", "prompt"} : request' = [pc |-> pc, task |-> task]
    BY <1>2 DEF Ask
  <2>2. request = Resting /\ UNCHANGED grant
    BY <1>2 DEF Ask
  <2>3. DocInv' /\ KindInv'
    BY <1>1, <2>1, <2>2 DEF ConfiguredInv, DocInv, GoodDoc, RequestInv, Asking, KindInv
  <2>4. UndisturbedInv' /\ SurveyedInv'
    BY <1>1, <2>1, <2>2 DEF ConfiguredInv, UndisturbedInv, SurveyedInv, Standing, Configured, Serves, Resting
  <2> QED
    BY <2>3, <2>4 DEF ConfiguredInv
<1>3. CASE Prompt
  <2>1. request.pc = "prompt"
    BY <1>3 DEF Prompt
  <2>2. CASE To("check") /\ grant' = "live"
    <3>1. DocInv' /\ request'.pc = "check"
      BY <1>1, <2>1, <2>2, ToRequest DEF ConfiguredInv, Asking, Applying, Resting
    <3>2. KindInv' /\ UndisturbedInv' /\ SurveyedInv'
      BY <1>1, <2>1, <2>2, <3>1
      DEF ConfiguredInv, KindInv, UndisturbedInv, SurveyedInv, Standing, Configured, Serves
    <3> QED
      BY <3>1, <3>2 DEF ConfiguredInv
  <2>3. CASE request' = Resting /\ UNCHANGED grant
    <3>1. DocInv' /\ request'.pc = "idle"
      BY <1>1, <2>3 DEF ConfiguredInv, DocInv, GoodDoc, RequestInv, Resting
    <3>2. KindInv' /\ UndisturbedInv' /\ SurveyedInv'
      BY <1>1, <2>1, <2>3, <3>1
      DEF ConfiguredInv, KindInv, UndisturbedInv, SurveyedInv, Standing, Configured, Serves
    <3> QED
      BY <3>1, <3>2 DEF ConfiguredInv
  <2> QED
    BY <1>3, <2>2, <2>3 DEF Prompt
<1> QED
  BY <1>2, <1>3

\* A grant is verified, or dies.
LEMMA GrantConfigured ==
    ASSUME ConfiguredInv, CheckGrant \/ GrantDies
    PROVE  ConfiguredInv'
<1>1. UNCHANGED <<shares, points, published, shareable>>
  BY DEF CheckGrant, GrantDies
<1>2. CASE GrantDies
  <2>1. UNCHANGED request /\ grant' = "dead" /\ drift' = "new"
    BY <1>2 DEF GrantDies
  <2>2. KindInv' /\ DocInv'
    BY <1>1, <2>1 DEF ConfiguredInv, KindInv, DocInv, GoodDoc, RequestInv
  <2> QED
    BY <2>1, <2>2, SpoiltConfigured
<1>3. CASE CheckGrant
  <2>1. request.pc = "check"
    BY <1>3 DEF CheckGrant
  <2>2. CASE To("begin") /\ UNCHANGED <<grant, drift>>
    <3>1. DocInv' /\ request'.pc = "begin"
      BY <1>1, <2>1, <2>2, ToRequest DEF ConfiguredInv, Asking, Applying, Resting
    <3>2. KindInv' /\ UndisturbedInv' /\ SurveyedInv'
      BY <1>1, <2>1, <2>2, <3>1
      DEF ConfiguredInv, KindInv, UndisturbedInv, SurveyedInv, Standing, Configured, Serves
    <3> QED
      BY <3>1, <3>2 DEF ConfiguredInv
  <2>3. CASE Answer /\ drift' \in {drift, "new"}
    <3>1. drift' = "none" => Configured(shares)'
      BY <1>1, <2>1, <2>3 DEF ConfiguredInv, UndisturbedInv, Standing, Configured, Serves
    <3>2. KindInv'
      BY <1>1, <2>3 DEF Answer, ConfiguredInv, KindInv
    <3> QED
      BY <1>1, <2>3, <3>1, <3>2, AnsweredConfigured DEF ConfiguredInv, DocInv
  <2> QED
    BY <1>3, <2>2, <2>3 DEF CheckGrant
<1> QED
  BY <1>2, <1>3

\* The applier is started on a document that is saved.
LEMMA AppliedConfigured ==
    ASSUME ConfiguredInv, request.pc = "begin", NEW doc, GoodDoc(doc), shares' = doc,
           UNCHANGED <<points, published>>, drift' \in {drift, "new"},
           NEW back \in {<<>>, <<shares>>}, back = <<>> => doc = shares, Apply(doc, back)
    PROVE  ConfiguredInv'
<1>1. /\ request' = [pc |-> "survey", task |-> request.task, doc |-> doc, back |-> back,
                     stale |-> {}, missing |-> {}]
      /\ UNCHANGED grant
  BY DEF Apply
<1>2. DocInv'
  BY <1>1 DEF ConfiguredInv, DocInv, RequestInv, Applying
<1>3. KindInv'
  BY <1>1 DEF ConfiguredInv, KindInv
<1>4. SurveyedInv'
  BY <1>1 DEF SurveyedInv
<1>5. Standing' = shares
  BY <1>1 DEF Standing
<1>6. UndisturbedInv'
  BY <1>1, <1>5 DEF ConfiguredInv, UndisturbedInv, Standing, Configured, Serves
<1> QED
  BY <1>2, <1>3, <1>4, <1>6 DEF ConfiguredInv

\* Dispatcher._share_add, _share_remove, share.apply and the start of a
\* teardown.
LEMMA BeginConfigured ==
    ASSUME ConfiguredInv, Begin
    PROVE  ConfiguredInv'
<1>1. request.pc = "begin" /\ UNCHANGED <<points, published, shareable>> /\ drift' \in {drift, "new"}
  BY DEF Begin
<1>2. /\ request = [pc |-> request.pc, task |-> request.task] /\ request.task \in Tasks
      /\ KindInv /\ GoodDoc(shares) /\ DocInv
  BY <1>1 DEF ConfiguredInv, DocInv, RequestInv, Applying, Resting
<1>3. drift = "none" => Configured(shares) /\ grant # "dead"
  BY <1>1 DEF ConfiguredInv, UndisturbedInv, Standing
<1>4. CASE Answer /\ UNCHANGED shares
  <2>1. drift' = "none" => Configured(shares)'
    BY <1>1, <1>3, <1>4 DEF Configured, Serves
  <2>2. KindInv'
    BY <1>1, <1>2, <1>4 DEF Answer, KindInv
  <2> QED
    BY <1>2, <1>4, <2>1, <2>2, AnsweredConfigured
<1>5. CASE request.task.what = "add" /\ shares' = [shares EXCEPT ![request.task.name] = request.task.share]
           /\ Apply(shares', <<shares>>)
  <2>1. /\ request.task.name \in ShareNames
        /\ request.task.share.on => request.task.share.folder \in Folders
    BY <1>2, <1>5 DEF Tasks
  <2>2. PICK doc : doc = [shares EXCEPT ![request.task.name] = request.task.share]
    OBVIOUS
  <2>3. GoodDoc(doc)
    BY <1>2, <2>1, <2>2 DEF GoodDoc
  <2> QED
    BY <1>1, <1>5, <2>2, <2>3, AppliedConfigured
<1>6. CASE request.task.what = "remove" /\ shares' = [shares EXCEPT ![request.task.name] = NoShare]
           /\ Apply(shares', <<shares>>)
  <2>1. PICK doc : doc = [shares EXCEPT ![request.task.name] = NoShare]
    OBVIOUS
  <2>2. GoodDoc(doc)
    BY <1>2, <2>1 DEF GoodDoc, NoShare
  <2> QED
    BY <1>1, <1>6, <2>1, <2>2, AppliedConfigured
<1>7. CASE Apply(shares, <<>>) /\ UNCHANGED shares
  BY <1>1, <1>2, <1>7, AppliedConfigured
<1>8. CASE To("teardown") /\ UNCHANGED <<grant, shares, drift>> /\ (published # {} => grant # "none")
  <2>1. DocInv' /\ request'.pc = "teardown"
    BY <1>1, <1>2, <1>8, ToRequest DEF Asking, Applying, Resting
  <2>2. KindInv'
    BY <1>1, <1>2, <1>8 DEF KindInv
  <2>3. UndisturbedInv' /\ SurveyedInv'
    BY <1>1, <1>2, <1>3, <1>8, <2>1 DEF UndisturbedInv, SurveyedInv, KindInv
  <2> QED
    BY <2>1, <2>2, <2>3 DEF ConfiguredInv
<1> QED
  BY <1>4, <1>5, <1>6, <1>7, <1>8 DEF Begin

-----------------------------------------------------------------------------
(***************************************************************************)
(* While the document is applied.                                          *)
(***************************************************************************)
\* A failure of a change that something came in between owes nothing.
LEMMA FailedConfigured ==
    ASSUME ConfiguredInv, request.pc \in Applying, Fails, drift' \in {drift, "new"}, drift' # "none",
           \A n \in ShareNames : points'[n].by = "nobody" => points'[n].folder = NoFolder
    PROVE  ConfiguredInv'
<1>1. DocInv' /\ grant' \in {"none", "live", "dead"} /\ request'.pc \in {"idle", "survey"}
  BY FailsDocs DEF ConfiguredInv, KindInv
<1>2. KindInv'
  BY <1>1 DEF ConfiguredInv, KindInv
<1>3. UndisturbedInv' /\ SurveyedInv'
  BY <1>1 DEF UndisturbedInv, SurveyedInv
<1> QED
  BY <1>1, <1>2, <1>3 DEF ConfiguredInv

\* SharepointApplier.apply until its first change: the plan it makes is right,
\* and what it refuses it has not touched.
LEMMA SurveyConfigured ==
    ASSUME ConfiguredInv, Survey
    PROVE  ConfiguredInv'
<1> DEFINE stale == Stale(request.doc)
           missing == {n \in Served(request.doc) : n \notin published \/ n \in stale}
           refused == \/ \E n \in Served(request.doc) : request.doc[n].folder \notin shareable
                      \/ missing \intersect Unmanaged # {}
                      \/ stale \union missing # {} /\ grant = "none"
<1>1. request.pc = "survey" /\ UNCHANGED <<points, published, shareable>>
  BY DEF Survey
<1>2. /\ request = [pc |-> request.pc, task |-> request.task, doc |-> shares, back |-> request.back,
                    stale |-> request.stale, missing |-> request.missing]
      /\ request.back # <<>> => request.back = <<request.back[1]>> /\ GoodDoc(request.back[1])
  BY <1>1 DEF ConfiguredInv, DocInv, RequestInv, Asking, Resting
<1>3. request.doc = shares
  BY <1>2
<1>4. CASE /\ ~refused /\ request' = [request EXCEPT !.pc = "change", !.stale = stale, !.missing = missing]
           /\ drift' = (IF drift = "none" THEN "none" ELSE "seen")
           /\ UNCHANGED <<shares, grant>>
  <2>1. request' = [pc |-> "change", task |-> request.task, doc |-> shares, back |-> request.back,
                    stale |-> stale, missing |-> missing]
    <3>1. PICK st, mi : st = stale /\ mi = missing
      OBVIOUS
    <3>2. request' = [request EXCEPT !.pc = "change", !.stale = st, !.missing = mi]
      BY <1>4, <3>1
    <3>3. PICK t, b, s0, m0 : request = [pc |-> "survey", task |-> t, doc |-> shares, back |-> b,
                                         stale |-> s0, missing |-> m0]
      BY <1>1, <1>2
    <3>4. t = request.task /\ b = request.back
      BY <3>3
    <3>5. request' = [pc |-> "change", task |-> t, doc |-> shares, back |-> b, stale |-> st, missing |-> mi]
      BY <3>2, <3>3
    <3> QED
      BY <3>1, <3>4, <3>5
  <2>2. DocInv'
    BY <1>2, <1>4, <2>1 DEF ConfiguredInv, DocInv, GoodDoc, RequestInv, Applying
  <2>3. KindInv'
    BY <1>1, <1>4 DEF ConfiguredInv, KindInv
  <2>4. UndisturbedInv'
    BY <1>1, <1>4, <2>1 DEF ConfiguredInv, UndisturbedInv
  <2>5. stale \subseteq published
        /\ \A n \in published \ stale : n \in Served(shares) /\ Serves(n, shares[n])
    BY <1>3 DEF Stale
  <2>6. \A n \in Served(shares) : n \in missing \/ n \in published \ stale
    BY <1>3
  <2>7. \A n \in missing : n \in Served(shares) /\ (n \in stale \/ points[n] = NoPoint)
    BY <1>3, <1>4 DEF Served, Unmanaged
  <2>8. /\ \A n \in Served(shares) : shares[n].folder \in shareable
        /\ grant = "none" => stale \union missing = {}
    BY <1>3, <1>4
  <2>9. Underway'
    <3>1. request'.stale = stale /\ request'.missing = missing
      BY <2>1
    <3> HIDE DEF stale, missing
    <3> QED
      BY <1>1, <1>4, <2>5, <2>6, <2>7, <2>8, <3>1 DEF Underway, Serves, Served
  <2>10. SurveyedInv'
    BY <2>1, <2>9 DEF SurveyedInv
  <2> QED
    BY <2>2, <2>3, <2>4, <2>10 DEF ConfiguredInv
<1>5. CASE refused /\ Fails /\ UNCHANGED drift
  <2>1. CASE drift = "none"
    <3>1. Configured(Standing)
      BY <1>1, <2>1 DEF ConfiguredInv, UndisturbedInv
    <3>2. /\ DocInv' /\ grant' \in {grant, "none"} /\ request'.pc \in {"idle", "survey"}
          /\ shares' = Standing /\ (request'.pc = "survey" => request'.back = <<>>)
      BY <1>1, <1>5, FailsDocs
      DEF ConfiguredInv, KindInv, Applying, Standing, Fails, Answer, Resting
    <3>3. PICK doc : doc = Standing
      OBVIOUS
    <3>4. Configured(doc)' /\ Standing' = doc
      BY <1>1, <3>1, <3>2, <3>3 DEF Configured, Serves, Standing
    <3>5. KindInv'
      BY <1>1, <1>5, <3>2 DEF ConfiguredInv, KindInv
    <3>6. UndisturbedInv' /\ SurveyedInv'
      BY <1>5, <2>1, <3>2, <3>4 DEF ConfiguredInv, UndisturbedInv, SurveyedInv, Configured, Serves
    <3> QED
      BY <3>2, <3>5, <3>6 DEF ConfiguredInv
  <2>2. CASE drift # "none"
    BY <1>1, <1>5, <2>2, FailedConfigured DEF ConfiguredInv, KindInv, Applying
  <2> QED
    BY <2>1, <2>2
<1>6. CASE Fails /\ drift' = "new"
  BY <1>1, <1>6, FailedConfigured DEF ConfiguredInv, KindInv, Applying
<1> QED
  BY <1>4, <1>5, <1>6 DEF Survey

\* A change that is done is taken off the plan.
LEMMA PlannedRequest ==
    ASSUME DocInv, request.pc = "change", UNCHANGED shares, NEW st, NEW mi,
           \/ request' = [request EXCEPT !.stale = st] /\ mi = request.missing
           \/ request' = [request EXCEPT !.missing = mi] /\ st = request.stale
    PROVE  DocInv' /\ request'.pc = "change" /\ request'.stale = st /\ request'.missing = mi
<1>1. PICK t, b, s0, m0 : request = [pc |-> "change", task |-> t, doc |-> shares, back |-> b,
                                     stale |-> s0, missing |-> m0]
  BY DEF DocInv, RequestInv, Asking, Resting
<1>2. b # <<>> => b = <<b[1]>> /\ GoodDoc(b[1])
  BY <1>1 DEF DocInv, RequestInv, Asking, Resting
<1>3. request' = [pc |-> "change", task |-> t, doc |-> shares, back |-> b, stale |-> st, missing |-> mi]
  BY <1>1
<1> QED
  BY <1>2, <1>3 DEF DocInv, GoodDoc, RequestInv, Applying

\* share.unpublish of what is stale: a stale name less, or a failure that
\* something else came in before.
LEMMA StaleConfigured ==
    ASSUME OwnershipInv, ConfiguredInv, request.pc = "change", UNCHANGED shareable,
           NEW n \in request.stale,
           \/ Unpublishes(n) /\ request' = [request EXCEPT !.stale = @ \ {n}] /\ UNCHANGED <<shares, grant>>
           \/ UnpublishFails(n) /\ Fails
    PROVE  ConfiguredInv'
<1>1. CASE Unpublishes(n) /\ request' = [request EXCEPT !.stale = @ \ {n}] /\ UNCHANGED <<shares, grant>>
  <2>1. /\ points' = [points EXCEPT ![n] = NoPoint] /\ published' = published \ {n}
        /\ UNCHANGED drift
    BY <1>1 DEF Unpublishes, Unpublished
  <2>2. PICK st : st = request.stale \ {n}
    OBVIOUS
  <2>3. DocInv' /\ request'.pc = "change" /\ request'.stale = st /\ request'.missing = request.missing
    BY <1>1, <2>2, PlannedRequest DEF ConfiguredInv
  <2>4. /\ n \in ShareNames => points'[n] = NoPoint
        /\ \A m \in ShareNames \ {n} : points'[m] = points[m]
    BY <2>1 DEF OwnershipInv, PointsAreRecords
  <2>5. KindInv'
    BY <1>1, <2>1, <2>4 DEF ConfiguredInv, KindInv, NoPoint
  <2>6. Underway => Underway'
    BY <1>1, <2>1, <2>2, <2>3, <2>4 DEF Underway, Served, Serves
  <2>7. SurveyedInv'
    BY <2>1, <2>3, <2>6 DEF ConfiguredInv, SurveyedInv
  <2>8. UndisturbedInv'
    BY <1>1, <2>1, <2>3 DEF ConfiguredInv, UndisturbedInv
  <2> QED
    BY <2>3, <2>5, <2>7, <2>8 DEF ConfiguredInv
<1>2. CASE UnpublishFails(n) /\ Fails
  <2>1. \A m \in ShareNames : points'[m].by = "nobody" => points'[m].folder = NoFolder
    BY <1>2 DEF ConfiguredInv, KindInv, OwnershipInv, PointsAreRecords, UnpublishFails, Unpublished, NoPoint
  <2>2. drift' \in {drift, "new"} /\ drift' # "none"
    BY <1>2 DEF UnpublishFails, ConfiguredInv, KindInv, UndisturbedInv, SurveyedInv, Underway
  <2> QED
    BY <1>2, <2>1, <2>2, FailedConfigured DEF Applying
<1> QED
  BY <1>1, <1>2

\* share.publish of what is missing: it is free and its folder is shareable,
\* or something else came in before.
LEMMA MissingConfigured ==
    ASSUME OwnershipInv, ConfiguredInv, request.pc = "change", UNCHANGED shareable,
           request.stale = {}, NEW n \in request.missing, Publish(n, request.doc[n])
    PROVE  ConfiguredInv'
<1> DEFINE share == shares[n]
           point == [folder |-> share.folder, readOnly |-> share.readOnly, by |-> "smbpal"]
<1>1. request.doc = shares
  BY DEF ConfiguredInv, DocInv, RequestInv, Asking, Resting
<1>2. CASE /\ points' = [points EXCEPT ![n] = point] /\ published' = published \union {n}
           /\ request' = [request EXCEPT !.missing = @ \ {n}]
           /\ UNCHANGED <<drift, shares, grant>>
  <2>1. PICK mi : mi = request.missing \ {n}
    OBVIOUS
  <2>2. DocInv' /\ request'.pc = "change" /\ request'.stale = {} /\ request'.missing = mi
    BY <1>2, <2>1, PlannedRequest DEF ConfiguredInv
  <2>3. /\ n \in ShareNames => points'[n] = point
        /\ \A m \in ShareNames \ {n} : points'[m] = points[m]
    BY <1>2 DEF OwnershipInv, PointsAreRecords
  <2>4. KindInv'
    BY <1>2, <2>3 DEF ConfiguredInv, KindInv
  <2>5. Underway => Underway'
    BY <1>2, <2>1, <2>2, <2>3 DEF Underway, Served, Serves
  <2>6. SurveyedInv'
    BY <1>2, <2>2, <2>5 DEF ConfiguredInv, SurveyedInv
  <2>7. UndisturbedInv'
    BY <1>2, <2>2 DEF ConfiguredInv, UndisturbedInv
  <2> QED
    BY <2>2, <2>4, <2>6, <2>7 DEF ConfiguredInv
<1>3. ASSUME \A m \in ShareNames : points'[m] = points[m] \/ points'[m].by = "smbpal"
      PROVE  \A m \in ShareNames : points'[m].by = "nobody" => points'[m].folder = NoFolder
  BY <1>3 DEF ConfiguredInv, KindInv
<1>4. ASSUME NEW readOnly, points' = [points EXCEPT ![n] = [folder |-> share.folder, readOnly |-> readOnly,
                                                           by |-> "smbpal"]]
      PROVE  \A m \in ShareNames : points'[m].by = "nobody" => points'[m].folder = NoFolder
  BY <1>3, <1>4 DEF OwnershipInv, PointsAreRecords
<1>5. CASE /\ points' = [points EXCEPT ![n] = [point EXCEPT !.readOnly = FALSE]]
           /\ request' = [request EXCEPT !.missing = @ \ {n}]
           /\ drift' = "new" /\ UNCHANGED <<shares, grant>>
  <2>1. DocInv'
    BY <1>5, PlannedRequest DEF ConfiguredInv
  <2>2. points' = [points EXCEPT ![n] = [folder |-> share.folder, readOnly |-> FALSE, by |-> "smbpal"]]
    <3>1. PICK f, r, b : f = share.folder /\ r = share.readOnly /\ b = FALSE
      OBVIOUS
    <3>2. point = [folder |-> f, readOnly |-> r, by |-> "smbpal"]
      BY <3>1
    <3>3. [[folder |-> f, readOnly |-> r, by |-> "smbpal"] EXCEPT !.readOnly = b] =
              [folder |-> f, readOnly |-> b, by |-> "smbpal"]
      OBVIOUS
    <3>4. points' = [points EXCEPT ![n] = [point EXCEPT !.readOnly = b]]
      BY <1>5, <3>1
    <3>5. points' = [points EXCEPT ![n] = [folder |-> f, readOnly |-> b, by |-> "smbpal"]]
      BY <3>2, <3>3, <3>4
    <3> QED
      BY <3>1, <3>5
  <2>3. KindInv'
    BY <1>4, <1>5, <2>2 DEF ConfiguredInv, KindInv
  <2> QED
    BY <1>5, <2>1, <2>3, SpoiltConfigured
<1>6. CASE Fails /\ drift' = "new" /\ points' \in {points, [points EXCEPT ![n] = point]}
  <2>1. \A m \in ShareNames : points'[m].by = "nobody" => points'[m].folder = NoFolder
    BY <1>3, <1>4, <1>6
  <2> QED
    BY <1>6, <2>1, FailedConfigured DEF Applying
<1>7. CASE /\ ~(grant = "live" /\ share.folder \in shareable /\ Free(n))
           /\ Fails /\ UNCHANGED <<drift, points, published>>
  <2>1. drift # "none"
    BY <1>7 DEF ConfiguredInv, KindInv, UndisturbedInv, SurveyedInv, Underway, Free
  <2> QED
    BY <1>3, <1>7, <2>1, FailedConfigured DEF Applying
<1> QED
  BY <1>1, <1>2, <1>5, <1>6, <1>7 DEF Publish, NotKept

\* SharepointApplier.apply, change by change, until nothing is left of the plan.
LEMMA ChangeConfigured ==
    ASSUME OwnershipInv, ConfiguredInv, Change
    PROVE  ConfiguredInv'
<1>1. request.pc = "change" /\ UNCHANGED shareable
  BY DEF Change
<1>2. CASE \E n \in request.stale :
              \/ /\ Unpublishes(n) /\ request' = [request EXCEPT !.stale = @ \ {n}]
                 /\ UNCHANGED <<shares, grant>>
              \/ UnpublishFails(n) /\ Fails
  BY <1>1, <1>2, StaleConfigured
<1>3. CASE request.stale = {} /\ \E n \in request.missing : Publish(n, request.doc[n])
  BY <1>1, <1>3, MissingConfigured
<1>4. CASE /\ request.stale \union request.missing = {} /\ To("present")
           /\ UNCHANGED <<shares, points, published, grant, drift>>
  <2>1. DocInv' /\ request'.pc = "present"
    BY <1>1, <1>4, ToRequest DEF ConfiguredInv, Asking, Applying, Resting
  <2>2. Underway => Configured(shares)
    BY <1>4 DEF Underway, Configured
  <2>3. Configured(shares) => Configured(shares)'
    BY <1>4 DEF Configured, Serves
  <2>4. KindInv' /\ UndisturbedInv' /\ SurveyedInv'
    BY <1>1, <1>4, <2>1, <2>2, <2>3 DEF ConfiguredInv, KindInv, UndisturbedInv, SurveyedInv
  <2> QED
    BY <2>1, <2>4 DEF ConfiguredInv
<1> QED
  BY <1>2, <1>3, <1>4 DEF Change

\* The two verifications, which find what the plan has brought about.
LEMMA VerifyConfigured ==
    ASSUME OwnershipInv, ConfiguredInv, VerifyPresent \/ VerifyReadOnly
    PROVE  ConfiguredInv'
<1>1. request.pc \in {"present", "readOnly"} /\ UNCHANGED shareable
  BY DEF VerifyPresent, VerifyReadOnly
<1>2. request.doc = shares
  BY <1>1 DEF ConfiguredInv, DocInv, RequestInv, Asking, Resting
<1>3. drift # "new" => Configured(shares)
  BY <1>1 DEF ConfiguredInv, SurveyedInv
<1>4. CASE Fails /\ drift' = "new" /\ UNCHANGED <<points, published>>
  BY <1>1, <1>4, FailedConfigured DEF ConfiguredInv, KindInv, Applying
<1>5. CASE VerifyPresent
  <2>1. CASE To("readOnly") /\ UNCHANGED <<shares, points, published, grant, drift>>
    <3>1. DocInv' /\ request'.pc = "readOnly"
      BY <1>1, <2>1, ToRequest DEF ConfiguredInv, Asking, Applying, Resting
    <3>2. Configured(shares) => Configured(shares)'
      BY <2>1 DEF Configured, Serves
    <3>3. KindInv' /\ UndisturbedInv' /\ SurveyedInv'
      BY <1>1, <1>3, <2>1, <3>1, <3>2 DEF ConfiguredInv, KindInv, UndisturbedInv, SurveyedInv
    <3> QED
      BY <3>1, <3>3 DEF ConfiguredInv
  <2>2. CASE /\ \E n \in Served(request.doc) : points[n].folder # request.doc[n].folder
             /\ Fails /\ UNCHANGED <<drift, points, published>>
    <3>1. drift = "new"
      BY <1>2, <1>3, <2>2 DEF Configured, Serves
    <3> QED
      BY <1>1, <2>2, <3>1, FailedConfigured DEF ConfiguredInv, KindInv, Applying
  <2> QED
    BY <1>4, <1>5, <2>1, <2>2 DEF VerifyPresent
<1>6. CASE VerifyReadOnly
  <2> DEFINE writable == {n \in Served(request.doc) : request.doc[n].readOnly /\ ~points[n].readOnly}
             gone == IF grant = "live" THEN writable \intersect published ELSE {}
  <2>1. CASE /\ Answer /\ drift' = (IF drift = "seen" THEN "none" ELSE drift)
             /\ UNCHANGED <<shares, points, published>>
    <3>1. KindInv'
      BY <2>1 DEF Answer, ConfiguredInv, KindInv
    <3>2. drift' = "none" => Configured(shares)'
      BY <1>3, <2>1 DEF Configured, Serves
    <3> QED
      BY <2>1, <3>1, <3>2, AnsweredConfigured DEF ConfiguredInv, DocInv
  <2>2. CASE /\ writable # {} /\ Fails /\ UNCHANGED drift
             /\ points' = [n \in ShareNames |-> IF n \in gone THEN NoPoint ELSE points[n]]
    <3>1. drift = "new"
      BY <1>2, <1>3, <2>2 DEF Configured, Serves
    <3>2. \A m \in ShareNames : points'[m].by = "nobody" => points'[m].folder = NoFolder
      BY <2>2 DEF ConfiguredInv, KindInv, NoPoint
    <3> QED
      BY <1>1, <2>2, <3>1, <3>2, FailedConfigured DEF Applying
  <2> QED
    BY <1>4, <1>6, <2>1, <2>2 DEF VerifyReadOnly
<1> QED
  BY <1>5, <1>6

-----------------------------------------------------------------------------
(***************************************************************************)
(* A teardown, and the person at the Mac.                                  *)
(***************************************************************************)
\* SharepointApplier.teardown, which leaves a config that is not served.
LEMMA TeardownConfigured ==
    ASSUME OwnershipInv, ConfiguredInv, Teardown
    PROVE  ConfiguredInv'
<1>1. request.pc = "teardown" /\ UNCHANGED <<shares, shareable>>
  BY DEF Teardown
<1>2. ASSUME Answer, drift' = "new",
             \A m \in ShareNames : points'[m].by = "nobody" => points'[m].folder = NoFolder
      PROVE  ConfiguredInv'
  <2>1. KindInv'
    BY <1>2 DEF KindInv, Answer
  <2> QED
    BY <1>1, <1>2, <2>1, AnsweredConfigured DEF ConfiguredInv, DocInv
<1>3. CASE published = {}
  BY <1>2, <1>3 DEF Teardown, ConfiguredInv, KindInv
<1>4. ASSUME NEW n \in published, Unpublishes(n), UNCHANGED <<request, grant>>
      PROVE  ConfiguredInv'
  <2>1. points' = [points EXCEPT ![n] = NoPoint] /\ UNCHANGED drift /\ grant = "live"
    BY <1>4 DEF Unpublishes, Unpublished
  <2>2. KindInv'
    BY <1>4, <2>1 DEF ConfiguredInv, KindInv, OwnershipInv, PointsAreRecords, NoPoint
  <2>3. DocInv'
    BY <1>1, <1>4 DEF ConfiguredInv, DocInv, GoodDoc, RequestInv
  <2>4. UndisturbedInv' /\ SurveyedInv'
    BY <1>1, <1>4, <2>1 DEF UndisturbedInv, SurveyedInv
  <2> QED
    BY <2>2, <2>3, <2>4 DEF ConfiguredInv
<1>5. ASSUME NEW n \in published, UnpublishFails(n), Answer
      PROVE  ConfiguredInv'
  <2>1. \A m \in ShareNames : points'[m].by = "nobody" => points'[m].folder = NoFolder
    BY <1>5 DEF ConfiguredInv, KindInv, OwnershipInv, PointsAreRecords, UnpublishFails, Unpublished, NoPoint
  <2>2. drift' \in {drift, "new"} /\ drift' # "none"
    BY <1>1, <1>5 DEF UnpublishFails, ConfiguredInv, KindInv, UndisturbedInv
  <2>3. KindInv'
    BY <1>5, <2>1, <2>2 DEF ConfiguredInv, KindInv, Answer
  <2> QED
    BY <1>1, <1>5, <2>2, <2>3, AnsweredConfigured DEF ConfiguredInv, DocInv
<1> QED
  BY <1>3, <1>4, <1>5 DEF Teardown

\* Whatever the person changes comes in between.
LEMMA PersonConfigured ==
    ASSUME OwnershipInv, ConfiguredInv,
           \/ \E n \in ShareNames, f \in Folders : PersonShares(n, f)
           \/ \E n \in ShareNames : PersonEdits(n)
           \/ \E f \in Folders : PersonMoves(f)
    PROVE  ConfiguredInv'
<1>1. UNCHANGED <<shares, grant, request>> /\ drift' = "new"
  BY DEF PersonShares, PersonEdits, PersonMoves
<1>2. DocInv'
  BY <1>1 DEF ConfiguredInv, DocInv, GoodDoc, RequestInv
<1>3. \A m \in ShareNames : points'[m].by = "nobody" => points'[m].folder = NoFolder
  <2>1. CASE \E n \in ShareNames, f \in Folders : PersonShares(n, f)
    BY <2>1 DEF PersonShares, ConfiguredInv, KindInv, OwnershipInv, PointsAreRecords
  <2>2. CASE \E n \in ShareNames : PersonEdits(n)
    <3>1. PICK n \in ShareNames : PersonEdits(n)
      BY <2>2
    <3>2. \A m \in ShareNames \ {n} : points'[m] = points[m]
      BY <3>1 DEF PersonEdits, OwnershipInv, PointsAreRecords
    <3>3. points'[n] = NoPoint \/ points'[n] = [points[n] EXCEPT !.readOnly = ~@]
      BY <3>1 DEF PersonEdits, OwnershipInv, PointsAreRecords
    <3>4. points[n] = [folder |-> points[n].folder, readOnly |-> points[n].readOnly, by |-> points[n].by]
      BY DEF OwnershipInv, PointsAreRecords, IsPoint
    <3>5. points'[n] = NoPoint \/ (points'[n].by = points[n].by /\ points'[n].folder = points[n].folder)
      BY <3>3, <3>4
    <3> QED
      BY <3>2, <3>5 DEF ConfiguredInv, KindInv, NoPoint
  <2>3. CASE \E f \in Folders : PersonMoves(f)
    BY <2>3 DEF PersonMoves, ConfiguredInv, KindInv
  <2> QED
    BY <2>1, <2>2, <2>3
<1>4. KindInv'
  BY <1>1, <1>3 DEF ConfiguredInv, KindInv
<1> QED
  BY <1>1, <1>2, <1>4, SpoiltConfigured

-----------------------------------------------------------------------------
(***************************************************************************)
(* The theorem.                                                            *)
(***************************************************************************)
\* Both invariants are kept, whoever takes the step.
LEMMA NextConfigured == OwnershipInv /\ ConfiguredInv /\ [ServingNext]_serving => ConfiguredInv'
<1> SUFFICES ASSUME OwnershipInv, ConfiguredInv, [ServingNext]_serving PROVE ConfiguredInv'
  OBVIOUS
<1>1. CASE ServingNext
  BY <1>1, AskConfigured, GrantConfigured, BeginConfigured, SurveyConfigured, ChangeConfigured,
     VerifyConfigured, TeardownConfigured, PersonConfigured DEF ServingNext, ByHelper
<1>2. CASE UNCHANGED serving
  <2>1. UNCHANGED <<shares, points, published, shareable, grant, request, drift>>
    BY <1>2 DEF serving
  <2>2. KindInv' /\ DocInv'
    BY <2>1 DEF ConfiguredInv, KindInv, DocInv, GoodDoc, RequestInv
  <2>3. UndisturbedInv'
    BY <2>1 DEF ConfiguredInv, UndisturbedInv, Standing, Configured, Serves
  <2>4. SurveyedInv'
    BY <2>1 DEF ConfiguredInv, SurveyedInv, Underway, Configured, Serves
  <2> QED
    BY <2>2, <2>3, <2>4 DEF ConfiguredInv
<1> QED
  BY <1>1, <1>2

\* What is served and listed is SMBPal's own, or of a name that the person used
\* again: a sharepoint of nobody has no folder.
LEMMA ConfiguredIsServed == OwnershipInv /\ ConfiguredInv => ServedAsConfigured
<1> SUFFICES ASSUME OwnershipInv, ConfiguredInv, request = Resting, drift = "none"
             PROVE  /\ published = Served(shares)
                    /\ \A n \in published : (points[n].by = "smbpal" \/ n \in reused) /\ Serves(n, shares[n])
  BY DEF ServedAsConfigured
<1>1. Configured(shares)
  BY DEF ConfiguredInv, UndisturbedInv, Standing, Resting
<1>2. ASSUME NEW n \in published PROVE points[n].by = "smbpal" \/ n \in reused
  <2>1. n \in ShareNames /\ points[n].folder \in Folders
    BY <1>1, <1>2 DEF Configured, Served, Serves, ConfiguredInv, DocInv, GoodDoc
  <2>2. points[n].by # "nobody"
    BY <2>1, NoFolderIsNone DEF ConfiguredInv, KindInv
  <2> QED
    BY <1>2, <2>1, <2>2 DEF OwnershipInv, PointsAreRecords, IsPoint, ListedIsReused
<1> QED
  BY <1>1, <1>2 DEF Configured

\* Dispatcher._commit and SharepointApplier.apply: unless something came in
\* between, a request that was answered, done or refused or undone, leaves the
\* Mac serving the config and nothing else.
THEOREM ConfigIsServed == ServingSpec => []ServedAsConfigured
  BY InitConfigured, NextConfigured, OwnershipIsKept, ConfiguredIsServed, PTL DEF ServingSpec

-----------------------------------------------------------------------------
(***************************************************************************)
(* The types.                                                              *)
(***************************************************************************)
ShareDocs == [ShareNames -> [folder : Folders \union {NoFolder}, readOnly : BOOLEAN, on : BOOLEAN]]
MacPoints == [ShareNames -> [folder : Folders \union {NoFolder}, readOnly : BOOLEAN,
                             by : {"nobody", "person", "smbpal"}]]

\* What a request holds: the document it goes back to, and the names that are
\* missing.
HeldTypes ==
    request.pc \in Applying =>
        /\ request.back # <<>> => request.back[1] \in ShareDocs
        /\ request.missing \subseteq ShareNames

ServingTypes == shares \in ShareDocs /\ HeldTypes /\ points \in MacPoints /\ published \subseteq ShareNames

\* A sharepoint that is taken away, made or edited is one of the Mac's.
LEMMA PointTyped ==
    ASSUME points \in MacPoints, NEW n, NEW p, points' = [points EXCEPT ![n] = p],
           p \in [folder : Folders \union {NoFolder}, readOnly : BOOLEAN, by : {"nobody", "person", "smbpal"}]
    PROVE  points' \in MacPoints
  BY DEF MacPoints

\* No document and no sharepoint.
LEMMA NoneTyped ==
    /\ NoShare \in [folder : Folders \union {NoFolder}, readOnly : BOOLEAN, on : BOOLEAN]
    /\ NoPoint \in [folder : Folders \union {NoFolder}, readOnly : BOOLEAN, by : {"nobody", "person", "smbpal"}]
  BY DEF NoShare, NoPoint

\* A request that fails goes back to a document or is over.
LEMMA FailsTyped ==
    ASSUME DocInv, shares \in ShareDocs, HeldTypes, request.pc \in Applying, Fails
    PROVE  shares' \in ShareDocs /\ HeldTypes'
<1>1. request = [pc |-> request.pc, task |-> request.task, doc |-> shares, back |-> request.back,
                 stale |-> request.stale, missing |-> request.missing]
  BY DEF DocInv, RequestInv, Asking, Applying, Resting
<1>2. CASE request.back = <<>>
  BY <1>2 DEF Fails, Answer, HeldTypes, Resting, Applying
<1>3. CASE request.back # <<>>
  <2>1. PICK old : old = request.back[1] /\ old \in ShareDocs
    BY <1>3 DEF HeldTypes
  <2>2. shares' = old /\ request' = [request EXCEPT !.pc = "survey", !.doc = old, !.back = <<>>,
                                                    !.stale = {}, !.missing = {}]
    BY <1>3, <2>1 DEF Fails
  <2>3. request' = [pc |-> "survey", task |-> request.task, doc |-> old, back |-> <<>>,
                    stale |-> {}, missing |-> {}]
    BY <1>1, <2>2
  <2> QED
    BY <2>1, <2>2, <2>3 DEF HeldTypes
<1> QED
  BY <1>2, <1>3

\* A request that goes on with what it has, or is not one that applies.
LEMMA GoesOnTyped ==
    ASSUME HeldTypes, DocInv,
           \/ UNCHANGED request
           \/ request'.pc \notin Applying
           \/ /\ request.pc \in Applying /\ request'.back = request.back
              /\ request'.missing \subseteq request.missing
    PROVE  HeldTypes'
  BY DEF HeldTypes

\* Dispatcher._share_add, _share_remove, share.apply and the start of a teardown.
LEMMA BeginTyped == ASSUME ServingTypes, DocInv, Begin PROVE ServingTypes'
<1>1. request.pc = "begin" /\ UNCHANGED <<points, published>>
  BY DEF Begin
<1>2. request = [pc |-> request.pc, task |-> request.task] /\ request.task \in Tasks
  BY <1>1 DEF DocInv, RequestInv, Applying, Resting
<1>3. ASSUME NEW doc \in ShareDocs, NEW back \in {<<>>, <<shares>>}, shares' = doc, Apply(doc, back)
      PROVE  ServingTypes'
  <2>1. request' = [pc |-> "survey", task |-> request.task, doc |-> doc, back |-> back,
                    stale |-> {}, missing |-> {}]
    BY <1>3 DEF Apply
  <2>2. request'.back = back /\ request'.missing = {}
    BY <2>1
  <2>3. back # <<>> => back[1] = shares
    OBVIOUS
  <2>4. HeldTypes'
    BY <2>2, <2>3 DEF HeldTypes, ServingTypes
  <2> QED
    BY <1>1, <1>3, <2>4 DEF ServingTypes
<1>4. CASE Answer /\ UNCHANGED shares
  <2>1. request'.pc = "idle"
    BY <1>4 DEF Answer, Resting
  <2> QED
    BY <1>1, <1>4, <2>1 DEF ServingTypes, HeldTypes, Applying
<1>5. CASE To("teardown") /\ UNCHANGED shares
  <2>1. request'.pc = "teardown"
    BY <1>2, <1>5 DEF To
  <2> QED
    BY <1>1, <1>5, <2>1 DEF ServingTypes, HeldTypes, Applying
<1>6. CASE request.task.what = "add" /\ shares' = [shares EXCEPT ![request.task.name] = request.task.share]
           /\ Apply(shares', <<shares>>)
  <2>1. request.task.share \in [folder : Folders \union {NoFolder}, readOnly : BOOLEAN, on : BOOLEAN]
    BY <1>2, <1>6 DEF Tasks
  <2>2. shares' \in ShareDocs
    BY <1>6, <2>1 DEF ServingTypes, ShareDocs
  <2> QED
    BY <1>3, <1>6, <2>2
<1>7. CASE shares' = [shares EXCEPT ![request.task.name] = NoShare] /\ Apply(shares', <<shares>>)
  <2>1. shares' \in ShareDocs
    BY <1>7, NoneTyped DEF ServingTypes, ShareDocs
  <2> QED
    BY <1>3, <1>7, <2>1
<1>8. CASE Apply(shares, <<>>) /\ UNCHANGED shares
  BY <1>3, <1>8 DEF ServingTypes
<1> QED
  BY <1>4, <1>5, <1>6, <1>7, <1>8 DEF Begin

\* SharepointApplier.apply until its first change, and its first verification.
LEMMA SurveyTyped == ASSUME ServingTypes, DocInv, Survey \/ VerifyPresent PROVE ServingTypes'
<1>1. request.pc \in Applying /\ UNCHANGED <<points, published>>
  BY DEF Survey, VerifyPresent, Applying
<1>2. request = [pc |-> request.pc, task |-> request.task, doc |-> shares, back |-> request.back,
                 stale |-> request.stale, missing |-> request.missing]
  BY <1>1 DEF DocInv, RequestInv, Asking, Applying, Resting
<1>3. CASE Fails
  BY <1>1, <1>3, FailsTyped DEF ServingTypes
<1>4. CASE Survey /\ ~Fails
  <2>1. PICK stale, missing : missing \subseteq ShareNames /\ UNCHANGED shares
           /\ request' = [[[request EXCEPT !.pc = "change"] EXCEPT !.stale = stale] EXCEPT !.missing = missing]
    BY <1>4 DEF Survey, Served
  <2>2. request' = [pc |-> "change", task |-> request.task, doc |-> shares, back |-> request.back,
                    stale |-> stale, missing |-> missing]
    <3>1. PICK pc, task, back, s, m :
             request = [pc |-> pc, task |-> task, doc |-> shares, back |-> back, stale |-> s, missing |-> m]
      BY <1>2
    <3>2. request' = [pc |-> "change", task |-> task, doc |-> shares, back |-> back,
                      stale |-> stale, missing |-> missing]
      BY <2>1, <3>1
    <3>3. request.task = task /\ request.back = back
      BY <3>1
    <3> QED
      BY <3>2, <3>3
  <2>3. HeldTypes'
    BY <1>1, <2>1, <2>2 DEF HeldTypes, ServingTypes
  <2> QED
    BY <1>1, <2>1, <2>3 DEF ServingTypes
<1>5. CASE VerifyPresent /\ ~Fails
  <2>1. To("readOnly") /\ UNCHANGED shares
    BY <1>5 DEF VerifyPresent
  <2>2. request' = [pc |-> "readOnly", task |-> request.task, doc |-> shares, back |-> request.back,
                    stale |-> request.stale, missing |-> request.missing]
    BY <1>2, <2>1 DEF To
  <2>3. HeldTypes'
    BY <1>1, <2>2, GoesOnTyped DEF ServingTypes
  <2> QED
    BY <1>1, <2>1, <2>3 DEF ServingTypes
<1> QED
  BY <1>3, <1>4, <1>5

\* The helper's share.unpublish.
LEMMA UnpublishTyped ==
    ASSUME points \in MacPoints, published \subseteq ShareNames, NEW n,
           Unpublishes(n) \/ UnpublishFails(n)
    PROVE  points' \in MacPoints /\ published' \subseteq ShareNames
<1>1. CASE UNCHANGED machine
  BY <1>1
<1>2. ASSUME NEW recorded \in BOOLEAN, Unpublished(n, recorded)
      PROVE  points' \in MacPoints /\ published' \subseteq ShareNames
  <2>1. points' \in MacPoints
    BY <1>2, PointTyped, NoneTyped DEF Unpublished
  <2> QED
    BY <1>2, <2>1 DEF Unpublished
<1> QED
  BY <1>1, <1>2 DEF Unpublishes, UnpublishFails

\* The helper's share.publish.
LEMMA PublishTyped ==
    ASSUME ServingTypes, DocInv, request.pc = "change", NEW n \in request.missing,
           Publish(n, shares[n])
    PROVE  ServingTypes'
<1>1. request = [pc |-> request.pc, task |-> request.task, doc |-> shares, back |-> request.back,
                 stale |-> request.stale, missing |-> request.missing]
      /\ request.pc \in Applying
  BY DEF DocInv, RequestInv, Asking, Applying, Resting
<1>2. n \in ShareNames
  BY <1>1 DEF ServingTypes, HeldTypes
<1>3. PICK share : share = shares[n] /\ share.folder \in Folders \union {NoFolder} /\ share.readOnly \in BOOLEAN
  BY <1>2 DEF ServingTypes, ShareDocs
<1>4. PICK point : /\ point = [folder |-> share.folder, readOnly |-> share.readOnly, by |-> "smbpal"]
  OBVIOUS
<1>5. \A r \in BOOLEAN : [point EXCEPT !.readOnly = r]
          \in [folder : Folders \union {NoFolder}, readOnly : BOOLEAN, by : {"nobody", "person", "smbpal"}]
  BY <1>3, <1>4
<1>6. point = [point EXCEPT !.readOnly = share.readOnly]
  BY <1>4
<1>7. points' \in MacPoints /\ published' \subseteq ShareNames
  <2>1. \/ UNCHANGED points
        \/ points' = [points EXCEPT ![n] = point]
        \/ points' = [points EXCEPT ![n] = [point EXCEPT !.readOnly = FALSE]]
    BY <1>3, <1>4 DEF Publish, NotKept
  <2>2. points' \in MacPoints
    BY <1>3, <1>5, <1>6, <2>1, PointTyped DEF ServingTypes
  <2>3. published' \subseteq published \union {n}
    BY DEF Publish
  <2> QED
    BY <1>2, <2>2, <2>3 DEF ServingTypes
<1>8. shares' \in ShareDocs /\ HeldTypes'
  <2>1. CASE Fails
    BY <1>1, <2>1, FailsTyped DEF ServingTypes
  <2>2. CASE request' = [request EXCEPT !.missing = @ \ {n}] /\ UNCHANGED shares
    <3>1. request'.back = request.back /\ request'.missing \subseteq request.missing
      BY <1>1, <2>2
    <3> QED
      BY <1>1, <2>2, <3>1, GoesOnTyped DEF ServingTypes
  <2> QED
    BY <2>1, <2>2 DEF Publish
<1> QED
  BY <1>7, <1>8 DEF ServingTypes

\* The changes of an apply, one call to the helper after the other.
LEMMA ChangeTyped == ASSUME ServingTypes, DocInv, Change PROVE ServingTypes'
<1>1. request = [pc |-> request.pc, task |-> request.task, doc |-> shares, back |-> request.back,
                 stale |-> request.stale, missing |-> request.missing]
      /\ request.pc = "change" /\ request.pc \in Applying
  BY DEF Change, DocInv, RequestInv, Asking, Applying, Resting
<1>2. ASSUME NEW n \in request.stale, Unpublishes(n), request' = [request EXCEPT !.stale = @ \ {n}],
             UNCHANGED shares
      PROVE  ServingTypes'
  <2>1. request'.back = request.back /\ request'.missing = request.missing
    BY <1>1, <1>2
  <2>2. HeldTypes'
    BY <1>1, <2>1, GoesOnTyped DEF ServingTypes
  <2> QED
    BY <1>2, <2>2, UnpublishTyped DEF ServingTypes
<1>3. ASSUME NEW n \in request.stale, UnpublishFails(n), Fails PROVE ServingTypes'
  BY <1>1, <1>3, UnpublishTyped, FailsTyped DEF ServingTypes
<1>4. ASSUME NEW n \in request.missing, Publish(n, request.doc[n]) PROVE ServingTypes'
  <2>1. request.doc = shares
    BY <1>1
  <2> QED
    BY <1>1, <1>4, <2>1, PublishTyped
<1>5. CASE To("present") /\ UNCHANGED <<shares, machine, grant>>
  <2>1. request' = [pc |-> "present", task |-> request.task, doc |-> shares, back |-> request.back,
                    stale |-> request.stale, missing |-> request.missing]
    BY <1>1, <1>5 DEF To
  <2>2. HeldTypes'
    BY <1>1, <2>1, GoesOnTyped DEF ServingTypes
  <2> QED
    BY <1>5, <2>2 DEF ServingTypes
<1> QED
  BY <1>2, <1>3, <1>4, <1>5 DEF Change

\* The last verification, and a teardown.
LEMMA EndsTyped == ASSUME ServingTypes, DocInv, VerifyReadOnly \/ Teardown PROVE ServingTypes'
<1>1. CASE VerifyReadOnly
  <2>1. request.pc \in Applying
    BY <1>1 DEF VerifyReadOnly, Applying
  <2>2. PICK gone : \/ UNCHANGED machine
                    \/ /\ points' = [n \in ShareNames |-> IF n \in gone THEN NoPoint ELSE points[n]]
                       /\ published' = published \ gone
    BY <1>1 DEF VerifyReadOnly
  <2>3. points' \in MacPoints /\ published' \subseteq ShareNames
    BY <2>2, NoneTyped DEF ServingTypes, MacPoints
  <2>4. CASE Fails
    BY <2>1, <2>3, <2>4, FailsTyped DEF ServingTypes
  <2>5. CASE Answer /\ UNCHANGED shares
    <3>1. request'.pc \notin Applying
      BY <2>5 DEF Answer, Resting, Applying
    <3> QED
      BY <2>3, <2>5, <3>1, GoesOnTyped DEF ServingTypes
  <2> QED
    BY <1>1, <2>4, <2>5 DEF VerifyReadOnly
<1>2. CASE Teardown
  <2>1. request.pc = "teardown" /\ UNCHANGED shares
    BY <1>2 DEF Teardown
  <2>2. UNCHANGED request \/ request'.pc \notin Applying
    BY <1>2 DEF Teardown, Answer, Resting, Applying
  <2>3. points' \in MacPoints /\ published' \subseteq ShareNames
    <3>1. CASE UNCHANGED machine
      BY <3>1 DEF ServingTypes
    <3>2. CASE \E n \in published : Unpublishes(n) \/ UnpublishFails(n)
      BY <3>2, UnpublishTyped DEF ServingTypes
    <3> QED
      BY <1>2, <3>1, <3>2 DEF Teardown
  <2> QED
    BY <2>1, <2>2, <2>3, GoesOnTyped DEF ServingTypes
<1> QED
  BY <1>1, <1>2

\* Who asks and is let, and the person at the Mac.
LEMMA OthersTyped ==
    ASSUME ServingTypes, DocInv,
           \/ \E task \in Tasks, root \in BOOLEAN : Ask(task, root)
           \/ Prompt \/ CheckGrant \/ GrantDies
           \/ \E n \in ShareNames, f \in Folders : PersonShares(n, f)
           \/ \E n \in ShareNames : PersonEdits(n)
           \/ \E f \in Folders : PersonMoves(f)
    PROVE  ServingTypes'
<1>1. UNCHANGED <<shares, published>>
  BY DEF Ask, Prompt, CheckGrant, GrantDies, PersonShares, PersonEdits, PersonMoves
<1>2. HeldTypes'
  <2>1. CASE UNCHANGED request
    BY <2>1, GoesOnTyped DEF ServingTypes
  <2>2. CASE \E task \in Tasks, root \in BOOLEAN : Ask(task, root)
    BY <2>2, GoesOnTyped DEF ServingTypes, Ask, Applying
  <2>3. CASE Prompt \/ CheckGrant
    <3>1. request.pc \in Asking
      BY <2>3 DEF Prompt, CheckGrant, Asking
    <3>2. request = [pc |-> request.pc, task |-> request.task] \/ request.pc = "begin"
      BY <3>1 DEF DocInv, RequestInv, Resting, Applying, Asking
    <3>3. request'.pc \in {"check", "begin", "idle"}
      BY <2>3, <3>1, <3>2 DEF Prompt, CheckGrant, To, Answer, Resting
    <3> QED
      BY <3>3, GoesOnTyped DEF ServingTypes, Applying
  <2> QED
    BY <2>1, <2>2, <2>3 DEF GrantDies, PersonShares, PersonEdits, PersonMoves
<1>3. points' \in MacPoints
  <2>1. CASE UNCHANGED points
    BY <2>1 DEF ServingTypes
  <2>2. ASSUME NEW n \in ShareNames, NEW f \in Folders, PersonShares(n, f) PROVE points' \in MacPoints
    BY <2>2, PointTyped DEF PersonShares, ServingTypes
  <2>3. ASSUME NEW n \in ShareNames, PersonEdits(n) PROVE points' \in MacPoints
    <3>1. CASE points' = [points EXCEPT ![n] = NoPoint]
      BY <3>1, PointTyped, NoneTyped DEF ServingTypes
    <3>2. CASE points' = [points EXCEPT ![n].readOnly = ~@]
      <4>1. PICK p : p = points[n] /\ p \in [folder : Folders \union {NoFolder}, readOnly : BOOLEAN,
                                            by : {"nobody", "person", "smbpal"}]
        BY DEF ServingTypes, MacPoints
      <4>2. PICK b \in BOOLEAN : b = ~p.readOnly
        BY <4>1
      <4>3. points' = [points EXCEPT ![n] = [p EXCEPT !.readOnly = b]]
        BY <3>2, <4>1, <4>2
      <4> QED
        BY <4>1, <4>2, <4>3, PointTyped DEF ServingTypes
    <3> QED
      BY <2>3, <3>1, <3>2 DEF PersonEdits
  <2> QED
    BY <2>1, <2>2, <2>3 DEF Ask, Prompt, CheckGrant, GrantDies, PersonMoves
<1> QED
  BY <1>1, <1>2, <1>3 DEF ServingTypes

\* Every variable holds what the code can put in it.
THEOREM ServingTyped == ServingSpec => []ServingTypeOK
<1>1. ServingInit => ServingTypes
  BY NoneTyped DEF ServingInit, ServingTypes, ShareDocs, MacPoints, HeldTypes, Resting, Applying
<1>2. ConfiguredInv /\ ServingTypes /\ [ServingNext]_serving => ServingTypes'
  <2> SUFFICES ASSUME ConfiguredInv, ServingTypes, [ServingNext]_serving PROVE ServingTypes'
    OBVIOUS
  <2>1. DocInv
    BY DEF ConfiguredInv
  <2>2. CASE UNCHANGED serving
    BY <2>2 DEF serving, ServingTypes, HeldTypes
  <2>3. CASE ServingNext
    BY <2>1, <2>3, BeginTyped, SurveyTyped, ChangeTyped, EndsTyped, OthersTyped DEF ServingNext, ByHelper
  <2> QED
    BY <2>2, <2>3
<1>3. ConfiguredInv /\ ServingTypes => ServingTypeOK
  <2> SUFFICES ASSUME ConfiguredInv, ServingTypes PROVE ServingTypeOK
    OBVIOUS
  <2>1. request.pc \in {"idle", "prompt", "check", "begin", "survey", "change", "present", "readOnly", "teardown"}
    BY DEF ConfiguredInv, DocInv, RequestInv, Asking, Applying, Resting
  <2> QED
    BY <2>1 DEF ConfiguredInv, KindInv, ServingTypes, ServingTypeOK, ShareDocs, MacPoints
<1> QED
  BY <1>1, <1>2, <1>3, InitConfigured, NextConfigured, OwnershipIsKept, PTL DEF ServingSpec
=============================================================================
