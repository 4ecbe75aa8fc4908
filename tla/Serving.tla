------------------------------ MODULE Serving ------------------------------
(***************************************************************************)
(* Sharing folders on a Mac.  A client asks, is told which right it lacks, *)
(* prompts for it and asks again with a grant that it holds open           *)
(* (ipc/client.py, system/authorization.py).  The daemon saves the config  *)
(* and applies it (daemon/handlers.py, sharepoints/apply.py), a call to    *)
(* the privileged helper for a change, and the helper verifies the grant   *)
(* each time and keeps the list of what it published                       *)
(* (helper/smbpal-helper.c).  Whoever owns the Mac edits the same          *)
(* sharepoints in System Settings.                                         *)
(***************************************************************************)
EXTENDS Naturals, FiniteSets

CONSTANTS
    ShareNames,
    Folders,
    NoFolder,
    MaxAsks,        \* bound: requests
    MaxEdits,       \* bound: what people change by hand
    MaxFailures     \* bound: calls and commands that fail, grants that die

ASSUME ServingBounds == {MaxAsks, MaxEdits, MaxFailures} \subseteq Nat
ASSUME NoFolderIsNone == NoFolder \notin Folders

VARIABLES
    shares,         \* the config
    points,         \* the sharepoints of this Mac, as `sharing -l` lists them
    published,      \* the helper's list: the names it published
    shareable,      \* the folders that the helper would share
    grant,          \* what the client holds: a form is good while it is open
    request,        \* the request under way, and how far it is
    drift,          \* history: something came between the config and the points
    reused,         \* history: names of ours that a person made a point at
    asks, edits, failures

counters == <<asks, edits, failures>>
machine  == <<points, published>>
serving  == <<shares, machine, shareable, grant, request, drift, reused, counters>>

NoShare == [folder |-> NoFolder, readOnly |-> FALSE, on |-> FALSE]
NoPoint == [folder |-> NoFolder, readOnly |-> FALSE, by |-> "nobody"]
Resting == [pc |-> "idle"]

ServingInit ==
    /\ shares = [n \in ShareNames |-> NoShare] /\ points = [n \in ShareNames |-> NoPoint]
    /\ published = {} /\ shareable = Folders /\ grant = "none" /\ request = Resting
    /\ drift = "none" /\ reused = {} /\ asks = 0 /\ edits = 0 /\ failures = 0

\* What can go wrong, and from then on is between the config and the points.
Failure == failures < MaxFailures /\ failures' = failures + 1 /\ drift' = "new"
NoFailure == UNCHANGED <<failures, drift>>

To(pc)  == request' = [request EXCEPT !.pc = pc]
\* The client closes its grant when it has an answer.
Answer  == request' = Resting /\ grant' = "none"

-----------------------------------------------------------------------------
(***************************************************************************)
(* May act: a refusal names the right, and the second request carries it.  *)
(***************************************************************************)
Tasks ==
    [what : {"add"}, name : ShareNames, share : [folder : Folders, readOnly : BOOLEAN, on : BOOLEAN]]
        \union [what : {"remove"}, name : ShareNames] \union [what : {"apply", "teardown"}]

\* Authoriser.check: root is let past, and has nothing to show the helper.
Ask(task, root) ==
    /\ request = Resting /\ asks < MaxAsks /\ asks' = asks + 1
    /\ request' = [pc |-> IF root THEN "begin" ELSE "prompt", task |-> task]
    /\ UNCHANGED <<shares, machine, shareable, grant, drift, reused, edits, failures>>

\* authorization.grant: the dialog.
Prompt ==
    /\ request.pc = "prompt"
    /\ \/ To("check") /\ grant' = "live"
       \/ request' = Resting /\ UNCHANGED grant
    /\ UNCHANGED <<shares, machine, shareable, drift, reused, counters>>

\* Helper.check_grant: anything but a clean OK is a no.
CheckGrant ==
    /\ request.pc = "check"
    /\ \/ grant = "live" /\ To("begin") /\ UNCHANGED grant /\ NoFailure
       \/ grant # "live" /\ Answer /\ NoFailure
       \/ Answer /\ Failure
    /\ UNCHANGED <<shares, machine, shareable, reused, asks, edits>>

\* The client gives up or dies, and the form no longer imports.
GrantDies ==
    /\ grant = "live" /\ grant' = "dead" /\ Failure
    /\ UNCHANGED <<shares, machine, shareable, request, reused, asks, edits>>

-----------------------------------------------------------------------------
(***************************************************************************)
(* The request: saved first, then applied.                                 *)
(***************************************************************************)
\* SharepointApplier.unmanaged_shares.
Unmanaged == {n \in ShareNames : points[n] # NoPoint} \ published
Served(doc) == {n \in ShareNames : doc[n].on}

\* The applier is started on a document; a failure goes back to another.
Apply(doc, back) ==
    /\ request' = [pc |-> "survey", task |-> request.task, doc |-> doc, back |-> back,
                   stale |-> {}, missing |-> {}]
    /\ UNCHANGED grant

\* Dispatcher._refuse_to_shadow: not being able to ask is not a collision.
Shadows(n) == n \in Unmanaged

\* Dispatcher._share_add and _share_remove, as far as the save; _apply.
Begin ==
    /\ request.pc = "begin"
    /\ LET task == request.task IN
       \/ /\ task.what = "add"
          /\ \/ ~Shadows(task.name) /\ NoFailure
             \/ Shadows(task.name) /\ Failure
          /\ IF shares[task.name] # NoShare
             THEN Answer /\ UNCHANGED shares
             ELSE /\ shares' = [shares EXCEPT ![task.name] = task.share]
                  /\ Apply(shares', <<shares>>)
       \/ /\ task.what = "add" /\ Shadows(task.name)
          /\ Answer /\ UNCHANGED shares /\ NoFailure
       \/ /\ task.what = "remove" /\ NoFailure
          /\ IF shares[task.name] = NoShare
             THEN Answer /\ UNCHANGED shares
             ELSE /\ shares' = [shares EXCEPT ![task.name] = NoShare]
                  /\ Apply(shares', <<shares>>)
       \/ /\ task.what = "apply" /\ NoFailure
          /\ Apply(shares, <<>>) /\ UNCHANGED shares
       \/ /\ task.what = "teardown" /\ NoFailure
          /\ IF published # {} /\ grant = "none" THEN Answer ELSE To("teardown") /\ UNCHANGED grant
          /\ UNCHANGED shares
    /\ UNCHANGED <<machine, shareable, reused, asks, edits>>

\* Dispatcher._commit: the config goes back, and what it says is applied again
\* with the same grant.  A second failure is logged and that is all.
Fails ==
    IF request.back # <<>>
    THEN /\ shares' = request.back[1]
         /\ request' = [request EXCEPT !.pc = "survey", !.doc = request.back[1], !.back = <<>>,
                                       !.stale = {}, !.missing = {}]
         /\ UNCHANGED grant
    ELSE Answer /\ UNCHANGED shares

Serves(n, share) == points[n].folder = share.folder /\ points[n].readOnly = share.readOnly

\* (bug) Only the folder of a sharepoint is compared.
StaleByFolder(doc) == {n \in published : n \notin Served(doc) \/ points[n].folder # doc[n].folder}
\* What the helper published and the document does not ask for as it is.
Stale(doc) == {n \in published : n \notin Served(doc) \/ ~Serves(n, doc[n])}

\* SharepointApplier.apply until its first change: what the helper reports is
\* read, and refused before anything is touched.
Survey ==
    /\ request.pc = "survey"
    /\ LET doc == request.doc
           stale == Stale(doc)
           missing == {n \in Served(doc) : n \notin published \/ n \in stale}
           refused == \/ \E n \in Served(doc) : doc[n].folder \notin shareable
                      \/ missing \intersect Unmanaged # {}
                      \/ stale \union missing # {} /\ grant = "none" IN
       \/ ~refused /\ request' = [request EXCEPT !.pc = "change", !.stale = stale, !.missing = missing]
          /\ drift' = (IF drift = "none" THEN "none" ELSE "seen")
          /\ UNCHANGED <<shares, grant, failures>>
       \/ refused /\ Fails /\ NoFailure
       \/ Fails /\ Failure
    /\ UNCHANGED <<machine, shareable, reused, asks, edits>>

-----------------------------------------------------------------------------
(***************************************************************************)
(* The helper: a verb is one step, and its answer can be lost.             *)
(***************************************************************************)
\* share.unpublish takes away what is listed, whoever has made it since; a
\* list that cannot be written leaves the name on it.
Unpublished(n, recorded) ==
    /\ points' = [points EXCEPT ![n] = NoPoint]
    /\ published' = IF recorded THEN published \ {n} ELSE published

Unpublishes(n) == grant = "live" /\ n \in published /\ Unpublished(n, TRUE) /\ NoFailure

\* Refused, done and not known to be, or not done.
UnpublishFails(n) ==
    \/ /\ grant = "live" /\ n \in published /\ Failure
       /\ \E recorded \in BOOLEAN : Unpublished(n, recorded)
    \/ (grant # "live" \/ n \notin published) /\ NoFailure /\ UNCHANGED machine
    \/ Failure /\ UNCHANGED machine

\* (bug) A name that is taken is published over.
FreeOrNot(n) == TRUE
\* share.publish looks for the record itself.
Free(n) == points[n] = NoPoint

\* (bug) The list is not looked after: a sharepoint that it misses stays.
KeptUnlisted(n, point) == points' = [points EXCEPT ![n] = point]
\* A sharepoint the helper cannot remember "does not get to stay".
NotKept(n, point) == UNCHANGED points

Publish(n, share) ==
    LET point == [folder |-> share.folder, readOnly |-> share.readOnly, by |-> "smbpal"] IN
    IF grant = "live" /\ share.folder \in shareable /\ Free(n)
    THEN \/ /\ points' = [points EXCEPT ![n] = point] /\ published' = published \union {n}
            /\ request' = [request EXCEPT !.missing = @ \ {n}]
            /\ NoFailure /\ UNCHANGED <<shares, grant>>
         \* macOS takes it and serves it writable
         \/ /\ points' = [points EXCEPT ![n] = [point EXCEPT !.readOnly = FALSE]]
            /\ published' = published \union {n}
            /\ request' = [request EXCEPT !.missing = @ \ {n}]
            /\ Failure /\ UNCHANGED <<shares, grant>>
         \* the answer is lost
         \/ /\ points' = [points EXCEPT ![n] = point] /\ published' = published \union {n}
            /\ Fails /\ Failure
         \* the list cannot be written
         \/ NotKept(n, point) /\ UNCHANGED published /\ Fails /\ Failure
    ELSE Fails /\ NoFailure /\ UNCHANGED machine

\* SharepointApplier.apply: the stale ones first, then the missing ones.
Change ==
    /\ request.pc = "change"
    /\ \/ \E n \in request.stale :
          \/ /\ Unpublishes(n) /\ request' = [request EXCEPT !.stale = @ \ {n}]
             /\ UNCHANGED <<shares, grant>>
          \/ UnpublishFails(n) /\ Fails
       \/ /\ request.stale = {}
          /\ \E n \in request.missing : Publish(n, request.doc[n])
       \/ /\ request.stale \union request.missing = {}
          /\ To("present") /\ UNCHANGED <<shares, machine, grant>> /\ NoFailure
    /\ UNCHANGED <<shareable, reused, asks, edits>>

\* SharepointApplier._verify_present.
VerifyPresent ==
    /\ request.pc = "present"
    /\ \/ /\ \A n \in Served(request.doc) : points[n].folder = request.doc[n].folder
          /\ To("readOnly") /\ UNCHANGED <<shares, grant>> /\ NoFailure
       \/ /\ \E n \in Served(request.doc) : points[n].folder # request.doc[n].folder
          /\ Fails /\ NoFailure
       \/ Fails /\ Failure
    /\ UNCHANGED <<machine, shareable, reused, asks, edits>>

\* SharepointApplier._verify_read_only: what came back writable is unpublished
\* before the change fails.
VerifyReadOnly ==
    /\ request.pc = "readOnly"
    /\ LET writable == {n \in Served(request.doc) : request.doc[n].readOnly /\ ~points[n].readOnly}
           gone == IF grant = "live" THEN writable \intersect published ELSE {} IN
       \/ /\ writable = {} /\ Answer
          /\ drift' = (IF drift = "seen" THEN "none" ELSE drift)
          /\ UNCHANGED <<shares, machine, failures>>
       \/ /\ writable # {} /\ Fails /\ NoFailure
          /\ points' = [n \in ShareNames |-> IF n \in gone THEN NoPoint ELSE points[n]]
          /\ published' = published \ gone
       \/ Fails /\ Failure /\ UNCHANGED machine
    /\ UNCHANGED <<shareable, reused, asks, edits>>

\* SharepointApplier.teardown: the config is kept, and nothing of it served.
Teardown ==
    /\ request.pc = "teardown"
    /\ IF published = {}
       THEN Answer /\ drift' = "new" /\ UNCHANGED <<machine, failures>>
       ELSE \E n \in published :
               \/ Unpublishes(n) /\ UNCHANGED <<request, grant>>
               \/ UnpublishFails(n) /\ Answer
    /\ UNCHANGED <<shares, shareable, reused, asks, edits>>

-----------------------------------------------------------------------------
(***************************************************************************)
(* The person at the Mac.                                                  *)
(***************************************************************************)
ByHand == edits < MaxEdits /\ edits' = edits + 1

PersonShares(n, f) ==
    /\ ByHand /\ points[n] = NoPoint
    /\ points' = [points EXCEPT ![n] = [folder |-> f, readOnly |-> FALSE, by |-> "person"]]
    /\ reused' = reused \union ({n} \intersect published) /\ drift' = "new"
    /\ UNCHANGED <<shares, published, shareable, grant, request, asks, failures>>

PersonEdits(n) ==
    /\ ByHand /\ points[n] # NoPoint
    /\ \/ points' = [points EXCEPT ![n] = NoPoint]
       \/ points' = [points EXCEPT ![n].readOnly = ~@]
    /\ drift' = "new"
    /\ UNCHANGED <<shares, published, shareable, grant, request, reused, asks, failures>>

PersonMoves(f) ==
    /\ ByHand /\ shareable' = (IF f \in shareable THEN shareable \ {f} ELSE shareable \union {f})
    /\ drift' = "new"
    /\ UNCHANGED <<shares, machine, grant, request, reused, asks, failures>>

ByHelper == Change \/ VerifyReadOnly \/ Teardown

ServingNext ==
    \/ \E task \in Tasks, root \in BOOLEAN : Ask(task, root)
    \/ Prompt \/ CheckGrant \/ GrantDies \/ Begin \/ Survey \/ VerifyPresent \/ ByHelper
    \/ \E n \in ShareNames, f \in Folders : PersonShares(n, f)
    \/ \E n \in ShareNames : PersonEdits(n)
    \/ \E f \in Folders : PersonMoves(f)

ServingSpec == ServingInit /\ [][ServingNext]_serving

-----------------------------------------------------------------------------
\* Every variable holds what the code can put in it.
ServingTypeOK ==
    /\ shares \in [ShareNames -> [folder : Folders \union {NoFolder}, readOnly : BOOLEAN, on : BOOLEAN]]
    /\ points \in [ShareNames -> [folder : Folders \union {NoFolder}, readOnly : BOOLEAN,
                                  by : {"nobody", "person", "smbpal"}]]
    /\ published \subseteq ShareNames /\ grant \in {"none", "live", "dead"}
    /\ request.pc \in {"idle", "prompt", "check", "begin", "survey", "change", "present", "readOnly", "teardown"}

\* Dispatcher._commit and SharepointApplier.apply: a request that was answered,
\* done or refused or undone, leaves the Mac serving the config and nothing
\* else, unless something came in between and no apply has finished since.
ServedAsConfigured ==
    (request = Resting /\ drift = "none") =>
        /\ published = Served(shares)
        /\ \A n \in published : (points[n].by = "smbpal" \/ n \in reused) /\ Serves(n, shares[n])

\* "A sharepoint SMBPal cannot remember publishing is one uninstall would leave
\* behind": whatever fails on the way, the helper lists what it published.
NothingForgotten == \A n \in ShareNames : points[n].by = "smbpal" => n \in published

\* A sharepoint that the person made is not SMBPal's to change, unless it has
\* the name of one that SMBPal published and the person took away.
PersonsPointStays ==
    [][ByHelper => \A n \in ShareNames \ reused : points[n].by = "person" => points'[n] = points[n]]_serving
=============================================================================
