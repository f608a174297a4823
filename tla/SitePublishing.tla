---------------------------- MODULE SitePublishing ----------------------------
(***************************************************************************)
(* Publication and deployment of the generated sites of one migration      *)
(* workspace (app/services/seo_migration.py), with the GitHub branch they  *)
(* are pushed to and the deployment workflow that rolls the branch out.    *)
(* A call loads its rows at the start, talks to GitHub, and writes the     *)
(* columns it changed and the whole history list it loaded at the end; a   *)
(* database transaction without such a call in it is one step.             *)
(*                                                                         *)
(*   artifact    version rows                                              *)
(*   workspace   last-published and last-deployed pointers and, of the     *)
(*               publish and deploy histories, what the calls look up      *)
(*   repo        commits of the managed branch, oldest first: the site     *)
(*               files and the certificate its manifest names              *)
(*   dispatched  commits a deployment workflow was started on              *)
(*   live        commit that was rolled out last, 0 before the first       *)
(*   binding     selected certificate of the site, which of them were      *)
(*               ever bound, whether its asset counts as published, and    *)
(*               the manifest and serving state recorded                   *)
(*   call        publish, deploy or refresh call per worker                *)
(*   faults      crashes and lost answers so far                           *)
(***************************************************************************)
EXTENDS Naturals, Sequences, FiniteSets

CONSTANTS
    Artifact, Cert, Worker, None,
    Offered,     \* bound: the calls clients of this instance make
    Erring,      \* bound: the GitHub calls that may fail, by the phase they end
    MaxCommits,  \* bound: commits of the branch
    MaxFaults,   \* bound: crashes and lost answers
    HistoriesFull  \* bound: whether the histories have reached the 80 items they keep

ASSUME PublishingAssumption ==
    /\ Offered \subseteq {"approve", "publish", "deploy", "refresh", "delete",
                          "select", "fail", "verify", "rollout"}
    /\ Erring \subseteq {"branch", "commit", "workflow", "dispatch"}
    /\ MaxCommits \in Nat \ {0}
    /\ MaxFaults \in Nat
    /\ HistoriesFull \in BOOLEAN
    /\ None \notin Artifact \cup Cert

VARIABLES artifact, workspace, repo, dispatched, live, binding, call, faults

database == <<artifact, workspace, binding>>
github == <<repo, dispatched, live>>
vars == <<artifact, workspace, repo, dispatched, live, binding, call, faults>>

-----------------------------------------------------------------------------
(* Rows and commits *)

ArtifactRow ==
    [exists : BOOLEAN, approved : BOOLEAN,
     publish : {"not_published", "published", "publish_failed"},
     sha : 0 .. MaxCommits,
     deploy : {"not_deployed", "deploy_requested", "deploy_failed"}]

\* Items of an artifact in the histories: only failed publications, a
\* successful one, one whose workflow could not be verified; only finished
\* deployments, one that counts as running.  Looked up are: any successful
\* one, whether the latest of them was verified, any that runs, any at all.
WorkspaceRow ==
    [published : Artifact \cup {None}, deployed : Artifact \cup {None},
     publishes : [Artifact -> {"none", "failed", "published", "unverified"}],
     deploys : [Artifact -> {"none", "over", "running"}]]

BindingRow ==
    [cert : Cert \cup {None}, used : SUBSET Cert, published : BOOLEAN,
     inManifest : BOOLEAN, serving : BOOLEAN]

Commit == [files : Artifact \cup {None}, cert : Cert \cup {None}]

Tip == Len(repo)

NewArtifact == [exists |-> TRUE, approved |-> FALSE, publish |-> "not_published",
                sha |-> 0, deploy |-> "not_deployed"]

Published(history) == history \in {"published", "unverified"}

\* A flush writes only the columns whose value differs from the loaded one.
Flush(loaded, new, stored) == IF new = loaded THEN stored ELSE new

\* What a version may have left in a history when its oldest item is dropped.
Left(items) ==
    CASE items \in {"published", "unverified"} -> {"failed", "none"}
      [] items = "running"                     -> {"over", "none"}
      [] OTHER                                 -> {"none"}

\* A history before an item is appended: of the list only the newest 80 items
\* are kept, so a full one loses the oldest, of some version.
Trimmed(history) ==
    {history} \cup
    IF HistoriesFull
    THEN UNION {{[history EXCEPT ![a] = left] : left \in Left(history[a])} : a \in Artifact}
    ELSE {}

\* The items of a version after one that failed or is over.
WithFailure(items) == IF items = "none" THEN "failed" ELSE items
WithOver(items) == IF items = "none" THEN "over" ELSE items

-----------------------------------------------------------------------------
(* Calls.  mode: a publish route ("manual"), the content-only publication of *)
(* the github gate ("content"), the later gates' publication, for which a    *)
(* duplicate is a success ("reconcile").                                     *)

Phase == {"idle", "branch", "commit", "workflow", "record", "running", "dispatch", "requested"}
Result == {"none", "ok", "refused", "error", "broken"}

Call == [op : {"none", "publish", "deploy", "refresh"}, phase : Phase,
         mode : {"manual", "content", "reconcile", "release"},
         artifact : Artifact \cup {None}, dup : BOOLEAN,
         row : ArtifactRow, space : WorkspaceRow, cert : Cert \cup {None},
         parent : 0 .. MaxCommits, verified : BOOLEAN, marked : Cert \cup {None},
         result : Result]

NoSpace == [published |-> None, deployed |-> None,
            publishes |-> [a \in Artifact |-> "none"],
            deploys |-> [a \in Artifact |-> "none"]]

\* A call that is over keeps its result for the release that made it.
Over(result) ==
    [op |-> "none", phase |-> "idle", mode |-> "manual", artifact |-> None, dup |-> FALSE,
     row |-> NewArtifact, space |-> NoSpace, cert |-> None, parent |-> 0,
     verified |-> FALSE, marked |-> None, result |-> result]

Open(op, phase, mode, a) ==
    [op |-> op, phase |-> phase, mode |-> mode, artifact |-> a,
     dup |-> op = "publish" /\ Published(workspace.publishes[a]),
     row |-> artifact[a], space |-> workspace,
     cert |-> IF op = "publish" /\ binding.published THEN binding.cert ELSE None, parent |-> 0,
     verified |-> FALSE, marked |-> None, result |-> "none"]

Ended(mode, result) == Over(IF mode = "manual" THEN "none" ELSE result)

In(w, phase) == call[w].phase = phase
Becomes(w, c) == call' = [call EXCEPT ![w] = c]
GoTo(w, phase) == Becomes(w, [call[w] EXCEPT !.phase = phase])

Init ==
    /\ artifact = [a \in Artifact |-> NewArtifact]
    /\ workspace = NoSpace
    /\ repo = <<[files |-> None, cert |-> None]>>
    /\ dispatched = {}
    /\ live = 0
    /\ binding = [cert |-> None, used |-> {}, published |-> FALSE,
                  inManifest |-> FALSE, serving |-> FALSE]
    /\ call = [w \in Worker |-> Over("none")]
    /\ faults = 0

-----------------------------------------------------------------------------
(* publish_artifact_version *)

BeginPublish(w, a, mode) ==
    /\ In(w, "idle")
    /\ Becomes(w, IF artifact[a].exists /\ artifact[a].approved
                  THEN Open("publish", "branch", mode, a)
                  ELSE Ended(mode, "refused"))
    /\ UNCHANGED <<database, github, faults>>

\* ensure_repository, then the branch reference publish_files builds on; a
\* duplicate pushes no files, and is refused if it has no workflow to repair.
ReadBranch(w) ==
    /\ In(w, "branch")
    /\ Becomes(w, CASE ~call[w].dup -> [call[w] EXCEPT !.phase = "commit", !.parent = Tip]
                    [] call[w].dup /\ call[w].mode # "content" ->
                         [call[w] EXCEPT !.phase = "workflow"]
                    [] OTHER -> Ended(call[w].mode, "refused"))
    /\ UNCHANGED <<database, github, faults>>

\* The publication is recorded as failed and the call raises the error; the
\* UPDATE of a row deleted meanwhile matches nothing, and the session breaks.
RecordPublishFailure(w) ==
    LET a == call[w].artifact
        c == call[w]
    IN IF artifact[a].exists
       THEN /\ artifact' = [artifact EXCEPT ![a].publish =
                              Flush(c.row.publish, "publish_failed", @)]
            /\ \E kept \in Trimmed(c.space.publishes) :
                  workspace' = [workspace EXCEPT !.publishes =
                                  [kept EXCEPT ![a] = WithFailure(@)]]
            /\ Becomes(w, Ended(c.mode, "error"))
       ELSE Becomes(w, Ended(c.mode, "broken")) /\ UNCHANGED <<artifact, workspace>>

AfterPush(c) == IF c.mode = "content" THEN "record" ELSE "workflow"

\* Mutant: the branch update is forced.
AcceptsForced(parent) == Tip < MaxCommits

\* A non-forced branch update is accepted if the branch has not moved.
Accepts(parent) == parent = Tip /\ Tip < MaxCommits

\* One commit over the parent's tree, then the branch update.
Push(w) ==
    /\ In(w, "commit")
    /\ Accepts(call[w].parent)
    /\ repo' = Append(repo, [files |-> call[w].artifact, cert |-> repo[call[w].parent].cert])
    /\ Becomes(w, [call[w] EXCEPT !.phase = AfterPush(call[w]), !.parent = Tip + 1])
    /\ UNCHANGED <<database, dispatched, live, faults>>

\* GitHub rejects the update: the branch moved since it was read.
PushRejected(w) ==
    /\ In(w, "commit")
    /\ call[w].parent # Tip
    /\ RecordPublishFailure(w)
    /\ UNCHANGED <<binding, github, faults>>

\* The commit that makes the manifest name certificate c, if it does not yet.
Provision(c) ==
    IF repo[Tip].cert = c THEN UNCHANGED repo
    ELSE /\ Tip < MaxCommits
         /\ repo' = Append(repo, [files |-> repo[Tip].files, cert |-> c])

\* Once provisioned, the manifest of the binding that is active by now is marked;
\* the row is locked until the call commits (_mark_active_tls_manifest_published).
Recording(c, verified) ==
    [c EXCEPT !.phase = "record", !.verified = verified,
              !.marked = IF verified /\ ~binding.inManifest THEN binding.cert ELSE None]

\* ensure_deploy_workflow: the manifest gets the certificate read at the start,
\* if it counted as published; the binding is marked in any case.
ProvisionWorkflow(w) ==
    /\ In(w, "workflow")
    /\ Provision(call[w].cert)
    /\ Becomes(w, IF call[w].dup /\ call[w].mode = "manual" /\ repo' = repo
                  THEN Over("none")
                  ELSE Recording(call[w], TRUE))
    /\ UNCHANGED <<database, dispatched, live, faults>>

\* A failed provisioning is a warning after a push, a failure of a duplicate.
WorkflowError(w) ==
    /\ In(w, "workflow") /\ "workflow" \in Erring
    /\ IF call[w].dup
       THEN RecordPublishFailure(w)
       ELSE Becomes(w, Recording(call[w], FALSE)) /\ UNCHANGED <<artifact, workspace>>
    /\ UNCHANGED <<binding, github, faults>>

\* Without permission to write workflows nothing is provisioned, which leaves
\* a push unverified and a duplicate without anything to repair.
SkipWorkflow(w) ==
    /\ In(w, "workflow") /\ "workflow" \in Erring
    /\ Becomes(w, IF call[w].dup THEN Ended(call[w].mode, "refused")
                  ELSE Recording(call[w], FALSE))
    /\ UNCHANGED <<database, github, faults>>

BranchError(w) ==
    /\ \E phase \in {"branch", "commit"} \cap Erring : In(w, phase)
    /\ RecordPublishFailure(w)
    /\ UNCHANGED <<binding, github, faults>>

\* The push took effect, its answer was lost.
PushLost(w) ==
    /\ In(w, "commit")
    /\ Accepts(call[w].parent)
    /\ faults < MaxFaults /\ faults' = faults + 1
    /\ repo' = Append(repo, [files |-> call[w].artifact, cert |-> repo[call[w].parent].cert])
    /\ RecordPublishFailure(w)
    /\ UNCHANGED <<binding, dispatched, live>>

\* What the history says of the publication.
PublishItem(c) == IF c.mode # "content" /\ ~c.verified THEN "unverified" ELSE "published"

\* Mutant: the commit recorded is the one the branch points to by now.
RecordedShaOfHead(c, stored) == IF c.dup THEN stored ELSE Tip

RecordedSha(c, stored) == IF c.dup THEN stored ELSE c.parent

\* An UPDATE is due and finds its artifact row deleted.
Unmatched(c) == ~artifact[c.artifact].exists /\ (~c.dup \/ c.row.publish # "published")

RecordPublish(w) ==
    /\ In(w, "record")
    /\ LET c == call[w]
           a == c.artifact
       IN IF Unmatched(c)
          THEN Becomes(w, Ended(c.mode, "broken")) /\ UNCHANGED database
          ELSE /\ artifact' = [artifact EXCEPT
                     ![a].publish = Flush(c.row.publish, "published", @),
                     ![a].sha = RecordedSha(c, @)]
               /\ \E kept \in Trimmed(c.space.publishes) :
                     workspace' = [workspace EXCEPT
                        !.published = Flush(c.space.published, a, @),
                        !.publishes = [kept EXCEPT ![a] = PublishItem(c)]]
               /\ binding' = IF c.marked = None THEN binding
                             ELSE [binding EXCEPT !.inManifest = TRUE]
               /\ Becomes(w, Ended(c.mode, "ok"))
    /\ UNCHANGED <<github, faults>>

-----------------------------------------------------------------------------
(* deploy_artifact_version and refresh_deploy_run_status *)

\* Mutant: any artifact that was published once can be deployed.
DeployableOnce(a) ==
    /\ artifact[a].exists /\ artifact[a].approved
    /\ workspace.published # None

\* Deploy readiness.
Deployable(a) ==
    /\ artifact[a].exists /\ artifact[a].approved
    /\ artifact[a].publish = "published"
    /\ workspace.published = a
    /\ workspace.publishes[a] # "unverified"

\* An earlier deployment that counts as running is looked up on GitHub first.
BeginDeploy(w, a, mode) ==
    /\ In(w, "idle")
    /\ Becomes(w, CASE ~Deployable(a) -> Ended(mode, "refused")
                    [] Deployable(a) /\ workspace.deploys[a] = "running" ->
                         Open("deploy", "running", mode, a)
                    [] OTHER -> Open("deploy", "dispatch", mode, a))
    /\ UNCHANGED <<database, github, faults>>

BeginRefresh(w, a) ==
    /\ In(w, "idle")
    /\ artifact[a].exists
    /\ workspace.deploys[a] = "running"
    /\ Becomes(w, Open("refresh", "running", "manual", a))
    /\ UNCHANGED <<database, github, faults>>

\* The run is over or its item is stale: the history is rewritten with it
\* settled, the rows are loaded again and a deployment goes on.
SettleRun(w) ==
    /\ In(w, "running")
    /\ LET c     == call[w]
           space == [workspace EXCEPT !.deploys =
                       [c.space.deploys EXCEPT ![c.artifact] = "over"]]
       IN /\ workspace' = space
          /\ Becomes(w, IF c.op = "refresh" THEN Over("none")
                        ELSE [c EXCEPT !.phase = "dispatch", !.space = space,
                                       !.row = artifact[c.artifact]])
    /\ UNCHANGED <<artifact, binding, github, faults>>

\* The run goes on, or GitHub has no answer: a duplicate request.
RefuseRunning(w) ==
    /\ In(w, "running")
    /\ Becomes(w, Ended(call[w].mode, "refused"))
    /\ UNCHANGED <<database, github, faults>>

\* workflow_dispatch runs the workflow on the head of the branch.
Dispatch(w) ==
    /\ In(w, "dispatch")
    /\ dispatched' = dispatched \cup {Tip}
    /\ GoTo(w, "requested")
    /\ UNCHANGED <<database, repo, live, faults>>

RecordDeploy(w) ==
    /\ In(w, "requested")
    /\ LET c == call[w]
           a == c.artifact
       IN IF artifact[a].exists
          THEN /\ artifact' = [artifact EXCEPT ![a].deploy =
                                 Flush(c.row.deploy, "deploy_requested", @)]
               /\ \E kept \in Trimmed(c.space.deploys) :
                     workspace' = [workspace EXCEPT
                        !.deployed = Flush(c.space.deployed, a, @),
                        !.deploys = [kept EXCEPT ![a] = "running"]]
               /\ Becomes(w, Ended(c.mode, "ok"))
          ELSE Becomes(w, Ended(c.mode, "broken")) /\ UNCHANGED <<artifact, workspace>>
    /\ UNCHANGED <<binding, github, faults>>

RecordDeployFailure(w) ==
    LET a == call[w].artifact
        c == call[w]
    IN IF artifact[a].exists
       THEN /\ artifact' = [artifact EXCEPT ![a].deploy =
                              Flush(c.row.deploy, "deploy_failed", @)]
            /\ \E kept \in Trimmed(c.space.deploys) :
                  workspace' = [workspace EXCEPT !.deploys = [kept EXCEPT ![a] = WithOver(@)]]
            /\ Becomes(w, Ended(c.mode, "error"))
       ELSE Becomes(w, Ended(c.mode, "broken")) /\ UNCHANGED <<artifact, workspace>>

\* DNS, prerequisites or the dispatch itself failed.
DispatchError(w) ==
    /\ In(w, "dispatch") /\ "dispatch" \in Erring
    /\ RecordDeployFailure(w)
    /\ UNCHANGED <<binding, github, faults>>

DispatchLost(w) ==
    /\ In(w, "dispatch")
    /\ faults < MaxFaults /\ faults' = faults + 1
    /\ dispatched' = dispatched \cup {Tip}
    /\ RecordDeployFailure(w)
    /\ UNCHANGED <<binding, repo, live>>

-----------------------------------------------------------------------------
(* Requests that are one transaction *)

\* approve_artifact_version
Approve(a) ==
    /\ artifact[a].exists /\ ~artifact[a].approved
    /\ artifact' = [artifact EXCEPT ![a].approved = TRUE]
    /\ UNCHANGED <<workspace, binding, github, call, faults>>

\* Mutant: the histories alone say whether a draft may go.
UnreferencedInHistories(a) ==
    /\ workspace.publishes[a] = "none"
    /\ workspace.deploys[a] = "none"

\* The guards of delete_artifact_version.
Unreferenced(a) ==
    /\ artifact[a].publish # "published"
    /\ a \notin {workspace.published, workspace.deployed}
    /\ workspace.publishes[a] = "none"
    /\ workspace.deploys[a] = "none"

\* delete_artifact_version
Delete(a) ==
    /\ artifact[a].exists /\ Unreferenced(a)
    /\ artifact' = [artifact EXCEPT ![a].exists = FALSE]
    /\ UNCHANGED <<workspace, binding, github, call, faults>>

\* The binding after certificate c was selected, or republished.
Select(c) ==
    binding' = [cert |-> c, used |-> binding.used \cup {c}, published |-> TRUE,
                inManifest |-> FALSE, serving |-> FALSE]

\* A call that is about to commit has marked the binding and holds its row.
Locked == \E w \in Worker : call[w].marked # None

\* A selection (TLSCertificates): a certificate that was never bound here, or
\* the active one once more.
SelectCertificate(c) ==
    /\ c = binding.cert \/ c \notin binding.used
    /\ ~Locked
    /\ Select(c)
    /\ UNCHANGED <<artifact, workspace, github, call, faults>>

\* A request that uploads the selected certificate once more fails on Compute:
\* the asset, not the binding, is marked failed (TLSCertificates).
FailCertificate ==
    /\ binding.cert # None
    /\ binding' = [binding EXCEPT !.published = FALSE]
    /\ UNCHANGED <<artifact, workspace, github, call, faults>>

\* The endpoint serves the selected certificate.
Serves == live # 0 /\ repo[live].cert = binding.cert

\* verify_site_endpoint: the endpoint may be out of reach.
VerifyEndpoint ==
    /\ binding.cert # None
    /\ \E reached \in BOOLEAN : binding' = [binding EXCEPT !.serving = reached /\ Serves]
    /\ UNCHANGED <<artifact, workspace, github, call, faults>>

-----------------------------------------------------------------------------
\* A workflow run, possibly late or started again by hand, rolls its commit out.
Rollout ==
    /\ "rollout" \in Offered
    /\ live' \in dispatched
    /\ UNCHANGED <<database, repo, dispatched, call, faults>>

\* The process dies with its session; what GitHub did stays.
Crash(w) ==
    /\ ~In(w, "idle")
    /\ faults < MaxFaults /\ faults' = faults + 1
    /\ Becomes(w, Over("none"))
    /\ UNCHANGED <<database, github>>

\* Requests a worker that is idle serves in one transaction.
Request(a) ==
    \/ "approve" \in Offered /\ Approve(a)
    \/ "delete" \in Offered /\ Delete(a)
    \/ "select" \in Offered /\ \E c \in Cert : SelectCertificate(c)
    \/ "fail" \in Offered /\ FailCertificate
    \/ "verify" \in Offered /\ VerifyEndpoint

Begin(w, a) ==
    \/ "publish" \in Offered /\ BeginPublish(w, a, "manual")
    \/ "deploy" \in Offered /\ BeginDeploy(w, a, "manual")
    \/ "refresh" \in Offered /\ BeginRefresh(w, a)

Step(w) ==
    \/ ReadBranch(w) \/ Push(w) \/ PushRejected(w) \/ ProvisionWorkflow(w)
    \/ RecordPublish(w) \/ SettleRun(w) \/ RefuseRunning(w) \/ Dispatch(w)
    \/ RecordDeploy(w)

Error(w) ==
    \/ BranchError(w) \/ WorkflowError(w) \/ SkipWorkflow(w) \/ PushLost(w)
    \/ DispatchError(w) \/ DispatchLost(w)

Next ==
    \/ \E w \in Worker, a \in Artifact : In(w, "idle") /\ (Request(a) \/ Begin(w, a))
    \/ \E w \in Worker : Step(w) \/ Error(w) \/ Crash(w)
    \/ Rollout

Spec == Init /\ [][Next]_vars
-----------------------------------------------------------------------------
(* Properties *)

TypeOK ==
    /\ artifact \in [Artifact -> ArtifactRow]
    /\ workspace \in WorkspaceRow
    /\ repo \in Seq(Commit)
    /\ dispatched \subseteq DOMAIN repo
    /\ live \in dispatched \cup {0}
    /\ binding \in BindingRow
    /\ call \in [Worker -> Call]
    /\ faults \in 0 .. MaxFaults

\* A published version has the commit that carries its files on record, for
\* releases copy it as the commit of the exact package.
PublishedIsCommitted ==
    \A a \in Artifact : artifact[a].publish = "published"
                        => /\ artifact[a].sha \in DOMAIN repo
                           /\ repo[artifact[a].sha].files = a

\* A deployment on record was dispatched on a commit that comes after one
\* with the artifact's files.
DeployedAfterPush ==
    \A a \in Artifact : workspace.deployed = a
                        => \E n \in dispatched : \E k \in 1 .. n : repo[k].files = a

\* The pointers of the workspace name versions that exist and were approved
\* (delete_artifact_version looks a version up in the histories before it goes).
PointersExist ==
    \A a \in {workspace.published, workspace.deployed} \ {None} :
        artifact[a].exists /\ artifact[a].approved

\* What becomes of the branch and the rows is a publication log: see there.
Outline == INSTANCE PublicationLog WITH
    approved <- {a \in Artifact : artifact[a].approved},
    withdrawn <- {a \in Artifact : ~artifact[a].exists},
    log <- repo,
    commitOf <- [a \in Artifact |-> artifact[a].sha],
    status <- [a \in Artifact |-> artifact[a].publish],
    lastPublished <- workspace.published,
    lastDeployed <- workspace.deployed

\* Whatever calls overlap, fail or are lost (seo_migration.py reads rows and
\* branch, talks to GitHub and writes back): the branch only grows, each commit
\* by one approved version or one certificate; the commit on record of a
\* version has its files; a published version is not deleted; a deployment is
\* recorded after one was dispatched for its files; and only that goes live.
LogSpec == Outline!Spec
=============================================================================
