---------------------------- MODULE PreviewRelease ----------------------------
(***************************************************************************)
(* Preview releases (app/services/preview_releases.py) and the service     *)
(* that advances them gate by gate (preview_release_execution.py), on top  *)
(* of the publications and deployments they are made of.                   *)
(*                                                                         *)
(*   release  release row, operation and gates per artifact version        *)
(*   advance  create or advance request per worker                         *)
(*                                                                         *)
(* A gate opens because reconciliation finds evidence for it in the rows   *)
(* of the other services, whoever put it there; advance runs the first     *)
(* gate that is not open and reconciles again.                             *)
(***************************************************************************)
EXTENDS SitePublishing

CONSTANT
    Ingested     \* bound: what reads of the source site status may find

ASSUME ReleaseAssumption ==
    /\ Ingested \subseteq BOOLEAN /\ Ingested # {}
    /\ IsFiniteSet(Artifact)

VARIABLES release, advance

releaseVars == <<release, advance>>
allVars == <<vars, releaseVars>>

-----------------------------------------------------------------------------
(* Rows *)

GateOrder == <<"source", "draft_package", "approval", "github", "certificate",
               "dns", "deployment", "verification">>
Gate == {GateOrder[i] : i \in DOMAIN GateOrder}
GateStatus == {"waiting", "running", "ready", "action_required", "failed"}

\* number 0: no release of this artifact version.
Release == [number : 0 .. Cardinality(Artifact), gate : [Gate -> GateStatus],
            status : GateStatus, active : Gate \cup {"none"},
            sha : 0 .. MaxCommits, cert : Cert \cup {None}]

NoRelease == [number |-> 0, gate |-> [g \in Gate |-> "waiting"],
              status |-> "waiting", active |-> "none", sha |-> 0, cert |-> None]

Exists(a) == release[a].number # 0

\* Mutant: numbers are counted per version.
NextNumberOfVersion == 1

\* next_release_number
NextNumber == Cardinality({a \in Artifact : Exists(a)}) + 1

Earlier(g) == {GateOrder[i] : i \in 1 .. (CHOOSE k \in DOMAIN GateOrder : GateOrder[k] = g) - 1}

FirstIncomplete(gate) ==
    IF \A g \in Gate : gate[g] = "ready" THEN "none"
    ELSE CHOOSE g \in Gate : gate[g] # "ready" /\ \A h \in Earlier(g) : gate[h] = "ready"

-----------------------------------------------------------------------------
(* reconcile: what the rows of the other services are evidence of *)

OnGitHub(a) == artifact[a].publish = "published" /\ artifact[a].sha # 0

\* Mutant: the commit at the head of the branch.
CommitOfHead(r, a) == IF OnGitHub(a) THEN Tip ELSE r.sha

CommitOf(r, a) == IF OnGitHub(a) THEN artifact[a].sha ELSE r.sha

\* Mutant: the selection counts before the manifest is published.
InManifestSelected(c) == c # None /\ binding.cert = c /\ binding.published

\* Certificate c is selected and published, and the manifest is recorded as
\* naming it.
InManifest(c) == c # None /\ binding.cert = c /\ binding.published /\ binding.inManifest

\* Mutant: the certificate is looked up anew at each reconcile.
PinnedAnew(r) == IF InManifest(binding.cert) THEN binding.cert ELSE None

\* The first certificate found in the manifest is the certificate of the release.
Pinned(r) == IF r.cert = None /\ InManifest(binding.cert) THEN binding.cert ELSE r.cert

Deployed(a) == workspace.deployed = a /\ artifact[a].deploy = "deploy_requested"

Verified(c, a) == Deployed(a) /\ c # None /\ binding.cert = c /\ binding.serving

\* Evidence for gate g of a release of version a pinned to certificate c.
Evidence(g, c, a, ingested) ==
    CASE g = "source"                -> ingested
      [] g = "draft_package"         -> TRUE
      [] g = "approval"              -> artifact[a].approved
      [] g = "github"                -> OnGitHub(a)
      [] g = "certificate"           -> InManifest(c)
      [] g \in {"dns", "deployment"} -> Deployed(a)
      [] g = "verification"          -> Verified(c, a)

\* Mutant: a publication that failed closes the github gate again.
DisprovedGithub(g, c, a) ==
    \/ c # None /\ ~InManifest(c) /\ g \in {"certificate", "verification"}
    \/ g = "github" /\ artifact[a].publish = "publish_failed"

\* A release whose certificate is no longer the published one in the manifest.
Disproved(g, c, a) == c # None /\ ~InManifest(c) /\ g \in {"certificate", "verification"}

\* A gate without evidence stays as it is, open ones too.
GateAfter(r, g, c, a, ingested) ==
    CASE Evidence(g, c, a, ingested) -> "ready"
      [] ~Evidence(g, c, a, ingested) /\ Disproved(g, c, a) ->
           (IF g = "certificate" THEN "action_required" ELSE "waiting")
      [] OTHER -> r.gate[g]

\* Mutant: the last gate decides.
StatusOfLast(gate) ==
    CASE gate["verification"] = "ready"      -> "ready"
      [] \E g \in Gate : gate[g] = "failed" -> "failed"
      [] OTHER                              -> "waiting"

StatusOf(gate) ==
    CASE \A g \in Gate : gate[g] = "ready"  -> "ready"
      [] \E g \in Gate : gate[g] = "failed" -> "failed"
      [] (\A g \in Gate : gate[g] # "failed") /\ (\E g \in Gate : gate[g] = "action_required") ->
           "action_required"
      [] OTHER -> "waiting"

Reconciled(a, ingested) ==
    LET r    == release[a]
        pin  == Pinned(r)
        gate == [g \in Gate |-> GateAfter(r, g, pin, a, ingested)]
    IN [r EXCEPT !.gate = gate, !.status = StatusOf(gate), !.active = FirstIncomplete(gate),
                 !.sha = CommitOf(r, a), !.cert = pin]

Reconcile(a) ==
    \E ingested \in Ingested : release' = [release EXCEPT ![a] = Reconciled(a, ingested)]

-----------------------------------------------------------------------------
(* Requests *)

Operation == {"content", "ensure", "reconcile", "deploy", "verify"}

\* Mutant: the certificate gate leaves the manifest alone.
PlanUnpublished(gate) ==
    CASE gate = "github"                -> <<"content">>
      [] gate = "certificate"           -> <<"ensure">>
      [] gate \in {"dns", "deployment"} -> <<"deploy">>
      [] gate = "verification"          -> <<"verify">>

\* What advance executes for a gate.
Plan(gate) ==
    CASE gate = "github"                -> <<"content">>
      [] gate = "certificate"           -> <<"ensure", "reconcile">>
      [] gate \in {"dns", "deployment"} -> <<"reconcile", "deploy">>
      [] gate = "verification"          -> <<"verify">>

Advance == [phase : {"idle", "insert", "mark", "execute", "reconcile", "fail"},
            artifact : Artifact \cup {None}, gate : Gate \cup {"none"},
            todo : Seq(Operation), number : 0 .. Cardinality(Artifact) + 1,
            conflict : BOOLEAN]

\* conflict: a unique index rejected the rows of a new release.
Finished(conflict) ==
    [phase |-> "idle", artifact |-> None, gate |-> "none", todo |-> << >>,
     number |-> 0, conflict |-> conflict]

Working(phase, a) == [Finished(FALSE) EXCEPT !.phase = phase, !.artifact = a]

At(w, phase) == advance[w].phase = phase
Now(w, r) == advance' = [advance EXCEPT ![w] = r]

ReleaseInit ==
    /\ Init
    /\ release = [a \in Artifact |-> NoRelease]
    /\ advance = [w \in Worker |-> Finished(FALSE)]

-----------------------------------------------------------------------------
(* approve_and_create_preview_release: approve if necessary, then *)
(* create_or_resume reads whether there is a release already.     *)

BeginCreate(w, a) ==
    /\ artifact[a].exists
    /\ artifact' = [artifact EXCEPT ![a].approved = TRUE]
    /\ Now(w, IF Exists(a) THEN Working("reconcile", a)
              ELSE [Working("insert", a) EXCEPT !.number = NextNumber])
    /\ UNCHANGED <<workspace, binding, github, call, faults, release>>

\* Unique (business, site, artifact version); unique (site, number).  The third
\* one, (business, idempotency key), is the first again: a request without a
\* key of its own, as the operator UI makes them, has one made of site and version.
Taken(a, number) == Exists(a) \/ \E b \in Artifact : release[b].number = number

\* Mutant: a reason code in place of a status.
InitialGateNamed(a, ingested) ==
    [g \in Gate |->
        CASE g = "source"   -> (IF ingested THEN "ready" ELSE "source_not_ingested")
          [] g \in {"draft_package", "approval"} -> "ready"
          [] g = "github"   -> "github_publish_pending"
          [] OTHER -> "waiting"]

InitialGate(a, ingested) ==
    [g \in Gate |->
        CASE g = "source"   -> (IF ingested THEN "ready" ELSE "action_required")
          [] g \in {"draft_package", "approval"} -> "ready"
          [] OTHER -> "waiting"]

\* The foreign key to a version deleted meanwhile, or a conflict, ends the
\* request with the first flush.
InsertRelease(w) ==
    /\ At(w, "insert")
    /\ LET a == advance[w].artifact
           n == advance[w].number
       IN IF ~artifact[a].exists \/ Taken(a, n)
          THEN Now(w, Finished(Taken(a, n))) /\ UNCHANGED release
          ELSE /\ \E ingested \in Ingested :
                    release' = [release EXCEPT ![a] =
                       [NoRelease EXCEPT !.number = n, !.gate = InitialGate(a, ingested)]]
               /\ Now(w, Working("reconcile", a))
    /\ UNCHANGED vars

ReconcileRelease(a) ==
    /\ Exists(a)
    /\ Reconcile(a)
    /\ UNCHANGED <<vars, advance>>

-----------------------------------------------------------------------------
(* advance *)

\* Gates that no external operation opens.
Manual == {"source", "draft_package", "approval"}

BeginAdvance(w, a) ==
    /\ Exists(a)
    /\ Reconcile(a)
    /\ LET gate == release'[a].active
       IN Now(w, IF gate \in Manual \cup {"none"} \/ release'[a].gate[gate] = "action_required"
                 THEN Finished(FALSE)
                 ELSE [Working("mark", a) EXCEPT !.gate = gate])
    /\ UNCHANGED vars

\* Refused if an earlier gate was closed in the meantime.
MarkRunning(w) ==
    /\ At(w, "mark")
    /\ LET a == advance[w].artifact
           g == advance[w].gate
       IN IF \E h \in Earlier(g) : release[a].gate[h] # "ready"
          THEN Now(w, Finished(FALSE)) /\ UNCHANGED release
          ELSE /\ release' = [release EXCEPT ![a].gate[g] = "running",
                                ![a].status = "running", ![a].active = g]
               /\ Now(w, [advance[w] EXCEPT !.phase = "execute", !.todo = Plan(g)])
    /\ UNCHANGED vars

\* The next operation of the gate, unless one is under way or its result waits.
Due(w, operation) ==
    /\ At(w, "execute")
    /\ In(w, "idle") /\ call[w].result = "none"
    /\ Head(advance[w].todo) = operation

\* An operation is over; the request goes on, or reconciles after the last one.
Done(w) ==
    Now(w, [advance[w] EXCEPT !.todo = Tail(@),
              !.phase = IF Len(advance[w].todo) = 1 THEN "reconcile" ELSE @])

Give(w) == Now(w, [advance[w] EXCEPT !.phase = "fail", !.todo = << >>])

StartCall(w) ==
    /\ \/ Due(w, "content")   /\ BeginPublish(w, advance[w].artifact, "content")
       \/ Due(w, "reconcile") /\ BeginPublish(w, advance[w].artifact, "reconcile")
       \/ Due(w, "deploy")    /\ BeginDeploy(w, advance[w].artifact, "release")
    /\ UNCHANGED releaseVars

EndCall(w) ==
    /\ At(w, "execute") /\ call[w].result # "none"
    /\ IF call[w].result = "ok" THEN Done(w) ELSE Give(w)
    /\ Becomes(w, Over("none"))
    /\ UNCHANGED <<database, github, faults, release>>

\* ensure_for_site: the published certificate stays, unless it is about to
\* expire; else the selected one is published again or a new one is selected.
EnsureCertificate(w) ==
    /\ Due(w, "ensure")
    /\ \/ binding.published /\ UNCHANGED binding
       \/ /\ ~Locked
          /\ \E c \in Cert : /\ c \notin binding.used \/ (c = binding.cert /\ ~binding.published)
                            /\ Select(c)
    /\ Done(w)
    /\ UNCHANGED <<artifact, workspace, github, call, faults, release>>

EnsureFails(w) ==
    /\ Due(w, "ensure")
    /\ Give(w)
    /\ UNCHANGED <<vars, release>>

\* Mutant: the fingerprints are not compared.
VerifyServingAny(w) ==
    /\ Due(w, "verify")
    /\ binding.cert # None
    /\ binding' = [binding EXCEPT !.serving = live # 0]
    /\ Done(w)
    /\ UNCHANGED <<artifact, workspace, github, call, faults, release>>

\* verify_site_endpoint: a fingerprint that does not match is no error.
VerifyServing(w) ==
    /\ Due(w, "verify")
    /\ binding.cert # None
    /\ binding' = [binding EXCEPT !.serving = Serves]
    /\ Done(w)
    /\ UNCHANGED <<artifact, workspace, github, call, faults, release>>

VerifyFails(w) ==
    /\ Due(w, "verify")
    /\ binding' = [binding EXCEPT !.serving = FALSE]
    /\ Give(w)
    /\ UNCHANGED <<artifact, workspace, github, call, faults, release>>

\* mark_gate_failed, whatever became of the gate in the meantime.
MarkFailed(w) ==
    /\ At(w, "fail")
    /\ LET a == advance[w].artifact
           g == advance[w].gate
       IN release' = [release EXCEPT ![a].gate[g] = "failed",
                        ![a].status = "failed", ![a].active = g]
    /\ Now(w, Finished(FALSE))
    /\ UNCHANGED vars

\* The reconciliation that ends a request.
FinishRequest(w) ==
    /\ At(w, "reconcile")
    /\ Reconcile(advance[w].artifact)
    /\ Now(w, Finished(FALSE))
    /\ UNCHANGED vars

\* The process dies with its session.
Abort(w) ==
    /\ ~In(w, "idle") \/ ~At(w, "idle")
    /\ faults < MaxFaults /\ faults' = faults + 1
    /\ Becomes(w, Over("none"))
    /\ Now(w, Finished(FALSE))
    /\ UNCHANGED <<database, github, release>>

-----------------------------------------------------------------------------
Free(w) == In(w, "idle") /\ At(w, "idle")

\* Foreign key: a version that has a release is not deleted.
Kept == \A a \in Artifact : Exists(a) => artifact'[a].exists

ReleaseStep(w) ==
    \/ InsertRelease(w) \/ MarkRunning(w) \/ StartCall(w) \/ EndCall(w)
    \/ EnsureCertificate(w) \/ EnsureFails(w) \/ VerifyServing(w) \/ VerifyFails(w)
    \/ MarkFailed(w) \/ FinishRequest(w)

ReleaseNext ==
    \/ \E w \in Worker, a \in Artifact :
          /\ Free(w)
          /\ \/ BeginCreate(w, a) \/ BeginAdvance(w, a) \/ ReconcileRelease(a)
             \/ (Request(a) \/ Begin(w, a)) /\ Kept /\ UNCHANGED releaseVars
    \/ \E w \in Worker : ReleaseStep(w) \/ Abort(w)
    \/ \E w \in Worker : (Step(w) \/ Error(w)) /\ UNCHANGED releaseVars
    \/ Rollout /\ UNCHANGED releaseVars

ReleaseSpec == ReleaseInit /\ [][ReleaseNext]_allVars

\* A request goes on, and some client repeats the advance; no GitHub call, no
\* provider fails forever, and the endpoint ends up with what was rolled out.
AdvanceRetried(w) ==
    /\ WF_allVars(ReleaseStep(w))
    /\ WF_allVars((Step(w) \/ Error(w)) /\ UNCHANGED releaseVars)
    /\ \A a \in Artifact : SF_allVars(Free(w) /\ BeginAdvance(w, a))
    /\ SF_allVars(Push(w) /\ UNCHANGED releaseVars)
    /\ SF_allVars(ReadBranch(w) /\ UNCHANGED releaseVars)
    /\ SF_allVars(ProvisionWorkflow(w) /\ UNCHANGED releaseVars)
    /\ SF_allVars(SettleRun(w) /\ UNCHANGED releaseVars)
    /\ SF_allVars(Dispatch(w) /\ UNCHANGED releaseVars)
    /\ SF_allVars(EnsureCertificate(w)) /\ SF_allVars(VerifyServing(w))

RetrySpec ==
    /\ ReleaseSpec
    /\ \A w \in Worker : AdvanceRetried(w)
    /\ WF_allVars(Rollout /\ UNCHANGED releaseVars)

-----------------------------------------------------------------------------
(* Properties *)

\* Every release row and request has its type, next to the rows it reads.
ReleaseTypeOK ==
    /\ TypeOK
    /\ release \in [Artifact -> Release]
    /\ advance \in [Worker -> Advance]

\* The commit of a release carries the files of exactly its version, whoever
\* published what else meanwhile (reconcile copies last_published_commit_sha).
ReleaseCommitExact ==
    \A a \in Artifact : release[a].sha # 0 => /\ release[a].sha \in DOMAIN repo
                                             /\ repo[release[a].sha].files = a

\* A release whose github gate is open has a commit, and the one that is ready
\* has every gate open, its commit and its certificate.
ReadyIsComplete ==
    \A a \in Artifact :
        /\ release[a].gate["github"] = "ready" => release[a].sha # 0
        /\ release[a].status = "ready" => /\ \A g \in Gate : release[a].gate[g] = "ready"
                                         /\ release[a].cert # None

\* An open certificate gate: some commit's manifest names the certificate the
\* release is pinned to.
CertificateGateExact ==
    \A a \in Artifact : release[a].gate["certificate"] = "ready"
                        => \E n \in DOMAIN repo : repo[n].cert = release[a].cert

\* An open verification gate: the certificate of the release was served, so it
\* was in a commit that was dispatched.
VerificationHasRollout ==
    \A a \in Artifact : release[a].gate["verification"] = "ready"
                        => /\ release[a].cert # None
                           /\ \E n \in dispatched : repo[n].cert = release[a].cert

\* A gate that is open stays open, but for the two a change of the certificate
\* closes ("can be retried without repeating successful gates",
\* docs/features/seo-migration-workspace.md).
GatesStayOpen ==
    [][\A a \in Artifact, g \in Gate \ {"certificate", "verification"} :
          release[a].gate[g] = "ready" => release'[a].gate[g] = "ready"]_allVars

\* Requests that follow one another keep the ledger that ReleaseLedger describes,
\* although each of them reads, marks, executes and reconciles in steps of its
\* own, fails or dies between them, and publications, selections and rollouts
\* made by hand go on meanwhile.
Numbers == [a \in Artifact |-> release[a].number]
OpenGates == [a \in Artifact |-> {g \in Gate : release[a].gate[g] = "ready"}]
Pins == [a \in Artifact |-> release[a].cert]
ReadyReleases == {a \in Artifact : release[a].status = "ready"}

Ledger == INSTANCE ReleaseLedger WITH
    number <- Numbers, open <- OpenGates, pinned <- Pins, ready <- ReadyReleases

LedgerSpec == Ledger!Spec

\* No request for a release is turned away because it was made before ("Repeating
\* the request returns the same release", docs/features/seo-migration-workspace.md).
RepeatedCreateAccepted == \A w \in Worker : ~advance[w].conflict

\* "The exact release deployment was requested": some dispatched commit has
\* the files of the version.
DeploymentIsExact ==
    \A a \in Artifact : release[a].gate["deployment"] = "ready"
                        => \E n \in dispatched : repo[n].files = a

\* Advancing a release again and again makes it ready, whatever failed before.
ReleaseCompletes == \A a \in Artifact : Exists(a) ~> release[a].status = "ready"

\* A duplicate publication is an idempotent success for the release: its
\* github gate opens at last.
GithubGateOpens == \A a \in Artifact : Exists(a) ~> release[a].gate["github"] = "ready"
=============================================================================
