# Verification of mbsrn

mbsrn is a FastAPI service (`app/`) with a PostgreSQL database and an operator
UI (`frontend/operator-ui`). It audits small-business sites, proposes
improvements, takes in leads, and migrates a site: it captures the old one,
generates new site packages ("artifact versions"), publishes a package to a GitHub
repository, deploys it to GKE and puts a TLS certificate on the preview host.

Its hard part is always the same. A request loads rows, talks to somebody (GitHub,
Google, a model provider, a mail gateway, a browser that fetches a site) for seconds or minutes, and
writes afterwards; there are no version columns, and only a few row locks. This
project models the services that work this way, model-checks what they promise
under overlapping requests, crashes and lost answers, and proves the promises for
any number of requests and rows. Paths below are relative to the repository root.

## 1. Inventory

FastAPI runs each request in a thread of its own with a session of its own
(`app/db/session.py`: `autoflush=False`, READ COMMITTED), so two requests
interleave at every remote call and every commit, and what a session loaded may be
stale when it writes. SQLAlchemy writes only the columns whose value differs from the
loaded one; this decides several of the results below and is modelled in every
module (`Flush`, `Written`, `Changed`, `Saved`, `Assigned`). Besides the requests there are
FastAPI background tasks in the same process, scheduled jobs (`app/jobs`, `app/cli`) and
the source capture worker.

### 1.1 Publication of previews

**Preview releases** (`app/services/preview_releases.py`,
`app/services/preview_release_execution.py`, `app/models/preview_release.py`,
`app/repositories/preview_release_repository.py`).
State: one release row per artifact version with its number, status, active
gate, commit and certificate; one operation; eight gates in a fixed order
(source, draft_package, approval, github, certificate, dns, deployment,
verification). Operations: `create_or_resume`, `reconcile` (derive the gates from
the rows of the other services), `mark_gate_running`, `mark_gate_failed`,
`advance` (reconcile, mark, run the operation of the first gate that is not open,
reconcile again). Each of these commits by itself. Correct when: an open gate has
evidence that belongs to this release, a gate that is open is not closed by
accident, creation is idempotent, and repeating `advance` completes the release.

**Certificates of a preview site** (`app/services/tls_certificates.py`,
`app/integrations/tls_certificate.py`, `app/models/tls_certificate.py`). State:
asset rows (custody of the private key, status, Compute resource name) and
binding rows (which asset the site uses, whether the manifest names it, what the
endpoint served). Operations: generate, import, ensure, adopt, bind, verify.
Between its commits a request stores the key in Secret Manager, creates an
`sslCertificate` on Compute, probes the endpoint. Correct when: no key in use is
lost, one binding is active, a bound certificate exists on Compute, "serving" was
observed, an interrupted publication can be resumed.

**Artifact publication and deployment** (`app/services/seo_migration.py`,
`app/integrations/seo_migration_github_publisher.py`). State: the artifact row
(approval, publish and deploy status, commit), the workspace row (last published
and last deployed version, two JSON history lists), the managed branch, workflow
runs. Operations: approve, publish (ensure repository, push files, provision
workflow and certificate manifest, record), deploy (settle an earlier run,
dispatch, record), refresh, delete. Correct when: the commit on record carries
the version's files, what is recorded as deployed was pushed before, concurrent pushes do not undo each
other, pointers name rows that exist, a manifest called published names the
selected certificate.

How the three interact:

```
operator / advance ──► PreviewReleaseExecutionService.advance
                          │ github, certificate, dns, deployment gates
                          ▼
        SEOMigrationService.publish / deploy ───► GitHub branch, workflow runs ──► GKE
                          │ marks manifest_state            │ certificate name in the manifest
                          ▼                                 ▼
        SiteTLSCertificateBinding ◄── TLSCertificateService ──► Secret Manager, Compute, endpoint
                          ▲
                          └── reconcile reads artifact, workspace and binding rows
```

All calls are in process and synchronous.

### 1.2 The services around it

**Source captures** (`app/services/seo_migration_source_capture.py`,
`app/cli/source_capture_worker.py`). State: capture rows queued → running →
completed or failed with version and attempt counter; the workspace's pointer to
its latest capture and what it says of the source. Operations: queue under the row lock
of the workspace, claim by a conditional UPDATE, execute, reconcile stale
captures, and the synchronous `ingest_source_snapshot` that writes the same workspace.
Correct when: queueing never fails on a constraint, attempts are limited, the workspace
shows its latest capture, every queued capture ends.

**Competitor profile generation** (`app/services/seo_competitor_profile_generation.py`).
State: runs queued → running → completed or failed, drafts with a review status,
competitor sets. Operations: create, execute as a background task, fail stale
runs, retry, review, clean up. Correct when: an ended run stays ended, nobody sees
drafts of a run under way, an accepted draft keeps its competitor, every run ends.

**Automation** (`app/services/seo_automation.py`, `app/jobs/seo_automation.py`) and
**action chains** on top of it (`app/services/action_*.py`). State: the configuration of
a site, run rows with seven steps; drafts of follow-up actions, execution items,
their binding and execution. Operations: trigger by hand or by schedule, the
steps; accept, activate, bind, execute. Correct when: no step uses an output that was not
produced, active runs do not pile up, drafts, items and executions stay linked.

**Leads** (`app/services/email_intake.py`, `lead_intake.py`, `dedupe.py`, `lifecycle.py`,
`reminder_engine.py`, `notifications.py`). State: leads, their events, sent notices.
Operations: intake by email and by hand, reminders, dispatch, status changes. Correct
when: duplicates and repeated notices are limited to what overlaps and crashes explain.

**Google Business Profile connection**
(`app/services/google_business_profile_connection.py`). State: OAuth states, one row
of encrypted tokens with the version of the key. Operations: start, callback, refresh,
disconnect, rewrap after a key rotation. Correct when: a code is exchanged once,
and the version names the key of the tokens beside it.

**Migration media** (`app/services/seo_migration.py`). State: two JSON documents of the
workspace row that list discovered and uploaded images, objects with generations in
a bucket, the files of the draft generated last. Operations: upload, replace, import,
select, ignore, remove, suggest, ingest a snapshot, generate a draft. Correct when: the
workspace keeps to its limit of uploads, and a draft has the bytes that were listed when its
generation began.

These services share no rows with each other, with two exceptions: action chains run
the automation (`ActionChains` extends `AutomationRuns`), and a capture that completes
replaces the workspace's document of discovered images (`IngestSnapshot` of
`MigrationMedia`, whoever wrote the snapshot).

### 1.3 Not modelled, and why

| Component | Why |
|---|---|
| Session state, tokens, login state, rate limits (`core/session_state.py`, `core/rate_limit.py`, `services/google_login_state.py`) | one or two Redis commands on one key per operation; no protocol of several actors' steps |
| Site deletion (`services/seo_site_delete.py`) | provider clean-up, then one transaction that deletes in the order of the foreign keys; nothing of it is visible before its commit |
| Audits, crawler, competitor snapshots, comparison, recommendations, narratives, summaries | rows created by one synchronous request; computation over data |
| Identities, principals, credentials, sites, settings | validated row updates in one transaction each |
| Content of drafts and packages, prompts, quality rules, providers, analytics, schemas, routes | text and data shaping without state of its own; this is the largest part of the code (of `seo_migration.py`, `seo_migration_github_publisher.py` and `seo_competitor_profile_generation.py` too), and the share of the lines that the models cover stays small for this reason |
| UI and infrastructure | the UI only calls the API; what the manifests say of replicas and rollouts enters as fairness and as `Drains` |

`PROJECT.json` lists the hazards of the code line by line, with the property that
covers each, or why none does.

## 2. Modules

| Module | Models | Uses |
|---|---|---|
| `CertificateSelection` | what the certificate service promises: a site has no certificate, then exactly one, each of them on Compute | |
| `TLSCertificates` | the certificate service | `CertificateSelection` (refinement) |
| `TLSCertificates_proofs` | theorems about it | `TLSCertificates`, `TLAPS` |
| `PublicationLog` | what publishing promises: a branch that is a log of commits, versions with their own commit on record | |
| `SitePublishing` | artifacts, workspace, branch, workflow runs, and the binding as publications see it | `PublicationLog` (refinement) |
| `SitePublishing_proofs` | theorems about it | `SitePublishing`, `TLAPS` |
| `ReleaseLedger` | what releases promise: each version released once, numbered in order, pinned for life, gates that stay open | |
| `PreviewRelease` | releases and advance requests | extends `SitePublishing`, refines `ReleaseLedger` |
| `PreviewRelease_proofs` | theorems about it | `PreviewRelease`, `SitePublishing_proofs` |
| `CaptureQueue` | what captures promise: a queue with one consumer and a limit of attempts | |
| `SourceCapture` | capture requests and workers | `CaptureQueue` (refinement) |
| `SourceCapture_proofs` | theorems about it | `SourceCapture`, `TLAPS` |
| `DraftReview` | what the generation of profiles promises: runs that report once, drafts judged, accepted for good or cleaned up | |
| `ProfileGeneration` | generation runs, background tasks, operators | `DraftReview` (refinement) |
| `ProfileGeneration_proofs` | theorems about it | `ProfileGeneration`, `TLAPS` |
| `AutomationRuns` | the automation of a site | |
| `ActionChains` | action chains | extends `AutomationRuns`, refines it |
| `ActionChains_proofs` | theorems about both | `ActionChains` |
| `LeadHandling`, `LeadHandling_proofs` | leads and notices of a business | |
| `GoogleConnection` | OAuth flow and token row | |
| `MigrationMedia` | media documents and drafts | |
| `MCTLS`, `MCSite`, `MCRelease` | symmetry sets for TLC | the module they check |
| `MCServicesLive` | captures and profile generation, fairly scheduled | both |
| `MCServicesSafe` | the four other services | `ActionChains`, `LeadHandling`, `GoogleConnection`, `MigrationMedia` |
| `Services_proofs` | theorems about the Google connection, the media, and the four services side by side | `MCServicesSafe`, `ActionChains_proofs`, `LeadHandling_proofs` |

Names follow the code. Operators that start a mutated form of another one carry
the comment `Mutant:`; the specification never uses them. They are the plausible
mistakes the properties are shown to detect.

### 2.1 TLSCertificates

A worker is a request thread. `req[w]` is everything the request holds in memory:
the phase it is in, its certificate, the asset row it loaded (`row`), the active
binding it loaded (`cur`, `bound`), the fingerprint it saw (`seen`). One action is
what happens between two points where another request may interleave:

| Code | Actions |
|---|---|
| `generate_for_site`, `import_for_site` | `BeginGenerate`, `BeginImport` |
| `ensure_for_site` | `BeginEnsure` (best usable asset), `BeginEnsureAnew`, `LoadFromVault`, `Probe`, `ReadError` |
| `_vault_publish_and_bind` | `InsertAsset`, `StoreInVault`, `CommitVaulted`, `CreateOnCompute`, `VaultError`, `ComputeError`, then the selection |
| `adopt_for_site`, `bind_existing_asset` | `BeginAdopt`, `BeginBind`, then the selection |
| `_activate_binding` and the commit | `ReadActive`, `CommitActivation` |
| `verify_site_endpoint` | `BeginVerify`, `Observe`, `CommitObservation` |
| outside | `Serve` (rollout), `ManifestPublished` (a publication), `Expire`, `Crash` |

Unique constraints are guards of the commit: `Rejected` names the three of them,
and a rejected flush ends the request with `conflict`. A provider error leaves it
open whether the call took effect. A crash forgets the request and keeps the
clouds. The fingerprint identifies a certificate, so a certificate is a model
value; `Generated` are key pairs the service draws once each, `Supplied` those an
operator can hand in again.

Simplifications: the two SELECTs of `_activate_binding` are one step; nobody
deletes Compute resources, so the branch of `ensure_for_site` that finds one
missing is not exercised; failures before the first write leave nothing and are
left out; PEM and X.509 checks are left out. Which of an adoption and an import
names the resource when they race is modelled, and judged only through
`BoundIsOnCompute`.

### 2.2 SitePublishing

`call[w]` is a publish, deploy or refresh request: its phase, its mode (the
manual route, `content` for the github gate, `reconcile` for later gates,
`release` for their deployment), the rows it loaded, the certificate it read for
the manifest, the branch head it read (`parent`). The branch is a sequence of
commits, each with the artifact whose files it carries and the certificate its
manifest names. The histories are abstracted, per artifact, to what the code looks
up in them: is there a successful publication, did its workflow verification
fail, does a deployment count as running. A history keeps its newest 80 items
(`_append_history_item`): with `HistoriesFull` every append may drop the oldest item, of any
version (`Trimmed`, `Left`), which is more than the code drops at one time; without it the lists
have room for all that the instance appends.

| Code | Actions |
|---|---|
| `approve_artifact_version`, `delete_artifact_version` | `Approve`, `Delete` |
| `publish_artifact_version` | `BeginPublish`, `ReadBranch`, `ProvisionWorkflow`, `SkipWorkflow` (no permission to write workflows), `WorkflowError`, `BranchError`, `RecordPublish`, `RecordPublishFailure` |
| `publish_files` of the publisher | `Push`, `PushRejected`, `PushLost` |
| `ensure_deploy_workflow`, `_mark_active_tls_manifest_published` | `Provision`, `Recording` |
| `deploy_artifact_version`, `refresh_deploy_run_status` | `BeginDeploy`, `BeginRefresh`, `SettleRun`, `RefuseRunning`, `Dispatch`, `DispatchError`, `DispatchLost`, `RecordDeploy` |
| TLS service, seen from here | `SelectCertificate`, `FailCertificate` (the asset is marked failed), `VerifyEndpoint` |
| outside | `Rollout`, `Crash` |

The manifest mark of a publication is an UPDATE that is flushed before the
history is written: the row is locked until the call commits, hence `Locked`.
`ensure_repository` is part of `ReadBranch`. A run whose item is stale or finished
is settled by `SettleRun`; the thresholds are not modelled, both outcomes are
possible. Left out: target configuration and readiness refusals that depend on
it, the display-only "latest" pointers and labels, secret propagation, dry runs (they write nothing), generation and upload of
packages. Deletion reads and writes in one step. An asset that other sites use too is not
published anew from there.

`PublicationLog` is what remains for somebody who sees the rows and the branch and none of the
calls: which versions were ever approved or withdrawn (deleted), the commits, the commit and the
status on record of each version, the two pointers of the workspace, what was dispatched and what
is live. `Outline` maps these to the variables of the same meaning; calls, what they have loaded,
histories, workflow runs and the binding are hidden. `LogSpec` says that the many steps of
publish, deploy and refresh, in any interleaving and with any of them lost, amount to its nine
operations. A publication may end after its version was deleted: `Record` then leaves the version
the commit it had, but may still point the workspace at it, for the code does so (see
`PointersExist` below).

### 2.3 PreviewRelease

The release rows and gates are added on top; a worker may now also run an
`advance` request, which drives the `call` of the same worker. `reconcile` is a
function from the rows to the next release (`Reconciled`), written as the code
does it: evidence opens a gate (`Evidence`), a certificate that is no longer published
in the manifest closes two (`Disproved`), anything else leaves the gate alone. `Plan`
says which operations a gate runs.

| Code | Actions |
|---|---|
| `approve_and_create_preview_release`, `create_or_resume` | `BeginCreate`, `InsertRelease` |
| `reconcile` | `ReconcileRelease`, and in `BeginAdvance`, `FinishRequest` |
| `advance` | `BeginAdvance`, `MarkRunning`, `StartCall`, `EndCall`, `EnsureCertificate`, `EnsureFails`, `VerifyServing`, `VerifyFails`, `MarkFailed` |
| outside | `Abort` |

Draft packages are complete; whether the source site is ingested is read from
`Ingested` nondeterministically; `ensure` keeps the current selection, publishes it once more or selects
a new certificate (that it finds one bound before is the refused insert of `tls_rollback`, here
`EnsureFails`); verification is one step here, its race being the subject of
`TLSCertificates`. The foreign key of releases keeps their versions (`Kept`).
Left out: `completed_at`, run ids, preview URLs, messages and next actions, and idempotency keys that
a client chooses itself (the UI sends none).

`ReleaseLedger` is the operator's view: the number of a release, the gates that are open, the
certificate it is pinned to, whether it is ready. `Ledger` maps the rows to it (a gate is open if
it says ready), and `LedgerSpec` says that the many steps of create, advance, fail and reconcile
amount to its two operations, `Create` and `Review`.

### 2.4 SourceCapture

`requester[r]` is an API request, `capturer[w]` an iteration of a worker with what it
has loaded: the stale rows it listed, the capture it picked, the workspace as it was
when the fetch ended.

| Code | Actions |
|---|---|
| `queue_capture` | `BeginQueue`, `LockWorkspace`, `InsertCapture` |
| `ingest_source_snapshot` | `BeginIngest`, `CommitIngest` |
| `run_worker_iteration`: `reconcile_stale_captures` | `ListStale`, `ReconcileStale` |
| ... `oldest_queued_id`, `execute_capture` | `PickNext`, `NothingQueued`, `Claim` |
| ... `_complete_capture`, `_fail_capture`, `_apply_workspace_success` | `FetchEnds`, `CommitEnd` |
| the pod | `Restart` |

Any running capture may be stale, the one a slow worker is still at included: there
is no clock. The fetch is its outcome; the reload after the claim is part of the claim.
`direct` remembers that the synchronous ingest wrote the workspace last, which looks at no
capture.

`CaptureQueue` is the requester's view: captures are numbered as they are accepted, taken in that
order, tried a limited number of times, and end once; `Recover` is the loss of a worker. `Turns`
maps the capture rows and the workspace's pointer to it; locks, stale lists and
what the worker has loaded are hidden.

### 2.5 ProfileGeneration

| Code | Actions |
|---|---|
| create and `execute_queued_run` | `CreateRun`, `ClaimRun`, `FinishRun`, `FailRun` |
| `_reconcile_stale_runs_for_site` | `ListStaleRuns`, `FailStale` |
| `retry_failed_run`, `cleanup_retention` (after the reconciliation, which commits by itself) | `LoadFailed`, `QueueRetry`; `SelectOld`, `DeleteOld` |
| `edit_draft`, `reject_draft`, `accept_draft` | `BeginReview`, `CommitReview` |
| competitor sets | `AddCompetitor`, `RemoveCompetitor` |
| the API process | `LoseTask` |

One competitor stands for all: drafts of other domains are independent of it. Ages are
left open (any run may be stale, any ended one past retention), but a run whose task
is at work is not past its retention, which is days.

`DraftReview` is the reviewer's view: how far a run is, what it retries, whether its result is
still to come, the last verdict on its draft, the set it is linked to, the sets that list the
competitor. `Reviewing` maps the rows to it (the two ways to end are one); what requests
have loaded, and rows that a cleanup has selected, are hidden.

### 2.6 AutomationRuns and ActionChains

| Code | Actions |
|---|---|
| configuration | `EditConfig` |
| `trigger_manual_run`, `run_due_configs` | `BeginManual`, `InsertDefaultConfig`, `BeginScheduled` |
| `_start_run` | `EnsureNoActiveRun`, `QueueRun` |
| `_execute_run`, `_run_step`, `_resolve_run_status` | `StartRun`, `RunStep`, `EndStep`, `FinishAutomation` |
| the request | `Return`, `LoseCall` |
| `update_recommendation_workflow` | `Accept`, `GenerateDrafts` |
| `activate_chained_action_draft`, `bind_activated_action_to_automation` | `BeginActivate`, `CommitActivate`; `Bind` |
| `request_bound_action_automation_execution` | `RequestExecution`, `Triggered`, `TriggerRefused`, `RecordExecution` |

The step of competitor snapshots leaves its run queued for a worker that the repository
does not have, so `SnapshotStatus` is `"queued"` and the comparison and the competitor
summary are always skipped; `Provided` keeps their conditions. A configuration edit is
one step. So is the acceptance of a recommendation, whose earlier status is read before the commit
that changes it: two requests may both find a transition and both generate drafts, and the second
pair meets the unique constraint of the drafts.

### 2.7 LeadHandling

| Code | Actions |
|---|---|
| `EmailIntakeService.ingest`, `find_duplicate`, `merge_duplicate` | `BeginIntake`, `CommitIntake` |
| `create_manual_lead` | `CreateManualLead` |
| `ReminderEngineService.run_for_business` | `BeginReminders`, `CommitReminders` |
| `NotificationDispatchService._dispatch` | `Dispatch` |
| `patch_status` | `BeginPatch`, `CommitPatch` |
| time, the process | `TimePasses`, `RequestDies` |

The instance lies within the seven days of the duplicate lookup. Every message has a
`source_ref`; a message without phone and email is never a duplicate.

### 2.8 GoogleConnection

| Code | Actions |
|---|---|
| `start_connection` | `StartConnection`, `Expire` |
| `handle_callback` | `FindState`, `ConsumeState`, `ExchangeCode`, `PersistConnection`, `CallbackFails`, `CallbackUndone` |
| `get_access_token_for_use`, `_refresh_connection_tokens` | `BeginRefresh`, `CommitRefresh`, `RefreshFails` |
| `run_token_rewrap_job` | `BeginRewrap`, `CommitRewrap` |
| `revoke_or_disconnect_provider` | `BeginDisconnect`, `CommitDisconnect` |
| the deployment | `Rotate` |

A token is the version of the key it is encrypted with; 0 is NULL. A row lock orders
commits and delays nothing else.

### 2.9 MigrationMedia

| Code | Actions |
|---|---|
| upload, replace | `BeginUpload`, `BeginReplace`, `StoreUpload` |
| import of discovered images | `BeginImport`, `SkipImported`, `ImportImage`, `ImportFails`, `EndImport` |
| changes of one asset | `Select`, `Deselect`, `Ignore`, `Remove`, `Suggest`, and `CommitWrite` |
| a new snapshot | `IngestSnapshot` |
| `generate_draft_artifacts` | `BeginDraft`, `Materialize`, `CommitDraft`, `CommitFailedDraft` |
| bucket, process | `ExpireGenerations`, `EditFails` |

`editor[e].copy` is the working copy of the documents, written back whole. `Listed` are the uploads
a document holds, removed ones too, for they stay in the list. That an upload trims the list it
writes (`seo_migration.py:1573`) changes nothing, as it looked for room in the same list.
`package` is what the draft on record froze; an asset whose listed generation is gone is missing
from it. A storage read that fails for another reason is left out.

## 3. What is checked

Every passing run finishes exhaustively within a few minutes with two TLC workers. Each
property of a passing run has a mutant of the specification that violates it
(`PROJECT.json`, "mutants").

| Run | Instance | Shows |
|---|---|---|
| `tls_race` | 2 workers; one generated certificate that may expire, one supplied certificate that Compute already holds | `TypeOK`, `KeysAreVaulted`, `BoundIsOnCompute`, `OneActive` and the refinement of `CertificateSelection`, under import, adopt, bind, ensure, errors and crashes |
| `tls_serial` | 1 worker generating, importing, ensuring and verifying; rollouts of either certificate | `ServingWasObserved`; `EnsureResumes` under retries |
| `site_race` | 2 workers, 2 artifacts, 4 commits, failing pushes and provisionings, selections | `PublishedIsCommitted`, `PointersExist` and the refinement of `PublicationLog` (`LogSpec`) |
| `site_deploy` | 2 workers publishing, deploying and refreshing 2 artifacts, 3 commits, failing dispatches, late rollouts, one crash or lost answer | `DeployedAfterPush` |
| `release_serial` | 1 worker, 2 artifacts, 2 certificates, manual publications and selections, certificates that fail, one crash or lost answer | `ReleaseCommitExact`, `CertificateGateExact`, `RepeatedCreateAccepted`, `GatesStayOpen` and the refinement of `ReleaseLedger` (`LedgerSpec`) |
| `release_race` | 2 workers creating and advancing one release next to manual deployments, full histories | `ReleaseTypeOK`, `ReadyIsComplete`, `VerificationHasRollout` |
| `release_retry` | one crash or lost answer, every GitHub error, repeated advance | `ReleaseCompletes` |
| `services_live` | captures: 2 keys, 2 requests, 1 worker, 2 restarts, 2 attempts; profiles: 2 runs, 2 operators, 1 set, 1 lost task | `AttemptsBounded`, `QueueingNeverRefused`, `LatestIsNewest`, `EndShowsInWorkspace`, `CapturesEnd` and the refinement of `CaptureQueue` (`QueueSpec`); `DraftsOfEndedRuns`, `AcceptedIsKept`, `RunsEnd` and the refinement of `DraftReview` (`ReviewSpec`) |
| `services_safe` | 2 processes; 3 runs, 1 draft, 2 items; 3 leads, 1 message delivered up to three times; 2 OAuth states, 2 keys; 2 uploads of which the workspace may have 1, 1 image, 2 generations | `ServicesTypeOK`, `OutputsHaveInputs`, `ActiveRunsBounded`, `ChainIsWhole`, `DuplicatesBounded`, `NoticesBounded`, `ExchangedOnce`, `VersionNamesKey`, `UploadsBounded` |

`services_live` and `services_safe` put services side by side that share no row. From
the initial state one of them moves and the others stay: their state spaces add up
and are not multiplied, and nothing is lost, because no action of one reads or writes what
belongs to another. All of them share the names of the processes (`p1`, `p2`), so that one
symmetry group serves them.

### Where the code does not do what its documentation says

Three runs show it:

* `tls_rollback`: select A, select B, select A again. `_activate_binding`
  inserts a second row for A and the unique index rejects it, although the runbook
  describes exactly this as the rollback.
* `release_wedge`: a repeated publication fails at the workflow and the committed version
  becomes `publish_failed`; the github gate then publishes in content-only mode,
  where a duplicate is never repaired: no retry opens it.
* `release_content`: the published pointer moves back to a version without a push,
  and a deployment of the branch head, which has another version's files, opens
  the deployment gate.

TLC executes each of the following too, when the bound or assumption named is changed or
the stricter formula is stated; they are kept here as observations:

* Two versions are published at once. The push of the second is rejected, and the call writes back
  the history it loaded with its failure (`seo_migration.py:4787`): the item of the first, recorded
  meanwhile, is gone, although `docs/features/seo-migration-workspace.md` calls the histories
  "append-only, bounded lists" and this one has room. A publication that succeeds does the same
  (`seo_migration.py:5280`). Stated as "every version with a commit on record has a successful item
  in the history", TLC finds it violated in ten states with the two workers of `site_race`.
* "A successful artifact commit remains published when subsequent workflow verification
  fails" (same document) is true of a first publication, not of a repeated one
  (`seo_migration.py:4782`); this is what `release_wedge` starts from.
* "one active automation run ... is allowed per business/site"
  (`docs/seo-ai-phase4-automation-and-operationalization.md`) holds for one caller; lookup and insert are
  apart, so each further caller may add one, and no more (`ActiveRunsBounded`). A run whose process died
  stays active, nothing in the code ends it.
* "on failure ... no drafts are created"
  (`docs/features/seo-competitor-profile-generation-retention.md`): a reader may fail
  a slow run after it has completed with drafts. They stay. A run that completes after it
  was failed keeps the failure category that was written.
* `_apply_workspace_success` reads whether its capture is still the latest and commits later: a
  capture that is queued in between finds its "queued" overwritten until it ends itself,
  which is why `EndShowsInWorkspace` speaks of workers at rest. A synchronous ingest overwrites the
  source status of any capture.
* Two operators who accept the drafts of one domain into two sets at once list it in
  both: each set is looked at before the other's commit.
* `LOST → CONTACTED` is no transition of the table, but a status change validated before
  the other's commit writes it. A reminder that no provider took counts as triggered and is
  not sent again.
* `VersionNamesKey` needs `Drains`: a process with the old key that commits after the
  rotation leaves a row whose version and tokens disagree if it loaded the row before.
  The API deployment has one replica and `maxSurge: 0`, which is `Drains = TRUE` for
  requests, not for a job that is still running. A refresh under way when the provider
  is disconnected writes its tokens into the disconnected row.
* Every media request writes back a document it loaded before a slow call: a concurrent
  upload, removal or import is lost. What stays true is `UploadsBounded`: because each
  upload writes the list in which it found room, overlapping uploads do not exceed the limit, they
  lose each other.
* A release that was ready and is reopened by a new certificate keeps its `completed_at`
  (not modelled).
* The histories keep 80 items, failures included, so that an old publication drops out of the
  duplicate detection even with one operator; `PointersExist` is violated with `HistoriesFull`
  (below).

Some properties of the preview publication are promises to a single operator and the
code keeps them only for one. With a second worker in the same instance TLC finds them
violated, each in a few steps:

* `ServingWasObserved`: two verifications load the same row, see different
  certificates, and each writes only the columns that differ from what it loaded.
* `GatesStayOpen`: `mark_gate_failed` and `mark_gate_running` do not look at the
  gate they overwrite, so a failure that arrives late closes a gate that the other
  advance has opened; the next reconciliation opens it again.
* `RepeatedCreateAccepted`: two creations read that there is no release; the
  first flush of the second one violates the unique index outside of the `try`
  that handles it around the commit.
* `CertificateGateExact`: the certificate for the manifest is read at the start of a
  publication, the binding that is active at the end of the provisioning is marked as
  published; a selection in between is marked for a manifest that does not name it.
* `EndShowsInWorkspace` is stated for one capture worker, which
  is what the deployment has.

`PointersExist` is checked for two workers. It is not a theorem: with three, TLC
executes a trace to its violation. Both versions are published while a stale call of
the second waits before its push, and a certificate is selected; two duplicates of the first begin, one fails
(`publish_failed`), the stale call is rejected and writes the history it had loaded
(empty), the first version is now deletable and deleted, and the other duplicate
finishes and makes it the published one. With full histories two workers are enough: the
item that guards the version drops out instead of being overwritten.

### Bounds

`Offered` (the requests the clients of an instance make) and `Erring` (the GitHub calls that may
fail) split the behaviours of the publication into runs; every action fires in some
passing run. Two workers are every pairwise race, and no guard counts workers; what
takes a third (`PointersExist`) is named above, and what is
proved holds for any number. Two artifacts are "this version and another one", two certificates "the
release's and its replacement". `MaxCommits` is 3 or 4: the initial commit, one
push per artifact, one manifest commit; a longer branch repeats these. It also
stops pushes, which is why it is never the reason a property holds: the
properties speak of commits that exist. `MaxFaults` 1 allows one crash or lost
answer (`site_deploy`, `release_serial`, `release_retry`); the requests after it run to the end. `HistoriesFull` is TRUE in
`release_race`, where nothing depends on the lists being whole. It is FALSE in `site_race`, as
`PointersExist` needs the room (80 items are far more than the calls of an instance append), and elsewhere for the size of the run; in
`release_retry` a version whose item was dropped is pushed again, and `MaxCommits` would end the
retries. The proofs hold for either value, except where section 4 says so. The
races of publications and releases have no fault beside the failing calls, the proofs
of `SitePublishing` and `PreviewRelease` any number. `Mortal` and `Served` bound expiry
and rollouts in the certificate runs to where they matter. Workers, artifacts
and certificates are symmetric in the safety runs of publications and releases; runs with liveness use no symmetry.
`tls_serial` switches off the deadlock check because the set of key pairs that can be generated
is finite there and the instance stops when it is used up, `site_deploy` because a publication repeated after a lost
answer stops at the last of the `MaxCommits`.

`services_live`: two keys are a capture and the one that supersedes it, two attempts are
the first and the retry, `MaxRestarts` 2 lets the worker die in both. Two runs are a run
and its retry. `OneIngest` (one synchronous ingest at a time) and `EditsOneDraft`
(operators edit one run's draft; they accept and reject both) cut repetitions of what one request does.
`services_safe`: three runs or leads against two processes are one more than the bounds
that are claimed, so that those could be exceeded; one message whose contact is one customer's,
delivered `MaxRequests` 3 times at most, with one death; the thresholds are one, acknowledgments
are off and alerts on (an acknowledgment takes the same path). `ConnectionRests` fixes the first key,
`OneRunWhenChained` keeps to one run once a recommendation is accepted, `FewMediaRequests` to one import or one draft
at a time, next to an upload or an edit. `MaxUploads` is 1 with two uploads, so that the second one
could exceed it; `MaxGenerations` 2 lets both be stored. Both runs switch off the deadlock check: rows, messages and deaths are used up at the end.

### Fairness

Four specifications state fairness, and only for liveness.

* `RetrySpec` of `TLSCertificates`: a request that is under way goes on or fails (the
  thread is scheduled, each remote call has a timeout), operators repeat `ensure`, and no
  provider fails a step forever while it is tried again and again (strong fairness of
  the steps of the retried publication). Requests crash any number of times, but not forever.
* `RetrySpec` of `PreviewRelease`: requests go on, a client repeats `advance`, which is
  what the UI's "Continue" does and what a failed gate tells the operator to do, no
  GitHub call fails forever, and a dispatched workflow is rolled out in the end.
* `CaptureFairness`: a request that holds or waits for the lock goes on; the worker is one
  replica that Kubernetes recreates (`k8s/source-capture-worker-deployment.yaml`), its poll
  loop goes on, every fetch has a timeout. `ListStale` is strongly fair: a capture that
  nobody ends is found stale in some iteration, for it only becomes older.
* `ProfileFairness`: a task that is scheduled runs and ends, a request goes on, and
  a stale run is read again and again (the UI polls the runs of a site); the read is strongly
  fair because an operator may be busy with another request in between.

## 4. What is proved

Each `*_proofs` module proves its component for all values of the constants: any number of
requests, rows, certificates, crashes. Each may use the assumption
of its component's module, which TLC evaluates on every run. Eight theorems, marked with *, have a hypothesis of their
own, stated in them as `ASSUME ... PROVE`: how many requests or workers may be active at once
(see "One at a time" below), and for one of them that histories have room.

| Theorem | Property |
|---|---|
| `TLSCertificates_proofs`: `TypeCorrect`, `KeysVaulted`, `AtMostOneActive`, `BoundExists`, `ImplementsSelection` | the invariants of `tls_race` and the refinement of `CertificateSelection` |
| `TLSCertificates_proofs`: `ServingIsObserved`* | `ServingWasObserved` |
| `SitePublishing_proofs`: `TypeCorrect`, `CommitRecorded`, `DeploymentsFollow`, `PublishingIsLogged` | types, `PublishedIsCommitted`, `DeployedAfterPush`; the refinement of `PublicationLog` |
| `SitePublishing_proofs`: `BranchLinear` | the history of the branch is linear: `CommitsBuildOnEachOther`, stated there |
| `SitePublishing_proofs`: `PointersKept`* | `PointersExist` |
| `PreviewRelease_proofs`: `ReleaseTypeCorrect`, `ReleaseCommitIsExact`, `ReadyReleaseIsComplete`, `VerificationIsReal` | `ReleaseTypeOK`, `ReleaseCommitExact`, `ReadyIsComplete`, `VerificationHasRollout` |
| `PreviewRelease_proofs`: `CertificateGateIsExact`*, `OpenGatesStay`*, `CreateIsRepeatable`*, `ReleasesKeepLedger`* | `CertificateGateExact`, `GatesStayOpen`, `RepeatedCreateAccepted`; the refinement of `ReleaseLedger` |
| `SourceCapture_proofs`: `CaptureTypeCorrect`, `QueueingSucceeds`, `PointerIsNewest`, `AttemptsStayBounded` | types, `QueueingNeverRefused`, `LatestIsNewest`, `AttemptsBounded` |
| `SourceCapture_proofs`: `EndIsShown`*, `CapturesAreAQueue`* | `EndShowsInWorkspace`; the refinement of `CaptureQueue` |
| `ProfileGeneration_proofs`: `ProfileTypeCorrect`, `DraftsComeAtTheEnd`, `AcceptedStays`, `GenerationIsReview` | types, `DraftsOfEndedRuns`, `AcceptedIsKept`; the refinement of `DraftReview` |
| `ActionChains_proofs`: `AutomationTypeCorrect`, `OutputsAlwaysHaveInputs`, `ActiveRunsStayBounded` | of the automation: types, `OutputsHaveInputs`, `ActiveRunsBounded` |
| `ActionChains_proofs`: `ChainsRunTheAutomation`, `ChainTypeCorrect`, `ChainStaysWhole` | the chains implement `AutomationSpec`; types, `ChainIsWhole` |
| `LeadHandling_proofs`: `LeadTypeCorrect`, `DuplicatesStayBounded`, `NoticesStayBounded` | types, `DuplicatesBounded`, `NoticesBounded` |
| `Services_proofs`: `ConnectionTypeCorrect`, `CodesExchangedOnce`, `VersionStaysExact` | types, `ExchangedOnce`, `VersionNamesKey` if `Drains` |
| `Services_proofs`: `MediaTypeCorrect`, `UploadsStayBounded` | types, `UploadsBounded` |
| `Services_proofs`: `ServicesAreTheirOwn`, `ServicesTypeCorrect` | each of the four services behaves as it does alone; `ServicesTypeOK` |

Hardly any of these is inductive, and the strengthening is of the same kind everywhere: it says what
each request in flight may rely on, although the rows it loaded may be stale, and that
the other requests cannot take it away. Each action has a lemma; one lemma collects
them.

* **Certificates.** `IInv` adds what the rows say of the clouds (`DataOK`: derived or
  vaulted custody implies the key is in the vault, every recorded resource exists, held
  bindings have a resource) and `SoundRequests`. What a stale row is used for only ever
  grows: keys are not removed from the vault, resources not from Compute, an asset
  with a resource keeps it. `SoundGrows` and `OthersStaySound` lift this to all workers. The
  refinement then needs only that the active binding changes at a commit of a selection, to a
  certificate that is on Compute.
* **Publication.** A duplicate writes `published` without a commit of its own, on the
  word of the history it loaded. `IInv` therefore says that whatever a row, the stored
  history or the history any call has loaded takes for published has a commit on
  record, and that a commit on record carries the version's files. Stale snapshots do no harm
  to this: a commit once recorded is only replaced by another one of the same version, and lost
  history items lose entries but invent none. `BranchGrows`: the branch is only appended to.
  `PublishingIsLogged` adds to it that the version of a call under way is approved
  (`CallsApproved`), which lasts because nothing revokes an approval. Then each action is one
  operation of the log or none: an accepted push is over the tip and brings the files of the version
  or the certificate of the manifest, an outcome is written to a row that still exists or to none, and
  an UPDATE that meets no row leaves its version the commit it had.
* **Releases.** `ReleaseInv` is `IInv` of the publication, which the calls of a release keep as
  those made by hand do, with what a release row may claim (`Truthful`) and what a request in
  flight knows of its gate and its plan (`Prepared`). `ReconciledIsTruthful` is the heart:
  what reconciliation writes follows from the rows it reads and from a `Truthful` row before it;
  the two marks only close gates.
* **Captures.** `LockInv` is what the row lock of the workspace protects: the version a
  locked request has drawn is larger than all. `PlannedBounded` counts the executions a
  capture has had and those that workers with stale lists may still allow.
* **Profiles.** `ReviewInv`: what a review, a retry or a cleanup in flight has selected,
  against the foreign keys that hold until it commits. `GenerationIsReview` needs of the tasks that
  one at work has its result still to bring, to a run that nobody has deleted (`WorkInv`). A
  request acts on what it has read, and the proof shows for each that what it read is
  still true of the rows when it commits, or that a row it misses makes it write nothing.
* **Automation.** A run belongs to the one request that carries it out, whose step says how
  far the run is (`Progress`); active runs and requests about to insert one are counted together
  (`StartsBounded`). **Chains**: every step is a step of the automation or leaves it alone, so
  all of this holds of the chains; `SoundCall` says what a caller's loaded item was.
* **Leads.** Leads made by email and requests about to add one, deliveries and requests
  about to record one, are counted together (`Adding`, `Senders`).
* **Media** (`MediaInv`). The limit holds of the documents and of every working copy: an upload has
  room in the list it has read or a replacement is listed in it (`EditFits`), so that the list written
  back, whichever it is, keeps to the limit. What the stored list says by then is not needed.
* **Google.** A state in a callback's transaction is locked (`FlowInv`), so that an exchange
  is followed by its consumption or a rollback that is counted. `KeysAgree`: with `Drains`, all
  requests in flight encrypt with the active key, and what they loaded names the version that is stored.

### One at a time

A few promises are kept to one client only; section 3 shows how a second one breaks them. They
are theorems under just that hypothesis, for any versions, certificates, errors and crashes:

* `OneAtATime`, for the publication of previews: no two requests overlap. It is a statement
  about the clients and nothing in the code enforces it: one operator who waits for each
  answer fulfils it, two operators need not. A request that died leaves nothing running, so
  crashes between any two steps are covered.
* `AtMostTwo` and `~HistoriesFull`, for `PointersExist`: with two requests, the one that deletes a version
  and the one that still names it are all there is, and no item that guards the version drops out; the traces
  to its violation take a third request or a full history.
* `OneCapturer`, for the captures: the deployment of the worker has one replica and the strategy
  `Recreate`, so no two iterations overlap (`k8s/source-capture-worker-deployment.yaml`). A second
  worker could put back a capture that the first one is still executing.

What has to be known beyond the invariants above, in each case:

* **Serving** (`ServingWasObserved`): the binding a verification writes to is still the one it read.
* **Pointers** (`PointersExist`): a version that a call is about to name without an UPDATE of its row
  is one the other call cannot have made deletable and deleted.
* **Certificate gate**: the certificate a publication marks is the one it provisioned
  (`CertificateCurrent`), so a manifest recorded as published exists (`ManifestInv`).
* **Gates and numbers** (`RequestsInv`): a gate about to be marked is shut, a gate under execution says
  running, and the number drawn is still the next one (`RequestCurrent`).
* **Ledger**: `RowIsReviewed` says when a row that is written anew was reviewed. A reconciliation is a
  review because a gate without evidence stays open, unless the pinned certificate is not the one in
  the manifest, and then the certificate gate is shut; the two marks are reviews because the gate
  they overwrite is shut; an insertion is a creation because its number is one above the number of
  releases. Every other step of a request, call or client leaves the ledger alone.
* **Captures** (`ShownInv`, `TurnsInv`): what the workspace says of its latest capture is behind that
  capture only while somebody is at work on it; the capture picked is still the oldest that waits when
  it is claimed, for later ones have larger versions; and a locked request holds the version
  after the last. The attempts left are those `PlannedBounded` counts.

`VerificationIsReal` needs no such hypothesis: a verdict on record is about a certificate in a
dispatched commit (`ServedInv`), because an UPDATE that selects another certificate clears the
verdict, and what was dispatched stays dispatched.

### Only model-checked

Liveness (`EnsureResumes`, `ReleaseCompletes`, `CapturesEnd`, `RunsEnd`): fairness and ENABLED
are out of the prover's reach. Every other property of a passing run is a theorem, eight of them
under a hypothesis. The types of captures and generation runs and
`CommitsBuildOnEachOther` are only proved; the types of `SitePublishing` are a conjunct of `ReleaseTypeOK`.
`services_safe` starts from one of four services and lets it run; `ServicesAreTheirOwn` says
that each of the four, seen by itself, then behaves as its own specification allows, so
what that run shows of a service, and what is proved of it, are about the same behaviours.

## 5. What is left

1. Abstract specifications of the remaining services (a lead and its notices, a connection, the
   listed media) that their modules are shown to implement.
2. `PreviewRelease` on the real source status of `SourceCapture` in place of `Ingested`,
   and `MigrationMedia` with packages of more than one version.
3. The consumption of refresh tokens, if session handling becomes more than one command
   per operation.

## 6. Running

In this directory: `tlc -workers 2 -config MCTLS_race.cfg MCTLS` (the pairs of
module and configuration are in `PROJECT.json`), `tlapm TLSCertificates_proofs.tla`.
