----------------------------- MODULE SourceCapture -----------------------------
(* Source captures of one site: requests queue them under the lock of the       *)
(* workspace row, workers claim the oldest one, fetch the site and record the   *)
(* end; captures that stay running are put back or given up.                    *)
(*                                                                              *)
(* capture[k]   the row of idempotency key k (the pair is unique)               *)
(* workspace    its pointer to the latest capture, source status and snapshot   *)
(* requester    API requests: queue_capture and the synchronous ingest          *)
(* capturer     worker processes and what their iteration has loaded            *)
EXTENDS Naturals, FiniteSets

CONSTANTS
    Key,          \* idempotency keys, each with one set of capture parameters
    Requester,    \* API requests that run at the same time
    Capturer,     \* worker processes
    MaxAttempts,  \* executions of a capture before it is given up
    MaxRestarts,  \* bound on worker crashes
    NoKey

ASSUME CaptureAssumption ==
    /\ NoKey \notin Key
    /\ IsFiniteSet(Capturer) /\ Capturer # {}
    /\ MaxAttempts \in Nat \ {0}
    /\ MaxRestarts \in Nat

VARIABLES capture, workspace, requester, capturer, restarts
captureVars == <<capture, workspace, requester, capturer, restarts>>

CaptureStatus == {"absent", "queued", "running", "completed", "failed"}
SourceStatus == {"not_ingested", "ingest_queued", "ingested", "ingest_failed"}

Capture == [status: CaptureStatus, version: Nat, attempt: Nat]
Workspace == [latest: Key \cup {NoKey}, source: SourceStatus,
              snapshot: Key \cup {NoKey}, direct: BOOLEAN]
Request == [phase: {"idle", "locking", "locked", "refused", "ingesting"},
            key: Key \cup {NoKey}, version: Nat, source: SourceStatus]
Iteration == [phase: {"idle", "listed", "reconciled", "picked", "executing", "ending"},
              stale: [Key -> Nat],  \* attempt of each stale row that was listed, 0: not listed
              key: Key \cup {NoKey}, result: {"none", "completed", "failed"},
              latest: Key \cup {NoKey}, source: SourceStatus]

NoRequest == [phase |-> "idle", key |-> NoKey, version |-> 0, source |-> "not_ingested"]
NotListed == [k \in Key |-> 0]
NoIteration == [phase |-> "idle", stale |-> NotListed, key |-> NoKey, result |-> "none",
                latest |-> NoKey, source |-> "not_ingested"]

CaptureTypeOK ==
    /\ capture \in [Key -> Capture]
    /\ workspace \in Workspace
    /\ requester \in [Requester -> Request]
    /\ capturer \in [Capturer -> Iteration]
    /\ restarts \in Nat

CaptureInit ==
    /\ capture = [k \in Key |-> [status |-> "absent", version |-> 0, attempt |-> 0]]
    /\ workspace = [latest |-> NoKey, source |-> "not_ingested",
                    snapshot |-> NoKey, direct |-> FALSE]
    /\ requester = [r \in Requester |-> NoRequest]
    /\ capturer = [w \in Capturer |-> NoIteration]
    /\ restarts = 0

Exists(k) == capture[k].status # "absent"
HasStatus(status) == {k \in Key : capture[k].status = status}
Versions == {capture[k].version : k \in {j \in Key : Exists(j)}}

(* next_source_version: one more than the highest one                           *)
NextVersion ==
    IF Versions = {} THEN 1 ELSE 1 + CHOOSE v \in Versions : \A n \in Versions : n <= v

(* The row lock of the workspace: SELECT ... FOR UPDATE of queue_capture. It    *)
(* delays every UPDATE of the row, and no plain read of it.                     *)
WorkspaceLocked == \E r \in Requester : requester[r].phase = "locked"

(* SQLAlchemy writes a column when the new value differs from the loaded one.   *)
Written(stored, loaded, new) == IF loaded = new THEN stored ELSE new

(* What the workspace says of a capture that ended                              *)
SourceOf(result) == IF result = "completed" THEN "ingested" ELSE "ingest_failed"

-------------------------------------------------------------------------------
(* queue_capture: a known key is answered with its capture; otherwise the       *)
(* workspace is locked and the key looked up again.                             *)

BeginQueue(r, k) ==
    /\ requester[r].phase = "idle"
    /\ ~Exists(k)
    /\ requester' = [requester EXCEPT ![r].phase = "locking", ![r].key = k]
    /\ UNCHANGED <<capture, workspace, capturer, restarts>>

\* Mutant: the key is not looked up again under the lock.
NotQueuedBefore(r) == FALSE

AlreadyQueued(r) == Exists(requester[r].key)

(* The row that next_source_version adds one to is read under the lock.         *)
LockWorkspace(r) ==
    /\ requester[r].phase = "locking"
    /\ ~WorkspaceLocked
    /\ requester' = IF AlreadyQueued(r)
         THEN [requester EXCEPT ![r] = NoRequest]
         ELSE [requester EXCEPT ![r].phase = "locked", ![r].version = NextVersion]
    /\ UNCHANGED <<capture, workspace, capturer, restarts>>

(* Unique key and unique version of the site; nothing handles their violation.  *)
Unique(r) == ~Exists(requester[r].key) /\ requester[r].version \notin Versions

\* Mutant: a capture that is under way keeps the pointer.
PointedWhenIdle(k) ==
    IF HasStatus("running") = {}
      THEN [workspace EXCEPT !.latest = k, !.source = "ingest_queued", !.direct = FALSE]
      ELSE workspace

PointedAt(k) == [workspace EXCEPT !.latest = k, !.source = "ingest_queued", !.direct = FALSE]

InsertCapture(r) ==
    LET k == requester[r].key IN
    /\ requester[r].phase = "locked"
    /\ IF Unique(r)
         THEN /\ capture' = [capture EXCEPT ![k] =
                   [status |-> "queued", version |-> requester[r].version, attempt |-> 0]]
              /\ workspace' = PointedAt(k)
              /\ requester' = [requester EXCEPT ![r] = NoRequest]
         ELSE /\ requester' = [requester EXCEPT ![r] = [NoRequest EXCEPT !.phase = "refused"]]
              /\ UNCHANGED <<capture, workspace>>
    /\ UNCHANGED <<capturer, restarts>>

(* ingest_source_snapshot: fetches the homepage between loading the workspace   *)
(* and writing it, and does not look at captures.                               *)
BeginIngest(r) ==
    /\ requester[r].phase = "idle"
    /\ requester' = [requester EXCEPT ![r].phase = "ingesting", ![r].source = workspace.source]
    /\ UNCHANGED <<capture, workspace, capturer, restarts>>

CommitIngest(r, status) ==
    /\ requester[r].phase = "ingesting"
    /\ ~WorkspaceLocked
    /\ workspace' = [workspace EXCEPT
           !.source = Written(@, requester[r].source, status),
           !.snapshot = IF status = "ingested" THEN NoKey ELSE @,
           !.direct = TRUE]
    /\ requester' = [requester EXCEPT ![r] = NoRequest]
    /\ UNCHANGED <<capture, capturer, restarts>>

-------------------------------------------------------------------------------
(* run_worker_iteration: reconcile_stale_captures, then one capture.            *)

\* Mutant: only the latest capture of the workspace is looked at.
MayBeStaleLatest == HasStatus("running") \cap {workspace.latest}

\* Mutant: the query forgets the status, what has ended is put back, too.
EverStarted == {k \in Key : capture[k].attempt > 0}

MayBeStale == HasStatus("running")

(* Any running capture may have been running for too long, those of a worker    *)
(* that is still at it included. The workspace is read for those given up.      *)
ListStale(w) ==
    /\ capturer[w].phase = "idle"
    /\ \E stale \in SUBSET MayBeStale \ {{}} :
          capturer' = [capturer EXCEPT ![w] =
              [NoIteration EXCEPT !.phase = "listed",
                   !.stale = [k \in Key |-> IF k \in stale THEN capture[k].attempt ELSE 0],
                   !.latest = workspace.latest, !.source = workspace.source]]
    /\ UNCHANGED <<capture, workspace, requester, restarts>>

Listed(w) == {k \in Key : capturer[w].stale[k] > 0}

\* Mutant: one retry too many.
RetryOnceMore(w, k) == capturer[w].stale[k] <= MaxAttempts

RetryAgain(w, k) == capturer[w].stale[k] < MaxAttempts
GivenUp(w) == {k \in Listed(w) : ~RetryAgain(w, k)}

(* The rows are written whatever became of them since they were listed.         *)
ReconcileStale(w) ==
    /\ capturer[w].phase = "listed"
    /\ capturer[w].latest \in GivenUp(w) => ~WorkspaceLocked
    /\ capture' = [k \in Key |->
           IF k \in Listed(w)
             THEN [capture[k] EXCEPT !.status = IF RetryAgain(w, k) THEN "queued" ELSE "failed"]
             ELSE capture[k]]
    /\ workspace' = IF capturer[w].latest \in GivenUp(w)
         THEN [workspace EXCEPT !.source = Written(@, capturer[w].source, "ingest_failed")]
         ELSE workspace
    /\ capturer' = [capturer EXCEPT ![w] = [NoIteration EXCEPT !.phase = "reconciled"]]
    /\ UNCHANGED <<requester, restarts>>

(* oldest_queued_id *)
PickNext(w) ==
    /\ capturer[w].phase \in {"idle", "reconciled"}
    /\ \E k \in HasStatus("queued") :
          /\ \A j \in HasStatus("queued") : capture[k].version <= capture[j].version
          /\ capturer' = [capturer EXCEPT ![w] = [NoIteration EXCEPT !.phase = "picked", !.key = k]]
    /\ UNCHANGED <<capture, workspace, requester, restarts>>

NothingQueued(w) ==
    /\ capturer[w].phase \in {"idle", "reconciled"}
    /\ HasStatus("queued") = {}
    /\ capturer' = [capturer EXCEPT ![w] = NoIteration]
    /\ UNCHANGED <<capture, workspace, requester, restarts>>

(* claim_for_execution: one conditional UPDATE; the loser of a race stops.      *)
Claimable(k) == capture[k].status = "queued"

Claim(w) ==
    LET k == capturer[w].key IN
    /\ capturer[w].phase = "picked"
    /\ IF Claimable(k)
         THEN /\ capture' = [capture EXCEPT ![k].status = "running", ![k].attempt = @ + 1]
              /\ capturer' = [capturer EXCEPT ![w].phase = "executing"]
         ELSE /\ capturer' = [capturer EXCEPT ![w] = NoIteration]
              /\ UNCHANGED capture
    /\ UNCHANGED <<workspace, requester, restarts>>

(* _execute_analyze, _execute_faithful: the fetch ends and the workspace is     *)
(* read, to be updated if the capture is still its latest one.                  *)
FetchEnds(w, result) ==
    /\ capturer[w].phase = "executing"
    /\ capturer' = [capturer EXCEPT ![w].phase = "ending", ![w].result = result,
                        ![w].latest = workspace.latest, ![w].source = workspace.source]
    /\ UNCHANGED <<capture, workspace, requester, restarts>>

\* Mutant: any capture that ends updates the workspace.
LatestOrNot(w) == TRUE

StillLatest(w) == capturer[w].latest = capturer[w].key

(* _complete_capture, _fail_capture with the update of the workspace            *)
CommitEnd(w) ==
    LET k == capturer[w].key
        result == capturer[w].result IN
    /\ capturer[w].phase = "ending"
    /\ StillLatest(w) => ~WorkspaceLocked
    /\ capture' = [capture EXCEPT ![k].status = result]
    /\ workspace' = IF StillLatest(w)
         THEN [workspace EXCEPT !.source = Written(@, capturer[w].source, SourceOf(result)),
                   !.snapshot = IF result = "completed" THEN k ELSE @]
         ELSE workspace
    /\ capturer' = [capturer EXCEPT ![w] = NoIteration]
    /\ UNCHANGED <<requester, restarts>>

(* The pod is replaced; what it had not committed is gone.                      *)
Restart(w) ==
    /\ capturer[w].phase # "idle"
    /\ restarts < MaxRestarts
    /\ restarts' = restarts + 1
    /\ capturer' = [capturer EXCEPT ![w] = NoIteration]
    /\ UNCHANGED <<capture, workspace, requester>>

-------------------------------------------------------------------------------
RequestStep(r) ==
    \/ \E k \in Key : BeginQueue(r, k)
    \/ LockWorkspace(r)
    \/ InsertCapture(r)
    \/ BeginIngest(r)
    \/ \E status \in {"ingested", "ingest_failed"} : CommitIngest(r, status)

(* A step of the loop, without the listing that it begins with                  *)
GoOn(w) ==
    \/ ReconcileStale(w)
    \/ PickNext(w)
    \/ NothingQueued(w)
    \/ Claim(w)
    \/ \E result \in {"completed", "failed"} : FetchEnds(w, result)
    \/ CommitEnd(w)

CaptureNext ==
    \/ \E r \in Requester : RequestStep(r)
    \/ \E w \in Capturer : ListStale(w) \/ GoOn(w) \/ Restart(w)

CaptureSpec == CaptureInit /\ [][CaptureNext]_captureVars

(* The poll loop goes on, every fetch has a timeout, a running capture becomes  *)
(* stale when nobody ends it, and a request that waits for the lock goes on.    *)
CaptureFairness ==
    /\ \A r \in Requester : WF_captureVars(LockWorkspace(r)) /\ WF_captureVars(InsertCapture(r))
    /\ \A w \in Capturer : WF_captureVars(GoOn(w)) /\ SF_captureVars(ListStale(w))

-------------------------------------------------------------------------------
(* A queued capture is executed at most MaxAttempts times by the one worker of  *)
(* the deployment, whatever crashes; each further worker may add one execution, *)
(* because it can put back what it listed before the limit was reached.         *)
AttemptsBounded ==
    \A k \in Key : capture[k].attempt <= MaxAttempts + Cardinality(Capturer) - 1

(* Two requests with one key, or two keys at once, never run into the unique    *)
(* constraints, which would be an internal error: the second lookup under the   *)
(* lock of the workspace comes first.                                           *)
QueueingNeverRefused == \A r \in Requester : requester[r].phase # "refused"

(* Requests that overlap leave the workspace at the capture with the highest    *)
(* version.                                                                     *)
LatestIsNewest ==
    /\ workspace.latest = NoKey <=> \A k \in Key : ~Exists(k)
    /\ workspace.latest # NoKey =>
          \A k \in Key : capture[k].version <= capture[workspace.latest].version

(* Once a capture has ended and nobody is working, the workspace says how its   *)
(* latest capture ended, whatever ended before or was tried again.              *)
WorkersIdle == \A w \in Capturer : capturer[w].phase = "idle"
EndShowsInWorkspace ==
    WorkersIdle /\ workspace.latest # NoKey /\ ~workspace.direct =>
        LET status == capture[workspace.latest].status IN
        /\ status = "completed" => workspace.source = "ingested"
                                   /\ workspace.snapshot = workspace.latest
        /\ status = "failed" => workspace.source = "ingest_failed"

(* With one worker the captures are the queue that CaptureQueue describes: taken *)
(* in order, tried at most MaxAttempts times, never begun again once they have   *)
(* ended, although rows are listed, picked, fetched and written in steps of      *)
(* their own between which requests queue further captures and the worker dies.  *)
Turns == INSTANCE CaptureQueue WITH job <- capture, newest <- workspace.latest
QueueSpec == Turns!Spec

(* A queued capture ends.                                                       *)
CapturesEnd ==
    \A k \in Key : capture[k].status = "queued" ~> capture[k].status \in {"completed", "failed"}
===============================================================================
