------------------------- MODULE SourceCapture_proofs -------------------------
(***************************************************************************)
(* What TLAPS proves of SourceCapture, for any number of requests and of   *)
(* workers and any set of keys.  One invariant says what the lock of the   *)
(* workspace protects, a second one how much every worker can still add to *)
(* the attempts of a capture, a third one what a single worker may rely on *)
(* of what it read.                                                        *)
(***************************************************************************)
EXTENDS SourceCapture, FiniteSetTheorems, TLAPS

WithKey == {"locking", "locked"}

\* A request that has passed the first lookup has a key.
RequestsHaveKeys == \A r \in Requester : requester[r].phase \in WithKey => requester[r].key \in Key

\* What an iteration has loaded are rows of the table; rows are listed in its
\* first step only, and its capture ends completed or failed.
Sound(i) ==
    /\ \A k \in Key : i.stale[k] > 0 => i.phase = "listed" /\ Exists(k)
    /\ i.phase \in {"picked", "executing", "ending"} => i.key \in Key /\ Exists(i.key)
    /\ i.phase = "ending" => i.result # "none"
IterationsAreSound == \A w \in Capturer : Sound(capturer[w])

\* The lock has one holder; what it read under the lock stays true until it
\* inserts: its version is above every version, its key is still unknown.
LockIsExclusive ==
    \A r, s \in Requester :
        requester[r].phase = "locked" /\ requester[s].phase = "locked" => r = s
LockedIsCurrent ==
    \A r \in Requester : requester[r].phase = "locked" =>
        /\ ~Exists(requester[r].key)
        /\ requester[r].version \in Nat
        /\ \A k \in Key : Exists(k) => capture[k].version < requester[r].version

\* A key without a capture has no version and no attempts.
AbsentIsUntouched ==
    \A k \in Key : ~Exists(k) => capture[k].version = 0 /\ capture[k].attempt = 0

LockInv ==
    /\ CaptureTypeOK
    /\ RequestsHaveKeys
    /\ IterationsAreSound
    /\ LockIsExclusive
    /\ LockedIsCurrent
    /\ QueueingNeverRefused
    /\ LatestIsNewest
    /\ workspace.latest # NoKey => Exists(workspace.latest)
    /\ AbsentIsUntouched

-----------------------------------------------------------------------------
\* The version of the latest capture is the highest one, so the next version
\* is above all of them.
LEMMA NextVersionIsAbove ==
    ASSUME LockInv
    PROVE  NextVersion \in Nat /\ \A k \in Key : Exists(k) => capture[k].version < NextVersion
<1> USE DEF LockInv
<1>0. Versions \subseteq Nat /\ \A k \in Key : Exists(k) => capture[k].version \in Versions
  BY DEF Versions, CaptureTypeOK, Capture
<1>1. CASE Versions = {}
  BY <1>0, <1>1 DEF NextVersion
<1>2. CASE Versions # {}
  <2>1. PICK k \in Key : Exists(k)
    BY <1>2 DEF Versions
  <2>2. workspace.latest \in Key /\ Exists(workspace.latest)
    BY <2>1 DEF LatestIsNewest, CaptureTypeOK, Workspace, Exists
  <2>3. \A n \in Versions : n <= capture[workspace.latest].version
    BY <2>2 DEF LatestIsNewest, Versions
  <2>4. \E v \in Versions : \A n \in Versions : n <= v
    BY <1>0, <2>2, <2>3
  <2>5. DEFINE top == CHOOSE v \in Versions : \A n \in Versions : n <= v
  <2>6. top \in Versions /\ \A n \in Versions : n <= top
    BY <2>4
  <2>7. NextVersion = 1 + top
    BY <1>2 DEF NextVersion
  <2> HIDE DEF top
  <2> QED BY <1>0, <2>6, <2>7
<1> QED BY <1>1, <1>2
-----------------------------------------------------------------------------
LEMMA NoIterationType == NoIteration \in Iteration /\ Sound(NoIteration)
BY DEF NoIteration, NotListed, Iteration, SourceStatus, Sound

LEMMA NoRequestType ==
    /\ NoRequest \in Request
    /\ [NoRequest EXCEPT !.phase = "refused"] \in Request
BY DEF NoRequest, Request, SourceStatus

LEMMA InitLockInv == CaptureInit => LockInv
<1> SUFFICES ASSUME CaptureInit PROVE LockInv
  OBVIOUS
<1> USE DEF CaptureInit
<1>1. CaptureTypeOK
  BY NoIterationType, NoRequestType
  DEF CaptureTypeOK, Capture, CaptureStatus, Workspace, SourceStatus
<1>2. IterationsAreSound
  BY NoIterationType DEF IterationsAreSound
<1>3. RequestsHaveKeys /\ LockIsExclusive /\ LockedIsCurrent /\ QueueingNeverRefused
  BY DEF RequestsHaveKeys, LockIsExclusive, LockedIsCurrent, QueueingNeverRefused, NoRequest,
         WithKey
<1>4. LatestIsNewest /\ AbsentIsUntouched
  BY DEF LatestIsNewest, AbsentIsUntouched, Exists
<1> QED BY <1>1, <1>2, <1>3, <1>4 DEF LockInv

\* Steps of a request that leave the table alone.
LEMMA RequestMoves ==
    ASSUME LockInv, UNCHANGED <<capture, capturer>>, restarts' \in Nat,
           workspace' \in Workspace, workspace'.latest = workspace.latest,
           NEW r \in Requester, NEW q \in Request, requester' = [requester EXCEPT ![r] = q],
           q.phase # "refused",
           q.phase \in WithKey => q.key \in Key,
           q.phase = "locked" =>
               /\ ~WorkspaceLocked
               /\ ~Exists(q.key)
               /\ \A k \in Key : Exists(k) => capture[k].version < q.version
    PROVE  LockInv'
<1> USE DEF LockInv
<1>1. CaptureTypeOK'
  BY DEF CaptureTypeOK
<1>2. IterationsAreSound'
  BY DEF IterationsAreSound, Sound, Exists
<1>3. RequestsHaveKeys' /\ QueueingNeverRefused'
  BY DEF RequestsHaveKeys, QueueingNeverRefused, CaptureTypeOK
<1>4. LockIsExclusive'
  BY DEF LockIsExclusive, WorkspaceLocked, CaptureTypeOK
<1>5. LockedIsCurrent'
  BY DEF LockedIsCurrent, CaptureTypeOK, Exists, Request
<1>6. LatestIsNewest' /\ AbsentIsUntouched' /\ (workspace.latest # NoKey => Exists(workspace.latest))'
  BY DEF LatestIsNewest, AbsentIsUntouched, Exists
<1> QED BY <1>1, <1>2, <1>3, <1>4, <1>5, <1>6

\* Steps of a worker: they write rows that exist and leave versions alone.
LEMMA CapturerMoves ==
    ASSUME LockInv, UNCHANGED requester, restarts' \in Nat,
           workspace' \in Workspace, workspace'.latest = workspace.latest,
           capture' \in [Key -> Capture],
           \A k \in Key : /\ capture'[k].version = capture[k].version
                          /\ capture'[k].status = "absent" <=> capture[k].status = "absent"
                          /\ ~Exists(k) => capture'[k] = capture[k],
           NEW w \in Capturer, NEW i \in Iteration, capturer' = [capturer EXCEPT ![w] = i],
           Sound(i)
    PROVE  LockInv'
<1> USE DEF LockInv
<1>1. CaptureTypeOK'
  BY DEF CaptureTypeOK
<1>2. \A k \in Key : Exists(k)' <=> Exists(k)
  BY DEF Exists
<1>3. IterationsAreSound'
  <2>1. \A v \in Capturer : Sound(capturer'[v])
    BY DEF IterationsAreSound, CaptureTypeOK
  <2> QED BY <1>2, <2>1 DEF IterationsAreSound, Sound
<1>4. RequestsHaveKeys' /\ QueueingNeverRefused' /\ LockIsExclusive'
  BY DEF RequestsHaveKeys, QueueingNeverRefused, LockIsExclusive
<1>5. LockedIsCurrent'
  BY <1>2 DEF LockedIsCurrent, RequestsHaveKeys, WithKey
<1>6. LatestIsNewest' /\ (workspace.latest # NoKey => Exists(workspace.latest))'
  BY <1>2 DEF LatestIsNewest, Workspace
<1>7. AbsentIsUntouched'
  BY <1>2 DEF AbsentIsUntouched
<1> QED BY <1>1, <1>3, <1>4, <1>5, <1>6, <1>7

LEMMA InsertKeepsLock ==
    ASSUME LockInv, NEW r \in Requester, InsertCapture(r)
    PROVE  LockInv'
<1> DEFINE k == requester[r].key
           v == requester[r].version
<1> USE DEF LockInv
<1>1. requester[r].phase = "locked" /\ k \in Key /\ v \in Nat /\ ~Exists(k)
  BY DEF InsertCapture, RequestsHaveKeys, LockedIsCurrent, WithKey
<1>2. \A j \in Key : Exists(j) => capture[j].version < v
  BY <1>1 DEF LockedIsCurrent
<1>3. Unique(r)
  BY <1>1, <1>2 DEF Unique, Versions, CaptureTypeOK, Capture
<1>4. /\ capture' = [capture EXCEPT ![k] = [status |-> "queued", version |-> v, attempt |-> 0]]
      /\ workspace' = [workspace EXCEPT !.latest = k, !.source = "ingest_queued", !.direct = FALSE]
      /\ requester' = [requester EXCEPT ![r] = NoRequest]
      /\ UNCHANGED <<capturer, restarts>>
  BY <1>3 DEF InsertCapture, PointedAt
<1> HIDE DEF k, v
<1>5. CaptureTypeOK'
  BY <1>1, <1>4, NoRequestType
  DEF CaptureTypeOK, Capture, CaptureStatus, Workspace, SourceStatus
<1>6. \A j \in Key : Exists(j)' <=> Exists(j) \/ j = k
  BY <1>1, <1>4 DEF Exists, CaptureTypeOK
<1>7. IterationsAreSound'
  BY <1>4, <1>6 DEF IterationsAreSound, Sound
<1>8. \A s \in Requester : requester'[s].phase # "locked"
  BY <1>1, <1>4 DEF LockIsExclusive, CaptureTypeOK, NoRequest
<1>9. RequestsHaveKeys' /\ QueueingNeverRefused'
  BY <1>4 DEF RequestsHaveKeys, QueueingNeverRefused, CaptureTypeOK, NoRequest, WithKey
<1>10. LatestIsNewest' /\ (workspace.latest # NoKey => Exists(workspace.latest))'
  <2>1. workspace'.latest = k /\ capture'[k].version = v
    BY <1>1, <1>4 DEF CaptureTypeOK, Workspace
  <2>2. \A j \in Key : capture'[j].version <= v
    BY <1>1, <1>2, <1>4 DEF CaptureTypeOK, Capture, AbsentIsUntouched
  <2> QED BY <1>1, <1>6, <2>1, <2>2, CaptureAssumption DEF LatestIsNewest
<1>11. AbsentIsUntouched'
  BY <1>1, <1>4, <1>6 DEF AbsentIsUntouched, CaptureTypeOK
<1> QED BY <1>5, <1>7, <1>8, <1>9, <1>10, <1>11 DEF LockIsExclusive, LockedIsCurrent

LEMMA StepKeepsLock ==
    ASSUME LockInv, [CaptureNext]_captureVars
    PROVE  LockInv'
<1> USE DEF LockInv
<1>1. ASSUME NEW r \in Requester, NEW k \in Key, BeginQueue(r, k) PROVE LockInv'
  <2> DEFINE q == [requester[r] EXCEPT !.phase = "locking", !.key = k]
  <2>1. q \in Request /\ q.phase = "locking" /\ q.key \in Key
    BY DEF CaptureTypeOK, Request
  <2>2. requester' = [requester EXCEPT ![r] = q]
    BY <1>1 DEF BeginQueue, CaptureTypeOK
  <2> HIDE DEF q
  <2> QED BY <1>1, <2>1, <2>2, RequestMoves DEF BeginQueue, CaptureTypeOK
<1>2. ASSUME NEW r \in Requester, LockWorkspace(r) PROVE LockInv'
  <2>1. CASE AlreadyQueued(r)
    BY <1>2, <2>1, RequestMoves, NoRequestType
    DEF LockWorkspace, CaptureTypeOK, NoRequest, WithKey
  <2>2. CASE ~AlreadyQueued(r)
    <3> DEFINE q == [requester[r] EXCEPT !.phase = "locked", !.version = NextVersion]
    <3>1. q \in Request /\ q.phase = "locked" /\ q.key = requester[r].key
          /\ q.version = NextVersion
      BY NextVersionIsAbove DEF CaptureTypeOK, Request
    <3>2. requester' = [requester EXCEPT ![r] = q]
      BY <1>2, <2>2 DEF LockWorkspace, CaptureTypeOK
    <3>3. ~Exists(q.key) /\ q.key \in Key /\ ~WorkspaceLocked
      BY <1>2, <2>2, <3>1 DEF LockWorkspace, AlreadyQueued, RequestsHaveKeys, WithKey
    <3> HIDE DEF q
    <3> QED BY <1>2, <3>1, <3>2, <3>3, RequestMoves, NextVersionIsAbove
            DEF LockWorkspace, CaptureTypeOK
  <2> QED BY <2>1, <2>2
<1>3. ASSUME NEW r \in Requester, InsertCapture(r) PROVE LockInv'
  BY <1>3, InsertKeepsLock
<1>4. ASSUME NEW r \in Requester, BeginIngest(r) PROVE LockInv'
  <2> DEFINE q == [requester[r] EXCEPT !.phase = "ingesting", !.source = workspace.source]
  <2>1. q \in Request /\ q.phase = "ingesting"
    BY DEF CaptureTypeOK, Request, Workspace
  <2>2. requester' = [requester EXCEPT ![r] = q]
    BY <1>4 DEF BeginIngest, CaptureTypeOK
  <2> HIDE DEF q
  <2> QED BY <1>4, <2>1, <2>2, RequestMoves DEF BeginIngest, CaptureTypeOK, WithKey
<1>5. ASSUME NEW r \in Requester, NEW status \in {"ingested", "ingest_failed"},
             CommitIngest(r, status)
      PROVE  LockInv'
  <2>1. workspace' \in Workspace /\ workspace'.latest = workspace.latest
    BY <1>5 DEF CommitIngest, CaptureTypeOK, Workspace, Written, SourceStatus
  <2> QED BY <1>5, <2>1, RequestMoves, NoRequestType
          DEF CommitIngest, CaptureTypeOK, NoRequest, WithKey
<1>6. ASSUME NEW w \in Capturer, ListStale(w) PROVE LockInv'
  <2>1. PICK stale \in SUBSET HasStatus("running") :
          capturer' = [capturer EXCEPT ![w] =
              [NoIteration EXCEPT !.phase = "listed",
                   !.stale = [k \in Key |-> IF k \in stale THEN capture[k].attempt ELSE 0],
                   !.latest = workspace.latest, !.source = workspace.source]]
    BY <1>6 DEF ListStale, MayBeStale
  <2> DEFINE i == [NoIteration EXCEPT !.phase = "listed",
                   !.stale = [k \in Key |-> IF k \in stale THEN capture[k].attempt ELSE 0],
                   !.latest = workspace.latest, !.source = workspace.source]
  <2>2. i \in Iteration
    BY NoIterationType DEF Iteration, CaptureTypeOK, Workspace, Capture
  <2>3. Sound(i)
    <3>1. i.phase = "listed" /\ \A k \in Key : i.stale[k] > 0 => k \in stale
      BY DEF NoIteration
    <3> HIDE DEF i
    <3> QED BY <3>1 DEF Sound, HasStatus, Exists
  <2> HIDE DEF i
  <2> QED BY <1>6, <2>1, <2>2, <2>3, CapturerMoves DEF ListStale, CaptureTypeOK, i
<1>7. ASSUME NEW w \in Capturer, ReconcileStale(w) PROVE LockInv'
  <2> DEFINE i == [NoIteration EXCEPT !.phase = "reconciled"]
  <2>1. i \in Iteration /\ Sound(i)
    BY DEF NoIteration, NotListed, Iteration, SourceStatus, Sound
  <2>2. \A k \in Listed(w) : k \in Key /\ Exists(k)
    BY DEF Listed, IterationsAreSound, Sound
  <2>3. workspace' \in Workspace /\ workspace'.latest = workspace.latest
    BY <1>7 DEF ReconcileStale, CaptureTypeOK, Workspace, Written, SourceStatus
  <2>4. \A k \in Key : capture'[k] = IF k \in Listed(w)
             THEN [capture[k] EXCEPT !.status = IF RetryAgain(w, k) THEN "queued" ELSE "failed"]
             ELSE capture[k]
    BY <1>7 DEF ReconcileStale
  <2>5. \A k \in Key : /\ capture'[k] \in Capture
                       /\ capture'[k].version = capture[k].version
                       /\ capture'[k].status = "absent" <=> capture[k].status = "absent"
                       /\ ~Exists(k) => capture'[k] = capture[k]
    BY <2>2, <2>4 DEF CaptureTypeOK, Capture, CaptureStatus, Exists
  <2>6. capture' \in [Key -> Capture]
    BY <1>7, <2>5 DEF ReconcileStale
  <2> HIDE DEF i
  <2> QED BY <1>7, <2>1, <2>3, <2>5, <2>6, CapturerMoves DEF ReconcileStale, CaptureTypeOK, i
<1>8. ASSUME NEW w \in Capturer, PickNext(w) PROVE LockInv'
  <2>1. PICK k \in HasStatus("queued") :
          capturer' = [capturer EXCEPT ![w] = [NoIteration EXCEPT !.phase = "picked", !.key = k]]
    BY <1>8 DEF PickNext
  <2> DEFINE i == [NoIteration EXCEPT !.phase = "picked", !.key = k]
  <2>2. k \in Key /\ Exists(k)
    BY DEF HasStatus, Exists
  <2>3. /\ i \in Iteration /\ i.phase = "picked" /\ i.key = k
        /\ \A j \in Key : i.stale[j] = 0
    BY <2>2 DEF NoIteration, NotListed, Iteration, SourceStatus
  <2> HIDE DEF i
  <2>4. Sound(i)
    BY <2>2, <2>3 DEF Sound
  <2> QED BY <1>8, <2>1, <2>3, <2>4, CapturerMoves DEF PickNext, CaptureTypeOK, i
<1>9. ASSUME NEW w \in Capturer, NothingQueued(w) \/ Restart(w) PROVE LockInv'
  BY <1>9, NoIterationType, CapturerMoves DEF NothingQueued, Restart, CaptureTypeOK
<1>10. ASSUME NEW w \in Capturer, Claim(w) PROVE LockInv'
  <2> DEFINE k == capturer[w].key
             i == [capturer[w] EXCEPT !.phase = "executing"]
  <2>1. k \in Key /\ Exists(k) /\ capturer[w].phase = "picked"
    BY <1>10 DEF Claim, IterationsAreSound, Sound
  <2>2. CASE Claimable(k)
    <3>1. i \in Iteration /\ Sound(i)
      BY <2>1 DEF CaptureTypeOK, Iteration, IterationsAreSound, Sound
    <3>2. /\ capture' = [capture EXCEPT ![k].status = "running", ![k].attempt = @ + 1]
          /\ capturer' = [capturer EXCEPT ![w] = i]
          /\ UNCHANGED <<workspace, requester, restarts>>
      BY <1>10, <2>2 DEF Claim, CaptureTypeOK
    <3> HIDE DEF i, k
    <3>3. \A j \in Key : /\ capture'[j] \in Capture
                         /\ capture'[j].version = capture[j].version
                         /\ capture'[j].status = "absent" <=> capture[j].status = "absent"
                         /\ ~Exists(j) => capture'[j] = capture[j]
      BY <2>1, <3>2 DEF CaptureTypeOK, Capture, CaptureStatus, Exists
    <3>4. capture' \in [Key -> Capture]
      BY <3>2, <3>3 DEF CaptureTypeOK
    <3> QED BY <3>1, <3>2, <3>3, <3>4, CapturerMoves DEF CaptureTypeOK
  <2>3. CASE ~Claimable(k)
    BY <1>10, <2>3, NoIterationType, CapturerMoves DEF Claim, CaptureTypeOK
  <2> QED BY <2>2, <2>3
<1>11. ASSUME NEW w \in Capturer, NEW result \in {"completed", "failed"}, FetchEnds(w, result)
       PROVE  LockInv'
  <2> DEFINE i == [capturer[w] EXCEPT !.phase = "ending", !.result = result,
                        !.latest = workspace.latest, !.source = workspace.source]
  <2>1. i \in Iteration /\ Sound(i)
    BY <1>11 DEF FetchEnds, CaptureTypeOK, Iteration, IterationsAreSound, Sound, Workspace
  <2>2. capturer' = [capturer EXCEPT ![w] = i]
    BY <1>11 DEF FetchEnds, CaptureTypeOK
  <2> HIDE DEF i
  <2> QED BY <1>11, <2>1, <2>2, CapturerMoves DEF FetchEnds, CaptureTypeOK
<1>12. ASSUME NEW w \in Capturer, CommitEnd(w) PROVE LockInv'
  <2> DEFINE k == capturer[w].key
             result == capturer[w].result
  <2>1. k \in Key /\ Exists(k) /\ result \in {"completed", "failed"}
    BY <1>12 DEF CommitEnd, IterationsAreSound, Sound, CaptureTypeOK, Iteration
  <2>2. capture' = [capture EXCEPT ![k].status = result]
    BY <1>12 DEF CommitEnd
  <2>3. workspace' \in Workspace /\ workspace'.latest = workspace.latest
    BY <1>12, <2>1
    DEF CommitEnd, CaptureTypeOK, Workspace, Written, SourceStatus, SourceOf
  <2> HIDE DEF k, result
  <2>4. \A j \in Key : /\ capture'[j] \in Capture
                       /\ capture'[j].version = capture[j].version
                       /\ capture'[j].status = "absent" <=> capture[j].status = "absent"
                       /\ ~Exists(j) => capture'[j] = capture[j]
    BY <2>1, <2>2 DEF CaptureTypeOK, Capture, CaptureStatus, Exists
  <2>5. capture' \in [Key -> Capture]
    BY <2>2, <2>4 DEF CaptureTypeOK
  <2> QED BY <1>12, <2>3, <2>4, <2>5, NoIterationType, CapturerMoves DEF CommitEnd, CaptureTypeOK
<1>13. CASE UNCHANGED captureVars
  BY <1>13
  DEF captureVars, CaptureTypeOK, RequestsHaveKeys, IterationsAreSound, Sound, LockIsExclusive,
      LockedIsCurrent, QueueingNeverRefused, LatestIsNewest, AbsentIsUntouched, Exists
<1> QED
  BY <1>1, <1>2, <1>3, <1>4, <1>5, <1>6, <1>7, <1>8, <1>9, <1>10, <1>11, <1>12, <1>13
  DEF CaptureNext, RequestStep, GoOn

\* The invariant of the lock holds for ever.
LEMMA LockInductive == CaptureSpec => []LockInv
<1>1. LockInv /\ [CaptureNext]_captureVars => LockInv'
  BY StepKeepsLock
<1> QED BY <1>1, InitLockInv, PTL DEF CaptureSpec

\* Every variable keeps its type.
THEOREM CaptureTypeCorrect == CaptureSpec => []CaptureTypeOK
<1>1. LockInv => CaptureTypeOK
  BY DEF LockInv
<1> QED BY <1>1, LockInductive, PTL

\* Queueing a capture never runs into the unique key or the unique version of
\* the site, whatever requests overlap.
THEOREM QueueingSucceeds == CaptureSpec => []QueueingNeverRefused
<1>1. LockInv => QueueingNeverRefused
  BY DEF LockInv
<1> QED BY <1>1, LockInductive, PTL

\* The pointer of the workspace is at the capture with the highest version.
THEOREM PointerIsNewest == CaptureSpec => []LatestIsNewest
<1>1. LockInv => LatestIsNewest
  BY DEF LockInv
<1> QED BY <1>1, LockInductive, PTL

-----------------------------------------------------------------------------
(* The attempts of a capture *)

\* Workers that will put capture k back into the queue.
Retrying(k) == {w \in Capturer : capturer[w].stale[k] > 0 /\ RetryAgain(w, k)}
Waiting(k) == IF capture[k].status = "queued" THEN 1 ELSE 0
Limit == MaxAttempts + Cardinality(Capturer) - 1

\* The attempts made, the one it is queued for and the ones that workers are
\* about to queue it for stay within the limit.
AttemptsPlanned(k) == capture[k].attempt + Waiting(k) + Cardinality(Retrying(k))
PlannedBounded == \A k \in Key : Exists(k) => AttemptsPlanned(k) <= Limit

LEMMA RetryingIsFinite ==
    ASSUME NEW k
    PROVE  /\ IsFiniteSet(Retrying(k)) /\ Cardinality(Retrying(k)) \in Nat
           /\ Cardinality(Retrying(k)) <= Cardinality(Capturer)
           /\ Cardinality(Capturer) \in Nat /\ Cardinality(Capturer) >= 1
           /\ Limit \in Nat
<1>1. IsFiniteSet(Retrying(k)) /\ Cardinality(Retrying(k)) <= Cardinality(Capturer)
  BY FS_Subset, CaptureAssumption DEF Retrying
<1>2. Cardinality(Capturer) \in Nat /\ Cardinality(Retrying(k)) \in Nat
  BY <1>1, FS_CardinalityType, CaptureAssumption
<1>3. Cardinality(Capturer) # 0
  BY FS_EmptySet, CaptureAssumption
<1> QED BY <1>1, <1>2, <1>3, CaptureAssumption DEF Limit

\* A step that plans nothing more for k keeps its bound.
LEMMA PlansNoMore ==
    ASSUME LockInv, LockInv', PlannedBounded, NEW k \in Key, Exists(k),
           capture'[k].attempt + Waiting(k)' <= capture[k].attempt + Waiting(k),
           Retrying(k)' \subseteq Retrying(k)
    PROVE  AttemptsPlanned(k)' <= Limit
<1>1. Cardinality(Retrying(k)') <= Cardinality(Retrying(k)) /\ Cardinality(Retrying(k)') \in Nat
  BY RetryingIsFinite, FS_Subset, FS_CardinalityType
<1>2. /\ capture[k].attempt + Waiting(k) \in Nat
      /\ capture'[k].attempt + Waiting(k)' \in Nat
  BY DEF LockInv, CaptureTypeOK, Capture, Waiting
<1>3. AttemptsPlanned(k) <= Limit
  BY DEF PlannedBounded
<1>4. Cardinality(Retrying(k)) \in Nat /\ Limit \in Nat
  BY RetryingIsFinite
<1> HIDE DEF Limit
<1> QED BY <1>1, <1>2, <1>3, <1>4 DEF AttemptsPlanned

\* So do steps that leave the table alone, except for those of the lists.
LEMMA SameTable ==
    ASSUME LockInv, LockInv', PlannedBounded, capture' = capture,
           \A k \in Key : Exists(k) => Retrying(k)' \subseteq Retrying(k)
    PROVE  PlannedBounded'
<1> SUFFICES ASSUME NEW k \in Key, Exists(k) PROVE AttemptsPlanned(k)' <= Limit
  BY DEF PlannedBounded, Exists, Limit
<1>1. capture'[k].attempt + Waiting(k)' <= capture[k].attempt + Waiting(k)
  BY DEF Waiting, LockInv, CaptureTypeOK, Capture
<1> QED BY <1>1, PlansNoMore

\* A worker that lists nothing afterwards retries nothing more.
LEMMA ListsNoMore ==
    ASSUME LockInv, NEW w \in Capturer, NEW i, capturer' = [capturer EXCEPT ![w] = i],
           i.stale = NotListed \/ i.stale = capturer[w].stale, NEW k \in Key
    PROVE  Retrying(k)' \subseteq Retrying(k)
BY DEF Retrying, RetryAgain, NotListed, LockInv, CaptureTypeOK

LEMMA StepKeepsPlan ==
    ASSUME LockInv, LockInv', PlannedBounded, [CaptureNext]_captureVars
    PROVE  PlannedBounded'
<1> USE DEF LockInv
<1>1. ASSUME UNCHANGED <<capture, capturer>> PROVE PlannedBounded'
  BY <1>1, SameTable DEF Retrying, RetryAgain
<1>2. ASSUME NEW r \in Requester, InsertCapture(r) PROVE PlannedBounded'
  <2> SUFFICES ASSUME NEW k \in Key, Exists(k)' PROVE AttemptsPlanned(k)' <= Limit
    BY DEF PlannedBounded, Limit
  <2>1. Retrying(k)' = Retrying(k)
    BY <1>2 DEF InsertCapture, Retrying, RetryAgain
  <2>2. CASE Exists(k)
    <3>1. capture'[k] = capture[k]
      BY <1>2, <2>2
      DEF InsertCapture, LockedIsCurrent, CaptureTypeOK
    <3> QED BY <2>1, <2>2, <3>1 DEF PlannedBounded, AttemptsPlanned, Waiting
  <2>3. CASE ~Exists(k)
    <3>1. Retrying(k) = {}
      BY <2>3 DEF Retrying, IterationsAreSound, Sound
    <3>2. capture'[k].attempt = 0
      BY <1>2, <2>3 DEF InsertCapture, CaptureTypeOK, AbsentIsUntouched
    <3>3. AttemptsPlanned(k)' <= 1
      BY <2>1, <3>1, <3>2, FS_EmptySet DEF AttemptsPlanned, Waiting
    <3>4. AttemptsPlanned(k)' \in Nat
      BY <2>1, <3>1, <3>2, FS_EmptySet DEF AttemptsPlanned, Waiting
    <3> QED BY <3>3, <3>4, RetryingIsFinite, CaptureAssumption DEF Limit
  <2> QED BY <2>2, <2>3
<1>3. ASSUME NEW w \in Capturer, ListStale(w) PROVE PlannedBounded'
  <2> SUFFICES ASSUME NEW k \in Key, Exists(k) PROVE AttemptsPlanned(k)' <= Limit
    BY <1>3 DEF ListStale, PlannedBounded, Exists, Limit
  <2>1. capture' = capture /\ capturer[w].phase = "idle"
    BY <1>3 DEF ListStale
  <2>2. PICK stale \in SUBSET HasStatus("running") :
          capturer' = [capturer EXCEPT ![w] =
              [NoIteration EXCEPT !.phase = "listed",
                   !.stale = [j \in Key |-> IF j \in stale THEN capture[j].attempt ELSE 0],
                   !.latest = workspace.latest, !.source = workspace.source]]
    BY <1>3 DEF ListStale, MayBeStale
  <2>3. /\ \A v \in Capturer \ {w} : capturer'[v] = capturer[v]
        /\ capturer'[w].stale[k] = IF k \in stale THEN capture[k].attempt ELSE 0
    BY <2>2 DEF CaptureTypeOK, NoIteration
  <2>4. w \notin Retrying(k)
    BY <2>1 DEF Retrying, IterationsAreSound, Sound
  <2>5. CASE k \in stale /\ capture[k].attempt < MaxAttempts
    <3>1. Retrying(k)' \subseteq Capturer /\ Retrying(k) \subseteq Capturer \ {w}
      BY <2>4 DEF Retrying
    <3>2. Retrying(k)' \subseteq Retrying(k) \cup {w}
      BY <2>3 DEF Retrying, RetryAgain
    <3>3. Cardinality(Retrying(k)') <= Cardinality(Capturer) /\ Cardinality(Retrying(k)') \in Nat
      BY <3>1, FS_Subset, FS_CardinalityType, CaptureAssumption
    <3>4. capture[k].status = "running"
      BY <2>5 DEF HasStatus
    <3>5. capture[k].attempt \in Nat /\ capture[k].attempt <= MaxAttempts - 1
      BY <2>5, CaptureAssumption DEF CaptureTypeOK, Capture
    <3> QED BY <2>1, <3>3, <3>4, <3>5, RetryingIsFinite, CaptureAssumption
            DEF AttemptsPlanned, Waiting, Limit
  <2>6. CASE ~(k \in stale /\ capture[k].attempt < MaxAttempts)
    <3>1. Retrying(k)' \subseteq Retrying(k)
      BY <2>3, <2>6 DEF Retrying, RetryAgain
    <3>2. capture'[k].attempt + Waiting(k)' <= capture[k].attempt + Waiting(k)
      BY <2>1 DEF Waiting, CaptureTypeOK, Capture
    <3> QED BY <3>1, <3>2, PlansNoMore
  <2> QED BY <2>5, <2>6
<1>4. ASSUME NEW w \in Capturer, ReconcileStale(w) PROVE PlannedBounded'
  <2>1. \A k \in Key : capture'[k] = IF k \in Listed(w)
             THEN [capture[k] EXCEPT !.status = IF RetryAgain(w, k) THEN "queued" ELSE "failed"]
             ELSE capture[k]
    BY <1>4 DEF ReconcileStale
  <2>2. capturer' = [capturer EXCEPT ![w] = [NoIteration EXCEPT !.phase = "reconciled"]]
    BY <1>4 DEF ReconcileStale
  <2>3. \A k \in Key : Exists(k)' <=> Exists(k)
    BY <2>1 DEF Listed, IterationsAreSound, Sound, Exists, CaptureTypeOK, Capture
  <2> SUFFICES ASSUME NEW k \in Key, Exists(k) PROVE AttemptsPlanned(k)' <= Limit
    BY <2>3 DEF PlannedBounded, Limit
  <2>4. Retrying(k)' = Retrying(k) \ {w}
    BY <2>2 DEF Retrying, RetryAgain, NoIteration, NotListed, CaptureTypeOK
  <2>5. CASE w \in Retrying(k)
    <3>1. capture'[k] = [capture[k] EXCEPT !.status = "queued"]
      BY <2>1, <2>5 DEF Retrying, Listed
    <3>2. Cardinality(Retrying(k)') = Cardinality(Retrying(k)) - 1
      BY <2>4, <2>5, RetryingIsFinite, FS_RemoveElement
    <3>3. AttemptsPlanned(k) <= Limit
      BY DEF PlannedBounded
    <3>4. capture'[k].attempt = capture[k].attempt /\ capture[k].attempt \in Nat
      BY <3>1 DEF CaptureTypeOK, Capture
    <3>5. Waiting(k) \in {0, 1} /\ Waiting(k)' \in {0, 1}
      BY DEF Waiting
    <3> QED BY <3>2, <3>3, <3>4, <3>5, RetryingIsFinite DEF AttemptsPlanned
  <2>6. CASE w \notin Retrying(k)
    <3>1. capture'[k].attempt = capture[k].attempt
      BY <2>1 DEF CaptureTypeOK, Capture
    <3>2. capture'[k].status = "queued" => capture[k].status = "queued"
      BY <2>1, <2>6 DEF Retrying, Listed, CaptureTypeOK, Capture
    <3>3. capture'[k].attempt + Waiting(k)' <= capture[k].attempt + Waiting(k)
      BY <3>1, <3>2 DEF Waiting, CaptureTypeOK, Capture
    <3> QED BY <2>4, <3>3, PlansNoMore
  <2> QED BY <2>5, <2>6
<1>5. ASSUME NEW w \in Capturer, PickNext(w) PROVE PlannedBounded'
  <2>1. PICK k \in Key :
          capturer' = [capturer EXCEPT ![w] = [NoIteration EXCEPT !.phase = "picked", !.key = k]]
    BY <1>5 DEF PickNext, HasStatus
  <2> DEFINE i == [NoIteration EXCEPT !.phase = "picked", !.key = k]
  <2>2. i.stale = NotListed
    BY DEF NoIteration
  <2> HIDE DEF i
  <2>3. capture' = capture
    BY <1>5 DEF PickNext
  <2>4. capturer' = [capturer EXCEPT ![w] = i]
    BY <2>1 DEF i
  <2> QED BY <2>2, <2>3, <2>4, ListsNoMore, SameTable
<1>6. ASSUME NEW w \in Capturer, NothingQueued(w) \/ Restart(w) PROVE PlannedBounded'
  BY <1>6, ListsNoMore, SameTable DEF NothingQueued, Restart, NoIteration
<1>7. ASSUME NEW w \in Capturer, Claim(w) PROVE PlannedBounded'
  <2> DEFINE j == capturer[w].key
             i == [capturer[w] EXCEPT !.phase = "executing"]
  <2>1. CASE Claimable(j)
    <3>1. i.stale = capturer[w].stale
      BY DEF CaptureTypeOK, Iteration
    <3>2. /\ capture' = [capture EXCEPT ![j].status = "running", ![j].attempt = @ + 1]
          /\ capturer' = [capturer EXCEPT ![w] = i]
      BY <1>7, <2>1 DEF Claim, CaptureTypeOK
    <3>3. capture[j].status = "queued" /\ j \in Key
      BY <1>7, <2>1 DEF Claim, Claimable, IterationsAreSound, Sound
    <3> HIDE DEF i, j
    <3>4. \A k \in Key : /\ Exists(k)' <=> Exists(k)
                         /\ capture'[k].attempt + Waiting(k)' <= capture[k].attempt + Waiting(k)
      BY <3>2, <3>3 DEF Exists, Waiting, CaptureTypeOK, Capture
    <3> SUFFICES ASSUME NEW k \in Key, Exists(k) PROVE AttemptsPlanned(k)' <= Limit
      BY <3>4 DEF PlannedBounded, Limit
    <3>5. Retrying(k)' \subseteq Retrying(k)
      BY <3>1, <3>2, ListsNoMore
    <3> QED BY <3>4, <3>5, PlansNoMore
  <2>2. CASE ~Claimable(j)
    BY <1>7, <2>2, ListsNoMore, SameTable DEF Claim, NoIteration
  <2> QED BY <2>1, <2>2
<1>8. ASSUME NEW w \in Capturer, NEW result \in {"completed", "failed"}, FetchEnds(w, result)
      PROVE  PlannedBounded'
  <2> DEFINE i == [capturer[w] EXCEPT !.phase = "ending", !.result = result,
                        !.latest = workspace.latest, !.source = workspace.source]
  <2>1. i.stale = capturer[w].stale
    BY DEF CaptureTypeOK, Iteration
  <2>2. capturer' = [capturer EXCEPT ![w] = i] /\ capture' = capture
    BY <1>8 DEF FetchEnds, CaptureTypeOK
  <2> HIDE DEF i
  <2> QED BY <2>1, <2>2, ListsNoMore, SameTable
<1>9. ASSUME NEW w \in Capturer, CommitEnd(w) PROVE PlannedBounded'
  <2> DEFINE j == capturer[w].key
  <2>1. j \in Key /\ Exists(j) /\ capturer[w].result \in {"completed", "failed"}
    BY <1>9 DEF CommitEnd, IterationsAreSound, Sound, CaptureTypeOK, Iteration
  <2>2. capture' = [capture EXCEPT ![j].status = capturer[w].result]
    BY <1>9 DEF CommitEnd
  <2>3. capturer' = [capturer EXCEPT ![w] = NoIteration]
    BY <1>9 DEF CommitEnd
  <2> HIDE DEF j
  <2>4. \A k \in Key : /\ Exists(k)' <=> Exists(k)
                       /\ capture'[k].attempt + Waiting(k)' <= capture[k].attempt + Waiting(k)
    BY <2>1, <2>2 DEF Exists, Waiting, CaptureTypeOK, Capture
  <2> SUFFICES ASSUME NEW k \in Key, Exists(k) PROVE AttemptsPlanned(k)' <= Limit
    BY <2>4 DEF PlannedBounded, Limit
  <2>5. Retrying(k)' \subseteq Retrying(k)
    BY <2>3, ListsNoMore DEF NoIteration
  <2> QED BY <2>4, <2>5, PlansNoMore
<1>10. CASE UNCHANGED captureVars
  BY <1>1, <1>10 DEF captureVars
<1>11. ASSUME NEW r \in Requester, RequestStep(r) PROVE PlannedBounded'
  BY <1>1, <1>2, <1>11 DEF RequestStep, BeginQueue, LockWorkspace, BeginIngest, CommitIngest
<1> QED BY <1>3, <1>4, <1>5, <1>6, <1>7, <1>8, <1>9, <1>10, <1>11 DEF CaptureNext, GoOn

\* A capture is executed at most MaxAttempts times by one worker, and once more
\* for every further worker, whatever crashes and whenever it is slow.
THEOREM AttemptsStayBounded == CaptureSpec => []AttemptsBounded
<1>1. CaptureInit => PlannedBounded
  BY DEF CaptureInit, PlannedBounded, Exists
<1>2. LockInv /\ LockInv' /\ PlannedBounded /\ [CaptureNext]_captureVars => PlannedBounded'
  BY StepKeepsPlan
<1>3. LockInv /\ PlannedBounded => AttemptsBounded
  <2> SUFFICES ASSUME LockInv, PlannedBounded, NEW k \in Key PROVE capture[k].attempt <= Limit
    BY DEF AttemptsBounded, Limit
  <2>1. capture[k].attempt \in Nat /\ Waiting(k) \in {0, 1}
    BY DEF LockInv, CaptureTypeOK, Capture, Waiting
  <2>2. CASE Exists(k)
    BY <2>1, <2>2, RetryingIsFinite DEF PlannedBounded, AttemptsPlanned
  <2>3. CASE ~Exists(k)
    BY <2>3, RetryingIsFinite DEF LockInv, AbsentIsUntouched
  <2> QED BY <2>2, <2>3
<1> QED BY <1>1, <1>2, <1>3, LockInductive, PTL DEF CaptureSpec

-----------------------------------------------------------------------------
(* One worker: what the workspace says of its latest capture.  A second worker *)
(* would be able to end or to put back a capture that the first one has listed *)
(* or executes; the deployment runs one.                                       *)

OneCapturer == \A v, w \in Capturer : v = w

\* The worker is the only one to end what it executes or has listed.
RowsRun(i) ==
    /\ i.phase \in {"executing", "ending"} => capture[i.key].status = "running"
    /\ \A k \in Key : i.stale[k] > 0 =>
           capture[k].status = "running" /\ i.stale[k] = capture[k].attempt

\* What the worker has read of the workspace is still there when it writes, an
\* ingest has taken over, or a newer capture is waiting for the worker.
ReadStays(i) ==
    i.phase \in {"listed", "ending"} /\ workspace.latest # NoKey =>
        \/ i.latest = workspace.latest /\ (workspace.direct \/ i.source = workspace.source)
        \/ capture[workspace.latest].status = "queued"

\* EndShowsInWorkspace whatever the worker is doing: a capture ends in the same
\* transaction that updates the workspace.
EndShows ==
    workspace.latest # NoKey /\ ~workspace.direct =>
        LET status == capture[workspace.latest].status IN
        /\ status = "completed" => workspace.source = "ingested"
                                   /\ workspace.snapshot = workspace.latest
        /\ status = "failed" => workspace.source = "ingest_failed"

ShownInv == EndShows /\ \A w \in Capturer : RowsRun(capturer[w]) /\ ReadStays(capturer[w])

LEMMA NoIterationShows == RowsRun(NoIteration) /\ ReadStays(NoIteration)
BY DEF RowsRun, ReadStays, NoIteration, NotListed

\* A step of the worker is a step of all of them.
LEMMA OneCapturerMoves ==
    ASSUME OneCapturer, LockInv, NEW w \in Capturer, NEW i,
           capturer' = [capturer EXCEPT ![w] = i],
           EndShows', RowsRun(i)', ReadStays(i)'
    PROVE  ShownInv'
<1>1. \A v \in Capturer : capturer'[v] = i
  BY DEF OneCapturer, LockInv, CaptureTypeOK
<1> QED BY <1>1 DEF ShownInv, RowsRun, ReadStays

LEMMA InsertShows ==
    ASSUME LockInv, ShownInv, NEW r \in Requester, InsertCapture(r)
    PROVE  ShownInv'
<1> DEFINE k == requester[r].key
           v == requester[r].version
<1>1. k \in Key
  BY DEF InsertCapture, RequestsHaveKeys, LockInv, WithKey
<1>2. CASE Unique(r)
  <2>1. /\ capture' = [capture EXCEPT ![k] = [status |-> "queued", version |-> v, attempt |-> 0]]
        /\ workspace' = [workspace EXCEPT !.latest = k, !.source = "ingest_queued", !.direct = FALSE]
        /\ UNCHANGED capturer
        /\ ~Exists(k)
    BY <1>2 DEF InsertCapture, PointedAt, Unique
  <2> HIDE DEF k, v
  <2>2. workspace'.latest = k /\ capture'[k].status = "queued"
    BY <1>1, <2>1 DEF LockInv, CaptureTypeOK, Workspace
  <2>3. \A j \in Key : Exists(j) => capture'[j] = capture[j]
    BY <1>1, <2>1 DEF LockInv, CaptureTypeOK
  <2>4. ASSUME NEW w \in Capturer, NEW i, i = capturer[w]
        PROVE  RowsRun(i)' /\ ReadStays(i)'
    <3>1. Sound(i) /\ RowsRun(i)
      BY <2>4 DEF LockInv, IterationsAreSound, ShownInv
    <3> QED BY <2>2, <2>3, <3>1 DEF RowsRun, ReadStays, Sound
  <2> QED BY <2>1, <2>2, <2>4 DEF ShownInv, EndShows, RowsRun, ReadStays
<1>3. CASE ~Unique(r)
  BY <1>3 DEF InsertCapture, ShownInv, EndShows, RowsRun, ReadStays
<1> QED BY <1>2, <1>3

LEMMA ReconcileShows ==
    ASSUME OneCapturer, LockInv, ShownInv, NEW w \in Capturer, ReconcileStale(w)
    PROVE  ShownInv'
<1> DEFINE i == [NoIteration EXCEPT !.phase = "reconciled"]
           k == workspace.latest
<1>1. capturer' = [capturer EXCEPT ![w] = i] /\ capturer[w].phase = "listed"
  BY DEF ReconcileStale
<1>2. RowsRun(i)' /\ ReadStays(i)'
  BY DEF RowsRun, ReadStays, NoIteration, NotListed
<1>3. \A j \in Key : capture'[j].status =
           IF j \in Listed(w) THEN IF RetryAgain(w, j) THEN "queued" ELSE "failed"
           ELSE capture[j].status
  BY DEF ReconcileStale, LockInv, CaptureTypeOK, Capture
<1>4. RowsRun(capturer[w]) /\ ReadStays(capturer[w]) /\ EndShows
  BY DEF ShownInv
<1>5. /\ workspace'.latest = k /\ workspace'.direct = workspace.direct
      /\ workspace'.snapshot = workspace.snapshot
      /\ workspace'.source =
           IF capturer[w].latest \in GivenUp(w)
             THEN Written(workspace.source, capturer[w].source, "ingest_failed")
             ELSE workspace.source
  BY DEF ReconcileStale, LockInv, CaptureTypeOK, Workspace
<1>6. EndShows'
  <2> SUFFICES ASSUME k # NoKey, ~workspace.direct
               PROVE  /\ capture'[k].status = "completed" =>
                             workspace'.source = "ingested" /\ workspace'.snapshot = k
                      /\ capture'[k].status = "failed" => workspace'.source = "ingest_failed"
    BY <1>5 DEF EndShows
  <2>1. k \in Key
    BY DEF LockInv, CaptureTypeOK, Workspace
  <2>2. CASE k \in Listed(w)
    <3>1. capture[k].status = "running"
      BY <1>4, <2>1, <2>2 DEF RowsRun, Listed
    <3>2. capturer[w].latest = k /\ capturer[w].source = workspace.source
      BY <1>1, <1>4, <3>1 DEF ReadStays
    <3>3. ~RetryAgain(w, k) => k \in GivenUp(w)
      BY <2>2 DEF GivenUp
    <3> QED BY <1>3, <1>5, <2>1, <2>2, <3>2, <3>3 DEF Written
  <2>3. CASE k \notin Listed(w)
    <3>1. capture'[k].status = capture[k].status
      BY <1>3, <2>1, <2>3
    <3>2. CASE capturer[w].latest = k
      BY <1>4, <1>5, <2>3, <3>1, <3>2 DEF EndShows, GivenUp
    <3>3. CASE capturer[w].latest # k
      BY <1>1, <1>4, <3>1, <3>3 DEF ReadStays
    <3> QED BY <3>2, <3>3
  <2> QED BY <2>2, <2>3
<1> HIDE DEF i
<1> QED BY <1>1, <1>2, <1>6, OneCapturerMoves

LEMMA CommitEndShows ==
    ASSUME OneCapturer, LockInv, ShownInv, NEW w \in Capturer, CommitEnd(w)
    PROVE  ShownInv'
<1> DEFINE j == capturer[w].key
           result == capturer[w].result
           k == workspace.latest
<1>1. capturer[w].phase = "ending" /\ capturer' = [capturer EXCEPT ![w] = NoIteration]
  BY DEF CommitEnd
<1>2. j \in Key /\ result \in {"completed", "failed"}
  BY <1>1 DEF LockInv, IterationsAreSound, Sound, CaptureTypeOK, Iteration
<1>3. RowsRun(capturer[w]) /\ ReadStays(capturer[w]) /\ EndShows
  BY DEF ShownInv
<1>4. capture[j].status = "running"
  BY <1>1, <1>3 DEF RowsRun
<1>5. /\ workspace'.latest = k /\ workspace'.direct = workspace.direct
      /\ workspace'.source =
           IF StillLatest(w) THEN Written(workspace.source, capturer[w].source, SourceOf(result))
           ELSE workspace.source
      /\ workspace'.snapshot =
           IF StillLatest(w) /\ result = "completed" THEN j ELSE workspace.snapshot
  BY DEF CommitEnd, LockInv, CaptureTypeOK, Workspace
<1>6. \A n \in Key : capture'[n].status = IF n = j THEN result ELSE capture[n].status
  BY <1>2 DEF CommitEnd, LockInv, CaptureTypeOK, Capture
<1> HIDE DEF j, result, k
<1>7. EndShows'
  <2> SUFFICES ASSUME k # NoKey, ~workspace.direct
               PROVE  /\ capture'[k].status = "completed" =>
                             workspace'.source = "ingested" /\ workspace'.snapshot = k
                      /\ capture'[k].status = "failed" => workspace'.source = "ingest_failed"
    BY <1>5 DEF EndShows
  <2>1. k \in Key
    BY DEF LockInv, CaptureTypeOK, Workspace, k
  <2>2. \/ capturer[w].latest = k /\ capturer[w].source = workspace.source
        \/ capture[k].status = "queued"
    BY <1>1, <1>3 DEF ReadStays, k
  <2>3. CASE k = j
    <3>1. StillLatest(w) /\ capturer[w].source = workspace.source
      BY <1>4, <2>2, <2>3 DEF StillLatest, j
    <3> QED BY <1>2, <1>5, <1>6, <2>1, <2>3, <3>1 DEF Written, SourceOf
  <2>4. CASE k # j /\ capture[k].status = "queued"
    BY <1>6, <2>1, <2>4
  <2>5. CASE k # j /\ capture[k].status # "queued"
    BY <1>3, <1>5, <1>6, <2>1, <2>2, <2>5 DEF EndShows, StillLatest, j, k
  <2> QED BY <2>3, <2>4, <2>5
<1>8. RowsRun(NoIteration)' /\ ReadStays(NoIteration)'
  BY DEF RowsRun, ReadStays, NoIteration, NotListed
<1> QED BY <1>1, <1>7, <1>8, OneCapturerMoves

LEMMA StepKeepsShown ==
    ASSUME OneCapturer, LockInv, ShownInv, [CaptureNext]_captureVars
    PROVE  ShownInv'
<1>1. ASSUME UNCHANGED <<capture, workspace, capturer>> PROVE ShownInv'
  BY <1>1 DEF ShownInv, EndShows, RowsRun, ReadStays
<1>2. ASSUME NEW r \in Requester, NEW status, CommitIngest(r, status) PROVE ShownInv'
  <2>1. workspace'.direct /\ workspace'.latest = workspace.latest /\ UNCHANGED <<capture, capturer>>
    BY <1>2 DEF CommitIngest, LockInv, CaptureTypeOK, Workspace
  <2> QED BY <2>1 DEF ShownInv, EndShows, RowsRun, ReadStays
<1>3. ASSUME NEW r \in Requester, RequestStep(r) PROVE ShownInv'
  BY <1>1, <1>2, <1>3, InsertShows
  DEF RequestStep, BeginQueue, LockWorkspace, BeginIngest
<1>4. ASSUME NEW w \in Capturer, ListStale(w) PROVE ShownInv'
  <2>1. PICK stale \in SUBSET HasStatus("running") :
          capturer' = [capturer EXCEPT ![w] =
              [NoIteration EXCEPT !.phase = "listed",
                   !.stale = [k \in Key |-> IF k \in stale THEN capture[k].attempt ELSE 0],
                   !.latest = workspace.latest, !.source = workspace.source]]
    BY <1>4 DEF ListStale, MayBeStale
  <2>2. PICK i : i = [NoIteration EXCEPT !.phase = "listed",
                   !.stale = [k \in Key |-> IF k \in stale THEN capture[k].attempt ELSE 0],
                   !.latest = workspace.latest, !.source = workspace.source]
    OBVIOUS
  <2>3. /\ i.phase = "listed" /\ i.latest = workspace.latest /\ i.source = workspace.source
        /\ \A k \in Key : i.stale[k] > 0 => k \in stale /\ i.stale[k] = capture[k].attempt
    BY <2>2 DEF NoIteration
  <2>4. RowsRun(i)' /\ ReadStays(i)' /\ EndShows'
    BY <1>4, <2>3 DEF RowsRun, ReadStays, HasStatus, ListStale, ShownInv, EndShows
  <2>5. capturer' = [capturer EXCEPT ![w] = i]
    BY <2>1, <2>2
  <2> QED BY <2>4, <2>5, OneCapturerMoves
<1>5. ASSUME NEW w \in Capturer, PickNext(w) PROVE ShownInv'
  <2>1. PICK k \in HasStatus("queued") :
          capturer' = [capturer EXCEPT ![w] = [NoIteration EXCEPT !.phase = "picked", !.key = k]]
    BY <1>5 DEF PickNext
  <2>2. PICK i : i = [NoIteration EXCEPT !.phase = "picked", !.key = k]
    OBVIOUS
  <2>3. i.phase = "picked" /\ \A j \in Key : i.stale[j] = 0
    BY <2>2 DEF NoIteration, NotListed
  <2>4. RowsRun(i)' /\ ReadStays(i)' /\ EndShows'
    BY <1>5, <2>3 DEF RowsRun, ReadStays, PickNext, ShownInv, EndShows
  <2> QED BY <2>1, <2>2, <2>4, OneCapturerMoves
<1>6. ASSUME NEW w \in Capturer, capturer' = [capturer EXCEPT ![w] = NoIteration],
             UNCHANGED <<capture, workspace>>
      PROVE  ShownInv'
  <2>1. RowsRun(NoIteration)' /\ ReadStays(NoIteration)'
    BY DEF RowsRun, ReadStays, NoIteration, NotListed
  <2>2. EndShows'
    BY <1>6 DEF ShownInv, EndShows
  <2> QED BY <1>6, <2>1, <2>2, OneCapturerMoves
<1>7. ASSUME NEW w \in Capturer, Claim(w), Claimable(capturer[w].key) PROVE ShownInv'
  <2>1. PICK i : i = [capturer[w] EXCEPT !.phase = "executing"]
    OBVIOUS
  <2>2. PICK k : k = capturer[w].key
    OBVIOUS
  <2>3. k \in Key /\ Sound(capturer[w]) /\ capturer[w].phase = "picked"
    BY <1>7, <2>2 DEF Claim, LockInv, IterationsAreSound, Sound
  <2>4. /\ capturer' = [capturer EXCEPT ![w] = i]
        /\ capture' = [capture EXCEPT ![k].status = "running", ![k].attempt = @ + 1]
        /\ workspace' = workspace
    BY <1>7, <2>1, <2>2 DEF Claim, LockInv, CaptureTypeOK
  <2>5. /\ i.phase = "executing" /\ i.key = k
        /\ \A j \in Key : ~(i.stale[j] > 0)
    BY <2>1, <2>2, <2>3 DEF Sound, LockInv, CaptureTypeOK, Iteration
  <2>6. capture'[k].status = "running" /\ \A j \in Key : j # k => capture'[j] = capture[j]
    BY <2>3, <2>4 DEF LockInv, CaptureTypeOK, Capture
  <2>7. RowsRun(i)' /\ ReadStays(i)'
    BY <2>5, <2>6 DEF RowsRun, ReadStays
  <2>8. EndShows'
    BY <2>4, <2>6 DEF EndShows, ShownInv, LockInv, CaptureTypeOK, Workspace
  <2> QED BY <2>4, <2>7, <2>8, OneCapturerMoves
<1>8. ASSUME NEW w \in Capturer, NEW result \in {"completed", "failed"}, FetchEnds(w, result)
      PROVE  ShownInv'
  <2>1. PICK i : i = [capturer[w] EXCEPT !.phase = "ending", !.result = result,
                        !.latest = workspace.latest, !.source = workspace.source]
    OBVIOUS
  <2>2. capturer' = [capturer EXCEPT ![w] = i] /\ UNCHANGED <<capture, workspace>>
    BY <1>8, <2>1 DEF FetchEnds, LockInv, CaptureTypeOK
  <2>3. /\ i.phase = "ending" /\ i.key = capturer[w].key /\ i.stale = capturer[w].stale
        /\ i.latest = workspace.latest /\ i.source = workspace.source
    BY <2>1 DEF LockInv, CaptureTypeOK, Iteration
  <2>4. capturer[w].phase = "executing" /\ RowsRun(capturer[w])
    BY <1>8 DEF FetchEnds, ShownInv
  <2>5. RowsRun(i)' /\ ReadStays(i)' /\ EndShows'
    BY <2>2, <2>3, <2>4 DEF RowsRun, ReadStays, ShownInv, EndShows
  <2> QED BY <2>2, <2>5, OneCapturerMoves
<1>9. ASSUME NEW w \in Capturer, GoOn(w) PROVE ShownInv'
  BY <1>5, <1>6, <1>7, <1>8, <1>9, ReconcileShows, CommitEndShows
  DEF GoOn, Claim, NothingQueued
<1> QED BY <1>1, <1>3, <1>4, <1>6, <1>9 DEF CaptureNext, Restart, captureVars

\* With the one worker of the deployment, whatever requests overlap, the
\* workspace says how its latest capture ended.
THEOREM EndIsShown == ASSUME OneCapturer PROVE CaptureSpec => []EndShowsInWorkspace
<1>1. CaptureInit => ShownInv
  BY NoIterationShows DEF CaptureInit, ShownInv, EndShows
<1>2. OneCapturer /\ LockInv /\ ShownInv /\ [CaptureNext]_captureVars => ShownInv'
  BY StepKeepsShown
<1>3. ShownInv => EndShowsInWorkspace
  BY DEF ShownInv, EndShows, EndShowsInWorkspace
<1> QED BY <1>1, <1>2, <1>3, LockInductive, PTL DEF CaptureSpec

-----------------------------------------------------------------------------
(* One worker: the captures are a queue                                        *)

LastVersion == IF workspace.latest = NoKey THEN 0 ELSE capture[workspace.latest].version

Oldest(k) ==
    /\ capture[k].status = "queued"
    /\ \A j \in HasStatus("queued") : capture[k].version <= capture[j].version

\* What was picked is still to be had, and still the oldest one, when it is
\* claimed: only newer captures are queued in between.
PickedIsOldest == \A w \in Capturer : capturer[w].phase = "picked" => Oldest(capturer[w].key)

\* The version that was drawn under the lock follows the last one.
LockedIsNext ==
    \A r \in Requester : requester[r].phase = "locked" => requester[r].version = LastVersion + 1

TurnsInv == PickedIsOldest /\ LockedIsNext

QueueInv == LockInv /\ PlannedBounded /\ ShownInv /\ TurnsInv

QueueStep == [Turns!Next]_(Turns!queueVars)

LEMMA NextVersionIsNext ==
    ASSUME LockInv
    PROVE  NextVersion = LastVersion + 1
<1> USE DEF LockInv
<1>1. CASE workspace.latest = NoKey
  BY <1>1 DEF LatestIsNewest, Versions, NextVersion, LastVersion
<1>2. CASE workspace.latest # NoKey
  <2>1. workspace.latest \in Key /\ Exists(workspace.latest)
    BY <1>2 DEF CaptureTypeOK, Workspace
  <2>2. PICK top : top = capture[workspace.latest].version
    OBVIOUS
  <2>3. top \in Versions /\ \A n \in Versions : n <= top
    BY <1>2, <2>1, <2>2 DEF LatestIsNewest, Versions
  <2>4. Versions \subseteq Nat
    BY DEF Versions, CaptureTypeOK, Capture
  <2>5. PICK last : last = CHOOSE v \in Versions : \A n \in Versions : n <= v
    OBVIOUS
  <2>6. last \in Versions /\ \A n \in Versions : n <= last
    BY <2>3, <2>5
  <2>7. last = top
    <3>1. last <= top /\ top <= last /\ last \in Nat /\ top \in Nat
      BY <2>3, <2>4, <2>6
    <3> QED BY <3>1
  <2>8. NextVersion = 1 + last
    BY <2>3, <2>5 DEF NextVersion
  <2>9. LastVersion = top
    BY <1>2, <2>2 DEF LastVersion
  <2> QED BY <2>3, <2>4, <2>7, <2>8, <2>9
<1> QED BY <1>1, <1>2

\* Requests that do not insert leave the queue alone.
LEMMA RequestsKeepTurns ==
    ASSUME LockInv, TurnsInv, UNCHANGED <<capture, capturer>>,
           workspace'.latest = workspace.latest,
           NEW r \in Requester, NEW q, requester' = [requester EXCEPT ![r] = q],
           q.phase = "locked" => q.version = LastVersion + 1
    PROVE  TurnsInv' /\ QueueStep
<1>1. LastVersion' = LastVersion
  BY DEF LastVersion
<1>2. LockedIsNext'
  BY <1>1 DEF LockedIsNext, TurnsInv, LockInv, CaptureTypeOK
<1>3. PickedIsOldest'
  BY DEF PickedIsOldest, TurnsInv, Oldest, HasStatus
<1> QED BY <1>2, <1>3 DEF TurnsInv, QueueStep, Turns!queueVars

LEMMA IdleIsIdle == NoIteration.phase = "idle"
BY DEF NoIteration

\* A step of the worker that picks nothing
LEMMA WorkerKeepsTurns ==
    ASSUME OneCapturer, LockInv, TurnsInv, UNCHANGED requester,
           workspace'.latest = workspace.latest,
           \A k \in Key : capture'[k].version = capture[k].version,
           NEW w \in Capturer, NEW i, capturer' = [capturer EXCEPT ![w] = i],
           i.phase # "picked"
    PROVE  TurnsInv'
<1>1. LastVersion' = LastVersion
  BY DEF LastVersion, LockInv, CaptureTypeOK, Workspace
<1>2. LockedIsNext'
  BY <1>1 DEF LockedIsNext, TurnsInv
<1>3. \A v \in Capturer : capturer'[v] = i
  BY DEF OneCapturer, LockInv, CaptureTypeOK
<1> QED BY <1>2, <1>3 DEF TurnsInv, PickedIsOldest

LEMMA InsertAccepts ==
    ASSUME LockInv, TurnsInv, NEW r \in Requester, InsertCapture(r)
    PROVE  TurnsInv' /\ QueueStep
<1> DEFINE k == requester[r].key
           v == requester[r].version
<1> USE DEF LockInv
<1>1. requester[r].phase = "locked" /\ k \in Key /\ ~Exists(k) /\ v = LastVersion + 1
  BY DEF InsertCapture, RequestsHaveKeys, LockedIsCurrent, WithKey, TurnsInv, LockedIsNext
<1>2. v \in Nat /\ \A j \in Key : Exists(j) => capture[j].version < v
  BY <1>1 DEF LockedIsCurrent
<1>3. Unique(r)
  BY <1>1, <1>2 DEF Unique, Versions, CaptureTypeOK, Capture
<1>4. /\ capture' = [capture EXCEPT ![k] = [status |-> "queued", version |-> v, attempt |-> 0]]
      /\ workspace' = [workspace EXCEPT !.latest = k, !.source = "ingest_queued", !.direct = FALSE]
      /\ requester' = [requester EXCEPT ![r] = NoRequest]
      /\ UNCHANGED <<capturer, restarts>>
  BY <1>3 DEF InsertCapture, PointedAt
<1> HIDE DEF k, v
<1>5. LockedIsNext'
  BY <1>1, <1>4 DEF LockedIsNext, LockIsExclusive, CaptureTypeOK, NoRequest
<1>6. PickedIsOldest'
  <2> SUFFICES ASSUME NEW w \in Capturer, capturer[w].phase = "picked"
               PROVE  Oldest(capturer[w].key)'
    BY <1>4 DEF PickedIsOldest
  <2>1. PICK p : p = capturer[w].key
    OBVIOUS
  <2>2. p \in Key /\ Exists(p) /\ Oldest(p)
    BY <2>1 DEF IterationsAreSound, Sound, TurnsInv, PickedIsOldest
  <2>3. capture'[p] = capture[p] /\ capture[p].version < v
    BY <1>1, <1>2, <1>4, <2>2 DEF CaptureTypeOK
  <2>4. \A j \in Key : capture'[j] = IF j = k THEN [status |-> "queued", version |-> v, attempt |-> 0]
                                     ELSE capture[j]
    BY <1>1, <1>4 DEF CaptureTypeOK
  <2>5. capture[p].version \in Nat
    BY <2>2 DEF CaptureTypeOK, Capture
  <2>6. Oldest(p)'
    BY <1>2, <2>2, <2>3, <2>4, <2>5 DEF Oldest, HasStatus
  <2> QED BY <1>4, <2>1, <2>6
<1>7. Turns!Accept(k)
  <2>1. workspace'.latest = k
    BY <1>4 DEF CaptureTypeOK, Workspace
  <2> QED BY <1>1, <1>4, <2>1
          DEF Turns!Accept, Turns!LastVersion, Turns!Row, LastVersion, Exists
<1> QED BY <1>1, <1>5, <1>6, <1>7 DEF TurnsInv, QueueStep, Turns!Next

LEMMA ClaimStarts ==
    ASSUME OneCapturer, QueueInv, NEW w \in Capturer, Claim(w)
    PROVE  TurnsInv' /\ QueueStep
<1> USE DEF QueueInv
<1>1. PICK k : k = capturer[w].key
  OBVIOUS
<1>2. k \in Key /\ Exists(k) /\ Oldest(k) /\ capturer[w].phase = "picked"
  BY <1>1 DEF Claim, LockInv, IterationsAreSound, Sound, TurnsInv, PickedIsOldest
<1>3. PICK i : i = [capturer[w] EXCEPT !.phase = "executing"]
  OBVIOUS
<1>4. /\ capturer' = [capturer EXCEPT ![w] = i]
      /\ capture' = [capture EXCEPT ![k].status = "running", ![k].attempt = @ + 1]
      /\ UNCHANGED <<workspace, requester>>
  BY <1>1, <1>2, <1>3 DEF Claim, Claimable, Oldest, LockInv, CaptureTypeOK
<1>5. i.phase # "picked"
  BY <1>3 DEF LockInv, CaptureTypeOK, Iteration
<1>6. \A j \in Key : capture'[j].version = capture[j].version
  BY <1>4 DEF LockInv, CaptureTypeOK, Capture
<1>7. TurnsInv'
  BY <1>4, <1>5, <1>6, WorkerKeepsTurns
<1>8. capture[k].attempt < MaxAttempts
  <2>1. Capturer = {w}
    BY DEF OneCapturer
  <2>2. Limit = MaxAttempts
    BY <2>1, FS_Singleton, CaptureAssumption DEF Limit
  <2>3. capture[k].attempt + 1 + Cardinality(Retrying(k)) <= MaxAttempts
    BY <1>2, <2>2 DEF PlannedBounded, AttemptsPlanned, Waiting, Oldest
  <2> QED BY <1>2, <2>3, RetryingIsFinite, CaptureAssumption DEF LockInv, CaptureTypeOK, Capture
<1>9. Turns!Start(k)
  <2>1. capture[k] \in Capture
    BY <1>2 DEF LockInv, CaptureTypeOK
  <2>2. capture' = [capture EXCEPT ![k] = [status |-> "running", version |-> @.version,
                                           attempt |-> @.attempt + 1]]
    BY <1>2, <1>4, <2>1 DEF LockInv, CaptureTypeOK, Capture
  <2> QED BY <1>2, <1>4, <1>8, <2>2
          DEF Turns!Start, Turns!Waits, Turns!Row, Oldest, HasStatus
<1> QED BY <1>2, <1>7, <1>9 DEF QueueStep, Turns!Next

LEMMA CommitFinishes ==
    ASSUME OneCapturer, QueueInv, NEW w \in Capturer, CommitEnd(w)
    PROVE  TurnsInv' /\ QueueStep
<1> USE DEF QueueInv
<1> DEFINE k == capturer[w].key
           result == capturer[w].result
<1>1. k \in Key /\ result \in {"completed", "failed"} /\ capturer[w].phase = "ending"
  BY DEF CommitEnd, LockInv, IterationsAreSound, Sound, CaptureTypeOK, Iteration
<1>2. capture[k].status = "running"
  BY <1>1 DEF ShownInv, RowsRun
<1>3. /\ capture' = [capture EXCEPT ![k].status = result]
      /\ capturer' = [capturer EXCEPT ![w] = NoIteration]
      /\ UNCHANGED requester
  BY DEF CommitEnd
<1>4. workspace'.latest = workspace.latest
  BY DEF CommitEnd, LockInv, CaptureTypeOK, Workspace
<1> HIDE DEF k, result
<1>5. \A j \in Key : capture'[j].version = capture[j].version
  BY <1>3 DEF LockInv, CaptureTypeOK, Capture
<1>6. TurnsInv'
  BY <1>3, <1>4, <1>5, WorkerKeepsTurns, IdleIsIdle
<1>7. Turns!Finish(k, result)
  BY <1>2, <1>3, <1>4 DEF Turns!Finish
<1> QED BY <1>1, <1>6, <1>7 DEF QueueStep, Turns!Next

LEMMA ReconcileRecovers ==
    ASSUME OneCapturer, QueueInv, NEW w \in Capturer, ReconcileStale(w)
    PROVE  TurnsInv' /\ QueueStep
<1> USE DEF QueueInv
<1>1. PICK lost : lost = Listed(w)
  OBVIOUS
<1>2. \A k \in lost : /\ k \in Key /\ capture[k].status = "running"
                      /\ RetryAgain(w, k) <=> capture[k].attempt < MaxAttempts
  BY <1>1 DEF Listed, ShownInv, RowsRun, RetryAgain
<1>3. capture' = [k \in Key |->
           IF k \in lost
             THEN [capture[k] EXCEPT !.status = IF capture[k].attempt < MaxAttempts
                                                  THEN "queued" ELSE "failed"]
             ELSE capture[k]]
  BY <1>1, <1>2 DEF ReconcileStale
<1>4. workspace'.latest = workspace.latest
  BY DEF ReconcileStale, LockInv, CaptureTypeOK, Workspace
<1>5. \A k \in Key : capture'[k].version = capture[k].version
  BY <1>3 DEF LockInv, CaptureTypeOK, Capture
<1>6. PICK i : i = [NoIteration EXCEPT !.phase = "reconciled"]
  OBVIOUS
<1>7. capturer' = [capturer EXCEPT ![w] = i] /\ i.phase # "picked" /\ UNCHANGED requester
  BY <1>6 DEF ReconcileStale, NoIteration
<1>8. TurnsInv'
  BY <1>4, <1>5, <1>7, WorkerKeepsTurns
<1>9. Turns!Recover(lost)
  BY <1>2, <1>3, <1>4 DEF Turns!Recover, Turns!AfterLoss
<1> QED BY <1>2, <1>8, <1>9 DEF QueueStep, Turns!Next

LEMMA StepQueues ==
    ASSUME OneCapturer, QueueInv, [CaptureNext]_captureVars
    PROVE  TurnsInv' /\ QueueStep
<1> USE DEF QueueInv
<1>1. ASSUME NEW r \in Requester, NEW k \in Key, BeginQueue(r, k) PROVE TurnsInv' /\ QueueStep
  <2>1. PICK q : q = [requester[r] EXCEPT !.phase = "locking", !.key = k]
    OBVIOUS
  <2>2. q.phase # "locked" /\ requester' = [requester EXCEPT ![r] = q]
    BY <1>1, <2>1 DEF BeginQueue, LockInv, CaptureTypeOK, Request
  <2> QED BY <1>1, <2>2, RequestsKeepTurns DEF BeginQueue
<1>2. ASSUME NEW r \in Requester, LockWorkspace(r) PROVE TurnsInv' /\ QueueStep
  <2>1. CASE AlreadyQueued(r)
    BY <1>2, <2>1, RequestsKeepTurns DEF LockWorkspace, NoRequest
  <2>2. CASE ~AlreadyQueued(r)
    <3>1. PICK q : q = [requester[r] EXCEPT !.phase = "locked", !.version = NextVersion]
      OBVIOUS
    <3>2. q.version = LastVersion + 1
      BY <3>1, NextVersionIsNext DEF LockInv, CaptureTypeOK, Request
    <3>3. requester' = [requester EXCEPT ![r] = q]
      BY <1>2, <2>2, <3>1 DEF LockWorkspace, LockInv, CaptureTypeOK
    <3> QED BY <1>2, <3>2, <3>3, RequestsKeepTurns DEF LockWorkspace
  <2> QED BY <2>1, <2>2
<1>3. ASSUME NEW r \in Requester, BeginIngest(r) PROVE TurnsInv' /\ QueueStep
  <2>1. PICK q : q = [requester[r] EXCEPT !.phase = "ingesting", !.source = workspace.source]
    OBVIOUS
  <2>2. q.phase # "locked" /\ requester' = [requester EXCEPT ![r] = q]
    BY <1>3, <2>1 DEF BeginIngest, LockInv, CaptureTypeOK, Request
  <2> QED BY <1>3, <2>2, RequestsKeepTurns DEF BeginIngest
<1>4. ASSUME NEW r \in Requester, NEW status, CommitIngest(r, status)
      PROVE  TurnsInv' /\ QueueStep
  <2>1. workspace'.latest = workspace.latest
    BY <1>4 DEF CommitIngest, LockInv, CaptureTypeOK, Workspace
  <2> QED BY <1>4, <2>1, RequestsKeepTurns DEF CommitIngest, NoRequest
<1>5. ASSUME NEW r \in Requester, RequestStep(r) PROVE TurnsInv' /\ QueueStep
  BY <1>1, <1>2, <1>3, <1>4, <1>5, InsertAccepts DEF RequestStep
<1>6. ASSUME NEW w \in Capturer, PickNext(w) PROVE TurnsInv' /\ QueueStep
  <2>1. PICK k \in HasStatus("queued") :
          /\ \A j \in HasStatus("queued") : capture[k].version <= capture[j].version
          /\ capturer' = [capturer EXCEPT ![w] = [NoIteration EXCEPT !.phase = "picked", !.key = k]]
    BY <1>6 DEF PickNext
  <2>2. \A v \in Capturer : capturer'[v].key = k
    BY <2>1 DEF OneCapturer, LockInv, CaptureTypeOK, NoIteration
  <2>3. Oldest(k)'
    BY <1>6, <2>1 DEF PickNext, Oldest, HasStatus
  <2>4. PickedIsOldest'
    BY <2>2, <2>3 DEF PickedIsOldest
  <2> QED BY <1>6, <2>4 DEF PickNext, TurnsInv, LockedIsNext, LastVersion, QueueStep, Turns!queueVars
<1>7. ASSUME NEW w \in Capturer, NEW i, capturer' = [capturer EXCEPT ![w] = i], i.phase # "picked",
             UNCHANGED <<capture, workspace, requester>>
      PROVE  TurnsInv' /\ QueueStep
  BY <1>7, WorkerKeepsTurns DEF QueueStep, Turns!queueVars
<1>8. ASSUME NEW w \in Capturer, ListStale(w) PROVE TurnsInv' /\ QueueStep
  <2>1. PICK stale \in SUBSET Key :
          capturer' = [capturer EXCEPT ![w] =
              [NoIteration EXCEPT !.phase = "listed",
                   !.stale = [k \in Key |-> IF k \in stale THEN capture[k].attempt ELSE 0],
                   !.latest = workspace.latest, !.source = workspace.source]]
    BY <1>8 DEF ListStale, MayBeStale, HasStatus
  <2>2. PICK i : i = [NoIteration EXCEPT !.phase = "listed",
                   !.stale = [k \in Key |-> IF k \in stale THEN capture[k].attempt ELSE 0],
                   !.latest = workspace.latest, !.source = workspace.source]
    OBVIOUS
  <2>3. i.phase = "listed"
    BY <2>2 DEF NoIteration
  <2> QED BY <1>7, <1>8, <2>1, <2>2, <2>3 DEF ListStale
<1>9. ASSUME NEW w \in Capturer, NEW result, FetchEnds(w, result) PROVE TurnsInv' /\ QueueStep
  <2>1. PICK i : i = [capturer[w] EXCEPT !.phase = "ending", !.result = result,
                        !.latest = workspace.latest, !.source = workspace.source]
    OBVIOUS
  <2>2. i.phase = "ending" /\ capturer' = [capturer EXCEPT ![w] = i]
    BY <1>9, <2>1 DEF FetchEnds, LockInv, CaptureTypeOK, Iteration
  <2> QED BY <1>7, <1>9, <2>2 DEF FetchEnds
<1>10. ASSUME NEW w \in Capturer, NothingQueued(w) \/ Restart(w) PROVE TurnsInv' /\ QueueStep
  BY <1>7, <1>10, IdleIsIdle DEF NothingQueued, Restart
<1>11. ASSUME NEW w \in Capturer, GoOn(w) PROVE TurnsInv' /\ QueueStep
  BY <1>6, <1>9, <1>10, <1>11, ClaimStarts, CommitFinishes, ReconcileRecovers DEF GoOn
<1>12. CASE UNCHANGED captureVars
  BY <1>12 DEF captureVars, TurnsInv, PickedIsOldest, Oldest, HasStatus, LockedIsNext, LastVersion,
               QueueStep, Turns!queueVars
<1> QED BY <1>5, <1>8, <1>10, <1>11, <1>12 DEF CaptureNext

\* With one worker the captures implement the queue: they are taken oldest first,
\* tried at most MaxAttempts times, and end once, whatever requests overlap and
\* wherever the worker dies.
THEOREM CapturesAreAQueue == ASSUME OneCapturer PROVE CaptureSpec => QueueSpec
<1>1. CaptureInit => PlannedBounded /\ ShownInv /\ TurnsInv
  BY NoIterationShows
  DEF CaptureInit, PlannedBounded, Exists, ShownInv, EndShows, TurnsInv, PickedIsOldest,
      LockedIsNext, NoIteration, NoRequest
<1>2. CaptureInit => Turns!Init
  BY DEF CaptureInit, Turns!Init, Turns!Row
<1>3. QueueInv /\ LockInv' /\ [CaptureNext]_captureVars
        => PlannedBounded' /\ ShownInv' /\ TurnsInv' /\ QueueStep
  BY StepKeepsPlan, StepKeepsShown, StepQueues DEF QueueInv
<1> QED BY <1>1, <1>2, <1>3, LockInductive, PTL
        DEF CaptureSpec, QueueSpec, Turns!Spec, QueueInv, QueueStep
=============================================================================
