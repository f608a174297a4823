------------------------ MODULE PreviewRelease_proofs ------------------------
(***************************************************************************)
(* What TLAPS proves of PreviewRelease, for any versions, certificates and *)
(* workers.  The publications below it keep their invariant IInv, also     *)
(* when the calls are those of a release; the invariant of the releases    *)
(* adds what a row may claim, whoever wrote it, and what a request in      *)
(* flight knows of its gate and its plan.  The later sections suppose that *)
(* requests follow one another (OneAtATime), up to the implementation of   *)
(* ReleaseLedger.                                                          *)
(***************************************************************************)
EXTENDS PreviewRelease, SitePublishing_proofs, FiniteSetTheorems

\* A release row: its commit carries its version's files, an open github gate
\* has a commit, an open certificate gate a certificate, and a release that
\* is ready has no gate that is not.
Truthful(r, a, commits) ==
    /\ r.sha # 0 => r.sha \in DOMAIN commits /\ commits[r.sha].files = a
    /\ r.gate["github"] = "ready" => r.sha # 0
    /\ r.gate["certificate"] = "ready" => r.cert # None
    /\ r.status = "ready" => \A g \in Gate : r.gate[g] = "ready"

RowsTruthful == \A a \in Artifact : Truthful(release[a], a, repo)

\* A request in flight has its version, the number of a row to come, and the
\* gate it works on with something left to do.
Prepared(d) ==
    /\ d.phase # "idle" => d.artifact \in Artifact
    /\ d.phase = "insert" => d.number \in 1 .. Cardinality(Artifact)
    /\ d.phase \in {"mark", "execute", "fail"} => d.gate \in Gate \ Manual
    /\ d.phase = "execute" => d.todo # << >>

RequestsPrepared == \A w \in Worker : Prepared(advance[w])

RowsTyped == release \in [Artifact -> Release]
RequestsTyped == advance \in [Worker -> Advance]

ReleaseInv ==
    /\ IInv
    /\ RowsTyped /\ RowsTruthful
    /\ RequestsTyped /\ RequestsPrepared

-----------------------------------------------------------------------------
(* Gates *)

LEMMA Gates ==
    /\ Gate = {"source", "draft_package", "approval", "github", "certificate",
               "dns", "deployment", "verification"}
    /\ \A i, j \in 1 .. 8 : GateOrder[i] = GateOrder[j] => i = j
    /\ DOMAIN GateOrder = 1 .. 8
    /\ \A g \in Gate : \E i \in 1 .. 8 : g = GateOrder[i]
<1>1. DOMAIN GateOrder = 1 .. 8
  BY DEF GateOrder
<1>2. Gate = {GateOrder[1], GateOrder[2], GateOrder[3], GateOrder[4], GateOrder[5],
              GateOrder[6], GateOrder[7], GateOrder[8]}
  BY <1>1 DEF Gate
<1>3. \A i, j \in 1 .. 8 : GateOrder[i] = GateOrder[j] => i = j
  BY DEF GateOrder
<1> QED BY <1>1, <1>2, <1>3 DEF Gate, GateOrder

LEMMA EarlierGates ==
    ASSUME NEW i \in 1 .. 8
    PROVE  Earlier(GateOrder[i]) = {GateOrder[j] : j \in 1 .. i - 1}
<1>1. (CHOOSE k \in DOMAIN GateOrder : GateOrder[k] = GateOrder[i]) = i
  BY Gates
<1> QED BY <1>1 DEF Earlier

\* As long as some gate is not open, there is a first one that is not.
LEMMA FirstIncompleteType ==
    ASSUME NEW gate \in [Gate -> GateStatus]
    PROVE  /\ FirstIncomplete(gate) \in Gate \cup {"none"}
           /\ FirstIncomplete(gate) # "none" => gate[FirstIncomplete(gate)] # "ready"
<1>1. CASE \A g \in Gate : gate[g] = "ready"
  BY <1>1 DEF FirstIncomplete
<1>2. CASE ~\A g \in Gate : gate[g] = "ready"
  <2> DEFINE Shut(i) == gate[GateOrder[i]] # "ready"
  <2>1. \E i \in 1 .. 8 : Shut(i)
    BY <1>2, Gates
  <2>2. \E i \in 1 .. 8 : Shut(i) /\ \A j \in 1 .. i - 1 : ~Shut(j)
    <3> HIDE DEF Shut
    <3>1. CASE Shut(1)
      BY <3>1
    <3>2. CASE ~Shut(1) /\ Shut(2)
      BY <3>2
    <3>3. CASE ~Shut(1) /\ ~Shut(2) /\ Shut(3)
      BY <3>3
    <3>4. CASE ~Shut(1) /\ ~Shut(2) /\ ~Shut(3) /\ Shut(4)
      BY <3>4
    <3>5. CASE ~Shut(1) /\ ~Shut(2) /\ ~Shut(3) /\ ~Shut(4) /\ Shut(5)
      BY <3>5
    <3>6. CASE ~Shut(1) /\ ~Shut(2) /\ ~Shut(3) /\ ~Shut(4) /\ ~Shut(5) /\ Shut(6)
      BY <3>6
    <3>7. CASE ~Shut(1) /\ ~Shut(2) /\ ~Shut(3) /\ ~Shut(4) /\ ~Shut(5) /\ ~Shut(6) /\ Shut(7)
      BY <3>7
    <3>8. CASE ~Shut(1) /\ ~Shut(2) /\ ~Shut(3) /\ ~Shut(4) /\ ~Shut(5) /\ ~Shut(6) /\ ~Shut(7)
      BY <2>1, <3>8
    <3> QED BY <3>1, <3>2, <3>3, <3>4, <3>5, <3>6, <3>7, <3>8
  <2>3. PICK i \in 1 .. 8 : Shut(i) /\ \A j \in 1 .. i - 1 : ~Shut(j)
    BY <2>2
  <2>4. \A h \in Earlier(GateOrder[i]) : gate[h] = "ready"
    BY <2>3, EarlierGates
  <2>5. GateOrder[i] \in Gate
    BY Gates DEF Gate
  <2>6. \E g \in Gate : gate[g] # "ready" /\ \A h \in Earlier(g) : gate[h] = "ready"
    BY <2>3, <2>4, <2>5
  <2> QED BY <1>2, <2>6 DEF FirstIncomplete
<1> QED BY <1>1, <1>2

LEMMA PlanType ==
    ASSUME NEW g \in Gate \ Manual
    PROVE  Plan(g) \in Seq(Operation) /\ Plan(g) # << >>
<1>1. g \in {"github", "certificate", "dns", "deployment", "verification"}
  BY Gates DEF Manual
<1>2. CASE g = "github"
  BY <1>2 DEF Plan, Operation
<1>3. CASE g = "certificate"
  BY <1>3 DEF Plan, Operation
<1>4. CASE g = "dns"
  BY <1>4 DEF Plan, Operation
<1>5. CASE g = "deployment"
  BY <1>5 DEF Plan, Operation
<1>6. CASE g = "verification"
  BY <1>6 DEF Plan, Operation
<1> QED BY <1>1, <1>2, <1>3, <1>4, <1>5, <1>6

-----------------------------------------------------------------------------
(* Reconciliation *)

\* What reconcile writes is true of the rows it read, whatever was on record.
LEMMA ReconciledIsTruthful ==
    ASSUME ReleaseInv, NEW a \in Artifact, NEW ingested \in Ingested
    PROVE  Reconciled(a, ingested) \in Release /\ Truthful(Reconciled(a, ingested), a, repo)
<1> DEFINE r == release[a]
           pin == Pinned(r)
           gate == [g \in Gate |-> GateAfter(r, g, pin, a, ingested)]
           new == Reconciled(a, ingested)
<1>1. r \in Release /\ Truthful(r, a, repo)
  BY DEF ReleaseInv, RowsTyped, RowsTruthful
<1>2. pin \in Cert \cup {None} /\ (r.cert # None => pin # None)
  BY <1>1 DEF Pinned, InManifest, Release, ReleaseInv, IInv, TypeOK, BindingRow
<1>3. gate \in [Gate -> GateStatus]
  <2>1. \A g \in Gate : r.gate[g] \in GateStatus
    BY <1>1 DEF Release
  <2>2. ASSUME NEW g \in Gate PROVE GateAfter(r, g, pin, a, ingested) \in GateStatus
    BY <2>1 DEF GateAfter, GateStatus
  <2> QED BY <2>2
<1>4. StatusOf(gate) \in GateStatus /\ (StatusOf(gate) = "ready" => \A g \in Gate : gate[g] = "ready")
  BY DEF StatusOf, GateStatus
<1>5. FirstIncomplete(gate) \in Gate \cup {"none"}
  BY <1>3, FirstIncompleteType
<1>6. /\ CommitOf(r, a) \in 0 .. MaxCommits
      /\ CommitOf(r, a) # 0 => CommitOf(r, a) \in DOMAIN repo /\ repo[CommitOf(r, a)].files = a
      /\ r.sha # 0 => CommitOf(r, a) # 0
      /\ OnGitHub(a) => CommitOf(r, a) # 0
  BY <1>1 DEF CommitOf, OnGitHub, Release, Truthful, ReleaseInv, IInv, TypeOK, ArtifactRow,
              DataOK, ShaKnown
<1>7. gate["github"] = "ready" => OnGitHub(a) \/ r.gate["github"] = "ready"
  BY Gates DEF GateAfter, Evidence
<1>8. gate["certificate"] = "ready" => pin # None
  <2>1. gate["certificate"] = "ready" => InManifest(pin) \/ r.gate["certificate"] = "ready"
    BY Gates DEF GateAfter, Evidence
  <2> QED BY <1>1, <1>2, <2>1 DEF InManifest, Truthful
<1>9. new = [r EXCEPT !.gate = gate, !.status = StatusOf(gate), !.active = FirstIncomplete(gate),
                      !.sha = CommitOf(r, a), !.cert = pin]
  BY DEF Reconciled
<1> HIDE DEF r, pin, gate, new
<1>10. /\ new \in Release /\ new.gate = gate /\ new.status = StatusOf(gate)
       /\ new.sha = CommitOf(r, a) /\ new.cert = pin
  BY <1>1, <1>2, <1>3, <1>4, <1>5, <1>6, <1>9 DEF Release
<1>11. Truthful(new, a, repo)
  BY <1>1, <1>4, <1>6, <1>7, <1>8, <1>10 DEF Truthful
<1> QED BY <1>10, <1>11 DEF new
-----------------------------------------------------------------------------
(* What a step may change *)

RepoGrows ==
    /\ DOMAIN repo \subseteq DOMAIN repo'
    /\ \A n \in DOMAIN repo : repo'[n] = repo[n]

LEMMA StepGrows ==
    ASSUME IInv, NEW w \in Worker, Step(w) \/ Error(w)
    PROVE  RepoGrows
<1>1. repo' = repo \/ \E x : repo' = Append(repo, x)
  <2>1. CASE Step(w)
    BY <2>1 DEF Step, ReadBranch, Push, PushRejected, ProvisionWorkflow, Provision, RecordPublish,
                SettleRun, RefuseRunning, Dispatch, RecordDeploy, github
  <2>2. CASE Error(w)
    BY <2>2 DEF Error, BranchError, WorkflowError, SkipWorkflow, PushLost, DispatchError,
                DispatchLost, github
  <2> QED BY <2>1, <2>2
<1>2. repo \in Seq(Commit)
  BY DEF IInv, TypeOK
<1> QED BY <1>1, <1>2 DEF RepoGrows

\* A request that is over, or has only its version, is prepared.
LEMMA FinishedType ==
    ASSUME NEW conflict \in BOOLEAN
    PROVE  Finished(conflict) \in Advance /\ Prepared(Finished(conflict))
<1>1. 0 \in 0 .. Cardinality(Artifact) + 1
  BY FS_CardinalityType, ReleaseAssumption
<1> QED BY <1>1 DEF Finished, Advance, Prepared

LEMMA WorkingType ==
    ASSUME NEW phase \in {"insert", "mark", "execute", "reconcile", "fail"}, NEW a \in Artifact
    PROVE  /\ Working(phase, a) \in Advance
           /\ Working(phase, a).phase = phase /\ Working(phase, a).artifact = a
           /\ Prepared(Working("reconcile", a))
<1>1. Finished(FALSE) \in Advance
  BY FinishedType
<1> QED BY <1>1 DEF Working, Advance, Prepared

\* A step of a request writes at most one row, truthfully.
LEMMA ReleaseMoves ==
    ASSUME ReleaseInv, IInv', RepoGrows,
           \/ release' = release
           \/ \E a \in Artifact, r \in Release : /\ release' = [release EXCEPT ![a] = r]
                                               /\ Truthful(r, a, repo),
           \/ advance' = advance
           \/ \E w \in Worker, d \in Advance : Now(w, d) /\ Prepared(d)
    PROVE  ReleaseInv'
<1>1. RowsTyped' /\ \A a \in Artifact : Truthful(release'[a], a, repo)
  BY DEF ReleaseInv, RowsTyped, RowsTruthful
<1>2. RowsTruthful'
  BY <1>1 DEF RowsTruthful, Truthful, RepoGrows
<1>3. RequestsTyped' /\ RequestsPrepared'
  BY DEF ReleaseInv, RequestsTyped, RequestsPrepared, Now
<1> QED BY <1>1, <1>2, <1>3 DEF ReleaseInv

LEMMA RestGrows ==
    ASSUME ReleaseInv, UNCHANGED vars
    PROVE  IInv' /\ RepoGrows
<1>1. IInv'
  BY StutterIInv DEF ReleaseInv
<1>2. RepoGrows
  BY DEF vars, RepoGrows
<1> QED BY <1>1, <1>2

LEMMA ReconcileMoves ==
    ASSUME ReleaseInv, NEW a \in Artifact, Reconcile(a)
    PROVE  \E r \in Release : release' = [release EXCEPT ![a] = r] /\ Truthful(r, a, repo)
<1>1. PICK ingested \in Ingested : release' = [release EXCEPT ![a] = Reconciled(a, ingested)]
  BY DEF Reconcile
<1> QED BY <1>1, ReconciledIsTruthful

LEMMA NoReleaseType == NoRelease \in Release
BY FS_CardinalityType, ReleaseAssumption, PublishingAssumption DEF NoRelease, Release, GateStatus

LEMMA InitReleaseInv == ReleaseInit => ReleaseInv
<1> SUFFICES ASSUME ReleaseInit PROVE ReleaseInv
  OBVIOUS
<1>1. IInv
  BY InitIInv DEF ReleaseInit
<1>2. NoRelease \in Release
  BY NoReleaseType
<1>3. \A a \in Artifact : Truthful(NoRelease, a, repo)
  BY Gates DEF Truthful, NoRelease
<1>4. RowsTyped /\ RowsTruthful
  BY <1>2, <1>3 DEF ReleaseInit, RowsTyped, RowsTruthful
<1>5. RequestsTyped /\ RequestsPrepared
  BY FinishedType DEF ReleaseInit, RequestsTyped, RequestsPrepared
<1> QED BY <1>1, <1>4, <1>5 DEF ReleaseInv
-----------------------------------------------------------------------------
(* Creating a release *)

\* A version without a release leaves a number for it.
LEMMA NumberIsFree ==
    ASSUME NEW a \in Artifact, ~Exists(a)
    PROVE  NextNumber \in 1 .. Cardinality(Artifact)
<1> DEFINE S == {b \in Artifact : Exists(b)}
<1>1. IsFiniteSet(Artifact) /\ S \subseteq Artifact /\ S # Artifact
  BY ReleaseAssumption
<1>2. /\ Cardinality(S) \in Nat /\ Cardinality(Artifact) \in Nat
      /\ Cardinality(S) < Cardinality(Artifact)
  BY <1>1, FS_Subset, FS_CardinalityType
<1> QED BY <1>2 DEF NextNumber

LEMMA ReleasesBegin ==
    ASSUME ReleaseInv, NEW w \in Worker, NEW a \in Artifact, BeginCreate(w, a)
    PROVE  ReleaseInv'
<1>1. /\ artifact' = [artifact EXCEPT ![a].approved = TRUE]
      /\ UNCHANGED <<workspace, binding, repo, dispatched, live, call, faults, release>>
  BY DEF BeginCreate, github
<1>2. /\ artifact \in [Artifact -> ArtifactRow] /\ workspace \in WorkspaceRow
      /\ binding \in BindingRow /\ live \in dispatched \cup {0} /\ faults \in 0 .. MaxFaults
      /\ PublishedHasSha /\ HistoryHasSha /\ IInv
  BY DEF ReleaseInv, IInv, TypeOK, DataOK
<1>3. /\ artifact' \in [Artifact -> ArtifactRow]
      /\ \A b \in Artifact : /\ artifact'[b].sha = artifact[b].sha
                             /\ artifact'[b].publish = artifact[b].publish
  BY <1>1, <1>2 DEF ArtifactRow
<1>4. PublishedHasSha' /\ HistoryHasSha' /\ BranchStep
  BY <1>1, <1>2, <1>3 DEF PublishedHasSha, HistoryHasSha, BranchStep
<1>5. IInv'
  <2> HIDE DEF BranchStep, PublishedHasSha, HistoryHasSha
  <2> QED BY <1>1, <1>2, <1>3, <1>4, RowsStep
<1>6. RepoGrows
  BY <1>1 DEF RepoGrows
<1>7. \E d \in Advance : Now(w, d) /\ Prepared(d)
  <2>1. CASE Exists(a)
    BY <2>1, WorkingType DEF BeginCreate
  <2>2. CASE ~Exists(a)
    <3> DEFINE d == [Working("insert", a) EXCEPT !.number = NextNumber]
    <3>1. NextNumber \in 1 .. Cardinality(Artifact) /\ Cardinality(Artifact) \in Nat
      BY <2>2, NumberIsFree, FS_CardinalityType, ReleaseAssumption
    <3>2. d \in Advance /\ Prepared(d)
      BY <3>1, WorkingType DEF Advance, Prepared
    <3>3. Now(w, d)
      BY <2>2 DEF BeginCreate
    <3> QED BY <3>2, <3>3
  <2> QED BY <2>1, <2>2
<1> QED BY <1>1, <1>5, <1>6, <1>7, ReleaseMoves

LEMMA RequestOf ==
    ASSUME ReleaseInv, NEW w \in Worker
    PROVE  advance[w] \in Advance /\ Prepared(advance[w])
BY DEF ReleaseInv, RequestsTyped, RequestsPrepared

LEMMA ReleasesAreInserted ==
    ASSUME ReleaseInv, NEW w \in Worker, InsertRelease(w)
    PROVE  ReleaseInv'
<1> DEFINE a == advance[w].artifact
           n == advance[w].number
           new(ingested) == [NoRelease EXCEPT !.number = n, !.gate = InitialGate(a, ingested)]
<1>1. a \in Artifact /\ n \in 1 .. Cardinality(Artifact)
  BY RequestOf DEF InsertRelease, At, Prepared
<1>2. IInv' /\ RepoGrows
  BY RestGrows DEF InsertRelease
<1>3. ASSUME NEW ingested \in BOOLEAN
      PROVE  new(ingested) \in Release /\ Truthful(new(ingested), a, repo)
  <2>1. InitialGate(a, ingested) \in [Gate -> GateStatus]
    BY DEF InitialGate, GateStatus
  <2>2. /\ InitialGate(a, ingested)["github"] # "ready"
        /\ InitialGate(a, ingested)["certificate"] # "ready"
    BY Gates DEF InitialGate
  <2>3. Cardinality(Artifact) \in Nat /\ MaxCommits \in Nat
    BY FS_CardinalityType, ReleaseAssumption, PublishingAssumption
  <2>4. NoRelease \in Release /\ NoRelease.sha = 0 /\ NoRelease.status = "waiting"
    BY NoReleaseType DEF NoRelease
  <2> DEFINE gate == InitialGate(a, ingested)
  <2> HIDE DEF a, n, gate
  <2>5. /\ new(ingested) \in Release /\ new(ingested).gate = InitialGate(a, ingested)
        /\ new(ingested).sha = 0 /\ new(ingested).status = "waiting"
    <3>1. gate \in [Gate -> GateStatus] /\ n \in 0 .. Cardinality(Artifact)
      BY <1>1, <2>1, <2>3 DEF gate
    <3>2. new(ingested) = [NoRelease EXCEPT !.number = n, !.gate = gate]
      BY DEF gate
    <3>3. /\ [NoRelease EXCEPT !.number = n, !.gate = gate] \in Release
          /\ [NoRelease EXCEPT !.number = n, !.gate = gate].gate = gate
          /\ [NoRelease EXCEPT !.number = n, !.gate = gate].sha = 0
          /\ [NoRelease EXCEPT !.number = n, !.gate = gate].status = "waiting"
      BY <2>4, <3>1 DEF Release
    <3> HIDE DEF new
    <3> QED BY <3>2, <3>3 DEF gate
  <2> HIDE DEF new
  <2> QED BY <2>2, <2>5 DEF Truthful
<1>4. \/ /\ release' = release
         /\ \E conflict \in BOOLEAN : Now(w, Finished(conflict))
      \/ /\ \E ingested \in Ingested : release' = [release EXCEPT ![a] = new(ingested)]
         /\ Now(w, Working("reconcile", a))
  BY DEF InsertRelease, Taken, Exists
<1> HIDE DEF a, n, new
<1>5. \E d \in Advance : Now(w, d) /\ Prepared(d)
  BY <1>1, <1>4, FinishedType, WorkingType
<1>6. \/ release' = release
      \/ \E r \in Release : release' = [release EXCEPT ![a] = r] /\ Truthful(r, a, repo)
  BY <1>3, <1>4, ReleaseAssumption
<1> QED BY <1>1, <1>2, <1>5, <1>6, ReleaseMoves

LEMMA RowsAreReconciled ==
    ASSUME ReleaseInv, NEW a \in Artifact, ReconcileRelease(a)
    PROVE  ReleaseInv'
<1>1. IInv' /\ RepoGrows /\ advance' = advance
  BY RestGrows DEF ReconcileRelease
<1> QED BY <1>1, ReconcileMoves, ReleaseMoves DEF ReconcileRelease

-----------------------------------------------------------------------------
(* Advancing a release *)

LEMMA AdvancesBegin ==
    ASSUME ReleaseInv, NEW w \in Worker, NEW a \in Artifact, BeginAdvance(w, a)
    PROVE  ReleaseInv'
<1>1. PICK r \in Release : release' = [release EXCEPT ![a] = r] /\ Truthful(r, a, repo)
  BY ReconcileMoves DEF BeginAdvance
<1>2. release'[a] = r /\ r.active \in Gate \cup {"none"}
  BY <1>1 DEF ReleaseInv, RowsTyped, Release
<1>3. \/ Now(w, Finished(FALSE))
      \/ /\ r.active \notin Manual \cup {"none"}
         /\ Now(w, [Working("mark", a) EXCEPT !.gate = r.active])
  BY <1>2 DEF BeginAdvance
<1>4. r.active \in Gate \ Manual => /\ [Working("mark", a) EXCEPT !.gate = r.active] \in Advance
                                    /\ Prepared([Working("mark", a) EXCEPT !.gate = r.active])
  BY WorkingType DEF Advance, Prepared
<1>5. \E d \in Advance : Now(w, d) /\ Prepared(d)
  BY <1>2, <1>3, <1>4, FinishedType
<1>6. IInv' /\ RepoGrows
  BY RestGrows DEF BeginAdvance
<1> QED BY <1>1, <1>5, <1>6, ReleaseMoves

\* Marking a gate closes it, and a row with a gate that is not open is not ready.
LEMMA MarkedIsTruthful ==
    ASSUME ReleaseInv, NEW a \in Artifact, NEW g \in Gate, NEW s \in {"running", "failed"}
    PROVE  LET r == [release[a] EXCEPT !.gate[g] = s, !.status = s, !.active = g]
           IN r \in Release /\ Truthful(r, a, repo)
<1>1. release[a] \in Release /\ Truthful(release[a], a, repo)
  BY DEF ReleaseInv, RowsTyped, RowsTruthful
<1> DEFINE r == [release[a] EXCEPT !.gate[g] = s, !.status = s, !.active = g]
<1>2. r \in Release
  BY <1>1 DEF Release, GateStatus
<1>3. /\ r.sha = release[a].sha /\ r.cert = release[a].cert /\ r.status = s
      /\ \A h \in Gate : r.gate[h] = IF h = g THEN s ELSE release[a].gate[h]
  BY <1>1 DEF Release
<1>4. Truthful(r, a, repo)
  <2> HIDE DEF r
  <2> QED BY <1>1, <1>3, Gates DEF Truthful
<1> QED BY <1>2, <1>4

LEMMA GatesAreMarked ==
    ASSUME ReleaseInv, NEW w \in Worker, MarkRunning(w) \/ MarkFailed(w)
    PROVE  ReleaseInv'
<1> DEFINE d == advance[w]
           a == advance[w].artifact
           g == advance[w].gate
           row(s) == [release[a] EXCEPT !.gate[g] = s, !.status = s, !.active = g]
           next == [d EXCEPT !.phase = "execute", !.todo = Plan(g)]
<1>1. d \in Advance /\ a \in Artifact /\ g \in Gate \ Manual
  BY RequestOf DEF MarkRunning, MarkFailed, At, Prepared
<1>2. IInv' /\ RepoGrows
  BY RestGrows DEF MarkRunning, MarkFailed
<1>3. \A s \in {"running", "failed"} : row(s) \in Release /\ Truthful(row(s), a, repo)
  BY <1>1, MarkedIsTruthful
<1>4. next \in Advance /\ Prepared(next)
  BY <1>1, PlanType DEF Advance, Prepared
<1>5. \/ release' = release
      \/ \E s \in {"running", "failed"} : release' = [release EXCEPT ![a] = row(s)]
  BY DEF MarkRunning, MarkFailed
<1>6. Now(w, Finished(FALSE)) \/ Now(w, next)
  BY DEF MarkRunning, MarkFailed
<1> HIDE DEF d, a, g, row, next
<1> QED BY <1>1, <1>2, <1>3, <1>4, <1>5, <1>6, FinishedType, ReleaseMoves
\* A publication or deployment for a release begins like one by hand.
LEMMA CallsStart ==
    ASSUME IInv, NEW w \in Worker, NEW a \in Artifact,
           NEW mode \in {"content", "reconcile", "release"},
           BeginPublish(w, a, mode) \/ BeginDeploy(w, a, mode)
    PROVE  IInv'
<1>1. UNCHANGED <<database, github, faults>> /\ faults' \in 0 .. MaxFaults
  BY DEF BeginPublish, BeginDeploy, IInv, TypeOK
<1>2. CASE BeginPublish(w, a, mode)
  <2>1. Open("publish", "branch", mode, a) \in Call
    BY OpenType DEF IInv, Phase
  <2>2. Sound(Open("publish", "branch", mode, a), artifact, repo, dispatched)
    BY OpenIsSound
  <2>3. Becomes(w, Open("publish", "branch", mode, a)) \/ Becomes(w, Ended(mode, "refused"))
    BY <1>2 DEF BeginPublish
  <2> QED BY <1>1, <2>1, <2>2, <2>3, CallStep, EndStep DEF Result
<1>3. CASE BeginDeploy(w, a, mode)
  <2>1. \A phase \in {"running", "dispatch"} : Open("deploy", phase, mode, a) \in Call
    BY OpenType DEF IInv, Phase
  <2>2. Deployable(a) => \A phase \in {"running", "dispatch"} :
          Sound(Open("deploy", phase, mode, a), artifact, repo, dispatched)
    BY OpenIsSound
  <2>3. \/ Becomes(w, Ended(mode, "refused"))
        \/ /\ Deployable(a)
           /\ \E phase \in {"running", "dispatch"} : Becomes(w, Open("deploy", phase, mode, a))
    BY <1>3 DEF BeginDeploy
  <2> QED BY <1>1, <2>1, <2>2, <2>3, CallStep, EndStep DEF Result
<1> QED BY <1>2, <1>3

\* Writing the binding is all the operations of the TLS service do here.
LEMMA BindingStep ==
    ASSUME IInv, binding' \in BindingRow,
           UNCHANGED <<artifact, workspace, github, call, faults>>
    PROVE  IInv'
<1>1. UNCHANGED <<artifact, workspace, repo, dispatched, live, call, faults>>
  BY DEF github
<1>2. /\ PublishedHasSha' /\ HistoryHasSha' /\ faults' \in 0 .. MaxFaults
      /\ artifact' \in [Artifact -> ArtifactRow] /\ workspace' \in WorkspaceRow
      /\ live' \in dispatched \cup {0} /\ BranchStep
  BY <1>1 DEF IInv, TypeOK, DataOK, PublishedHasSha, HistoryHasSha, BranchStep
<1> HIDE DEF BranchStep, PublishedHasSha, HistoryHasSha
<1> QED BY <1>1, <1>2, RowsStep

LEMMA RestOfPlan ==
    ASSUME NEW s \in Seq(Operation), s # << >>
    PROVE  Tail(s) \in Seq(Operation) /\ (Len(s) # 1 => Tail(s) # << >>)
<1>1. Len(s) \in Nat \ {0}
  OBVIOUS
<1>2. Tail(s) \in Seq(Operation) /\ Len(Tail(s)) = Len(s) - 1
  BY <1>1
<1> QED BY <1>1, <1>2

\* The request goes on with its plan, or gives its gate up.
LEMMA RequestsGoOn ==
    ASSUME ReleaseInv, NEW w \in Worker, At(w, "execute"), Done(w) \/ Give(w)
    PROVE  \E d \in Advance : Now(w, d) /\ Prepared(d)
<1> DEFINE d == advance[w]
           next == [d EXCEPT !.todo = Tail(@),
                             !.phase = IF Len(d.todo) = 1 THEN "reconcile" ELSE @]
           given == [d EXCEPT !.phase = "fail", !.todo = << >>]
<1>1. /\ d \in Advance /\ d.phase = "execute" /\ d.todo \in Seq(Operation) /\ d.todo # << >>
      /\ d.artifact \in Artifact /\ d.gate \in Gate \ Manual
  BY RequestOf DEF At, Prepared, Advance
<1>2. Tail(d.todo) \in Seq(Operation) /\ (Len(d.todo) # 1 => Tail(d.todo) # << >>)
  <2> HIDE DEF d
  <2> QED BY <1>1, RestOfPlan
<1>3. next \in Advance /\ Prepared(next)
  <2> HIDE DEF d
  <2>1. next \in Advance
    BY <1>1, <1>2 DEF Advance
  <2>2. /\ next.phase \in {"execute", "reconcile"} /\ next.artifact = d.artifact
        /\ next.gate = d.gate /\ (next.phase = "execute" => next.todo # << >>)
    BY <1>1, <1>2 DEF Advance
  <2> HIDE DEF next
  <2> QED BY <1>1, <2>1, <2>2 DEF Prepared
<1>4. given \in Advance /\ Prepared(given)
  <2> HIDE DEF d
  <2>1. << >> \in Seq(Operation)
    OBVIOUS
  <2>2. /\ given \in Advance /\ given.phase = "fail" /\ given.artifact = d.artifact
        /\ given.gate = d.gate
    BY <1>1, <2>1 DEF Advance
  <2> HIDE DEF given
  <2> QED BY <1>1, <2>2 DEF Prepared
<1>5. Now(w, next) \/ Now(w, given)
  BY DEF Done, Give
<1> HIDE DEF d, next, given
<1> QED BY <1>3, <1>4, <1>5

LEMMA CallsOfReleases ==
    ASSUME ReleaseInv, NEW w \in Worker, StartCall(w) \/ EndCall(w)
    PROVE  ReleaseInv'
<1>1. At(w, "execute") /\ IInv
  BY DEF StartCall, EndCall, Due, ReleaseInv
<1>2. advance[w].artifact \in Artifact
  BY <1>1, RequestOf DEF At, Prepared
<1>3. RepoGrows /\ release' = release
  BY DEF StartCall, EndCall, BeginPublish, BeginDeploy, github, RepoGrows, releaseVars
<1>4. CASE StartCall(w)
  <2>1. IInv'
    BY <1>1, <1>2, <1>4, CallsStart DEF StartCall
  <2>2. advance' = advance
    BY <1>4 DEF StartCall, releaseVars
  <2> QED BY <1>3, <2>1, <2>2, ReleaseMoves
<1>5. CASE EndCall(w)
  <2>1. IInv'
    <3>1. faults' \in 0 .. MaxFaults /\ UNCHANGED <<database, github>>
      BY <1>1, <1>5 DEF EndCall, IInv, TypeOK
    <3>2. Becomes(w, Over("none"))
      BY <1>5 DEF EndCall
    <3> QED BY <1>1, <3>1, <3>2, CallStep, OverType, OverIsSound DEF Result
  <2>2. \E d \in Advance : Now(w, d) /\ Prepared(d)
    <3>1. Done(w) \/ Give(w)
      BY <1>5 DEF EndCall
    <3> QED BY <1>1, <3>1, RequestsGoOn
  <2> QED BY <1>3, <2>1, <2>2, ReleaseMoves
<1> QED BY <1>4, <1>5

LEMMA TLSOperations ==
    ASSUME ReleaseInv, NEW w \in Worker,
           EnsureCertificate(w) \/ EnsureFails(w) \/ VerifyServing(w) \/ VerifyFails(w)
    PROVE  ReleaseInv'
<1>1. /\ At(w, "execute") /\ release' = release /\ (Done(w) \/ Give(w))
      /\ UNCHANGED <<artifact, workspace, github, call, faults>>
  BY DEF EnsureCertificate, EnsureFails, VerifyServing, VerifyFails, Due, vars, github
<1>2. IInv /\ binding \in BindingRow
  BY DEF ReleaseInv, IInv, TypeOK
<1>3. binding' \in BindingRow
  <2>1. CASE EnsureCertificate(w)
    <3>1. ASSUME NEW c \in Cert, Select(c)
          PROVE  binding' \in BindingRow
      BY <1>2, <3>1 DEF Select, BindingRow
    <3> QED BY <1>2, <2>1, <3>1 DEF EnsureCertificate
  <2>2. CASE EnsureFails(w)
    BY <1>2, <2>2 DEF EnsureFails, vars
  <2>3. CASE VerifyServing(w)
    <3>1. Serves \in BOOLEAN
      BY DEF Serves
    <3> QED BY <1>2, <2>3, <3>1 DEF VerifyServing, BindingRow
  <2>4. CASE VerifyFails(w)
    BY <1>2, <2>4 DEF VerifyFails, BindingRow
  <2> QED BY <2>1, <2>2, <2>3, <2>4
<1>4. IInv' /\ RepoGrows
  BY <1>1, <1>2, <1>3, BindingStep DEF github, RepoGrows
<1>5. \E d \in Advance : Now(w, d) /\ Prepared(d)
  BY <1>1, RequestsGoOn
<1> QED BY <1>1, <1>4, <1>5, ReleaseMoves

LEMMA RequestsEnd ==
    ASSUME ReleaseInv, NEW w \in Worker, FinishRequest(w) \/ Abort(w)
    PROVE  ReleaseInv'
<1>1. \E d \in Advance : Now(w, d) /\ Prepared(d)
  BY FinishedType DEF FinishRequest, Abort
<1>2. CASE FinishRequest(w)
  <2>1. advance[w].artifact \in Artifact
    BY <1>2, RequestOf DEF FinishRequest, At, Prepared
  <2>2. IInv' /\ RepoGrows
    BY <1>2, RestGrows DEF FinishRequest
  <2> QED BY <1>1, <1>2, <2>1, <2>2, ReconcileMoves, ReleaseMoves DEF FinishRequest
<1>3. CASE Abort(w)
  <2>1. /\ IInv /\ UNCHANGED <<database, github>> /\ Becomes(w, Over("none")) /\ release' = release
    BY <1>3 DEF Abort, ReleaseInv
  <2>2. faults' \in 0 .. MaxFaults
    BY <1>3, PublishingAssumption DEF Abort, ReleaseInv, IInv, TypeOK
  <2>3. IInv'
    BY <2>1, <2>2, CallStep, OverType, OverIsSound DEF Result
  <2>4. RepoGrows
    BY <2>1 DEF github, RepoGrows
  <2> QED BY <1>1, <2>1, <2>3, <2>4, ReleaseMoves
<1> QED BY <1>2, <1>3

-----------------------------------------------------------------------------
(* Theorems *)

LEMMA NextReleaseInv == ASSUME ReleaseInv, [ReleaseNext]_allVars PROVE ReleaseInv'
<1>1. ASSUME NEW w \in Worker, NEW a \in Artifact,
             BeginCreate(w, a) \/ BeginAdvance(w, a) \/ ReconcileRelease(a)
      PROVE  ReleaseInv'
  BY <1>1, ReleasesBegin, AdvancesBegin, RowsAreReconciled
<1>2. ASSUME NEW w \in Worker, NEW a \in Artifact, Request(a) \/ Begin(w, a),
             UNCHANGED releaseVars
      PROVE  ReleaseInv'
  <2>1. IInv'
    BY <1>2, RequestIInv, BeginIInv DEF ReleaseInv
  <2>2. RepoGrows
    BY <1>2 DEF Request, Approve, Delete, SelectCertificate, FailCertificate, VerifyEndpoint, Begin,
                BeginPublish, BeginDeploy, BeginRefresh, github, RepoGrows
  <2> QED BY <1>2, <2>1, <2>2, ReleaseMoves DEF releaseVars
<1>3. ASSUME NEW w \in Worker, ReleaseStep(w) \/ Abort(w)
      PROVE  ReleaseInv'
  BY <1>3, ReleasesAreInserted, GatesAreMarked, CallsOfReleases, TLSOperations, RequestsEnd
  DEF ReleaseStep
<1>4. ASSUME NEW w \in Worker, Step(w) \/ Error(w), UNCHANGED releaseVars
      PROVE  ReleaseInv'
  <2>1. IInv'
    BY <1>4, NextIInv DEF ReleaseInv, Next
  <2>2. RepoGrows
    BY <1>4, StepGrows DEF ReleaseInv
  <2> QED BY <1>4, <2>1, <2>2, ReleaseMoves DEF releaseVars
<1>5. CASE Rollout /\ UNCHANGED releaseVars
  <2>1. IInv' /\ RepoGrows
    BY <1>5, RolloutIInv DEF ReleaseInv, Rollout, RepoGrows
  <2> QED BY <1>5, <2>1, ReleaseMoves DEF releaseVars
<1>6. CASE UNCHANGED allVars
  BY <1>6, RestGrows, ReleaseMoves DEF allVars, releaseVars
<1> QED BY <1>1, <1>2, <1>3, <1>4, <1>5, <1>6 DEF ReleaseNext

LEMMA ReleaseInductive == ReleaseSpec => []ReleaseInv
<1>1. ReleaseInit => ReleaseInv
  BY InitReleaseInv
<1>2. ReleaseInv /\ [ReleaseNext]_allVars => ReleaseInv'
  BY NextReleaseInv
<1> QED BY <1>1, <1>2, PTL DEF ReleaseSpec

\* Release rows and requests keep their types whatever overlaps: a number is
\* never larger than the number of versions (next_release_number), and a plan
\* is worked off, never past its end.
THEOREM ReleaseTypeCorrect == ReleaseSpec => []ReleaseTypeOK
<1>1. ReleaseInv => ReleaseTypeOK
  BY DEF ReleaseInv, RowsTyped, RequestsTyped, ReleaseTypeOK, IInv
<1> QED BY <1>1, ReleaseInductive, PTL

\* The commit of a release carries the files of its own version, however many
\* publications, deployments and reconciliations of it and of others overlap,
\* fail or die (PreviewReleaseService.reconcile).
THEOREM ReleaseCommitIsExact == ReleaseSpec => []ReleaseCommitExact
<1>1. ReleaseInv => ReleaseCommitExact
  BY DEF ReleaseInv, RowsTruthful, Truthful, ReleaseCommitExact
<1> QED BY <1>1, ReleaseInductive, PTL

\* A release that is ready has all its gates open, a commit and a certificate,
\* although advances that overlap mark, fail and reopen its gates (advance,
\* mark_gate_running, mark_gate_failed).
THEOREM ReadyReleaseIsComplete == ReleaseSpec => []ReadyIsComplete
<1>1. ReleaseInv => ReadyIsComplete
  BY Gates DEF ReleaseInv, RowsTruthful, Truthful, ReadyIsComplete
<1> QED BY <1>1, ReleaseInductive, PTL

-----------------------------------------------------------------------------
(* What a certificate gate and a verification gate are evidence of           *)

\* Some commit's manifest names certificate c; one that was dispatched does.
Named(c) == \E n \in DOMAIN repo : repo[n].cert = c
RolledOut(c) == \E n \in dispatched : repo[n].cert = c

BranchGrew == RepoGrows /\ dispatched \subseteq dispatched'

LEMMA EvidenceStays ==
    ASSUME ReleaseInv, BranchGrew, NEW c
    PROVE  (Named(c) => Named(c)') /\ (RolledOut(c) => RolledOut(c)')
<1>1. dispatched \subseteq DOMAIN repo
  BY DEF ReleaseInv, IInv, TypeOK
<1> QED BY <1>1 DEF BranchGrew, RepoGrows, Named, RolledOut

\* Steps of a publication or deployment add commits and workflow runs, and
\* write the binding only to record its manifest.
LEMMA StepsOfCalls ==
    ASSUME IInv, NEW w \in Worker, Step(w) \/ Error(w)
    PROVE  /\ BranchGrew
           /\ ~In(w, "idle")
           /\ \E r :
                /\ Becomes(w, r)
                /\ \/ UNCHANGED binding /\ r.phase = "idle"
                   \/ /\ r.phase = "idle" /\ call[w].marked # None
                      /\ binding' = [binding EXCEPT !.inManifest = TRUE]
                   \/ /\ UNCHANGED binding
                      /\ r.op = call[w].op /\ r.cert = call[w].cert
                      /\ \/ r.marked = call[w].marked
                         \/ r.marked = None
                         \/ r.marked = binding.cert /\ call[w].op = "publish"
                            /\ \E n \in DOMAIN repo' : repo'[n].cert = call[w].cert
<1> DEFINE c == call[w]
           Kind(r) ==
             \/ UNCHANGED binding /\ r.phase = "idle"
             \/ /\ r.phase = "idle" /\ c.marked # None
                /\ binding' = [binding EXCEPT !.inManifest = TRUE]
             \/ /\ UNCHANGED binding
                /\ r.op = c.op /\ r.cert = c.cert
                /\ \/ r.marked = c.marked
                   \/ r.marked = None
                   \/ /\ r.marked = binding.cert /\ c.op = "publish"
                      /\ \E n \in DOMAIN repo' : repo'[n].cert = c.cert
<1>1. c \in Call /\ Sound(c, artifact, repo, dispatched)
  BY CallOf
<1>2. \A phase, parent :
         LET r == [c EXCEPT !.phase = phase]
             s == [c EXCEPT !.phase = phase, !.parent = parent]
         IN /\ r.op = c.op /\ r.cert = c.cert /\ r.marked = c.marked
            /\ s.op = c.op /\ s.cert = c.cert /\ s.marked = c.marked
  BY <1>1 DEF Call
<1>3. /\ dispatched \subseteq dispatched' /\ ~In(w, "idle")
  <2>1. CASE Step(w)
    BY <2>1 DEF Step, ReadBranch, Push, PushRejected, ProvisionWorkflow, RecordPublish,
                SettleRun, RefuseRunning, Dispatch, RecordDeploy, github, In
  <2>2. CASE Error(w)
    BY <2>2 DEF Error, BranchError, WorkflowError, SkipWorkflow, PushLost, DispatchError,
                DispatchLost, github, In
  <2> QED BY <2>1, <2>2
<1>4. ASSUME RecordPublishFailure(w) \/ RecordDeployFailure(w), UNCHANGED binding
      PROVE  \E r : Becomes(w, r) /\ Kind(r)
  BY <1>4, PhaseOver DEF RecordPublishFailure, RecordDeployFailure
<1>5. CASE PushRejected(w) \/ BranchError(w) \/ PushLost(w) \/ DispatchError(w) \/ DispatchLost(w)
  BY <1>3, <1>4, <1>5, StepGrows
  DEF PushRejected, BranchError, PushLost, DispatchError, DispatchLost, BranchGrew
<1>6. CASE ReadBranch(w) \/ Push(w) \/ RefuseRunning(w) \/ Dispatch(w)
  <2>1. /\ UNCHANGED binding
        /\ \/ \E mode, result : Becomes(w, Ended(mode, result))
           \/ \E phase, parent : \/ Becomes(w, [c EXCEPT !.phase = phase])
                                 \/ Becomes(w, [c EXCEPT !.phase = phase, !.parent = parent])
    BY <1>6 DEF ReadBranch, Push, RefuseRunning, Dispatch, GoTo, database
  <2>2. \E r : Becomes(w, r) /\ Kind(r)
    <3>1. CASE \E mode, result : Becomes(w, Ended(mode, result))
      BY <2>1, <3>1, PhaseOver
    <3>2. CASE \E phase, parent : \/ Becomes(w, [c EXCEPT !.phase = phase])
                                  \/ Becomes(w, [c EXCEPT !.phase = phase, !.parent = parent])
      <4> PICK phase, parent : \/ Becomes(w, [c EXCEPT !.phase = phase])
                               \/ Becomes(w, [c EXCEPT !.phase = phase, !.parent = parent])
        BY <3>2
      <4> DEFINE s == [c EXCEPT !.phase = phase]
                 t == [c EXCEPT !.phase = phase, !.parent = parent]
      <4>1. Kind(s) /\ Kind(t)
        BY <1>2, <2>1
      <4> HIDE DEF Kind, s, t
      <4>2. Becomes(w, s) \/ Becomes(w, t)
        BY DEF s, t
      <4> QED BY <4>1, <4>2
    <3> QED BY <2>1, <3>1, <3>2
  <2> HIDE DEF Kind
  <2>3. BranchGrew
    BY <1>3, StepGrows DEF BranchGrew
  <2> QED BY <1>3, <2>2, <2>3 DEF Kind
<1>7. CASE ProvisionWorkflow(w)
  <2>1. c.op = "publish" /\ repo \in Seq(Commit) /\ Tip \in DOMAIN repo
    BY <1>1, <1>7 DEF ProvisionWorkflow, In, Sound, Publishing, IInv, TypeOK, DataOK, BranchOK, Tip
  <2>2. \E n \in DOMAIN repo' : repo'[n].cert = c.cert
    <3>1. CASE repo[Tip].cert = c.cert
      BY <1>7, <2>1, <3>1 DEF ProvisionWorkflow, Provision
    <3>2. CASE repo[Tip].cert # c.cert
      <4>1. repo' = Append(repo, [files |-> repo[Tip].files, cert |-> c.cert])
        BY <1>7, <3>2 DEF ProvisionWorkflow, Provision
      <4>2. /\ Len(repo) + 1 \in DOMAIN repo'
            /\ repo'[Len(repo) + 1] = [files |-> repo[Tip].files, cert |-> c.cert]
        BY <2>1, <4>1
      <4> QED BY <4>2
    <3> QED BY <3>1, <3>2
  <2>3. LET r == Recording(c, TRUE)
        IN r.op = c.op /\ r.cert = c.cert /\ r.marked \in {None, binding.cert}
    BY <1>1 DEF Recording, Call
  <2>4. UNCHANGED binding /\ (Becomes(w, Over("none")) \/ Becomes(w, Recording(c, TRUE)))
    BY <1>7 DEF ProvisionWorkflow, database
  <2>5. BranchGrew
    BY <1>3, StepGrows DEF BranchGrew
  <2> HIDE DEF c
  <2>6. \E r : Becomes(w, r) /\ Kind(r)
    BY <2>1, <2>2, <2>3, <2>4, PhaseOver
  <2> HIDE DEF Kind
  <2> QED BY <1>3, <2>5, <2>6 DEF Kind, c
<1>8. CASE WorkflowError(w)
  <2>1. LET r == Recording(c, FALSE)
        IN r.op = c.op /\ r.cert = c.cert /\ r.marked = None
    BY <1>1 DEF Recording, Call
  <2>2. \E r : Becomes(w, r) /\ Kind(r)
    <3>1. CASE RecordPublishFailure(w)
      BY <1>4, <1>8, <3>1 DEF WorkflowError
    <3>2. CASE Becomes(w, Recording(c, FALSE))
      <4> HIDE DEF c
      <4> QED BY <1>8, <2>1, <3>2 DEF WorkflowError
    <3> QED BY <1>8, <3>1, <3>2 DEF WorkflowError
  <2>3. BranchGrew
    BY <1>3, StepGrows DEF BranchGrew
  <2> HIDE DEF Kind
  <2> QED BY <1>3, <2>2, <2>3 DEF Kind
<1>9. CASE SkipWorkflow(w)
  <2>1. UNCHANGED binding /\ (Becomes(w, Ended(c.mode, "refused")) \/ Becomes(w, Recording(c, FALSE)))
    BY <1>9 DEF SkipWorkflow, database
  <2>2. LET r == Recording(c, FALSE)
        IN r.op = c.op /\ r.cert = c.cert /\ r.marked = None
    BY <1>1 DEF Recording, Call
  <2>3. BranchGrew
    BY <1>3, StepGrows DEF BranchGrew
  <2> HIDE DEF c
  <2>4. \E r : Becomes(w, r) /\ Kind(r)
    BY <2>1, <2>2, PhaseOver
  <2> HIDE DEF Kind
  <2> QED BY <1>3, <2>3, <2>4 DEF Kind, c
<1>10. CASE RecordPublish(w)
  <2>1. \E mode, result : Becomes(w, Ended(mode, result))
    BY <1>10 DEF RecordPublish
  <2>2. \/ UNCHANGED binding
        \/ c.marked # None /\ binding' = [binding EXCEPT !.inManifest = TRUE]
    BY <1>10 DEF RecordPublish, database
  <2>3. \E r : Becomes(w, r) /\ Kind(r)
    BY <2>1, <2>2, PhaseOver
  <2>4. BranchGrew
    BY <1>3, StepGrows DEF BranchGrew
  <2> HIDE DEF Kind
  <2> QED BY <1>3, <2>3, <2>4 DEF Kind
<1>11. CASE SettleRun(w) \/ RecordDeploy(w)
  <2>1. UNCHANGED binding
    BY <1>11 DEF SettleRun, RecordDeploy
  <2>2. \E r : Becomes(w, r) /\ Kind(r)
    <3>1. CASE RecordDeploy(w)
      BY <2>1, <3>1, PhaseOver DEF RecordDeploy
    <3>2. CASE SettleRun(w)
      <4> DEFINE space == [workspace EXCEPT !.deploys = [c.space.deploys EXCEPT ![c.artifact] = "over"]]
                 d == [c EXCEPT !.phase = "dispatch", !.space = space, !.row = artifact[c.artifact]]
      <4>1. Becomes(w, IF c.op = "refresh" THEN Over("none") ELSE d)
        BY <3>2 DEF SettleRun
      <4> HIDE DEF space
      <4>2. d.op = c.op /\ d.cert = c.cert /\ d.marked = c.marked
        BY <1>1 DEF Call
      <4>3. Kind(d)
        BY <2>1, <4>2
      <4>4. Kind(Over("none"))
        BY <2>1, PhaseOver
      <4> HIDE DEF d, c, Kind
      <4> QED BY <4>1, <4>3, <4>4
    <3> QED BY <1>11, <3>1, <3>2
  <2>3. BranchGrew
    BY <1>3, StepGrows DEF BranchGrew
  <2> HIDE DEF Kind
  <2> QED BY <1>3, <2>2, <2>3 DEF Kind
<1> QED BY <1>5, <1>6, <1>7, <1>8, <1>9, <1>10, <1>11 DEF Step, Error

\* What one step may do to the releases: reconcile one, mark a gate of one, or
\* add one for a version that has none.
RowsMove ==
    \/ release' = release
    \/ \E a \in Artifact : Reconcile(a)
    \/ \E a \in Artifact, g \in Gate, s \in {"running", "failed"} :
          release' = [release EXCEPT ![a].gate[g] = s, ![a].status = s, ![a].active = g]
    \/ \E a \in Artifact, ingested \in Ingested, n \in 1 .. Cardinality(Artifact) :
          /\ ~Exists(a)
          /\ release' = [release EXCEPT ![a] =
               [NoRelease EXCEPT !.number = n, !.gate = InitialGate(a, ingested)]]

LEMMA RequestsMoveRows ==
    ASSUME ReleaseInv, NEW w \in Worker, ReleaseStep(w) \/ Abort(w)
    PROVE  RowsMove
<1>1. advance[w].phase \in {"insert", "mark", "fail", "reconcile"} => advance[w].artifact \in Artifact
  BY RequestOf DEF Prepared
<1>2. CASE InsertRelease(w)
  <2>1. advance[w].artifact \in Artifact /\ advance[w].number \in 1 .. Cardinality(Artifact)
    BY <1>2, RequestOf DEF InsertRelease, At, Prepared
  <2>2. \/ release' = release
        \/ /\ ~Exists(advance[w].artifact)
           /\ \E ingested \in Ingested : release' = [release EXCEPT ![advance[w].artifact] =
                [NoRelease EXCEPT !.number = advance[w].number,
                                  !.gate = InitialGate(advance[w].artifact, ingested)]]
    BY <1>2 DEF InsertRelease, Taken
  <2> QED BY <2>1, <2>2 DEF RowsMove
<1>3. CASE MarkRunning(w) \/ MarkFailed(w)
  <2>1. advance[w].artifact \in Artifact /\ advance[w].gate \in Gate
    BY <1>3, RequestOf DEF MarkRunning, MarkFailed, At, Prepared
  <2>2. \/ release' = release
        \/ \E s \in {"running", "failed"} :
             release' = [release EXCEPT ![advance[w].artifact].gate[advance[w].gate] = s,
                           ![advance[w].artifact].status = s,
                           ![advance[w].artifact].active = advance[w].gate]
    BY <1>3 DEF MarkRunning, MarkFailed
  <2> QED BY <2>1, <2>2 DEF RowsMove
<1>4. CASE FinishRequest(w)
  BY <1>1, <1>4 DEF FinishRequest, At, RowsMove
<1>5. CASE StartCall(w) \/ EndCall(w) \/ EnsureCertificate(w) \/ EnsureFails(w)
           \/ VerifyServing(w) \/ VerifyFails(w) \/ Abort(w)
  BY <1>5 DEF StartCall, EndCall, EnsureCertificate, EnsureFails, VerifyServing, VerifyFails,
              Abort, releaseVars, RowsMove
<1> QED BY <1>2, <1>3, <1>4, <1>5 DEF ReleaseStep

LEMMA StepsMoveRows == ASSUME ReleaseInv, [ReleaseNext]_allVars PROVE RowsMove
<1>1. ASSUME UNCHANGED release PROVE RowsMove
  BY <1>1 DEF RowsMove
<1>2. ASSUME NEW w \in Worker, NEW a \in Artifact,
             BeginCreate(w, a) \/ BeginAdvance(w, a) \/ ReconcileRelease(a)
      PROVE  RowsMove
  BY <1>2 DEF BeginCreate, BeginAdvance, ReconcileRelease, RowsMove
<1> QED BY <1>1, <1>2, RequestsMoveRows DEF ReleaseNext, allVars, releaseVars

\* Nothing but a selection changes the certificate; a verdict of the endpoint
\* is one on a commit that was rolled out.
BindingMoves ==
    \/ UNCHANGED binding
    \/ \E c \in Cert : Select(c)
    \/ binding' = [binding EXCEPT !.inManifest = TRUE]
    \/ binding' = [binding EXCEPT !.published = FALSE]
    \/ \E reached \in BOOLEAN : binding' = [binding EXCEPT !.serving = reached /\ Serves]

LEMMA StepsMoveBinding ==
    ASSUME ReleaseInv, [ReleaseNext]_allVars
    PROVE  BranchGrew /\ BindingMoves
<1>1. ASSUME UNCHANGED github PROVE BranchGrew
  BY <1>1 DEF github, BranchGrew, RepoGrows
<1>2. ASSUME UNCHANGED binding PROVE BindingMoves
  BY <1>2 DEF BindingMoves
<1>3. ASSUME NEW w \in Worker, NEW a \in Artifact,
             BeginCreate(w, a) \/ BeginAdvance(w, a) \/ ReconcileRelease(a)
      PROVE  BranchGrew /\ BindingMoves
  BY <1>1, <1>2, <1>3 DEF BeginCreate, BeginAdvance, ReconcileRelease, vars, github
<1>4. ASSUME NEW w \in Worker, NEW a \in Artifact, Request(a) \/ Begin(w, a)
      PROVE  BranchGrew /\ BindingMoves
  <2>1. UNCHANGED github
    BY <1>4 DEF Request, Approve, Delete, SelectCertificate, FailCertificate, VerifyEndpoint, Begin,
                BeginPublish, BeginDeploy, BeginRefresh
  <2>2. BindingMoves
    <3>1. CASE Begin(w, a)
      BY <3>1 DEF Begin, BeginPublish, BeginDeploy, BeginRefresh, database, BindingMoves
    <3>2. CASE Request(a)
      BY <3>2 DEF Request, Approve, Delete, SelectCertificate, FailCertificate, VerifyEndpoint,
                  BindingMoves
    <3> QED BY <1>4, <3>1, <3>2
  <2> QED BY <1>1, <2>1, <2>2
<1>5. ASSUME NEW w \in Worker, ReleaseStep(w) \/ Abort(w)
      PROVE  BranchGrew /\ BindingMoves
  <2>1. UNCHANGED github
    BY <1>5 DEF ReleaseStep, InsertRelease, MarkRunning, StartCall, BeginPublish, BeginDeploy,
                EndCall, EnsureCertificate, EnsureFails, VerifyServing, VerifyFails, MarkFailed,
                FinishRequest, Abort, vars, github
  <2>2. BindingMoves
    <3>1. CASE EnsureCertificate(w)
      BY <3>1 DEF EnsureCertificate, BindingMoves
    <3>2. CASE VerifyServing(w)
      <4>1. Serves = (TRUE /\ Serves)
        BY DEF Serves
      <4>2. binding' = [binding EXCEPT !.serving = TRUE /\ Serves]
        BY <3>2, <4>1 DEF VerifyServing
      <4> QED BY <4>2 DEF BindingMoves
    <3>3. CASE VerifyFails(w)
      <4>1. FALSE = (FALSE /\ Serves)
        OBVIOUS
      <4>2. binding' = [binding EXCEPT !.serving = FALSE /\ Serves]
        BY <3>3, <4>1 DEF VerifyFails
      <4> QED BY <4>2 DEF BindingMoves
    <3>4. CASE InsertRelease(w) \/ MarkRunning(w) \/ StartCall(w) \/ EndCall(w)
               \/ EnsureFails(w) \/ MarkFailed(w) \/ FinishRequest(w) \/ Abort(w)
      BY <1>2, <3>4 DEF InsertRelease, MarkRunning, StartCall, BeginPublish, BeginDeploy, EndCall,
                        EnsureFails, MarkFailed, FinishRequest, Abort, vars, database
    <3> QED BY <1>5, <3>1, <3>2, <3>3, <3>4 DEF ReleaseStep
  <2> QED BY <1>1, <2>1, <2>2
<1>6. ASSUME NEW w \in Worker, Step(w) \/ Error(w)
      PROVE  BranchGrew /\ BindingMoves
  BY <1>6, StepsOfCalls DEF ReleaseInv, BindingMoves
<1>7. CASE Rollout \/ UNCHANGED allVars
  BY <1>1, <1>2, <1>7 DEF Rollout, allVars, vars, database, github, BranchGrew, RepoGrows
<1> QED BY <1>3, <1>4, <1>5, <1>6, <1>7 DEF ReleaseNext

-----------------------------------------------------------------------------
(* The verification gate, whatever overlaps *)

\* The verdict on record, and the open gates it opened, are about certificates
\* in commits that were dispatched.
ServedInv ==
    /\ ReleaseInv
    /\ binding.serving /\ binding.cert # None => RolledOut(binding.cert)
    /\ VerificationHasRollout

LEMMA ReconciledIsServed ==
    ASSUME ServedInv, NEW a \in Artifact, NEW ingested \in Ingested,
           Reconciled(a, ingested).gate["verification"] = "ready"
    PROVE  /\ Reconciled(a, ingested).cert # None
           /\ RolledOut(Reconciled(a, ingested).cert)
<1> DEFINE r == release[a]
           pin == Pinned(r)
           gate == [g \in Gate |-> GateAfter(r, g, pin, a, ingested)]
           new == Reconciled(a, ingested)
<1>1. r \in Release
  BY DEF ServedInv, ReleaseInv, RowsTyped
<1>2. new.gate = gate /\ new.cert = pin
  BY <1>1 DEF Reconciled, Release
<1>3. gate["verification"] = "ready"
  BY <1>2
<1>4. \/ Verified(pin, a)
      \/ r.gate["verification"] = "ready" /\ (pin # None => InManifest(pin))
  BY <1>3, Gates DEF GateAfter, Evidence, Disproved
<1>5. CASE Verified(pin, a)
  BY <1>2, <1>5 DEF Verified, ServedInv
<1>6. CASE r.gate["verification"] = "ready"
  <2>1. r.cert # None /\ RolledOut(r.cert)
    BY <1>6 DEF ServedInv, VerificationHasRollout, RolledOut
  <2>2. pin = r.cert
    BY <2>1 DEF Pinned
  <2> QED BY <1>2, <2>1, <2>2
<1> QED BY <1>4, <1>5, <1>6

LEMMA NextServed == ASSUME ServedInv, [ReleaseNext]_allVars PROVE ServedInv'
<1>1. ReleaseInv /\ ReleaseInv'
  BY NextReleaseInv DEF ServedInv
<1>2. BranchGrew /\ BindingMoves /\ RowsMove
  BY <1>1, StepsMoveBinding, StepsMoveRows
<1>3. \A c : RolledOut(c) => RolledOut(c)'
  BY <1>1, <1>2, EvidenceStays
<1>4. binding'.serving /\ binding'.cert # None => RolledOut(binding.cert)'
  <2>1. binding \in BindingRow /\ live \in dispatched \cup {0}
    BY <1>1 DEF ReleaseInv, IInv, TypeOK
  <2>2. CASE UNCHANGED binding
    BY <1>3, <2>2 DEF ServedInv
  <2>3. CASE \E c \in Cert : Select(c)
    BY <2>3 DEF Select
  <2>4. CASE \/ binding' = [binding EXCEPT !.inManifest = TRUE]
             \/ binding' = [binding EXCEPT !.published = FALSE]
    <3>1. binding'.serving = binding.serving /\ binding'.cert = binding.cert
      BY <2>1, <2>4 DEF BindingRow
    <3> QED BY <1>3, <3>1 DEF ServedInv
  <2>5. CASE \E reached \in BOOLEAN : binding' = [binding EXCEPT !.serving = reached /\ Serves]
    <3>1. binding'.cert = binding.cert /\ (binding'.serving => Serves)
      BY <2>1, <2>5 DEF BindingRow
    <3>2. Serves => RolledOut(binding.cert)
      BY <2>1 DEF Serves, RolledOut
    <3> QED BY <1>3, <3>1, <3>2
  <2> QED BY <1>2, <2>2, <2>3, <2>4, <2>5 DEF BindingMoves
<1> DEFINE GatesServed == \A a \in Artifact : release'[a].gate["verification"] = "ready"
                            => release'[a].cert # None /\ RolledOut(release'[a].cert)
<1>5. GatesServed
  <2>1. release \in [Artifact -> Release]
    BY <1>1 DEF ReleaseInv, RowsTyped
  <2>2. \A a \in Artifact : release[a].gate["verification"] = "ready"
           => release[a].cert # None /\ RolledOut(release[a].cert)
    BY DEF ServedInv, VerificationHasRollout, RolledOut
  <2>3. CASE release' = release
    BY <2>2, <2>3
  <2>4. ASSUME NEW a \in Artifact, Reconcile(a)
        PROVE  GatesServed
    <3>1. PICK ingested \in Ingested : release' = [release EXCEPT ![a] = Reconciled(a, ingested)]
      BY <2>4 DEF Reconcile
    <3> QED BY <2>1, <2>2, <3>1, ReconciledIsServed
  <2>5. ASSUME NEW a \in Artifact, NEW g \in Gate, NEW s \in {"running", "failed"},
               release' = [release EXCEPT ![a].gate[g] = s, ![a].status = s, ![a].active = g]
        PROVE  GatesServed
    <3>1. \A b \in Artifact : /\ release'[b].cert = release[b].cert
                              /\ release'[b].gate["verification"] = "ready"
                                   => release[b].gate["verification"] = "ready"
      BY <2>1, <2>5, Gates DEF Release
    <3> QED BY <2>2, <3>1
  <2>6. ASSUME NEW a \in Artifact, NEW ingested \in Ingested, NEW n \in 1 .. Cardinality(Artifact),
               release' = [release EXCEPT ![a] =
                 [NoRelease EXCEPT !.number = n, !.gate = InitialGate(a, ingested)]]
        PROVE  GatesServed
    <3>1. release'[a].gate["verification"] # "ready"
      BY <2>1, <2>6, Gates DEF InitialGate, NoRelease
    <3> QED BY <2>1, <2>2, <2>6, <3>1
  <2> QED BY <1>2, <2>3, <2>4, <2>5, <2>6 DEF RowsMove
<1>6. VerificationHasRollout'
  <2>1. \A a \in Artifact : release'[a].gate["verification"] = "ready"
           => release'[a].cert # None /\ \E n \in dispatched' : repo'[n].cert = release'[a].cert
    BY <1>1, <1>2, <1>5 DEF BranchGrew, RepoGrows, RolledOut, ReleaseInv, IInv, TypeOK
  <2> QED BY <2>1 DEF VerificationHasRollout
<1>7. (binding.serving /\ binding.cert # None => RolledOut(binding.cert))'
  BY <1>4
<1> QED BY <1>1, <1>6, <1>7 DEF ServedInv

\* An open verification gate was opened by a certificate that some dispatched
\* commit carries, whatever calls, verifications and selections overlap: the
\* endpoint's verdict is never about a certificate that was not rolled out.
THEOREM VerificationIsReal == ReleaseSpec => []VerificationHasRollout
<1>1. ReleaseInit => ServedInv
  BY InitReleaseInv, Gates
  DEF ReleaseInit, Init, ServedInv, VerificationHasRollout, NoRelease
<1>2. ServedInv /\ [ReleaseNext]_allVars => ServedInv'
  BY NextServed
<1>3. ServedInv => VerificationHasRollout
  BY DEF ServedInv
<1> QED BY <1>1, <1>2, <1>3, PTL DEF ReleaseSpec

-----------------------------------------------------------------------------
(* One request at a time *)

\* Requests follow one another as if one worker served them.
OneAtATime == \A v, w \in Worker : v = w

(* The certificate gate, one request at a time.  A publication provisions    *)
(* the certificate it read when it began and marks the binding it finds when *)
(* it is done; that both are the same holds only where no selection comes in *)
(* between, so a request that overlaps another one may mark a certificate    *)
(* which no commit names.                                                    *)

CertificateCurrent(c) ==
    c.phase # "idle" => /\ c.op = "publish" /\ binding.published => c.cert = binding.cert
                        /\ c.marked # None /\ binding.published => Named(binding.cert)

ManifestInv ==
    /\ ReleaseInv
    /\ \A w \in Worker : CertificateCurrent(call[w])
    /\ binding.published /\ binding.inManifest => Named(binding.cert)
    /\ CertificateGateExact

\* A call begins with the certificate of the binding, and marks nothing yet.
LEMMA OpenCertificate ==
    \A op, phase, mode, a :
        LET r == Open(op, phase, mode, a)
        IN r.marked = None /\ r.op = op /\ (op = "publish" /\ binding.published => r.cert = binding.cert)
BY DEF Open

\* The manifest of no certificate is recorded that was not.
NothingMarked ==
    binding'.published /\ binding'.inManifest
    => binding.published /\ binding.inManifest /\ binding'.cert = binding.cert

\* What one step may do to a call and to the binding it works with.
CallMoves(w) ==
    \/ UNCHANGED <<binding, call>>
    \/ In(w, "idle") /\ UNCHANGED call /\ NothingMarked
    \/ /\ UNCHANGED binding
       /\ \E r : /\ Becomes(w, r)
                 /\ \/ r.phase = "idle"
                    \/ r.marked = None /\ (r.op = "publish" /\ binding.published => r.cert = binding.cert)
    \/ \E r : /\ Becomes(w, r)
              /\ \/ UNCHANGED binding /\ r.phase = "idle"
                 \/ /\ r.phase = "idle" /\ call[w].marked # None /\ ~In(w, "idle")
                    /\ binding' = [binding EXCEPT !.inManifest = TRUE]
                 \/ /\ UNCHANGED binding /\ ~In(w, "idle")
                    /\ r.op = call[w].op /\ r.cert = call[w].cert
                    /\ \/ r.marked = call[w].marked
                       \/ r.marked = None
                       \/ r.marked = binding.cert /\ call[w].op = "publish"
                          /\ \E n \in DOMAIN repo' : repo'[n].cert = call[w].cert

LEMMA BeginMovesCall ==
    ASSUME NEW w \in Worker, NEW a \in Artifact, NEW mode,
           BeginPublish(w, a, mode) \/ BeginDeploy(w, a, mode) \/ BeginRefresh(w, a)
    PROVE  CallMoves(w)
<1>1. UNCHANGED binding
  BY DEF BeginPublish, BeginDeploy, BeginRefresh, database
<1>2. \/ Becomes(w, Ended(mode, "refused"))
      \/ \E op, phase, m : Becomes(w, Open(op, phase, m, a))
  BY DEF BeginPublish, BeginDeploy, BeginRefresh
<1> DEFINE Good(r) == \/ r.phase = "idle"
                      \/ r.marked = None /\ (r.op = "publish" /\ binding.published => r.cert = binding.cert)
<1>3. \E r : Becomes(w, r) /\ Good(r)
  <2>1. \A op, phase, m : Good(Open(op, phase, m, a))
    BY OpenCertificate
  <2>2. Good(Ended(mode, "refused"))
    BY PhaseOver
  <2> HIDE DEF Good
  <2> QED BY <1>2, <2>1, <2>2
<1> QED BY <1>1, <1>3 DEF CallMoves

LEMMA StepsMoveCalls ==
    ASSUME ReleaseInv, [ReleaseNext]_allVars, NEW u \in Worker
    PROVE  \E w \in Worker : CallMoves(w)
<1>1. ASSUME UNCHANGED <<binding, call>> PROVE CallMoves(u)
  BY <1>1 DEF CallMoves
<1>2. ASSUME NEW w \in Worker, UNCHANGED call, In(w, "idle"),
             \/ UNCHANGED binding
             \/ \E c \in Cert : Select(c)
             \/ binding' = [binding EXCEPT !.published = FALSE]
             \/ \E serving \in BOOLEAN : binding' = [binding EXCEPT !.serving = serving]
      PROVE  CallMoves(w)
  <2>1. binding \in BindingRow
    BY DEF ReleaseInv, IInv, TypeOK
  <2>2. NothingMarked
    BY <1>2, <2>1 DEF NothingMarked, Select, BindingRow
  <2> QED BY <1>2, <2>2 DEF CallMoves
<1>3. ASSUME NEW w \in Worker, NEW a \in Artifact,
             BeginCreate(w, a) \/ BeginAdvance(w, a) \/ ReconcileRelease(a)
      PROVE  CallMoves(u)
  BY <1>1, <1>3 DEF BeginCreate, BeginAdvance, ReconcileRelease, vars
<1>4. ASSUME NEW w \in Worker, NEW a \in Artifact, Free(w), Request(a) \/ Begin(w, a)
      PROVE  CallMoves(w)
  <2>1. CASE Request(a)
    <3>1. UNCHANGED call /\ In(w, "idle")
      BY <1>4, <2>1, RequestEffects DEF Free, ReleaseInv
    <3>2. \/ UNCHANGED binding
          \/ \E c \in Cert : Select(c)
          \/ binding' = [binding EXCEPT !.published = FALSE]
          \/ \E serving \in BOOLEAN : binding' = [binding EXCEPT !.serving = serving]
      <4>1. Serves \in BOOLEAN
        BY DEF Serves
      <4> QED BY <2>1, <4>1
              DEF Request, Approve, Delete, SelectCertificate, FailCertificate, VerifyEndpoint
    <3> QED BY <1>2, <3>1, <3>2
  <2>2. CASE Begin(w, a)
    BY <2>2, BeginMovesCall DEF Begin
  <2> QED BY <1>4, <2>1, <2>2
<1>5. ASSUME NEW w \in Worker, ReleaseStep(w) \/ Abort(w)
      PROVE  CallMoves(w) \/ CallMoves(u)
  <2>1. CASE EnsureCertificate(w) \/ VerifyServing(w) \/ VerifyFails(w)
    <3>1. Serves \in BOOLEAN
      BY DEF Serves
    <3>2. /\ UNCHANGED call /\ In(w, "idle")
          /\ \/ UNCHANGED binding
             \/ \E c \in Cert : Select(c)
             \/ \E serving \in BOOLEAN : binding' = [binding EXCEPT !.serving = serving]
      BY <2>1, <3>1 DEF EnsureCertificate, VerifyServing, VerifyFails, Due
    <3> QED BY <1>2, <3>2
  <2>2. CASE StartCall(w)
    <3>1. advance[w].artifact \in Artifact
      BY <2>2, RequestOf DEF StartCall, Due, At, Prepared
    <3> QED BY <2>2, <3>1, BeginMovesCall DEF StartCall
  <2>3. CASE EndCall(w) \/ Abort(w)
    <3>1. UNCHANGED binding /\ Becomes(w, Over("none"))
      BY <2>3 DEF EndCall, Abort, database
    <3>2. \E r : Becomes(w, r) /\ r.phase = "idle"
      BY <3>1, PhaseOver
    <3> QED BY <3>1, <3>2 DEF CallMoves
  <2>4. CASE InsertRelease(w) \/ MarkRunning(w) \/ EnsureFails(w) \/ MarkFailed(w) \/ FinishRequest(w)
    BY <1>1, <2>4 DEF InsertRelease, MarkRunning, EnsureFails, MarkFailed, FinishRequest, vars
  <2> QED BY <1>5, <2>1, <2>2, <2>3, <2>4 DEF ReleaseStep
<1>6. ASSUME NEW w \in Worker, Step(w) \/ Error(w)
      PROVE  CallMoves(w)
  BY <1>6, StepsOfCalls DEF ReleaseInv, CallMoves
<1>7. CASE Rollout \/ UNCHANGED allVars
  BY <1>1, <1>7 DEF Rollout, allVars, vars, database
<1> QED BY <1>3, <1>4, <1>5, <1>6, <1>7 DEF ReleaseNext

\* A certificate gate opens on the manifest, and stays open on it.
LEMMA ReconciledIsNamed ==
    ASSUME ManifestInv, NEW a \in Artifact, NEW ingested \in Ingested,
           Reconciled(a, ingested).gate["certificate"] = "ready"
    PROVE  Named(Reconciled(a, ingested).cert)
<1> DEFINE r == release[a]
           pin == Pinned(r)
           gate == [g \in Gate |-> GateAfter(r, g, pin, a, ingested)]
           new == Reconciled(a, ingested)
<1>1. r \in Release /\ Truthful(r, a, repo)
  BY DEF ManifestInv, ReleaseInv, RowsTyped, RowsTruthful
<1>2. new.gate = gate /\ new.cert = pin
  BY <1>1 DEF Reconciled, Release
<1>3. gate["certificate"] = "ready"
  BY <1>2
<1>4. InManifest(pin) \/ r.gate["certificate"] = "ready"
  BY <1>3, Gates DEF GateAfter, Evidence
<1>5. CASE InManifest(pin)
  BY <1>2, <1>5 DEF InManifest, ManifestInv
<1>6. CASE r.gate["certificate"] = "ready"
  <2>1. r.cert # None /\ Named(r.cert)
    BY <1>1, <1>6 DEF ManifestInv, CertificateGateExact, Named, Truthful
  <2>2. pin = r.cert
    BY <2>1 DEF Pinned
  <2> QED BY <1>2, <2>1, <2>2
<1> QED BY <1>4, <1>5, <1>6

LEMMA NextManifest ==
    ASSUME OneAtATime, ManifestInv, [ReleaseNext]_allVars
    PROVE  ManifestInv'
<1>1. ReleaseInv /\ ReleaseInv'
  BY NextReleaseInv DEF ManifestInv
<1>2. BranchGrew /\ BindingMoves /\ RowsMove
  BY <1>1, StepsMoveBinding, StepsMoveRows
<1>3. \A c : Named(c) => Named(c)'
  BY <1>1, <1>2, EvidenceStays
<1>4. call \in [Worker -> Call] /\ binding \in BindingRow
  BY <1>1 DEF ReleaseInv, IInv, TypeOK
<1>5. ASSUME NEW w \in Worker, CallMoves(w)
      PROVE  /\ CertificateCurrent(call[w])'
             /\ (binding.published /\ binding.inManifest => Named(binding.cert))'
  <2>1. CertificateCurrent(call[w]) /\ (binding.published /\ binding.inManifest => Named(binding.cert))
    BY DEF ManifestInv
  <2>2. CASE UNCHANGED <<binding, call>>
    BY <1>3, <2>1, <2>2 DEF CertificateCurrent
  <2>3. CASE In(w, "idle") /\ UNCHANGED call /\ NothingMarked
    BY <1>3, <2>1, <2>3 DEF CertificateCurrent, In, NothingMarked
  <2>4. CASE /\ UNCHANGED binding
             /\ \E r : /\ Becomes(w, r)
                       /\ \/ r.phase = "idle"
                          \/ r.marked = None /\ (r.op = "publish" /\ binding.published => r.cert = binding.cert)
    <3>1. PICK r : /\ Becomes(w, r)
                   /\ \/ r.phase = "idle"
                      \/ r.marked = None /\ (r.op = "publish" /\ binding.published => r.cert = binding.cert)
      BY <2>4
    <3>2. call'[w] = r
      BY <1>4, <3>1 DEF Becomes
    <3> QED BY <1>3, <2>1, <2>4, <3>1, <3>2 DEF CertificateCurrent
  <2>5. ASSUME NEW r, Becomes(w, r), ~In(w, "idle")
        PROVE  /\ call'[w] = r
               /\ call[w].op = "publish" /\ binding.published => call[w].cert = binding.cert
               /\ call[w].marked # None /\ binding.published => Named(binding.cert)
    BY <1>4, <2>1, <2>5 DEF Becomes, CertificateCurrent, In
  <2>6. CASE \E r : Becomes(w, r) /\ UNCHANGED binding /\ r.phase = "idle"
    BY <1>3, <1>4, <2>1, <2>6 DEF Becomes, CertificateCurrent
  <2>7. CASE \E r : /\ Becomes(w, r) /\ r.phase = "idle" /\ call[w].marked # None /\ ~In(w, "idle")
                    /\ binding' = [binding EXCEPT !.inManifest = TRUE]
    <3>1. PICK r : /\ Becomes(w, r) /\ r.phase = "idle" /\ call[w].marked # None /\ ~In(w, "idle")
                   /\ binding' = [binding EXCEPT !.inManifest = TRUE]
      BY <2>7
    <3>2. binding'.cert = binding.cert /\ binding'.published = binding.published
      BY <1>4, <3>1 DEF BindingRow
    <3> QED BY <1>3, <2>5, <3>1, <3>2 DEF CertificateCurrent
  <2>8. CASE \E r :
               /\ Becomes(w, r) /\ UNCHANGED binding /\ ~In(w, "idle")
               /\ r.op = call[w].op /\ r.cert = call[w].cert
               /\ \/ r.marked = call[w].marked
                  \/ r.marked = None
                  \/ r.marked = binding.cert /\ call[w].op = "publish"
                     /\ \E n \in DOMAIN repo' : repo'[n].cert = call[w].cert
    <3>1. PICK r :
               /\ Becomes(w, r) /\ UNCHANGED binding /\ ~In(w, "idle")
               /\ r.op = call[w].op /\ r.cert = call[w].cert
               /\ \/ r.marked = call[w].marked
                  \/ r.marked = None
                  \/ r.marked = binding.cert /\ call[w].op = "publish"
                     /\ \E n \in DOMAIN repo' : repo'[n].cert = call[w].cert
      BY <2>8
    <3>2. (\E n \in DOMAIN repo' : repo'[n].cert = binding.cert) => Named(binding.cert)'
      BY <3>1 DEF Named
    <3> QED BY <1>3, <2>1, <2>5, <3>1, <3>2 DEF CertificateCurrent
  <2> QED BY <1>5, <2>2, <2>3, <2>4, <2>6, <2>7, <2>8 DEF CallMoves
<1>6. /\ \A w \in Worker : CertificateCurrent(call[w])'
      /\ (binding.published /\ binding.inManifest => Named(binding.cert))'
  <2>1. CASE Worker = {}
    <3>1. UNCHANGED <<binding, repo>>
      BY <2>1 DEF ReleaseNext, Rollout, allVars, vars, database
    <3> QED BY <1>3, <2>1, <3>1 DEF ManifestInv
  <2>2. CASE Worker # {}
    BY <1>1, <1>5, <2>2, StepsMoveCalls DEF OneAtATime
  <2> QED BY <2>1, <2>2
<1> DEFINE GatesNamed == \A a \in Artifact : release'[a].gate["certificate"] = "ready"
                           => Named(release'[a].cert)
<1>7. GatesNamed
  <2>1. release \in [Artifact -> Release]
    BY <1>1 DEF ReleaseInv, RowsTyped
  <2>2. \A a \in Artifact : release[a].gate["certificate"] = "ready" => Named(release[a].cert)
    BY DEF ManifestInv, CertificateGateExact, Named
  <2>3. CASE release' = release
    BY <2>2, <2>3
  <2>4. ASSUME NEW a \in Artifact, Reconcile(a)
        PROVE  GatesNamed
    <3>1. PICK ingested \in Ingested : release' = [release EXCEPT ![a] = Reconciled(a, ingested)]
      BY <2>4 DEF Reconcile
    <3> QED BY <2>1, <2>2, <3>1, ReconciledIsNamed
  <2>5. ASSUME NEW a \in Artifact, NEW g \in Gate, NEW s \in {"running", "failed"},
               release' = [release EXCEPT ![a].gate[g] = s, ![a].status = s, ![a].active = g]
        PROVE  GatesNamed
    <3>1. \A b \in Artifact : /\ release'[b].cert = release[b].cert
                              /\ release'[b].gate["certificate"] = "ready"
                                   => release[b].gate["certificate"] = "ready"
      BY <2>1, <2>5, Gates DEF Release
    <3> QED BY <2>2, <3>1
  <2>6. ASSUME NEW a \in Artifact, NEW ingested \in Ingested, NEW n \in 1 .. Cardinality(Artifact),
               release' = [release EXCEPT ![a] =
                 [NoRelease EXCEPT !.number = n, !.gate = InitialGate(a, ingested)]]
        PROVE  GatesNamed
    <3>1. release'[a].gate["certificate"] # "ready"
      BY <2>1, <2>6, Gates DEF InitialGate, NoRelease
    <3> QED BY <2>1, <2>2, <2>6, <3>1
  <2> QED BY <1>2, <2>3, <2>4, <2>5, <2>6 DEF RowsMove
<1>8. CertificateGateExact'
  <2>1. \A a \in Artifact : release'[a].gate["certificate"] = "ready"
           => \E n \in DOMAIN repo' : repo'[n].cert = release'[a].cert
    BY <1>2, <1>7 DEF BranchGrew, RepoGrows, Named
  <2> QED BY <2>1 DEF CertificateGateExact
<1> QED BY <1>1, <1>6, <1>8 DEF ManifestInv

\* Where requests follow one another, an open certificate gate means a commit
\* whose manifest names the certificate of the release: the gate opens on the
\* mark of a publication that provisioned just that certificate
\* (_mark_active_tls_manifest_published).
THEOREM CertificateGateIsExact == ASSUME OneAtATime PROVE ReleaseSpec => []CertificateGateExact
<1>1. ReleaseInit => ManifestInv
  BY InitReleaseInv, Gates
  DEF ReleaseInit, Init, ManifestInv, CertificateCurrent, CertificateGateExact, NoRelease, Over
<1>2. ManifestInv /\ [ReleaseNext]_allVars => ManifestInv'
  BY NextManifest
<1>3. ManifestInv => CertificateGateExact
  BY DEF ManifestInv
<1> QED BY <1>1, <1>2, <1>3, PTL DEF ReleaseSpec

-----------------------------------------------------------------------------
(* Gates and numbers, one request at a time.  What a request reads of its     *)
(* release, the gate that is not open and the number that is next, is still   *)
(* so when it writes.  Two requests that overlap close each other's gates and *)
(* take each other's numbers.                                                 *)

\* What a request relies on.
RequestCurrent(d) ==
    /\ ~d.conflict
    /\ d.phase = "insert" => ~Exists(d.artifact) /\ d.number = NextNumber
    /\ d.phase \in {"mark", "execute", "reconcile", "fail"} => Exists(d.artifact)
    /\ d.phase = "mark" => release[d.artifact].gate[d.gate] # "ready"
    /\ d.phase \in {"execute", "fail"} => release[d.artifact].gate[d.gate] = "running"

RowsBegin == \A a \in Artifact : ~Exists(a) => release[a] = NoRelease
NumbersCounted == \A a \in Artifact : release[a].number < NextNumber

RequestsInv ==
    /\ ReleaseInv
    /\ RowsBegin /\ NumbersCounted
    /\ \A w \in Worker : RequestCurrent(advance[w])

GatesKept ==
    \A a \in Artifact, g \in Gate \ {"certificate", "verification"} :
        release[a].gate[g] = "ready" => release'[a].gate[g] = "ready"

NumbersStay == \A a \in Artifact : release'[a].number = release[a].number

LEMMA CountsStay ==
    ASSUME NumbersStay
    PROVE  /\ NextNumber' = NextNumber
           /\ \A a \in Artifact : Exists(a)' <=> Exists(a)
           /\ NumbersCounted => NumbersCounted'
<1>1. \A a \in Artifact : Exists(a)' <=> Exists(a)
  BY DEF NumbersStay, Exists
<1>2. {a \in Artifact : Exists(a)'} = {a \in Artifact : Exists(a)}
  BY <1>1
<1>3. NextNumber' = NextNumber
  BY <1>2 DEF NextNumber
<1> QED BY <1>1, <1>3 DEF NumbersCounted, NumbersStay

\* A row that exists is reconciled: the gates that are open stay open, but
\* for the two that its certificate may close.
LEMMA ReconcileKeeps ==
    ASSUME RequestsInv, NEW a \in Artifact, Exists(a), Reconcile(a)
    PROVE  /\ GatesKept /\ NumbersStay /\ RowsBegin'
           /\ release'[a].active \in Gate
                => release'[a].gate[release'[a].active] # "ready"
<1>1. PICK ingested \in Ingested : release' = [release EXCEPT ![a] = Reconciled(a, ingested)]
  BY DEF Reconcile
<1> DEFINE r == release[a]
           pin == Pinned(r)
           gate == [g \in Gate |-> GateAfter(r, g, pin, a, ingested)]
           new == Reconciled(a, ingested)
<1>2. release \in [Artifact -> Release] /\ r \in Release
  BY DEF RequestsInv, ReleaseInv, RowsTyped
<1>3. new.gate = gate /\ new.active = FirstIncomplete(gate) /\ new.number = r.number
  BY <1>2 DEF Reconciled, Release
<1>4. \A g \in Gate \ {"certificate", "verification"} : r.gate[g] = "ready" => gate[g] = "ready"
  BY DEF GateAfter, Disproved
<1>5. gate \in [Gate -> GateStatus]
  <2>1. \A g \in Gate : r.gate[g] \in GateStatus
    BY <1>2 DEF Release
  <2>2. ASSUME NEW g \in Gate PROVE GateAfter(r, g, pin, a, ingested) \in GateStatus
    BY <2>1 DEF GateAfter, GateStatus
  <2> QED BY <2>2
<1>6. "none" \notin Gate
  BY Gates
<1>7. new.active \in Gate => new.gate[new.active] # "ready"
  <2> HIDE DEF gate, new
  <2> QED BY <1>3, <1>5, <1>6, FirstIncompleteType
<1>8. release'[a] = new /\ \A b \in Artifact \ {a} : release'[b] = release[b]
  BY <1>1, <1>2
<1> HIDE DEF new, gate, pin
<1>9. GatesKept
  BY <1>3, <1>4, <1>8 DEF GatesKept
<1>10. NumbersStay
  BY <1>3, <1>8 DEF NumbersStay
<1>11. RowsBegin'
  <2>1. \A b \in Artifact : release'[b].number = 0 => release'[b] = NoRelease
    BY <1>3, <1>8 DEF RequestsInv, RowsBegin, Exists
  <2> QED BY <2>1 DEF RowsBegin, Exists
<1> QED BY <1>7, <1>8, <1>9, <1>10, <1>11

\* The only request goes on with d.
LEMMA OnlyRequest ==
    ASSUME OneAtATime, RequestsInv, NEW w \in Worker, NEW d, Now(w, d), RequestCurrent(d)'
    PROVE  (\A v \in Worker : RequestCurrent(advance[v]))'
<1>1. advance'[w] = d /\ \A v \in Worker : v = w
  BY DEF OneAtATime, Now, RequestsInv, ReleaseInv, RequestsTyped
<1> QED BY <1>1 DEF RequestCurrent

\* What a step of the requests has to show, but for ReleaseInv itself.
RequestsKeep ==
    /\ GatesKept
    /\ RowsBegin' /\ NumbersCounted'
    /\ (\A v \in Worker : RequestCurrent(advance[v]))'

LEMMA EndedIsCurrent ==
    ASSUME OneAtATime, RequestsInv, NEW w \in Worker, Now(w, Finished(FALSE))
    PROVE  (\A v \in Worker : RequestCurrent(advance[v]))'
<1>1. PICK d : d = Finished(FALSE)
  OBVIOUS
<1>2. RequestCurrent(d)'
  BY <1>1 DEF Finished, RequestCurrent
<1> QED BY <1>1, <1>2, OnlyRequest

LEMMA QuietKeeps ==
    ASSUME OneAtATime, RequestsInv, UNCHANGED release,
           \/ UNCHANGED advance
           \/ \E w \in Worker : \E d :
                /\ Now(w, d) /\ d.phase = "idle" /\ ~d.conflict
           \/ \E w \in Worker : \E d :
                /\ Now(w, d) /\ ~d.conflict
                /\ At(w, "execute") /\ d.phase \in {"execute", "reconcile", "fail"}
                /\ d.artifact = advance[w].artifact /\ d.gate = advance[w].gate
    PROVE  RequestsKeep
<1>1. GatesKept /\ RowsBegin' /\ NumbersStay
  BY DEF RequestsInv, RowsBegin, GatesKept, NumbersStay, Exists
<1>2. NumbersCounted' /\ NextNumber' = NextNumber /\ \A a : Exists(a)' <=> Exists(a)
  BY <1>1, CountsStay DEF RequestsInv, Exists
<1>3. CASE UNCHANGED advance
  BY <1>1, <1>2, <1>3 DEF RequestsKeep, RequestsInv, RequestCurrent
<1>4. ASSUME NEW w \in Worker, NEW d, Now(w, d), d.phase = "idle", ~d.conflict
      PROVE  RequestsKeep
  <2>1. RequestCurrent(d)'
    BY <1>4 DEF RequestCurrent
  <2> QED BY <1>1, <1>2, <1>4, <2>1, OnlyRequest DEF RequestsKeep
<1>5. ASSUME NEW w \in Worker, NEW d, Now(w, d), ~d.conflict,
             At(w, "execute"), d.phase \in {"execute", "reconcile", "fail"},
             d.artifact = advance[w].artifact, d.gate = advance[w].gate
      PROVE  RequestsKeep
  <2>1. Exists(d.artifact) /\ release[d.artifact].gate[d.gate] = "running"
    BY <1>5 DEF RequestsInv, RequestCurrent, At
  <2>2. RequestCurrent(d)'
    BY <1>2, <1>5, <2>1 DEF RequestCurrent
  <2> QED BY <1>1, <1>2, <1>5, <2>2, OnlyRequest DEF RequestsKeep
<1> QED BY <1>3, <1>4, <1>5

LEMMA CreateKeeps ==
    ASSUME OneAtATime, RequestsInv, NEW w \in Worker, NEW a \in Artifact, BeginCreate(w, a)
    PROVE  RequestsKeep
<1>1. UNCHANGED release
  BY DEF BeginCreate
<1>2. GatesKept /\ RowsBegin' /\ NumbersStay
  BY <1>1 DEF RequestsInv, RowsBegin, GatesKept, NumbersStay, Exists
<1>3. NumbersCounted' /\ NextNumber' = NextNumber /\ \A b : Exists(b)' <=> Exists(b)
  BY <1>1, <1>2, CountsStay DEF RequestsInv, Exists
<1>4. CASE Exists(a)
  <2>1. PICK d : d = Working("reconcile", a)
    OBVIOUS
  <2>2. RequestCurrent(d)'
    BY <1>3, <1>4, <2>1 DEF Working, Finished, RequestCurrent
  <2> QED BY <1>2, <1>3, <1>4, <2>1, <2>2, OnlyRequest DEF BeginCreate, RequestsKeep
<1>5. CASE ~Exists(a)
  <2>1. PICK d : d = [Working("insert", a) EXCEPT !.number = NextNumber]
    OBVIOUS
  <2>2. d.phase = "insert" /\ d.artifact = a /\ d.number = NextNumber /\ ~d.conflict
    BY <2>1 DEF Working, Finished
  <2>3. RequestCurrent(d)'
    BY <1>3, <1>5, <2>2 DEF RequestCurrent
  <2> QED BY <1>2, <1>3, <1>5, <2>1, <2>3, OnlyRequest DEF BeginCreate, RequestsKeep
<1> QED BY <1>4, <1>5

\* The number that was next is free, so the row is accepted.
LEMMA InsertKeeps ==
    ASSUME OneAtATime, RequestsInv, NEW w \in Worker, InsertRelease(w)
    PROVE  RequestsKeep
<1> DEFINE a == advance[w].artifact
           n == advance[w].number
           S == {b \in Artifact : Exists(b)}
<1>1. /\ a \in Artifact /\ n \in 1 .. Cardinality(Artifact) /\ ~Exists(a) /\ n = NextNumber
      /\ release \in [Artifact -> Release] /\ Cardinality(Artifact) \in Nat
  BY RequestOf, FS_CardinalityType, ReleaseAssumption
  DEF RequestsInv, ReleaseInv, RowsTyped, InsertRelease, At, Prepared, RequestCurrent
<1>2. ~Taken(a, n)
  <2>1. \A b \in Artifact : release[b].number \in Nat /\ release[b].number < n
    BY <1>1 DEF RequestsInv, NumbersCounted, Release
  <2> QED BY <1>1, <2>1 DEF Taken
<1>3. CASE ~artifact[a].exists
  <2>1. UNCHANGED release /\ Now(w, Finished(FALSE))
    <3>1. Taken(a, n) = FALSE
      BY <1>2 DEF Taken
    <3>2. UNCHANGED release /\ Now(w, Finished(Taken(a, n)))
      BY <1>3 DEF InsertRelease
    <3> QED BY <3>1, <3>2
  <2>2. Finished(FALSE).phase = "idle" /\ ~Finished(FALSE).conflict
    BY DEF Finished
  <2> QED BY <2>1, <2>2, QuietKeeps
<1>4. CASE artifact[a].exists
  <2>1. PICK ingested \in Ingested : release' = [release EXCEPT ![a] =
                       [NoRelease EXCEPT !.number = n, !.gate = InitialGate(a, ingested)]]
    BY <1>2, <1>4 DEF InsertRelease
  <2>2. Now(w, Working("reconcile", a))
    BY <1>2, <1>4 DEF InsertRelease
  <2> DEFINE new == [NoRelease EXCEPT !.number = n, !.gate = InitialGate(a, ingested)]
  <2>3. /\ release'[a].number = n /\ \A b \in Artifact \ {a} : release'[b] = release[b]
    BY <1>1, <2>1 DEF NoRelease
  <2>4. n \in Nat \ {0}
    BY <1>1
  <2>5. {b \in Artifact : Exists(b)'} = S \cup {a}
    BY <1>1, <2>3, <2>4 DEF Exists
  <2>6. NextNumber' = NextNumber + 1
    <3>1. IsFiniteSet(S) /\ a \notin S
      BY <1>1, FS_Subset, ReleaseAssumption
    <3>2. Cardinality(S \cup {a}) = Cardinality(S) + 1
      BY <3>1, FS_AddElement
    <3> QED BY <2>5, <3>2 DEF NextNumber
  <2>7. NumbersCounted'
    <3>1. \A b \in Artifact : release[b].number \in Nat /\ release[b].number < n
      BY <1>1 DEF RequestsInv, NumbersCounted, Release
    <3>2. \A b \in Artifact : release'[b].number < NextNumber'
      BY <1>1, <2>3, <2>4, <2>6, <3>1
    <3> QED BY <3>2 DEF NumbersCounted
  <2>8. release[a] = NoRelease
    BY <1>1 DEF RequestsInv, RowsBegin
  <2>9. GatesKept
    BY <2>3, <2>8 DEF GatesKept, NoRelease
  <2>10. RowsBegin'
    <3>1. \A b \in Artifact : release'[b].number = 0 => release'[b] = NoRelease
      BY <2>3, <2>4 DEF RequestsInv, RowsBegin, Exists
    <3> QED BY <3>1 DEF RowsBegin, Exists
  <2>11. PICK d : d = Working("reconcile", a)
    OBVIOUS
  <2>12. RequestCurrent(d)'
    <3>1. d.phase = "reconcile" /\ d.artifact = a /\ ~d.conflict
      BY <2>11 DEF Working, Finished
    <3>2. Exists(d.artifact)'
      BY <2>3, <2>4, <3>1 DEF Exists
    <3> QED BY <3>1, <3>2 DEF RequestCurrent
  <2> QED BY <2>2, <2>7, <2>9, <2>10, <2>11, <2>12, OnlyRequest DEF RequestsKeep
<1> QED BY <1>3, <1>4

LEMMA ReconciliationKeeps ==
    ASSUME OneAtATime, RequestsInv, NEW w \in Worker, NEW a \in Artifact,
           Free(w) /\ ReconcileRelease(a)
    PROVE  RequestsKeep
<1>1. GatesKept /\ RowsBegin' /\ NumbersCounted'
  BY ReconcileKeeps, CountsStay DEF ReconcileRelease, RequestsInv
<1>2. UNCHANGED advance /\ At(w, "idle") /\ RequestCurrent(advance[w])
  BY DEF ReconcileRelease, Free, RequestsInv
<1>3. \A v \in Worker : v = w
  BY DEF OneAtATime
<1>4. (\A v \in Worker : RequestCurrent(advance[v]))'
  BY <1>2, <1>3 DEF RequestCurrent, At
<1> QED BY <1>1, <1>4 DEF RequestsKeep

LEMMA AdvanceKeeps ==
    ASSUME OneAtATime, RequestsInv, NEW w \in Worker, NEW a \in Artifact, BeginAdvance(w, a)
    PROVE  RequestsKeep
<1>1. /\ GatesKept /\ RowsBegin' /\ NumbersCounted' /\ NumbersStay
      /\ release'[a].active \in Gate => release'[a].gate[release'[a].active] # "ready"
  BY ReconcileKeeps, CountsStay DEF BeginAdvance, RequestsInv
<1>2. Exists(a)'
  BY <1>1, CountsStay DEF BeginAdvance
<1>3. release'[a].active \in Gate \cup {"none"}
  BY NextReleaseInv, AdvancesBegin DEF RequestsInv, ReleaseInv, RowsTyped, Release
<1>4. CASE Now(w, Finished(FALSE))
  BY <1>1, <1>4, EndedIsCurrent DEF RequestsKeep
<1>5. CASE ~Now(w, Finished(FALSE))
  <2>1. PICK g : g = release'[a].active
    OBVIOUS
  <2>2. g \in Gate /\ Now(w, [Working("mark", a) EXCEPT !.gate = g])
    BY <1>3, <1>5, <2>1 DEF BeginAdvance
  <2>3. PICK d : d = [Working("mark", a) EXCEPT !.gate = g]
    OBVIOUS
  <2>4. d.phase = "mark" /\ d.artifact = a /\ d.gate = g /\ ~d.conflict
    BY <2>3 DEF Working, Finished
  <2>5. RequestCurrent(d)'
    BY <1>1, <1>2, <2>1, <2>2, <2>4 DEF RequestCurrent
  <2> QED BY <1>1, <2>2, <2>3, <2>5, OnlyRequest DEF RequestsKeep
<1> QED BY <1>4, <1>5

\* A request marks the gate it found shut, and fails the one it marked.
LEMMA MarkKeeps ==
    ASSUME OneAtATime, RequestsInv, NEW w \in Worker, MarkRunning(w) \/ MarkFailed(w)
    PROVE  RequestsKeep
<1> PICK a, g : a = advance[w].artifact /\ g = advance[w].gate
  OBVIOUS
<1>1. /\ a \in Artifact /\ g \in Gate /\ Exists(a) /\ release[a].gate[g] # "ready"
      /\ release \in [Artifact -> Release] /\ advance[w] \in Advance
  BY RequestOf DEF RequestsInv, ReleaseInv, RowsTyped, MarkRunning, MarkFailed, At, Prepared,
                   RequestCurrent
<1>2. ASSUME NEW s \in {"running", "failed"},
             release' = [release EXCEPT ![a].gate[g] = s, ![a].status = s, ![a].active = g]
      PROVE  /\ GatesKept /\ RowsBegin' /\ NumbersCounted'
             /\ Exists(a)' /\ release'[a].gate[g] = s
  <2>1. /\ \A b \in Artifact \ {a} : release'[b] = release[b]
        /\ release'[a].number = release[a].number /\ release'[a].gate[g] = s
        /\ \A h \in Gate \ {g} : release'[a].gate[h] = release[a].gate[h]
    <3>1. release' = [release EXCEPT ![a] =
            [release[a] EXCEPT !.gate = [release[a].gate EXCEPT ![g] = s], !.status = s, !.active = g]]
      BY <1>1, <1>2
    <3>2. release[a] \in Release /\ release[a].gate \in [Gate -> GateStatus]
      BY <1>1 DEF Release
    <3> QED BY <1>1, <3>1, <3>2 DEF Release
  <2>2. NumbersStay
    BY <2>1 DEF NumbersStay
  <2>3. GatesKept
    BY <1>1, <2>1 DEF GatesKept
  <2>4. RowsBegin'
    <3>1. \A b \in Artifact : release'[b].number = 0 => release'[b] = NoRelease
      BY <1>1, <2>1 DEF RequestsInv, RowsBegin, Exists
    <3> QED BY <3>1 DEF RowsBegin, Exists
  <2>5. Exists(a)'
    BY <1>1, <2>1 DEF Exists
  <2> QED BY <2>1, <2>2, <2>3, <2>4, <2>5, CountsStay DEF RequestsInv
<1>3. CASE MarkFailed(w)
  BY <1>2, <1>3, EndedIsCurrent DEF MarkFailed, RequestsKeep
<1>4. CASE MarkRunning(w) /\ UNCHANGED release
  <2>1. CASE Now(w, Finished(FALSE))
    <3>1. Finished(FALSE).phase = "idle" /\ ~Finished(FALSE).conflict
      BY DEF Finished
    <3> QED BY <1>4, <2>1, <3>1, QuietKeeps
  <2>2. CASE ~Now(w, Finished(FALSE))
    <3>1. /\ release' = [release EXCEPT ![a].gate[g] = "running", ![a].status = "running",
                                       ![a].active = g]
          /\ Now(w, [advance[w] EXCEPT !.phase = "execute", !.todo = Plan(g)])
      BY <1>4, <2>2 DEF MarkRunning
    <3>2. PICK d : d = [advance[w] EXCEPT !.phase = "execute", !.todo = Plan(g)]
      OBVIOUS
    <3>3. d.phase = "execute" /\ d.artifact = a /\ d.gate = g /\ ~d.conflict
      BY <1>1, <3>2 DEF Advance, RequestsInv, RequestCurrent
    <3>4. /\ GatesKept /\ RowsBegin' /\ NumbersCounted'
          /\ Exists(a)' /\ release'[a].gate[g] = "running"
      BY <1>2, <3>1
    <3>5. RequestCurrent(d)'
      BY <3>3, <3>4 DEF RequestCurrent
    <3> QED BY <3>1, <3>2, <3>4, <3>5, OnlyRequest DEF RequestsKeep
  <2> QED BY <2>1, <2>2
<1>5. CASE MarkRunning(w) /\ ~(UNCHANGED release)
  <2>1. /\ release' = [release EXCEPT ![a].gate[g] = "running", ![a].status = "running",
                                     ![a].active = g]
        /\ Now(w, [advance[w] EXCEPT !.phase = "execute", !.todo = Plan(g)])
    BY <1>5 DEF MarkRunning
  <2>2. PICK d : d = [advance[w] EXCEPT !.phase = "execute", !.todo = Plan(g)]
    OBVIOUS
  <2>3. d.phase = "execute" /\ d.artifact = a /\ d.gate = g /\ ~d.conflict
    BY <1>1, <2>2 DEF Advance, RequestsInv, RequestCurrent
  <2>4. /\ GatesKept /\ RowsBegin' /\ NumbersCounted'
        /\ Exists(a)' /\ release'[a].gate[g] = "running"
    BY <1>2, <2>1
  <2>5. RequestCurrent(d)'
    BY <2>3, <2>4 DEF RequestCurrent
  <2> QED BY <2>1, <2>2, <2>4, <2>5, OnlyRequest DEF RequestsKeep
<1> QED BY <1>3, <1>4, <1>5

LEMMA ExecuteKeeps ==
    ASSUME OneAtATime, RequestsInv, NEW w \in Worker,
           \/ StartCall(w) \/ EndCall(w) \/ EnsureCertificate(w) \/ EnsureFails(w)
           \/ VerifyServing(w) \/ VerifyFails(w)
    PROVE  RequestsKeep
<1>1. UNCHANGED release
  BY DEF StartCall, EndCall, EnsureCertificate, EnsureFails, VerifyServing, VerifyFails, releaseVars
<1>2. CASE StartCall(w)
  BY <1>1, <1>2, QuietKeeps DEF StartCall, releaseVars
<1>3. CASE ~StartCall(w)
  <2>1. At(w, "execute") /\ (Done(w) \/ Give(w))
    BY <1>3 DEF EndCall, EnsureCertificate, EnsureFails, VerifyServing, VerifyFails, Due
  <2>2. advance[w] \in Advance /\ ~advance[w].conflict
    BY RequestOf DEF RequestsInv, RequestCurrent
  <2>3. \E d : /\ Now(w, d) /\ ~d.conflict
               /\ d.phase \in {"execute", "reconcile", "fail"}
               /\ d.artifact = advance[w].artifact /\ d.gate = advance[w].gate
    <3>1. CASE Done(w)
      <4>1. PICK d : d = [advance[w] EXCEPT !.todo = Tail(@),
                           !.phase = IF Len(advance[w].todo) = 1 THEN "reconcile" ELSE @]
        OBVIOUS
      <4>2. /\ ~d.conflict /\ d.phase \in {"execute", "reconcile"}
            /\ d.artifact = advance[w].artifact /\ d.gate = advance[w].gate
        BY <2>1, <2>2, <4>1 DEF Advance, At
      <4> QED BY <3>1, <4>1, <4>2 DEF Done
    <3>2. CASE Give(w)
      <4>1. PICK d : d = [advance[w] EXCEPT !.phase = "fail", !.todo = << >>]
        OBVIOUS
      <4>2. /\ ~d.conflict /\ d.phase = "fail"
            /\ d.artifact = advance[w].artifact /\ d.gate = advance[w].gate
        BY <2>2, <4>1 DEF Advance
      <4> QED BY <3>2, <4>1, <4>2 DEF Give
    <3> QED BY <2>1, <3>1, <3>2
  <2> QED BY <1>1, <2>1, <2>3, QuietKeeps
<1> QED BY <1>2, <1>3

LEMMA EndKeeps ==
    ASSUME OneAtATime, RequestsInv, NEW w \in Worker, FinishRequest(w) \/ Abort(w)
    PROVE  RequestsKeep
<1>1. CASE FinishRequest(w)
  <2>1. advance[w].artifact \in Artifact /\ Exists(advance[w].artifact)
    BY <1>1, RequestOf DEF FinishRequest, At, Prepared, RequestsInv, RequestCurrent
  <2>2. GatesKept /\ RowsBegin' /\ NumbersCounted'
    BY <1>1, <2>1, ReconcileKeeps, CountsStay DEF FinishRequest, RequestsInv
  <2> QED BY <1>1, <2>2, EndedIsCurrent DEF FinishRequest, RequestsKeep
<1>2. CASE Abort(w)
  <2>1. Finished(FALSE).phase = "idle" /\ ~Finished(FALSE).conflict
    BY DEF Finished
  <2> QED BY <1>2, <2>1, QuietKeeps DEF Abort
<1> QED BY <1>1, <1>2

LEMMA NextKeeps == ASSUME OneAtATime, RequestsInv, [ReleaseNext]_allVars PROVE RequestsKeep
<1>1. ASSUME UNCHANGED releaseVars PROVE RequestsKeep
  BY <1>1, QuietKeeps DEF releaseVars
<1>2. ASSUME NEW w \in Worker, ReleaseStep(w) \/ Abort(w)
      PROVE  RequestsKeep
  BY <1>2, InsertKeeps, MarkKeeps, ExecuteKeeps, EndKeeps DEF ReleaseStep
<1> QED BY <1>1, <1>2, CreateKeeps, AdvanceKeeps, ReconciliationKeeps DEF ReleaseNext, allVars

LEMMA InitRequests == ReleaseInit => RequestsInv
<1> SUFFICES ASSUME ReleaseInit PROVE RequestsInv
  OBVIOUS
<1>1. \A a \in Artifact : release[a] = NoRelease /\ release[a].number = 0
  BY DEF ReleaseInit, NoRelease
<1>2. NextNumber \in Nat \ {0}
  <2>1. IsFiniteSet({a \in Artifact : Exists(a)})
    BY FS_Subset, ReleaseAssumption
  <2> QED BY <2>1, FS_CardinalityType DEF NextNumber
<1>3. RowsBegin /\ NumbersCounted
  BY <1>1, <1>2 DEF RowsBegin, NumbersCounted
<1>4. \A w \in Worker : RequestCurrent(advance[w])
  BY DEF ReleaseInit, Finished, RequestCurrent
<1> QED BY <1>3, <1>4, InitReleaseInv DEF RequestsInv

LEMMA RequestsInductive == ASSUME OneAtATime PROVE ReleaseSpec => []RequestsInv
<1>1. ReleaseInit => RequestsInv
  BY InitRequests
<1>2. RequestsInv /\ [ReleaseNext]_allVars => RequestsInv'
  BY NextReleaseInv, NextKeeps DEF RequestsInv, RequestsKeep
<1> QED BY <1>1, <1>2, PTL DEF ReleaseSpec

\* Where requests follow one another, advancing a release does not close a gate
\* that is open, but for the two a change of the certificate closes; no
\* request that dies or fails in between changes that (advance,
\* mark_gate_running, mark_gate_failed, reconcile).
THEOREM OpenGatesStay == ASSUME OneAtATime PROVE ReleaseSpec => GatesStayOpen
<1>1. RequestsInv /\ [ReleaseNext]_allVars =>
        [\A a \in Artifact, g \in Gate \ {"certificate", "verification"} :
           release[a].gate[g] = "ready" => release'[a].gate[g] = "ready"]_allVars
  BY NextKeeps DEF RequestsKeep, GatesKept
<1> QED BY <1>1, RequestsInductive, PTL DEF ReleaseSpec, GatesStayOpen

\* Where requests follow one another, none for a release runs into the unique
\* indexes, repeated or not, after a crash too: the number counted when it began
\* is above every number given (next_release_number, create_or_resume).
THEOREM CreateIsRepeatable == ASSUME OneAtATime PROVE ReleaseSpec => []RepeatedCreateAccepted
<1>1. RequestsInv => RepeatedCreateAccepted
  BY DEF RequestsInv, RequestCurrent, RepeatedCreateAccepted
<1> QED BY <1>1, RequestsInductive, PTL

-----------------------------------------------------------------------------
(* The ledger, one request at a time: whatever is done to the row of a       *)
(* release between its creation and its last reconciliation is a review of   *)
(* it, and a step that leaves the rows alone is none.                        *)

LedgerStep == [Ledger!Next]_(Ledger!ledgerVars)

OpenIn(gate) == {g \in Gate : gate[g] = "ready"}

\* A row that is written anew is reviewed if the gates that close are the two of
\* the certificate, both of them or the last.
LEMMA RowIsReviewed ==
    ASSUME release \in [Artifact -> Release], NEW a \in Artifact, Exists(a),
           NEW new, release' = [release EXCEPT ![a] = new],
           new.number = release[a].number,
           OpenIn(release[a].gate) \ OpenIn(new.gate) \subseteq {"certificate", "verification"},
           \/ OpenIn(release[a].gate) \subseteq OpenIn(new.gate)
           \/ "certificate" \notin OpenIn(new.gate),
           release[a].cert # None => new.cert = release[a].cert,
           OpenIn(new.gate) \cap {"certificate", "verification"} # {} => new.cert # None,
           new.status = "ready" <=> OpenIn(new.gate) = Gate
    PROVE  Ledger!Review(a)
<1>1. release'[a] = new /\ \A b \in Artifact \ {a} : release'[b] = release[b]
  OBVIOUS
<1>2. /\ OpenGates[a] = OpenIn(release[a].gate) /\ OpenGates'[a] = OpenIn(new.gate)
      /\ OpenGates' = [OpenGates EXCEPT ![a] = OpenGates'[a]]
  <2>1. /\ OpenGates = [b \in Artifact |-> OpenIn(release[b].gate)]
        /\ OpenGates' = [b \in Artifact |-> OpenIn(release'[b].gate)]
    BY DEF OpenGates, OpenIn
  <2> QED BY <1>1, <2>1
<1>3. /\ Pins[a] = release[a].cert /\ Pins'[a] = new.cert
      /\ Pins' = [Pins EXCEPT ![a] = Pins'[a]]
  BY <1>1 DEF Pins
<1>4. Numbers[a] # 0 /\ Numbers' = Numbers
  BY <1>1 DEF Numbers, Exists
<1>5. ReadyReleases' = IF OpenGates'[a] = Gate THEN ReadyReleases \cup {a} ELSE ReadyReleases \ {a}
  BY <1>1, <1>2 DEF ReadyReleases
<1> QED BY <1>2, <1>3, <1>4, <1>5 DEF Ledger!Review, Ledger!OfCertificate

LEMMA ReadyWhenOpen == \A gate : StatusOf(gate) = "ready" <=> OpenIn(gate) = Gate
BY DEF StatusOf, OpenIn

\* What an open gate of the certificate owes, in the next state too.
CertificateHeld(r) == OpenIn(r.gate) \cap {"certificate", "verification"} # {} => r.cert # None

LEMMA CertificatesHeld ==
    ASSUME ServedInv
    PROVE  \A a \in Artifact : CertificateHeld(release[a])
BY DEF ServedInv, VerificationHasRollout, ReleaseInv, RowsTruthful, Truthful, CertificateHeld, OpenIn

LEMMA ReconciledIsReviewed ==
    ASSUME RequestsInv, ServedInv', NEW a \in Artifact, Exists(a), Reconcile(a)
    PROVE  Ledger!Review(a)
<1>1. PICK ingested \in Ingested : release' = [release EXCEPT ![a] = Reconciled(a, ingested)]
  BY DEF Reconcile
<1> DEFINE r == release[a]
           pin == Pinned(r)
           gate == [g \in Gate |-> GateAfter(r, g, pin, a, ingested)]
<1>2. PICK new : new = Reconciled(a, ingested)
  OBVIOUS
<1>3. release \in [Artifact -> Release] /\ r \in Release
  BY DEF RequestsInv, ReleaseInv, RowsTyped
<1>4. /\ new.gate = gate /\ new.status = StatusOf(gate) /\ new.number = r.number
      /\ new.cert = pin
  BY <1>2, <1>3 DEF Reconciled, Release
<1>5. \A g \in Gate : r.gate[g] = "ready" /\ gate[g] # "ready" => Disproved(g, pin, a)
  BY DEF GateAfter
<1>6. OpenIn(r.gate) \ OpenIn(gate) \subseteq {"certificate", "verification"}
  BY <1>5 DEF Disproved, OpenIn
<1>7. OpenIn(r.gate) \subseteq OpenIn(gate) \/ "certificate" \notin OpenIn(gate)
  <2>1. ASSUME NEW g \in Gate, Disproved(g, pin, a)
        PROVE  gate["certificate"] = "action_required"
    <3>1. pin # None /\ ~InManifest(pin) /\ "certificate" \in Gate
      BY <2>1, Gates DEF Disproved
    <3> QED BY <3>1 DEF GateAfter, Evidence, Disproved
  <2> HIDE DEF gate, pin
  <2> QED BY <1>5, <2>1 DEF OpenIn
<1>8. r.cert # None => pin = r.cert
  BY DEF Pinned
<1>9. CertificateHeld(new)
  <2>1. release'[a] = new
    BY <1>1, <1>2, <1>3
  <2>2. \A b \in Artifact : CertificateHeld(release'[b])
    BY DEF ServedInv, VerificationHasRollout, ReleaseInv, RowsTruthful, Truthful, CertificateHeld,
           OpenIn
  <2> QED BY <2>1, <2>2
<1> HIDE DEF gate, pin
<1> QED BY <1>1, <1>2, <1>3, <1>4, <1>6, <1>7, <1>8, <1>9, ReadyWhenOpen, RowIsReviewed
        DEF CertificateHeld

\* Marking a gate that is shut closes none.
LEMMA MarkIsReviewed ==
    ASSUME RequestsInv, ServedInv, NEW a \in Artifact, NEW g \in Gate, NEW s \in {"running", "failed"},
           Exists(a), release[a].gate[g] # "ready",
           release' = [release EXCEPT ![a].gate[g] = s, ![a].status = s, ![a].active = g]
    PROVE  Ledger!Review(a)
<1>1. release \in [Artifact -> Release] /\ release[a] \in Release
  BY DEF RequestsInv, ReleaseInv, RowsTyped
<1>2. PICK new : new = [release[a] EXCEPT !.gate = [release[a].gate EXCEPT ![g] = s],
                                          !.status = s, !.active = g]
  OBVIOUS
<1>3. release' = [release EXCEPT ![a] = new]
  BY <1>1, <1>2
<1>4. /\ new.gate = [release[a].gate EXCEPT ![g] = s] /\ new.status = s
      /\ new.number = release[a].number /\ new.cert = release[a].cert
      /\ release[a].gate \in [Gate -> GateStatus]
  BY <1>1, <1>2 DEF Release
<1>5. OpenIn(new.gate) = OpenIn(release[a].gate) /\ g \notin OpenIn(new.gate)
  BY <1>4 DEF OpenIn
<1>6. CertificateHeld(release[a])
  BY CertificatesHeld
<1> QED BY <1>1, <1>3, <1>4, <1>5, <1>6, RowIsReviewed DEF CertificateHeld

LEMMA LedgerCounts == \A S : Ledger!Cardinality(S) = Cardinality(S)
BY DEF Ledger!Cardinality, Cardinality

\* The row of a new release has the number that was next.
LEMMA InsertIsCreation ==
    ASSUME RequestsInv, NEW a \in Artifact, NEW ingested \in Ingested, ~Exists(a),
           release' = [release EXCEPT ![a] =
               [NoRelease EXCEPT !.number = NextNumber, !.gate = InitialGate(a, ingested)]]
    PROVE  Ledger!Create(a)
<1>1. release \in [Artifact -> Release] /\ release[a] = NoRelease
  BY DEF RequestsInv, ReleaseInv, RowsTyped, RowsBegin
<1>2. PICK new : new = [NoRelease EXCEPT !.number = NextNumber, !.gate = InitialGate(a, ingested)]
  OBVIOUS
<1>3. /\ new.number = NextNumber /\ new.gate = InitialGate(a, ingested)
      /\ new.cert = None /\ new.status = "waiting"
  BY <1>2 DEF NoRelease
<1>4. release'[a] = new /\ \A b \in Artifact \ {a} : release'[b] = release[b]
  BY <1>1, <1>2
<1>5. Numbers' = [Numbers EXCEPT ![a] = Cardinality(Ledger!Released) + 1]
  <2>1. Ledger!Released = {b \in Artifact : Exists(b)}
    BY DEF Ledger!Released, Numbers, Exists
  <2>2. Cardinality(Ledger!Released) + 1 = NextNumber
    BY <2>1 DEF NextNumber
  <2>3. /\ Numbers = [b \in Artifact |-> release[b].number]
        /\ Numbers' = [b \in Artifact |-> release'[b].number]
    BY DEF Numbers
  <2> QED BY <1>3, <1>4, <2>2, <2>3
<1>6. \E known \in SUBSET {"source"} :
         OpenGates' = [OpenGates EXCEPT ![a] = known \cup {"draft_package", "approval"}]
  <2>1. PICK known : known = IF ingested THEN {"source"} ELSE {}
    OBVIOUS
  <2>2. known \in SUBSET {"source"}
    BY <2>1
  <2>3. OpenIn(new.gate) = known \cup {"draft_package", "approval"}
    BY <1>3, <2>1, Gates DEF InitialGate, OpenIn
  <2>4. OpenGates' = [OpenGates EXCEPT ![a] = OpenIn(new.gate)]
    BY <1>4 DEF OpenGates, OpenIn
  <2> QED BY <2>2, <2>3, <2>4
<1>7. UNCHANGED <<Pins, ReadyReleases>>
  BY <1>1, <1>3, <1>4 DEF Pins, ReadyReleases, NoRelease
<1>8. Numbers[a] = 0
  BY DEF Numbers, Exists
<1> QED BY <1>5, <1>6, <1>7, <1>8, LedgerCounts DEF Ledger!Create

LEMMA RequestsKeepLedger ==
    ASSUME RequestsInv, ServedInv, ServedInv', NEW w \in Worker, ReleaseStep(w) \/ Abort(w)
    PROVE  LedgerStep
<1>1. ASSUME UNCHANGED release PROVE LedgerStep
  BY <1>1 DEF LedgerStep, Ledger!ledgerVars, Numbers, OpenGates, Pins, ReadyReleases
<1>2. RequestCurrent(advance[w]) /\ ReleaseInv
  BY DEF RequestsInv
<1>3. CASE InsertRelease(w)
  <2>1. PICK a : a = advance[w].artifact
    OBVIOUS
  <2>2. a \in Artifact /\ ~Exists(a) /\ advance[w].number = NextNumber
    BY <1>2, <1>3, <2>1, RequestOf DEF InsertRelease, At, Prepared, RequestCurrent
  <2>3. \/ UNCHANGED release
        \/ \E ingested \in Ingested : release' = [release EXCEPT ![a] =
             [NoRelease EXCEPT !.number = NextNumber, !.gate = InitialGate(a, ingested)]]
    BY <1>3, <2>1, <2>2 DEF InsertRelease
  <2> QED BY <1>1, <2>2, <2>3, InsertIsCreation DEF LedgerStep, Ledger!Next
<1>4. CASE MarkRunning(w) \/ MarkFailed(w)
  <2>1. PICK a, g : a = advance[w].artifact /\ g = advance[w].gate
    OBVIOUS
  <2>2. a \in Artifact /\ g \in Gate /\ Exists(a) /\ release[a].gate[g] # "ready"
    BY <1>2, <1>4, <2>1, RequestOf DEF MarkRunning, MarkFailed, At, Prepared, RequestCurrent
  <2>3. \/ UNCHANGED release
        \/ \E s \in {"running", "failed"} :
             release' = [release EXCEPT ![a].gate[g] = s, ![a].status = s, ![a].active = g]
    BY <1>4, <2>1 DEF MarkRunning, MarkFailed
  <2> QED BY <1>1, <2>2, <2>3, MarkIsReviewed DEF LedgerStep, Ledger!Next
<1>5. CASE FinishRequest(w)
  <2>1. advance[w].artifact \in Artifact /\ Exists(advance[w].artifact)
    BY <1>2, <1>5, RequestOf DEF FinishRequest, At, Prepared, RequestCurrent
  <2> QED BY <1>5, <2>1, ReconciledIsReviewed DEF FinishRequest, LedgerStep, Ledger!Next
<1>6. CASE StartCall(w) \/ EndCall(w) \/ EnsureCertificate(w) \/ EnsureFails(w)
           \/ VerifyServing(w) \/ VerifyFails(w) \/ Abort(w)
  BY <1>1, <1>6 DEF StartCall, EndCall, EnsureCertificate, EnsureFails, VerifyServing, VerifyFails,
                    Abort, releaseVars
<1> QED BY <1>3, <1>4, <1>5, <1>6 DEF ReleaseStep

LEMMA StepsKeepLedger ==
    ASSUME RequestsInv, ServedInv, ServedInv', [ReleaseNext]_allVars
    PROVE  LedgerStep
<1>1. ASSUME UNCHANGED release PROVE LedgerStep
  BY <1>1 DEF LedgerStep, Ledger!ledgerVars, Numbers, OpenGates, Pins, ReadyReleases
<1>2. ASSUME NEW w \in Worker, NEW a \in Artifact, BeginAdvance(w, a) \/ ReconcileRelease(a)
      PROVE  LedgerStep
  BY <1>2, ReconciledIsReviewed DEF BeginAdvance, ReconcileRelease, LedgerStep, Ledger!Next
<1>3. ASSUME NEW w \in Worker, NEW a \in Artifact, BeginCreate(w, a)
      PROVE  LedgerStep
  BY <1>1, <1>3 DEF BeginCreate
<1> QED BY <1>1, <1>2, <1>3, RequestsKeepLedger DEF ReleaseNext, allVars, releaseVars

LEMMA InitLedger == ReleaseInit => Ledger!Init
<1> SUFFICES ASSUME ReleaseInit PROVE Ledger!Init
  OBVIOUS
<1>1. \A a \in Artifact : /\ release[a].number = 0 /\ release[a].cert = None
                          /\ release[a].status = "waiting"
                          /\ \A g \in Gate : release[a].gate[g] = "waiting"
  BY DEF ReleaseInit, NoRelease
<1> QED BY <1>1 DEF Ledger!Init, Numbers, OpenGates, Pins, ReadyReleases

\* Where requests follow one another, creating, advancing, failing, dying and
\* reconciling amount to the two operations of the ledger: each version is
\* released once, numbers go up by one, the certificate of a release is for life,
\* only its certificate missing from the manifest closes gates, and ready is all
\* gates open (PreviewReleaseService).
THEOREM ReleasesKeepLedger == ASSUME OneAtATime PROVE ReleaseSpec => LedgerSpec
<1>1. ReleaseInit => ServedInv /\ Ledger!Init
  BY InitReleaseInv, InitLedger, Gates
  DEF ReleaseInit, Init, ServedInv, VerificationHasRollout, NoRelease
<1>2. ServedInv /\ [ReleaseNext]_allVars => ServedInv'
  BY NextServed
<1>3. RequestsInv /\ ServedInv /\ ServedInv' /\ [ReleaseNext]_allVars => LedgerStep
  BY StepsKeepLedger
<1> QED BY <1>1, <1>2, <1>3, RequestsInductive, PTL
        DEF ReleaseSpec, LedgerSpec, Ledger!Spec, LedgerStep
=============================================================================
