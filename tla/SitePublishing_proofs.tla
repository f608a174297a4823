------------------------ MODULE SitePublishing_proofs ------------------------
(***************************************************************************)
(* What TLAPS proves of SitePublishing, for any artifacts, certificates,   *)
(* workers and bounds.  The inductive invariant adds to the checked        *)
(* properties that an artifact which the histories, the rows or the        *)
(* snapshot of some call take for published has its commit on record, and  *)
(* what a call under way knows of the branch.  One section is about two    *)
(* calls at a time; the last shows that any number of them implements      *)
(* PublicationLog.                                                         *)
(***************************************************************************)
EXTENDS SitePublishing, TLAPS

Publishing == {"branch", "commit", "workflow", "record"}
Deploying  == {"running", "dispatch", "requested"}

\* Some commit among the first n has the files of artifact a.
PushedBy(a, n, commits) == \E k \in 1 .. n : commits[k].files = a

\* What a call under way may rely on: the operation follows from the phase,
\* its snapshot of the history is true of the artifact rows, a duplicate was
\* published before, what it pushed is on the branch, and what it deploys was
\* pushed, by the commit the workflow runs on once that is dispatched.
Sound(c, rowOf, commits, runs) ==
    c.phase # "idle" =>
        /\ c.artifact \in Artifact
        /\ c.phase \in Publishing => c.op = "publish"
        /\ c.phase \in Deploying => c.op \in {"deploy", "refresh"}
        /\ c.phase \in {"dispatch", "requested"} => c.op = "deploy"
        /\ \A a \in Artifact : Published(c.space.publishes[a]) => rowOf[a].sha # 0
        /\ c.dup => c.op = "publish" /\ Published(c.space.publishes[c.artifact])
        /\ c.phase = "commit" => c.parent \in DOMAIN commits /\ ~c.dup
        /\ c.phase \in {"workflow", "record"} /\ ~c.dup
             => c.parent \in DOMAIN commits /\ commits[c.parent].files = c.artifact
        /\ c.op = "deploy" => PushedBy(c.artifact, Len(commits), commits)
        /\ c.phase = "requested" => \E n \in runs : PushedBy(c.artifact, n, commits)

SoundCalls == \A w \in Worker : Sound(call[w], artifact, repo, dispatched)

BranchOK == Len(repo) \in 1 .. MaxCommits

ShaKnown ==
    \A a \in Artifact : artifact[a].sha # 0 => /\ artifact[a].sha \in DOMAIN repo
                                               /\ repo[artifact[a].sha].files = a

PublishedHasSha == \A a \in Artifact : artifact[a].publish = "published" => artifact[a].sha # 0

HistoryHasSha ==
    \A a \in Artifact : Published(workspace.publishes[a]) => artifact[a].sha # 0

\* No commit changes both the files and the manifest: publications that race
\* each other or a workflow provisioning never take back each other's part.
CommitsBuildOnEachOther ==
    \A n \in 2 .. Tip : repo[n].files = repo[n - 1].files \/ repo[n].cert = repo[n - 1].cert

DataOK ==
    /\ BranchOK
    /\ ShaKnown
    /\ PublishedHasSha
    /\ HistoryHasSha
    /\ DeployedAfterPush
    /\ CommitsBuildOnEachOther

IInv == TypeOK /\ DataOK /\ SoundCalls

-----------------------------------------------------------------------------
(* Types of the records *)

LEMMA NewRows ==
    /\ NewArtifact \in ArtifactRow
    /\ NoSpace \in WorkspaceRow
BY PublishingAssumption DEF NewArtifact, ArtifactRow, NoSpace, WorkspaceRow

LEMMA OverType ==
    ASSUME NEW result \in Result
    PROVE  Over(result) \in Call
BY NewRows, PublishingAssumption DEF Over, Call, Phase

LEMMA OverIsSound ==
    ASSUME NEW result, NEW rowOf, NEW commits, NEW runs
    PROVE  Sound(Over(result), rowOf, commits, runs)
BY DEF Over, Sound

LEMMA EndedType ==
    ASSUME NEW mode, NEW result \in Result, NEW rowOf, NEW commits, NEW runs
    PROVE  Ended(mode, result) \in Call /\ Sound(Ended(mode, result), rowOf, commits, runs)
BY OverType, OverIsSound DEF Ended, Result

LEMMA OpenType ==
    ASSUME TypeOK, NEW op \in {"publish", "deploy", "refresh"}, NEW phase \in Phase,
           NEW mode \in {"manual", "content", "reconcile", "release"}, NEW a \in Artifact
    PROVE  Open(op, phase, mode, a) \in Call
<1>1. (IF op = "publish" /\ binding.published THEN binding.cert ELSE None) \in Cert \cup {None}
  BY DEF TypeOK, BindingRow
<1> QED BY <1>1, PublishingAssumption DEF Open, TypeOK, Call, Result

\* A flushed column keeps its type.
LEMMA FlushType ==
    ASSUME NEW S, NEW loaded, NEW new \in S, NEW stored \in S
    PROVE  Flush(loaded, new, stored) \in S
BY DEF Flush

\* What may be left of a history is part of it.
LEMMA TrimmedHistories ==
    ASSUME NEW space \in WorkspaceRow
    PROVE  /\ \A kept \in Trimmed(space.publishes) :
                 /\ kept \in [Artifact -> {"none", "failed", "published", "unverified"}]
                 /\ \A a \in Artifact : Published(kept[a]) => Published(space.publishes[a])
           /\ \A kept \in Trimmed(space.deploys) : kept \in [Artifact -> {"none", "over", "running"}]
<1>1. ASSUME NEW history, NEW kept \in Trimmed(history), kept # history
      PROVE  \E a \in Artifact : \E left \in Left(history[a]) : kept = [history EXCEPT ![a] = left]
  BY <1>1 DEF Trimmed
<1>2. \A items : items \in {"none", "failed", "published", "unverified"}
                  => Left(items) \subseteq {"failed", "none"}
  BY DEF Left
<1>3. \A items : items \in {"none", "over", "running"} => Left(items) \subseteq {"over", "none"}
  BY DEF Left
<1>4. /\ space.publishes \in [Artifact -> {"none", "failed", "published", "unverified"}]
      /\ space.deploys \in [Artifact -> {"none", "over", "running"}]
  BY DEF WorkspaceRow
<1>5. ASSUME NEW kept \in Trimmed(space.publishes)
      PROVE  /\ kept \in [Artifact -> {"none", "failed", "published", "unverified"}]
             /\ \A a \in Artifact : Published(kept[a]) => Published(space.publishes[a])
  <2>1. CASE kept = space.publishes
    BY <1>4, <2>1
  <2>2. CASE kept # space.publishes
    <3>1. PICK a \in Artifact : \E left \in Left(space.publishes[a]) :
              kept = [space.publishes EXCEPT ![a] = left]
      BY <1>1, <1>5, <2>2
    <3>2. Left(space.publishes[a]) \subseteq {"failed", "none"}
      BY <1>2, <1>4
    <3> QED BY <1>4, <3>1, <3>2 DEF Published
  <2> QED BY <2>1, <2>2
<1>6. ASSUME NEW kept \in Trimmed(space.deploys)
      PROVE  kept \in [Artifact -> {"none", "over", "running"}]
  <2>1. CASE kept = space.deploys
    BY <1>4, <2>1
  <2>2. CASE kept # space.deploys
    <3>1. PICK a \in Artifact : \E left \in Left(space.deploys[a]) :
              kept = [space.deploys EXCEPT ![a] = left]
      BY <1>1, <1>6, <2>2
    <3>2. Left(space.deploys[a]) \subseteq {"over", "none"}
      BY <1>3, <1>4
    <3> QED BY <1>4, <3>1, <3>2
  <2> QED BY <2>1, <2>2
<1> QED BY <1>5, <1>6

LEMMA CallOf ==
    ASSUME IInv, NEW w \in Worker
    PROVE  call[w] \in Call /\ Sound(call[w], artifact, repo, dispatched)
BY DEF IInv, TypeOK, SoundCalls

LEMMA InitIInv == Init => IInv
<1> SUFFICES ASSUME Init PROVE IInv
  OBVIOUS
<1> USE DEF Init
<1>1. call \in [Worker -> Call] /\ SoundCalls
  BY OverType, OverIsSound DEF Result, SoundCalls
<1>2. repo \in Seq(Commit) /\ Len(repo) = 1 /\ DOMAIN repo = {1}
  BY DEF Commit
<1>3. TypeOK
  BY <1>1, <1>2, NewRows, PublishingAssumption DEF TypeOK, BindingRow
<1>4. DataOK
  BY <1>2, PublishingAssumption
  DEF DataOK, BranchOK, ShaKnown, PublishedHasSha, HistoryHasSha, DeployedAfterPush,
      CommitsBuildOnEachOther, NewArtifact, NoSpace, Published, Tip
<1> QED BY <1>1, <1>3, <1>4 DEF IInv

-----------------------------------------------------------------------------
(* What grows *)

\* The branch stays, or gets one commit that keeps the files or the manifest.
BranchStep ==
    \/ repo' = repo
    \/ \E x \in Commit : /\ Tip < MaxCommits
                         /\ x.files = repo[Tip].files \/ x.cert = repo[Tip].cert
                         /\ repo' = Append(repo, x)

LEMMA BranchGrows ==
    ASSUME IInv, BranchStep
    PROVE  /\ repo' \in Seq(Commit) /\ BranchOK' /\ CommitsBuildOnEachOther'
           /\ Len(repo) <= Len(repo')
           /\ DOMAIN repo \subseteq DOMAIN repo'
           /\ \A n \in DOMAIN repo : repo'[n] = repo[n]
<1>1. /\ repo \in Seq(Commit) /\ Len(repo) \in Nat \ {0} /\ Len(repo) <= MaxCommits
      /\ MaxCommits \in Nat /\ DOMAIN repo = 1 .. Len(repo)
  BY PublishingAssumption DEF IInv, TypeOK, DataOK, BranchOK
<1>2. CASE repo' = repo
  BY <1>1, <1>2 DEF IInv, DataOK, BranchOK, CommitsBuildOnEachOther, Tip
<1>3. CASE repo' # repo
  <2>1. PICK x \in Commit : /\ Tip < MaxCommits
                            /\ x.files = repo[Tip].files \/ x.cert = repo[Tip].cert
                            /\ repo' = Append(repo, x)
    BY <1>3 DEF BranchStep
  <2>2. /\ repo' \in Seq(Commit)
        /\ Len(repo') = Len(repo) + 1
        /\ DOMAIN repo' = 1 .. Len(repo) + 1
        /\ \A n \in 1 .. Len(repo) : repo'[n] = repo[n]
        /\ repo'[Len(repo) + 1] = x
    BY <1>1, <2>1
  <2>3. CommitsBuildOnEachOther'
    <3> SUFFICES ASSUME NEW n \in 2 .. Len(repo) + 1
                 PROVE  repo'[n].files = repo'[n - 1].files \/ repo'[n].cert = repo'[n - 1].cert
      BY <2>2 DEF CommitsBuildOnEachOther, Tip
    <3>1. CASE n = Len(repo) + 1
      <4>1. n - 1 = Len(repo) /\ repo'[Len(repo)] = repo[Len(repo)]
        BY <1>1, <2>2, <3>1
      <4>2. repo'[n - 1] = repo[Tip] /\ repo'[n] = x
        BY <2>2, <3>1, <4>1 DEF Tip
      <4> QED BY <2>1, <4>2
    <3>2. CASE n # Len(repo) + 1
      BY <1>1, <2>2, <3>2 DEF IInv, DataOK, CommitsBuildOnEachOther, Tip
    <3> QED BY <3>1, <3>2
  <2> QED BY <1>1, <2>1, <2>2, <2>3 DEF BranchOK, Tip
<1> QED BY <1>2, <1>3

\* No row loses its commit, and no workflow run is taken back.
RowsGrow ==
    /\ \A a \in Artifact : artifact[a].sha # 0 => artifact'[a].sha # 0
    /\ dispatched \subseteq dispatched'

\* What a call relies on survives that.
LEMMA SoundGrows ==
    ASSUME IInv, BranchStep, RowsGrow, NEW c, Sound(c, artifact, repo, dispatched)
    PROVE  Sound(c, artifact', repo', dispatched')
<1>1. /\ DOMAIN repo \subseteq DOMAIN repo' /\ \A n \in DOMAIN repo : repo'[n] = repo[n]
      /\ Len(repo) \in Nat /\ Len(repo') \in Nat /\ Len(repo) <= Len(repo')
      /\ DOMAIN repo = 1 .. Len(repo) /\ dispatched \subseteq 1 .. Len(repo)
  BY BranchGrows DEF IInv, TypeOK
<1>2. ASSUME NEW a, NEW n \in 0 .. Len(repo), PushedBy(a, n, repo)
      PROVE  PushedBy(a, n, repo')
  BY <1>1, <1>2 DEF PushedBy
<1>3. PushedBy(c.artifact, Len(repo), repo) => PushedBy(c.artifact, Len(repo'), repo')
  BY <1>1 DEF PushedBy
<1>4. (\E n \in dispatched : PushedBy(c.artifact, n, repo))
        => \E n \in dispatched' : PushedBy(c.artifact, n, repo')
  BY <1>1, <1>2 DEF RowsGrow
<1> QED BY <1>1, <1>3, <1>4 DEF Sound, RowsGrow

LEMMA CallsStaySound ==
    ASSUME IInv, BranchStep, RowsGrow, NEW w \in Worker, NEW r \in Call, Becomes(w, r),
           Sound(r, artifact', repo', dispatched')
    PROVE  call' \in [Worker -> Call] /\ SoundCalls'
<1>1. \A v \in Worker : Sound(call[v], artifact', repo', dispatched')
  BY SoundGrows DEF IInv, SoundCalls
<1> QED BY <1>1 DEF IInv, TypeOK, SoundCalls, Becomes

\* The rows after a step whose new commits, histories and deployments are true.
LEMMA DataStep ==
    ASSUME IInv, BranchStep, RowsGrow, PublishedHasSha', HistoryHasSha',
           \A a \in Artifact :
               \/ artifact'[a].sha \in {0, artifact[a].sha}
               \/ artifact'[a].sha \in DOMAIN repo /\ repo[artifact'[a].sha].files = a,
           \A a \in Artifact : workspace'.deployed = a
               => workspace.deployed = a \/ \E n \in dispatched : PushedBy(a, n, repo)
    PROVE  DataOK'
<1>1. /\ BranchOK' /\ CommitsBuildOnEachOther' /\ DOMAIN repo \subseteq DOMAIN repo'
      /\ \A n \in DOMAIN repo : repo'[n] = repo[n]
      /\ DOMAIN repo = 1 .. Len(repo) /\ Len(repo) \in Nat /\ dispatched \subseteq 1 .. Len(repo)
  BY BranchGrows DEF IInv, TypeOK
<1>2. ShaKnown'
  BY <1>1 DEF ShaKnown, IInv, DataOK
<1>3. DeployedAfterPush'
  <2> SUFFICES ASSUME NEW a \in Artifact, workspace'.deployed = a
               PROVE  \E n \in dispatched' : PushedBy(a, n, repo')
    BY DEF DeployedAfterPush, PushedBy
  <2>1. PICK n \in dispatched : PushedBy(a, n, repo)
    BY DEF IInv, DataOK, DeployedAfterPush, PushedBy
  <2>2. PushedBy(a, n, repo')
    BY <1>1, <2>1 DEF PushedBy
  <2> QED BY <2>1, <2>2 DEF RowsGrow
<1> QED BY <1>1, <1>2, <1>3 DEF DataOK

-----------------------------------------------------------------------------
(* Steps that change a call only *)

LEMMA CallStep ==
    ASSUME IInv, UNCHANGED <<database, github>>, faults' \in 0 .. MaxFaults,
           NEW w \in Worker, NEW r \in Call, Becomes(w, r), Sound(r, artifact, repo, dispatched)
    PROVE  IInv'
<1>1. UNCHANGED <<artifact, workspace, binding, repo, dispatched, live>>
  BY DEF database, github
<1>2. BranchStep /\ RowsGrow
  BY <1>1 DEF BranchStep, RowsGrow
<1>3. Sound(r, artifact', repo', dispatched')
  BY <1>1
<1>4. call' \in [Worker -> Call] /\ SoundCalls'
  <2> HIDE DEF BranchStep, RowsGrow
  <2> QED BY <1>2, <1>3, CallsStaySound
<1>5. TypeOK'
  BY <1>1, <1>4 DEF IInv, TypeOK
<1>6. DataOK'
  BY <1>1 DEF IInv, DataOK, BranchOK, ShaKnown, PublishedHasSha, HistoryHasSha,
              DeployedAfterPush, CommitsBuildOnEachOther, Tip
<1> QED BY <1>4, <1>5, <1>6 DEF IInv

LEMMA EndStep ==
    ASSUME IInv, UNCHANGED <<database, github>>, faults' \in 0 .. MaxFaults,
           NEW w \in Worker, NEW mode, NEW result \in Result, Becomes(w, Ended(mode, result))
    PROVE  IInv'
BY CallStep, EndedType

\* A call that begins knows what the rows say.
LEMMA OpenIsSound ==
    ASSUME IInv, NEW a \in Artifact, NEW mode,
           NEW op \in {"publish", "deploy", "refresh"}, NEW phase \in {"branch", "running", "dispatch"},
           phase = "branch" <=> op = "publish",
           phase = "dispatch" => op = "deploy",
           op = "deploy" => Deployable(a)
    PROVE  Sound(Open(op, phase, mode, a), artifact, repo, dispatched)
<1> DEFINE c == Open(op, phase, mode, a)
<1>1. /\ c.phase = phase /\ c.op = op /\ c.artifact = a /\ c.space = workspace
      /\ c.dup = (op = "publish" /\ Published(workspace.publishes[a]))
  BY DEF Open
<1>2. op = "deploy" => PushedBy(a, Len(repo), repo)
  BY DEF Deployable, IInv, TypeOK, DataOK, PublishedHasSha, ShaKnown, PushedBy
<1>3. \A b \in Artifact : Published(workspace.publishes[b]) => artifact[b].sha # 0
  BY DEF IInv, DataOK, HistoryHasSha
<1> HIDE DEF c
<1>4. Sound(c, artifact, repo, dispatched)
  BY <1>1, <1>2, <1>3 DEF Sound, Publishing, Deploying
<1> QED BY <1>4 DEF c

LEMMA BeginIInv ==
    ASSUME IInv, NEW w \in Worker, NEW a \in Artifact, Begin(w, a)
    PROVE  IInv'
<1>1. CASE BeginPublish(w, a, "manual")
  <2>1. Open("publish", "branch", "manual", a) \in Call
    BY OpenType DEF IInv, Phase
  <2>2. Sound(Open("publish", "branch", "manual", a), artifact, repo, dispatched)
    BY OpenIsSound
  <2>3. UNCHANGED <<database, github, faults>> /\ faults' \in 0 .. MaxFaults
    BY <1>1 DEF BeginPublish, IInv, TypeOK
  <2>4. \/ Becomes(w, Open("publish", "branch", "manual", a))
        \/ Becomes(w, Ended("manual", "refused"))
    BY <1>1 DEF BeginPublish
  <2> QED BY <2>1, <2>2, <2>3, <2>4, CallStep, EndStep DEF Result
<1>2. CASE BeginDeploy(w, a, "manual")
  <2>1. \A phase \in {"running", "dispatch"} : Open("deploy", phase, "manual", a) \in Call
    BY OpenType DEF IInv, Phase
  <2>2. Deployable(a) => \A phase \in {"running", "dispatch"} :
          Sound(Open("deploy", phase, "manual", a), artifact, repo, dispatched)
    BY OpenIsSound
  <2>3. UNCHANGED <<database, github, faults>> /\ faults' \in 0 .. MaxFaults
    BY <1>2 DEF BeginDeploy, IInv, TypeOK
  <2>4. \/ Becomes(w, Ended("manual", "refused"))
        \/ /\ Deployable(a)
           /\ \E phase \in {"running", "dispatch"} : Becomes(w, Open("deploy", phase, "manual", a))
    BY <1>2 DEF BeginDeploy
  <2> QED BY <2>1, <2>2, <2>3, <2>4, CallStep, EndStep DEF Result
<1>3. CASE BeginRefresh(w, a)
  <2>1. Open("refresh", "running", "manual", a) \in Call
    BY OpenType DEF IInv, Phase
  <2>2. Sound(Open("refresh", "running", "manual", a), artifact, repo, dispatched)
    BY OpenIsSound
  <2>3. /\ UNCHANGED <<database, github, faults>> /\ faults' \in 0 .. MaxFaults
        /\ Becomes(w, Open("refresh", "running", "manual", a))
    BY <1>3 DEF BeginRefresh, IInv, TypeOK
  <2> QED BY <2>1, <2>2, <2>3, CallStep
<1> QED BY <1>1, <1>2, <1>3 DEF Begin

LEMMA ReadBranchIInv ==
    ASSUME IInv, NEW w \in Worker, ReadBranch(w)
    PROVE  IInv'
<1> DEFINE c == call[w]
           toCommit == [c EXCEPT !.phase = "commit", !.parent = Tip]
           toWorkflow == [c EXCEPT !.phase = "workflow"]
<1>1. c \in Call /\ Sound(c, artifact, repo, dispatched) /\ c.phase = "branch"
  BY CallOf DEF ReadBranch, In
<1>2. /\ UNCHANGED <<database, github>> /\ faults' \in 0 .. MaxFaults
      /\ \/ Becomes(w, toCommit) /\ ~c.dup
         \/ Becomes(w, toWorkflow) /\ c.dup
         \/ Becomes(w, Ended(c.mode, "refused"))
  BY DEF ReadBranch, IInv, TypeOK
<1>3. Tip \in DOMAIN repo /\ Tip \in 0 .. MaxCommits
  BY DEF IInv, TypeOK, DataOK, BranchOK, Tip
<1>4. ~c.dup => toCommit \in Call /\ Sound(toCommit, artifact, repo, dispatched)
  BY <1>1, <1>3 DEF Call, Phase, Sound, Publishing, Deploying
<1>5. c.dup => toWorkflow \in Call /\ Sound(toWorkflow, artifact, repo, dispatched)
  BY <1>1 DEF Call, Phase, Sound, Publishing, Deploying
<1> HIDE DEF c, toCommit, toWorkflow
<1> QED BY <1>2, <1>4, <1>5, CallStep, EndStep DEF Result

LEMMA StopIInv ==
    ASSUME IInv, NEW w \in Worker, RefuseRunning(w) \/ Crash(w)
    PROVE  IInv'
<1>1. CASE RefuseRunning(w)
  BY <1>1, EndStep DEF RefuseRunning, IInv, TypeOK, Result
<1>2. CASE Crash(w)
  <2>1. faults' \in 0 .. MaxFaults
    BY <1>2, PublishingAssumption DEF Crash, IInv, TypeOK
  <2> QED BY <1>2, <2>1, CallStep, OverType, OverIsSound DEF Crash, Result
<1> QED BY <1>1, <1>2

-----------------------------------------------------------------------------
(* Steps that write rows or commits *)

\* What is left to show of such a step.
LEMMA RowsStep ==
    ASSUME IInv, BranchStep, faults' \in 0 .. MaxFaults,
           artifact' \in [Artifact -> ArtifactRow], workspace' \in WorkspaceRow,
           binding' \in BindingRow,
           dispatched' \in {dispatched, dispatched \cup {Tip}}, live' \in dispatched \cup {0},
           \A a \in Artifact :
               \/ artifact'[a].sha = artifact[a].sha
               \/ artifact'[a].sha \in DOMAIN repo /\ repo[artifact'[a].sha].files = a,
           PublishedHasSha', HistoryHasSha',
           \A a \in Artifact : workspace'.deployed = a
               => workspace.deployed = a \/ \E n \in dispatched : PushedBy(a, n, repo),
           call' = call \/ \E w \in Worker, r \in Call :
               Becomes(w, r) /\ Sound(r, artifact', repo', dispatched')
    PROVE  IInv'
<1>1. /\ repo' \in Seq(Commit) /\ DOMAIN repo \subseteq DOMAIN repo'
      /\ Tip \in DOMAIN repo /\ DOMAIN repo = 1 .. Len(repo) /\ dispatched \subseteq DOMAIN repo
  BY BranchGrows DEF IInv, TypeOK, DataOK, BranchOK, Tip
<1>2. RowsGrow
  BY <1>1 DEF RowsGrow
<1>3. DataOK'
  <2> HIDE DEF BranchStep, RowsGrow, PublishedHasSha, HistoryHasSha
  <2>1. \A a \in Artifact :
          \/ artifact'[a].sha \in {0, artifact[a].sha}
          \/ artifact'[a].sha \in DOMAIN repo /\ repo[artifact'[a].sha].files = a
    OBVIOUS
  <2> QED BY <1>2, <2>1, DataStep
<1>4. call' \in [Worker -> Call] /\ SoundCalls'
  <2>1. CASE call' = call
    <3>1. \A v \in Worker : Sound(call[v], artifact', repo', dispatched')
      BY <1>2, SoundGrows DEF IInv, SoundCalls
    <3> QED BY <2>1, <3>1 DEF IInv, TypeOK, SoundCalls
  <2>2. CASE call' # call
    BY <1>2, <2>2, CallsStaySound
  <2> QED BY <2>1, <2>2
<1>5. TypeOK'
  BY <1>1, <1>4 DEF TypeOK
<1> QED BY <1>3, <1>4, <1>5 DEF IInv

\* Only failures are added: what counted as published still does, and no more.
LEMMA FailureIInv ==
    ASSUME IInv, BranchStep, faults' \in 0 .. MaxFaults,
           UNCHANGED <<binding, dispatched, live>>,
           NEW w \in Worker, ~In(w, "idle"), RecordPublishFailure(w)
    PROVE  IInv'
<1> DEFINE c == call[w]
           a == call[w].artifact
<1>1. c \in Call /\ Sound(c, artifact, repo, dispatched) /\ c.phase # "idle" /\ a \in Artifact
  BY CallOf DEF In, Sound
<1>2. /\ artifact \in [Artifact -> ArtifactRow] /\ workspace \in WorkspaceRow
      /\ binding' \in BindingRow /\ live' \in dispatched \cup {0}
      /\ PublishedHasSha /\ HistoryHasSha /\ c.row \in ArtifactRow /\ c.space \in WorkspaceRow
  BY <1>1 DEF IInv, TypeOK, DataOK, Call
<1>3. \A result \in Result :
        /\ Ended(c.mode, result) \in Call
        /\ Sound(Ended(c.mode, result), artifact', repo', dispatched')
  BY EndedType
<1>4. CASE artifact[a].exists
  <2>1. PICK kept \in Trimmed(c.space.publishes) :
        /\ artifact' = [artifact EXCEPT ![a].publish = Flush(c.row.publish, "publish_failed", @)]
        /\ workspace' = [workspace EXCEPT !.publishes = [kept EXCEPT ![a] = WithFailure(@)]]
        /\ Becomes(w, Ended(c.mode, "error"))
    BY <1>4 DEF RecordPublishFailure
  <2>2. /\ artifact' \in [Artifact -> ArtifactRow]
        /\ \A b \in Artifact : artifact'[b].sha = artifact[b].sha
        /\ \A b \in Artifact : artifact'[b].publish = "published" => artifact[b].publish = "published"
    BY <1>1, <1>2, <2>1 DEF ArtifactRow, Flush
  <2>3. /\ workspace' \in WorkspaceRow /\ workspace'.deployed = workspace.deployed
        /\ \A b \in Artifact : Published(workspace'.publishes[b]) => Published(c.space.publishes[b])
    <3>1. /\ kept \in [Artifact -> {"none", "failed", "published", "unverified"}]
          /\ \A b \in Artifact : Published(kept[b]) => Published(c.space.publishes[b])
      BY <1>2, TrimmedHistories
    <3> QED BY <1>1, <1>2, <2>1, <3>1 DEF WorkspaceRow, WithFailure, Published
  <2>4. PublishedHasSha' /\ HistoryHasSha'
    BY <1>1, <1>2, <2>2, <2>3 DEF PublishedHasSha, HistoryHasSha, Sound
  <2>5. \E v \in Worker, r \in Call : Becomes(v, r) /\ Sound(r, artifact', repo', dispatched')
    BY <1>3, <2>1 DEF Result
  <2> HIDE DEF BranchStep, PublishedHasSha, HistoryHasSha, c, a
  <2> QED BY <1>2, <2>2, <2>3, <2>4, <2>5, RowsStep
<1>5. CASE ~artifact[a].exists
  <2>1. UNCHANGED <<artifact, workspace>> /\ Becomes(w, Ended(c.mode, "broken"))
    BY <1>5 DEF RecordPublishFailure
  <2>2. PublishedHasSha' /\ HistoryHasSha'
    BY <1>2, <2>1 DEF PublishedHasSha, HistoryHasSha
  <2>3. \E v \in Worker, r \in Call : Becomes(v, r) /\ Sound(r, artifact', repo', dispatched')
    BY <1>3, <2>1 DEF Result
  <2> HIDE DEF BranchStep, PublishedHasSha, HistoryHasSha, c, a
  <2> QED BY <1>2, <2>1, <2>2, <2>3, RowsStep
<1> QED BY <1>4, <1>5

LEMMA FailedIInv ==
    ASSUME IInv, NEW w \in Worker, PushRejected(w) \/ BranchError(w)
    PROVE  IInv'
<1>1. ~In(w, "idle") /\ RecordPublishFailure(w) /\ UNCHANGED <<binding, github, faults>>
  BY DEF PushRejected, BranchError, In
<1>2. BranchStep /\ faults' \in 0 .. MaxFaults /\ UNCHANGED <<binding, dispatched, live>>
  BY <1>1 DEF BranchStep, github, IInv, TypeOK
<1> HIDE DEF BranchStep
<1> QED BY <1>1, <1>2, FailureIInv

\* A commit with the artifact's files over the tip of the branch.
LEMMA PushStep ==
    ASSUME IInv, NEW w \in Worker, In(w, "commit"), Accepts(call[w].parent),
           repo' = Append(repo, [files |-> call[w].artifact, cert |-> repo[call[w].parent].cert])
    PROVE  /\ BranchStep /\ ~call[w].dup /\ call[w].artifact \in Artifact
           /\ Tip + 1 \in 0 .. MaxCommits /\ Tip + 1 \in DOMAIN repo'
           /\ repo'[Tip + 1].files = call[w].artifact
<1> DEFINE x == [files |-> call[w].artifact, cert |-> repo[call[w].parent].cert]
<1>1. call[w].artifact \in Artifact /\ ~call[w].dup
  BY CallOf DEF In, Sound
<1>2. /\ repo \in Seq(Commit) /\ Tip \in DOMAIN repo /\ Tip < MaxCommits /\ MaxCommits \in Nat
      /\ call[w].parent = Tip
  BY PublishingAssumption DEF IInv, TypeOK, DataOK, BranchOK, Tip, Accepts
<1>3. x \in Commit /\ x.cert = repo[Tip].cert
  <2>1. repo[Tip] \in Commit
    BY <1>2
  <2>2. repo[Tip].cert \in Cert \cup {None}
    BY <2>1 DEF Commit
  <2> QED BY <1>1, <1>2, <2>2 DEF Commit
<1>4. BranchStep
  BY <1>2, <1>3 DEF BranchStep
<1>5. Tip + 1 \in DOMAIN repo' /\ repo'[Tip + 1] = x
  BY <1>2, <1>3 DEF Tip
<1> QED BY <1>1, <1>2, <1>4, <1>5 DEF Tip

LEMMA PushLostIInv ==
    ASSUME IInv, NEW w \in Worker, PushLost(w)
    PROVE  IInv'
<1>1. BranchStep
  BY PushStep DEF PushLost
<1>2. /\ ~In(w, "idle") /\ RecordPublishFailure(w) /\ faults' \in 0 .. MaxFaults
      /\ UNCHANGED <<binding, dispatched, live>>
  BY PublishingAssumption DEF PushLost, In, IInv, TypeOK
<1> HIDE DEF BranchStep
<1> QED BY <1>1, <1>2, FailureIInv

LEMMA PushIInv ==
    ASSUME IInv, NEW w \in Worker, Push(w)
    PROVE  IInv'
<1> DEFINE c == call[w]
           d == [c EXCEPT !.phase = AfterPush(c), !.parent = Tip + 1]
<1>1. c \in Call /\ Sound(c, artifact, repo, dispatched) /\ c.phase = "commit"
  BY CallOf DEF Push, In
<1>2. /\ BranchStep /\ ~c.dup /\ c.artifact \in Artifact
      /\ Tip + 1 \in 0 .. MaxCommits /\ Tip + 1 \in DOMAIN repo'
      /\ repo'[Tip + 1].files = c.artifact
  BY PushStep DEF Push
<1>3. d \in Call
  BY <1>1, <1>2 DEF Call, Phase, AfterPush
<1>4. /\ UNCHANGED <<artifact, workspace, binding, dispatched, live, faults>> /\ Becomes(w, d)
  BY DEF Push, database
<1>5. Sound(d, artifact', repo', dispatched')
  <2>1. c.op = "publish"
    BY <1>1 DEF Sound, Publishing, Deploying
  <2>2. \A b \in Artifact : Published(c.space.publishes[b]) => artifact[b].sha # 0
    BY <1>1 DEF Sound
  <2>3. /\ d.phase \in {"record", "workflow"} /\ d.op = "publish" /\ d.artifact = c.artifact
        /\ d.space = c.space /\ ~d.dup /\ d.parent = Tip + 1
    BY <1>1, <1>2, <2>1 DEF AfterPush, Call
  <2> HIDE DEF c, d
  <2> QED BY <1>2, <1>4, <2>1, <2>2, <2>3 DEF Sound, Publishing, Deploying
<1>6. /\ PublishedHasSha' /\ HistoryHasSha' /\ faults' \in 0 .. MaxFaults
      /\ artifact' \in [Artifact -> ArtifactRow] /\ workspace' \in WorkspaceRow
      /\ binding' \in BindingRow /\ live' \in dispatched \cup {0}
  BY <1>4 DEF IInv, TypeOK, DataOK, PublishedHasSha, HistoryHasSha
<1> HIDE DEF BranchStep, PublishedHasSha, HistoryHasSha, c, d
<1> QED BY <1>2, <1>3, <1>4, <1>5, <1>6, RowsStep

LEMMA RecordingIsSound ==
    ASSUME IInv, NEW c \in Call, c.phase = "workflow", NEW verified \in BOOLEAN,
           NEW rowOf, NEW commits, NEW runs, Sound(c, rowOf, commits, runs)
    PROVE  /\ Recording(c, verified) \in Call
           /\ Sound(Recording(c, verified), rowOf, commits, runs)
<1> DEFINE d == Recording(c, verified)
<1>1. binding.cert \in Cert \cup {None}
  BY DEF IInv, TypeOK, BindingRow
<1>2. d \in Call
  BY <1>1 DEF Recording, Call, Phase
<1>3. /\ d.phase = "record" /\ d.op = c.op /\ d.artifact = c.artifact /\ d.space = c.space
      /\ d.dup = c.dup /\ d.parent = c.parent
  BY DEF Recording, Call
<1> HIDE DEF d
<1>4. Sound(d, rowOf, commits, runs)
  BY <1>3 DEF Sound, Publishing, Deploying
<1> QED BY <1>2, <1>4 DEF d

LEMMA ProvisionStep ==
    ASSUME IInv, NEW c \in Cert \cup {None}, Provision(c)
    PROVE  BranchStep
<1>1. CASE repo' = repo
  BY <1>1 DEF BranchStep
<1>2. CASE repo' # repo
  <2> DEFINE x == [files |-> repo[Tip].files, cert |-> c]
  <2>1. Tip < MaxCommits /\ repo' = Append(repo, x)
    BY <1>2 DEF Provision
  <2>2. repo[Tip] \in Commit
    BY DEF IInv, TypeOK, DataOK, BranchOK, Tip
  <2>3. x \in Commit /\ x.files = repo[Tip].files
    BY <2>2 DEF Commit
  <2> QED BY <2>1, <2>3 DEF BranchStep
<1> QED BY <1>1, <1>2

LEMMA ProvisionWorkflowIInv ==
    ASSUME IInv, NEW w \in Worker, ProvisionWorkflow(w)
    PROVE  IInv'
<1> DEFINE c == call[w]
<1>1. c \in Call /\ Sound(c, artifact, repo, dispatched) /\ c.phase = "workflow"
  BY CallOf DEF ProvisionWorkflow, In
<1>2. BranchStep
  BY <1>1, ProvisionStep DEF ProvisionWorkflow, Call
<1>3. UNCHANGED <<artifact, workspace, binding, dispatched, live, faults>>
  BY DEF ProvisionWorkflow, database
<1>4. Sound(c, artifact', repo', dispatched')
  <2>1. RowsGrow
    BY <1>3 DEF RowsGrow
  <2> HIDE DEF BranchStep, RowsGrow, c
  <2> QED BY <1>1, <1>2, <2>1, SoundGrows
<1>5. \E v \in Worker, r \in Call : Becomes(v, r) /\ Sound(r, artifact', repo', dispatched')
  <2>1. Over("none") \in Call /\ Sound(Over("none"), artifact', repo', dispatched')
    BY OverType, OverIsSound DEF Result
  <2>2. Recording(c, TRUE) \in Call /\ Sound(Recording(c, TRUE), artifact', repo', dispatched')
    BY <1>1, <1>4, RecordingIsSound
  <2>3. Becomes(w, Over("none")) \/ Becomes(w, Recording(c, TRUE))
    BY DEF ProvisionWorkflow
  <2> QED BY <2>1, <2>2, <2>3
<1>6. /\ PublishedHasSha' /\ HistoryHasSha' /\ faults' \in 0 .. MaxFaults
      /\ artifact' \in [Artifact -> ArtifactRow] /\ workspace' \in WorkspaceRow
      /\ binding' \in BindingRow /\ live' \in dispatched \cup {0}
  BY <1>3 DEF IInv, TypeOK, DataOK, PublishedHasSha, HistoryHasSha
<1> HIDE DEF BranchStep, PublishedHasSha, HistoryHasSha, c
<1> QED BY <1>2, <1>3, <1>5, <1>6, RowsStep

LEMMA SkipWorkflowIInv ==
    ASSUME IInv, NEW w \in Worker, SkipWorkflow(w)
    PROVE  IInv'
<1> DEFINE c == call[w]
<1>1. c \in Call /\ Sound(c, artifact, repo, dispatched) /\ c.phase = "workflow"
  BY CallOf DEF SkipWorkflow, In
<1>2. UNCHANGED <<database, github>> /\ faults' \in 0 .. MaxFaults
  BY DEF SkipWorkflow, IInv, TypeOK
<1>3. /\ Recording(c, FALSE) \in Call
      /\ Sound(Recording(c, FALSE), artifact, repo, dispatched)
  BY <1>1, RecordingIsSound
<1>4. Becomes(w, Ended(c.mode, "refused")) \/ Becomes(w, Recording(c, FALSE))
  BY DEF SkipWorkflow
<1> HIDE DEF c
<1> QED BY <1>2, <1>3, <1>4, CallStep, EndStep DEF Result

LEMMA WorkflowErrorIInv ==
    ASSUME IInv, NEW w \in Worker, WorkflowError(w)
    PROVE  IInv'
<1>1. call[w] \in Call /\ Sound(call[w], artifact, repo, dispatched) /\ call[w].phase = "workflow"
  BY CallOf DEF WorkflowError, In
<1>2. UNCHANGED <<binding, repo, dispatched, live, faults>> /\ faults' \in 0 .. MaxFaults
  BY DEF WorkflowError, github, IInv, TypeOK
<1>3. CASE call[w].dup
  <2>1. RecordPublishFailure(w) /\ ~In(w, "idle") /\ BranchStep
    BY <1>1, <1>2, <1>3 DEF WorkflowError, In, BranchStep
  <2> HIDE DEF BranchStep
  <2> QED BY <1>2, <2>1, FailureIInv
<1>4. CASE ~call[w].dup
  <2>1. UNCHANGED <<database, github>> /\ Becomes(w, Recording(call[w], FALSE))
    BY <1>2, <1>4 DEF WorkflowError, database, github
  <2>2. /\ Recording(call[w], FALSE) \in Call
        /\ Sound(Recording(call[w], FALSE), artifact, repo, dispatched)
    BY <1>1, RecordingIsSound
  <2> QED BY <1>2, <2>1, <2>2, CallStep
<1> QED BY <1>3, <1>4

\* The commit on record is the one the call pushed; a duplicate keeps the old one.
LEMMA RecordPublishIInv ==
    ASSUME IInv, NEW w \in Worker, RecordPublish(w)
    PROVE  IInv'
<1> DEFINE c == call[w]
           a == call[w].artifact
           sha == RecordedSha(c, artifact[a].sha)
<1>1. c \in Call /\ Sound(c, artifact, repo, dispatched) /\ c.phase = "record" /\ a \in Artifact
  BY CallOf DEF RecordPublish, In, Sound
<1>2. /\ UNCHANGED <<repo, dispatched, live, faults>> /\ faults' \in 0 .. MaxFaults
      /\ UNCHANGED github
  BY DEF RecordPublish, github, IInv, TypeOK
<1>3. CASE Unmatched(c)
  <2>1. UNCHANGED database /\ Becomes(w, Ended(c.mode, "broken"))
    BY <1>3 DEF RecordPublish
  <2> QED BY <1>2, <2>1, EndStep DEF Result
<1>4. CASE ~Unmatched(c)
  <2>1. PICK kept \in Trimmed(c.space.publishes) :
        /\ artifact' = [artifact EXCEPT ![a].publish = Flush(c.row.publish, "published", @),
                                        ![a].sha = RecordedSha(c, @)]
        /\ workspace' = [workspace EXCEPT
              !.published = Flush(c.space.published, a, @),
              !.publishes = [kept EXCEPT ![a] = PublishItem(c)]]
        /\ binding' = IF c.marked = None THEN binding ELSE [binding EXCEPT !.inManifest = TRUE]
        /\ Becomes(w, Ended(c.mode, "ok"))
    BY <1>4 DEF RecordPublish
  <2>2. /\ artifact \in [Artifact -> ArtifactRow] /\ workspace \in WorkspaceRow
        /\ c.row \in ArtifactRow /\ c.space \in WorkspaceRow /\ c.parent \in 0 .. MaxCommits
        /\ DOMAIN repo = 1 .. Len(repo)
        /\ binding \in BindingRow /\ live \in dispatched \cup {0}
    BY <1>1 DEF IInv, TypeOK, Call
  <2>3. /\ sha \in 0 .. MaxCommits /\ sha # 0
        /\ sha = artifact[a].sha \/ (sha \in DOMAIN repo /\ repo[sha].files = a)
    <3>1. CASE c.dup
      <4>1. sha = artifact[a].sha
        BY <3>1 DEF RecordedSha
      <4>2. artifact[a].sha # 0
        BY <1>1, <3>1 DEF Sound
      <4>3. artifact[a].sha \in 0 .. MaxCommits
        BY <1>1, <2>2 DEF ArtifactRow
      <4> QED BY <4>1, <4>2, <4>3
    <3>2. CASE ~c.dup
      BY <1>1, <2>2, <3>2 DEF RecordedSha, Sound
    <3> QED BY <3>1, <3>2
  <2>4. /\ artifact' \in [Artifact -> ArtifactRow] /\ artifact'[a].sha = sha
        /\ \A b \in Artifact \ {a} : artifact'[b] = artifact[b]
    <3>1. Flush(c.row.publish, "published", artifact[a].publish)
            \in {"not_published", "published", "publish_failed"}
      BY <1>1, <2>2 DEF Flush, ArtifactRow
    <3> DEFINE row == [artifact[a] EXCEPT
                         !.publish = Flush(c.row.publish, "published", artifact[a].publish),
                         !.sha = sha]
    <3>2. row \in ArtifactRow /\ row.sha = sha
      BY <1>1, <2>2, <2>3, <3>1 DEF ArtifactRow
    <3>3. artifact' = [artifact EXCEPT ![a] = row]
      BY <1>1, <2>1, <2>2
    <3> HIDE DEF row, sha
    <3> QED BY <1>1, <2>2, <3>2, <3>3
  <2>5. /\ workspace' \in WorkspaceRow /\ workspace'.deployed = workspace.deployed
        /\ \A b \in Artifact \ {a} :
               Published(workspace'.publishes[b]) => Published(c.space.publishes[b])
    <3>1. /\ Flush(c.space.published, a, workspace.published) \in Artifact \cup {None}
          /\ PublishItem(c) \in {"none", "failed", "published", "unverified"}
      BY <1>1, <2>2 DEF Flush, WorkspaceRow, PublishItem
    <3>2. /\ kept \in [Artifact -> {"none", "failed", "published", "unverified"}]
          /\ \A b \in Artifact : Published(kept[b]) => Published(c.space.publishes[b])
      BY <2>2, TrimmedHistories
    <3> QED BY <1>1, <2>1, <2>2, <3>1, <3>2 DEF WorkspaceRow
  <2>6. binding' \in BindingRow
    BY <2>1, <2>2 DEF BindingRow
  <2>7. PublishedHasSha'
    BY <2>3, <2>4 DEF IInv, DataOK, PublishedHasSha
  <2>8. HistoryHasSha'
    BY <1>1, <2>3, <2>4, <2>5 DEF HistoryHasSha, Sound
  <2>9. \E v \in Worker, r \in Call : Becomes(v, r) /\ Sound(r, artifact', repo', dispatched')
    BY <2>1, EndedType DEF Result
  <2>10. BranchStep
    BY <1>2 DEF BranchStep
  <2>11. \A b \in Artifact : \/ artifact'[b].sha = artifact[b].sha
                             \/ artifact'[b].sha \in DOMAIN repo /\ repo[artifact'[b].sha].files = b
    BY <2>3, <2>4
  <2> HIDE DEF BranchStep, PublishedHasSha, HistoryHasSha, c, a, sha
  <2> QED BY <1>2, <2>2, <2>4, <2>5, <2>6, <2>7, <2>8, <2>9, <2>10, <2>11, RowsStep
<1> QED BY <1>3, <1>4

-----------------------------------------------------------------------------
(* Deployment *)

LEMMA SettleRunIInv ==
    ASSUME IInv, NEW w \in Worker, SettleRun(w)
    PROVE  IInv'
<1> DEFINE c == call[w]
           a == call[w].artifact
           space == [workspace EXCEPT !.deploys = [c.space.deploys EXCEPT ![a] = "over"]]
           d == [c EXCEPT !.phase = "dispatch", !.space = space, !.row = artifact[a]]
<1>1. /\ c \in Call /\ Sound(c, artifact, repo, dispatched) /\ c.phase = "running"
      /\ a \in Artifact /\ c.op \in {"deploy", "refresh"} /\ ~c.dup
  BY CallOf DEF SettleRun, In, Sound, Deploying, Call
<1>2. /\ workspace' = space /\ UNCHANGED <<artifact, binding, repo, dispatched, live, faults>>
      /\ Becomes(w, IF c.op = "refresh" THEN Over("none") ELSE d)
  BY DEF SettleRun, github
<1>3. /\ artifact \in [Artifact -> ArtifactRow] /\ workspace \in WorkspaceRow
      /\ c.space \in WorkspaceRow /\ artifact[a] \in ArtifactRow /\ binding \in BindingRow
      /\ live \in dispatched \cup {0} /\ faults \in 0 .. MaxFaults
      /\ PublishedHasSha /\ HistoryHasSha
  BY <1>1 DEF IInv, TypeOK, Call, DataOK
<1>4. /\ space \in WorkspaceRow /\ space.deployed = workspace.deployed
      /\ space.publishes = workspace.publishes
  BY <1>1, <1>3 DEF WorkspaceRow
<1>5. c.op # "refresh" => d \in Call /\ Sound(d, artifact', repo', dispatched')
  <2> SUFFICES ASSUME c.op = "deploy"
               PROVE  d \in Call /\ Sound(d, artifact', repo', dispatched')
    BY <1>1
  <2> HIDE DEF space
  <2>1. d \in Call
    BY <1>1, <1>3, <1>4 DEF Call, Phase
  <2>2. /\ d.phase = "dispatch" /\ d.op = "deploy" /\ d.artifact = a /\ d.space = space /\ ~d.dup
    BY <1>1 DEF Call
  <2>3. PushedBy(a, Len(repo), repo)
    BY <1>1 DEF Sound
  <2>4. \A b \in Artifact : Published(space.publishes[b]) => artifact[b].sha # 0
    BY <1>3, <1>4 DEF HistoryHasSha
  <2> HIDE DEF c, a, d
  <2>5. Sound(d, artifact', repo', dispatched')
    BY <1>1, <1>2, <2>2, <2>3, <2>4 DEF Sound, Publishing, Deploying
  <2> QED BY <2>1, <2>5
<1>6. \E v \in Worker, r \in Call : Becomes(v, r) /\ Sound(r, artifact', repo', dispatched')
  BY <1>2, <1>5, OverType, OverIsSound DEF Result
<1>7. PublishedHasSha' /\ HistoryHasSha'
  BY <1>2, <1>3, <1>4 DEF PublishedHasSha, HistoryHasSha
<1>8. BranchStep
  BY <1>2 DEF BranchStep
<1> HIDE DEF BranchStep, PublishedHasSha, HistoryHasSha, c, a, d, space
<1> QED BY <1>2, <1>3, <1>4, <1>6, <1>7, <1>8, RowsStep

LEMMA DispatchIInv ==
    ASSUME IInv, NEW w \in Worker, Dispatch(w)
    PROVE  IInv'
<1> DEFINE c == call[w]
           d == [c EXCEPT !.phase = "requested"]
<1>1. c \in Call /\ Sound(c, artifact, repo, dispatched) /\ c.phase = "dispatch"
  BY CallOf DEF Dispatch, In
<1>2. /\ UNCHANGED <<artifact, workspace, binding, repo, live, faults>>
      /\ dispatched' = dispatched \cup {Tip} /\ Becomes(w, d)
  BY DEF Dispatch, database, GoTo
<1>3. d \in Call
  BY <1>1 DEF Call, Phase
<1>4. Sound(d, artifact', repo', dispatched')
  <2>1. /\ d.phase = "requested" /\ d.op = c.op /\ d.artifact = c.artifact
        /\ d.space = c.space /\ d.dup = c.dup
    BY <1>1 DEF Call
  <2>2. c.op = "deploy" /\ ~c.dup /\ PushedBy(c.artifact, Tip, repo)
    BY <1>1 DEF Sound, Tip, Call
  <2> HIDE DEF c, d
  <2> QED BY <1>1, <1>2, <2>1, <2>2 DEF Sound, Publishing, Deploying, Tip
<1>5. /\ PublishedHasSha' /\ HistoryHasSha' /\ faults' \in 0 .. MaxFaults
      /\ artifact' \in [Artifact -> ArtifactRow] /\ workspace' \in WorkspaceRow
      /\ binding' \in BindingRow /\ live' \in dispatched \cup {0} /\ BranchStep
  BY <1>2 DEF IInv, TypeOK, DataOK, PublishedHasSha, HistoryHasSha, BranchStep
<1> HIDE DEF BranchStep, PublishedHasSha, HistoryHasSha, c, d
<1> QED BY <1>2, <1>3, <1>4, <1>5, RowsStep

\* The deployment on record is one this call had dispatched.
LEMMA RecordDeployIInv ==
    ASSUME IInv, NEW w \in Worker, RecordDeploy(w)
    PROVE  IInv'
<1> DEFINE c == call[w]
           a == call[w].artifact
<1>1. /\ c \in Call /\ Sound(c, artifact, repo, dispatched) /\ c.phase = "requested"
      /\ a \in Artifact
  BY CallOf DEF RecordDeploy, In, Sound
<1>2. UNCHANGED <<binding, repo, dispatched, live, faults>> /\ faults' \in 0 .. MaxFaults
  BY DEF RecordDeploy, github, IInv, TypeOK
<1>3. CASE ~artifact[a].exists
  <2>1. UNCHANGED <<database, github>> /\ Becomes(w, Ended(c.mode, "broken"))
    BY <1>2, <1>3 DEF RecordDeploy, database, github
  <2> QED BY <1>2, <2>1, EndStep DEF Result
<1>4. CASE artifact[a].exists
  <2>1. PICK kept \in Trimmed(c.space.deploys) :
        /\ artifact' = [artifact EXCEPT ![a].deploy =
                          Flush(c.row.deploy, "deploy_requested", @)]
        /\ workspace' = [workspace EXCEPT
              !.deployed = Flush(c.space.deployed, a, @),
              !.deploys = [kept EXCEPT ![a] = "running"]]
        /\ Becomes(w, Ended(c.mode, "ok"))
    BY <1>4 DEF RecordDeploy
  <2>2. /\ artifact \in [Artifact -> ArtifactRow] /\ workspace \in WorkspaceRow
        /\ c.row \in ArtifactRow /\ c.space \in WorkspaceRow
        /\ binding \in BindingRow /\ live \in dispatched \cup {0}
        /\ PublishedHasSha /\ HistoryHasSha
    BY <1>1 DEF IInv, TypeOK, Call, DataOK
  <2>3. /\ artifact' \in [Artifact -> ArtifactRow]
        /\ \A b \in Artifact : /\ artifact'[b].sha = artifact[b].sha
                               /\ artifact'[b].publish = artifact[b].publish
    BY <1>1, <2>1, <2>2 DEF ArtifactRow, Flush
  <2>4. /\ workspace' \in WorkspaceRow /\ workspace'.publishes = workspace.publishes
        /\ workspace'.deployed \in {workspace.deployed, a}
    <3>1. kept \in [Artifact -> {"none", "over", "running"}]
      BY <2>2, TrimmedHistories
    <3> QED BY <1>1, <2>1, <2>2, <3>1 DEF WorkspaceRow, Flush
  <2>5. \A b \in Artifact : workspace'.deployed = b
          => workspace.deployed = b \/ \E n \in dispatched : PushedBy(b, n, repo)
    BY <1>1, <2>4 DEF Sound
  <2>6. PublishedHasSha' /\ HistoryHasSha'
    BY <2>2, <2>3, <2>4 DEF PublishedHasSha, HistoryHasSha
  <2>7. \E v \in Worker, r \in Call : Becomes(v, r) /\ Sound(r, artifact', repo', dispatched')
    BY <2>1, EndedType DEF Result
  <2>8. BranchStep
    BY <1>2 DEF BranchStep
  <2> HIDE DEF BranchStep, PublishedHasSha, HistoryHasSha, c, a
  <2> QED BY <1>2, <2>2, <2>3, <2>4, <2>5, <2>6, <2>7, <2>8, RowsStep
<1> QED BY <1>3, <1>4

LEMMA DeployFailureIInv ==
    ASSUME IInv, NEW w \in Worker, DispatchError(w) \/ DispatchLost(w)
    PROVE  IInv'
<1> DEFINE c == call[w]
           a == call[w].artifact
<1>1. /\ c \in Call /\ Sound(c, artifact, repo, dispatched) /\ c.phase = "dispatch"
      /\ a \in Artifact
  BY CallOf DEF DispatchError, DispatchLost, In, Sound
<1>2. /\ RecordDeployFailure(w) /\ UNCHANGED <<binding, repo, live>>
      /\ dispatched' \in {dispatched, dispatched \cup {Tip}} /\ faults' \in 0 .. MaxFaults
  BY PublishingAssumption DEF DispatchError, DispatchLost, github, IInv, TypeOK
<1>3. /\ artifact \in [Artifact -> ArtifactRow] /\ workspace \in WorkspaceRow
      /\ c.row \in ArtifactRow /\ c.space \in WorkspaceRow
      /\ binding \in BindingRow /\ live \in dispatched \cup {0}
      /\ PublishedHasSha /\ HistoryHasSha
  BY <1>1 DEF IInv, TypeOK, Call, DataOK
<1>4. \E v \in Worker, r \in Call : Becomes(v, r) /\ Sound(r, artifact', repo', dispatched')
  BY <1>2, EndedType DEF RecordDeployFailure, Result
<1>5. /\ artifact' \in [Artifact -> ArtifactRow]
      /\ \A b \in Artifact : /\ artifact'[b].sha = artifact[b].sha
                             /\ artifact'[b].publish = artifact[b].publish
  BY <1>1, <1>2, <1>3 DEF RecordDeployFailure, ArtifactRow, Flush
<1>6. /\ workspace' \in WorkspaceRow /\ workspace'.publishes = workspace.publishes
      /\ workspace'.deployed = workspace.deployed
  <2>1. \/ UNCHANGED workspace
        \/ \E kept \in Trimmed(c.space.deploys) :
              workspace' = [workspace EXCEPT !.deploys = [kept EXCEPT ![a] = WithOver(@)]]
    BY <1>2 DEF RecordDeployFailure
  <2>2. \A kept \in Trimmed(c.space.deploys) : kept \in [Artifact -> {"none", "over", "running"}]
    BY <1>3, TrimmedHistories
  <2> QED BY <1>1, <1>3, <2>1, <2>2 DEF WorkspaceRow, WithOver
<1>7. PublishedHasSha' /\ HistoryHasSha'
  BY <1>3, <1>5, <1>6 DEF PublishedHasSha, HistoryHasSha
<1>8. BranchStep
  BY <1>2 DEF BranchStep
<1> HIDE DEF BranchStep, PublishedHasSha, HistoryHasSha, c, a
<1> QED BY <1>2, <1>3, <1>4, <1>5, <1>6, <1>7, <1>8, RowsStep

-----------------------------------------------------------------------------
(* Requests that are one transaction, and the workflow runs *)

\* A version that is approved or deleted keeps what it was published as.
LEMMA RequestIInv ==
    ASSUME IInv, NEW a \in Artifact, Request(a)
    PROVE  IInv'
<1>1. /\ artifact \in [Artifact -> ArtifactRow] /\ workspace \in WorkspaceRow
      /\ binding \in BindingRow /\ live \in dispatched \cup {0} /\ faults \in 0 .. MaxFaults
      /\ PublishedHasSha /\ HistoryHasSha
  BY DEF IInv, TypeOK, DataOK
<1>2. UNCHANGED <<workspace, repo, dispatched, live, call, faults>>
  BY DEF Request, Approve, Delete, SelectCertificate, FailCertificate, VerifyEndpoint, github
<1>3. /\ artifact' \in [Artifact -> ArtifactRow]
      /\ \A b \in Artifact : /\ artifact'[b].sha = artifact[b].sha
                             /\ artifact'[b].publish = artifact[b].publish
  <2>1. \/ UNCHANGED artifact
        \/ artifact' = [artifact EXCEPT ![a].approved = TRUE]
        \/ artifact' = [artifact EXCEPT ![a].exists = FALSE]
    BY DEF Request, Approve, Delete, SelectCertificate, FailCertificate, VerifyEndpoint
  <2>2. CASE UNCHANGED artifact
    BY <1>1, <2>2
  <2>3. CASE artifact' = [artifact EXCEPT ![a].approved = TRUE]
    BY <1>1, <2>3 DEF ArtifactRow
  <2>4. CASE artifact' = [artifact EXCEPT ![a].exists = FALSE]
    BY <1>1, <2>4 DEF ArtifactRow
  <2> QED BY <2>1, <2>2, <2>3, <2>4
<1>4. binding' \in BindingRow
  <2>1. CASE UNCHANGED binding
    BY <1>1, <2>1
  <2>2. ASSUME NEW c \in Cert, SelectCertificate(c)
        PROVE  binding' \in BindingRow
    BY <1>1, <2>2 DEF SelectCertificate, Select, BindingRow
  <2>3. CASE VerifyEndpoint
    <3>1. PICK reached \in BOOLEAN : binding' = [binding EXCEPT !.serving = reached /\ Serves]
      BY <2>3 DEF VerifyEndpoint
    <3>2. (reached /\ Serves) \in BOOLEAN
      OBVIOUS
    <3> QED BY <1>1, <3>1, <3>2 DEF BindingRow
  <2>4. CASE FailCertificate
    BY <1>1, <2>4 DEF FailCertificate, BindingRow
  <2> QED BY <2>1, <2>2, <2>3, <2>4 DEF Request, Approve, Delete
<1>5. PublishedHasSha' /\ HistoryHasSha' /\ BranchStep
  BY <1>1, <1>2, <1>3 DEF PublishedHasSha, HistoryHasSha, BranchStep
<1> HIDE DEF BranchStep, PublishedHasSha, HistoryHasSha
<1> QED BY <1>1, <1>2, <1>3, <1>4, <1>5, RowsStep

LEMMA RolloutIInv == ASSUME IInv, Rollout PROVE IInv'
<1>1. UNCHANGED <<artifact, workspace, binding, repo, dispatched, call, faults>>
  BY DEF Rollout, database
<1>2. /\ PublishedHasSha' /\ HistoryHasSha' /\ faults' \in 0 .. MaxFaults
      /\ artifact' \in [Artifact -> ArtifactRow] /\ workspace' \in WorkspaceRow
      /\ binding' \in BindingRow /\ live' \in dispatched \cup {0} /\ BranchStep
  BY <1>1 DEF Rollout, IInv, TypeOK, DataOK, PublishedHasSha, HistoryHasSha, BranchStep
<1> HIDE DEF BranchStep, PublishedHasSha, HistoryHasSha
<1> QED BY <1>1, <1>2, RowsStep

LEMMA StutterIInv == ASSUME IInv, UNCHANGED vars PROVE IInv'
<1>1. UNCHANGED <<artifact, workspace, binding, repo, dispatched, live, call, faults>>
  BY DEF vars
<1>2. /\ PublishedHasSha' /\ HistoryHasSha' /\ faults' \in 0 .. MaxFaults
      /\ artifact' \in [Artifact -> ArtifactRow] /\ workspace' \in WorkspaceRow
      /\ binding' \in BindingRow /\ live' \in dispatched \cup {0} /\ BranchStep
  BY <1>1 DEF IInv, TypeOK, DataOK, PublishedHasSha, HistoryHasSha, BranchStep
<1> HIDE DEF BranchStep, PublishedHasSha, HistoryHasSha
<1> QED BY <1>1, <1>2, RowsStep

LEMMA NextIInv == ASSUME IInv, [Next]_vars PROVE IInv'
<1>1. ASSUME NEW w \in Worker, NEW a \in Artifact, Request(a) \/ Begin(w, a)
      PROVE  IInv'
  BY <1>1, RequestIInv, BeginIInv
<1>2. ASSUME NEW w \in Worker, Step(w)
      PROVE  IInv'
  BY <1>2, ReadBranchIInv, PushIInv, FailedIInv, ProvisionWorkflowIInv, RecordPublishIInv,
     SettleRunIInv, StopIInv, DispatchIInv, RecordDeployIInv DEF Step
<1>3. ASSUME NEW w \in Worker, Error(w) \/ Crash(w)
      PROVE  IInv'
  BY <1>3, FailedIInv, WorkflowErrorIInv, SkipWorkflowIInv, PushLostIInv, DeployFailureIInv, StopIInv DEF Error
<1> QED BY <1>1, <1>2, <1>3, RolloutIInv, StutterIInv DEF Next

-----------------------------------------------------------------------------
(* Theorems *)

\* IInv is an invariant of the publication service, whatever the versions,
\* the workers, the calls that may fail and the bounds.
THEOREM Inductive == Spec => []IInv
<1>1. Init => IInv
  BY InitIInv
<1>2. IInv /\ [Next]_vars => IInv'
  BY NextIInv
<1> QED BY <1>1, <1>2, PTL DEF Spec

\* Rows, commits, calls and the branch keep their types: a workflow runs on
\* a commit of the branch only, and what is live was dispatched.
THEOREM TypeCorrect == Spec => []TypeOK
<1>1. IInv => TypeOK
  BY DEF IInv
<1> QED BY <1>1, Inductive, PTL

\* A version that is recorded as published has on record a commit of the
\* branch with its files, however many publications of it and of other
\* versions race each other, fail or are lost (publish_artifact_version).
THEOREM CommitRecorded == Spec => []PublishedIsCommitted
<1>1. IInv => PublishedIsCommitted
  BY DEF IInv, DataOK, ShaKnown, PublishedHasSha, PublishedIsCommitted
<1> QED BY <1>1, Inductive, PTL

\* A version that is recorded as deployed had its workflow dispatched on a
\* commit that comes after one with its files (deploy_artifact_version).
THEOREM DeploymentsFollow == Spec => []DeployedAfterPush
<1>1. IInv => DeployedAfterPush
  BY DEF IInv, DataOK
<1> QED BY <1>1, Inductive, PTL

\* No commit takes back the files and the manifest at once: a publication
\* keeps the manifest of the commit it was built on, a workflow provisioning
\* the files (publish_files, ensure_deploy_workflow).
THEOREM BranchLinear == Spec => []CommitsBuildOnEachOther
<1>1. IInv => CommitsBuildOnEachOther
  BY DEF IInv, DataOK
<1> QED BY <1>1, Inductive, PTL

-----------------------------------------------------------------------------
(* What steps do to the rows *)

LEMMA PhaseOver == \A mode, result : Over(result).phase = "idle" /\ Ended(mode, result).phase = "idle"
BY DEF Over, Ended

\* A deployment, and the refresh of one, touch neither the publish history
\* nor what a version was published as.
LEMMA DeployEffects ==
    ASSUME IInv, NEW w \in Worker,
           SettleRun(w) \/ RecordDeploy(w) \/ DispatchError(w) \/ DispatchLost(w)
    PROVE  /\ \A b \in Artifact : /\ artifact'[b].sha = artifact[b].sha
                                  /\ artifact'[b].publish = artifact[b].publish
                                  /\ artifact'[b].exists = artifact[b].exists
                                  /\ artifact'[b].approved = artifact[b].approved
           /\ workspace'.publishes = workspace.publishes
           /\ workspace'.published = workspace.published
           /\ \/ workspace'.deployed = workspace.deployed
              \/ workspace'.deployed = call[w].artifact /\ artifact[call[w].artifact].exists
                                                       /\ call[w].phase = "requested"
<1> DEFINE c == call[w]
           a == call[w].artifact
<1>1. /\ c \in Call /\ workspace \in WorkspaceRow /\ a \in Artifact
      /\ artifact \in [Artifact -> ArtifactRow]
  BY CallOf DEF IInv, TypeOK, In, Sound, SettleRun, RecordDeploy, DispatchError, DispatchLost
<1>2. \/ UNCHANGED artifact
      \/ \E deploy : artifact' = [artifact EXCEPT ![a].deploy = deploy]
  <2>1. CASE SettleRun(w)
    BY <2>1 DEF SettleRun
  <2>2. CASE RecordDeploy(w)
    BY <2>2 DEF RecordDeploy
  <2>3. CASE DispatchError(w) \/ DispatchLost(w)
    BY <2>3 DEF DispatchError, DispatchLost, RecordDeployFailure
  <2> QED BY <2>1, <2>2, <2>3
<1>3. \A b \in Artifact : /\ artifact'[b].sha = artifact[b].sha
                          /\ artifact'[b].publish = artifact[b].publish
                          /\ artifact'[b].exists = artifact[b].exists
                          /\ artifact'[b].approved = artifact[b].approved
  <2>1. CASE UNCHANGED artifact
    BY <2>1
  <2>2. CASE \E deploy : artifact' = [artifact EXCEPT ![a].deploy = deploy]
    BY <1>1, <2>2 DEF ArtifactRow
  <2> QED BY <1>2, <2>1, <2>2
<1>4. \/ UNCHANGED workspace
      \/ \E deploys : workspace' = [workspace EXCEPT !.deploys = deploys]
      \/ /\ artifact[a].exists /\ c.phase = "requested"
         /\ \E deploys : workspace' = [workspace EXCEPT
               !.deployed = Flush(c.space.deployed, a, @), !.deploys = deploys]
  <2>1. CASE SettleRun(w)
    BY <2>1 DEF SettleRun
  <2>2. CASE RecordDeploy(w)
    BY <2>2 DEF RecordDeploy, In
  <2>3. CASE DispatchError(w) \/ DispatchLost(w)
    BY <2>3 DEF DispatchError, DispatchLost, RecordDeployFailure
  <2> QED BY <2>1, <2>2, <2>3
<1>5. /\ workspace'.publishes = workspace.publishes
      /\ workspace'.published = workspace.published
      /\ \/ workspace'.deployed = workspace.deployed
         \/ workspace'.deployed = a /\ artifact[a].exists /\ c.phase = "requested"
  BY <1>1, <1>4 DEF WorkspaceRow, Flush
<1> QED BY <1>3, <1>5

\* A request that is one transaction keeps what a version was published as;
\* only a deletion takes a version away, and none revokes an approval.
LEMMA RequestEffects ==
    ASSUME IInv, NEW a \in Artifact, Request(a)
    PROVE  /\ UNCHANGED <<workspace, call>>
           /\ \A b \in Artifact : /\ artifact'[b].sha = artifact[b].sha
                                  /\ artifact'[b].publish = artifact[b].publish
                                  /\ artifact[b].approved => artifact'[b].approved
                                  /\ artifact[b].exists /\ ~artifact'[b].exists
                                       => b = a /\ Unreferenced(a)
<1>1. artifact \in [Artifact -> ArtifactRow]
  BY DEF IInv, TypeOK
<1>2. /\ UNCHANGED <<workspace, call>>
      /\ \/ UNCHANGED artifact
         \/ artifact' = [artifact EXCEPT ![a].approved = TRUE]
         \/ Unreferenced(a) /\ artifact' = [artifact EXCEPT ![a].exists = FALSE]
  BY DEF Request, Approve, Delete, SelectCertificate, FailCertificate, VerifyEndpoint
<1>3. CASE UNCHANGED artifact
  BY <1>2, <1>3
<1>4. CASE artifact' = [artifact EXCEPT ![a].approved = TRUE]
  BY <1>1, <1>2, <1>4 DEF ArtifactRow
<1>5. CASE Unreferenced(a) /\ artifact' = [artifact EXCEPT ![a].exists = FALSE]
  BY <1>1, <1>2, <1>5 DEF ArtifactRow
<1> QED BY <1>2, <1>3, <1>4, <1>5

-----------------------------------------------------------------------------
(* Two calls at a time.  A publication that repeats an earlier one and finds *)
(* nothing to write to its version can name it as published after the        *)
(* version was deleted.  With two calls the deletion finds an item of the    *)
(* version in the publish history, for the other call cannot lose the item   *)
(* and delete the version; with three, one may do the first and one the      *)
(* second.  Nor does it hold once the list is full and loses old items.      *)

AtMostTwo == \A u, v, w \in Worker : u = v \/ v = w \/ u = w

\* A list that has room loses nothing.
LEMMA NothingTrimmed ==
    ASSUME ~HistoriesFull, NEW history
    PROVE  Trimmed(history) = {history}
BY DEF Trimmed

\* A call that will name its version without an UPDATE of the row.
Repeat(c) == c.phase # "idle" /\ c.dup /\ c.row.publish = "published"

\* Worker v has no way to delete version a: the version is published or in the
\* history, also in the list that v's own call would write.
GuardedFrom(v, a) ==
    \/ artifact[a].publish = "published"
    \/ /\ workspace.publishes[a] # "none"
       /\ call[v].phase # "idle" => call[v].space.publishes[a] # "none"

RepeatsGuarded ==
    \A w \in Worker : Repeat(call[w]) =>
        /\ artifact[call[w].artifact].exists
        /\ \A v \in Worker \ {w} : GuardedFrom(v, call[w].artifact)

Approval(c) == c.phase # "idle" /\ c.op \in {"publish", "deploy"} => artifact[c.artifact].approved

CallsApproved == \A w \in Worker : Approval(call[w])

PairInv == IInv /\ PointersExist /\ RepeatsGuarded /\ CallsApproved

\* A step of worker w that deletes nothing, points the workspace at versions
\* that exist and were approved, and leaves no version open to deletion by w.
LEMMA PairStep ==
    ASSUME AtMostTwo, PairInv, NEW w \in Worker, NEW r, Becomes(w, r),
           r.phase # "idle" => r.artifact \in Artifact,
           r.phase # "idle" /\ r.op \in {"publish", "deploy"} => artifact[r.artifact].approved,
           Repeat(r) => \/ /\ Repeat(call[w]) /\ r.artifact = call[w].artifact
                           /\ UNCHANGED <<artifact, workspace>>
                        \/ artifact[r.artifact].exists /\ artifact'[r.artifact].publish = "published",
           \A a \in Artifact : /\ artifact'[a].exists = artifact[a].exists
                               /\ artifact'[a].approved = artifact[a].approved
                               /\ GuardedFrom(w, a) => GuardedFrom(w, a)',
           \A a \in {workspace'.published, workspace'.deployed} \ {None} :
               \/ a \in {workspace.published, workspace.deployed}
               \/ a \in Artifact /\ artifact[a].exists /\ artifact[a].approved
    PROVE  PointersExist' /\ RepeatsGuarded' /\ CallsApproved'
<1>1. call'[w] = r /\ \A v \in Worker \ {w} : call'[v] = call[v]
  BY DEF Becomes, PairInv, IInv, TypeOK
<1>2. /\ workspace \in WorkspaceRow
      /\ \A v \in Worker : call[v].phase # "idle" => call[v].artifact \in Artifact
  BY CallOf DEF PairInv, IInv, TypeOK, Sound
<1>3. PointersExist'
  BY <1>2 DEF PairInv, PointersExist, WorkspaceRow
<1>4. CallsApproved'
  BY <1>1, <1>2 DEF PairInv, CallsApproved, Approval
<1>5. ASSUME NEW u \in Worker, Repeat(call'[u]), NEW a \in Artifact, a = call'[u].artifact
      PROVE  artifact'[a].exists /\ \A v \in Worker \ {u} : GuardedFrom(v, a)'
  <2>1. CASE u = w
    <3>1. Repeat(r) /\ r.artifact = a
      BY <1>1, <1>5, <2>1
    <3>2. CASE artifact[a].exists /\ artifact'[a].publish = "published"
      BY <3>2 DEF GuardedFrom
    <3>3. CASE /\ Repeat(call[w]) /\ a = call[w].artifact
               /\ UNCHANGED <<artifact, workspace>>
      <4>1. artifact[a].exists /\ \A v \in Worker \ {w} : GuardedFrom(v, a)
        BY <3>3 DEF PairInv, RepeatsGuarded
      <4> QED BY <1>1, <2>1, <3>3, <4>1 DEF GuardedFrom
    <3> QED BY <3>1, <3>2, <3>3
  <2>2. CASE u # w
    <3>1. call'[u] = call[u] /\ a = call[u].artifact /\ \A v \in Worker \ {u} : v = w
      BY <1>1, <1>5, <2>2 DEF AtMostTwo
    <3>2. artifact[a].exists /\ GuardedFrom(w, a)
      BY <1>5, <2>2, <3>1 DEF PairInv, RepeatsGuarded
    <3> QED BY <3>1, <3>2
  <2> QED BY <2>1, <2>2
<1>6. RepeatsGuarded'
  <2>1. \A u \in Worker : Repeat(call'[u]) => call'[u].artifact \in Artifact
    BY <1>1, <1>2 DEF Repeat
  <2>2. \A u \in Worker : Repeat(call'[u]) => \E a \in Artifact :
          /\ a = call'[u].artifact /\ artifact'[a].exists
          /\ \A v \in Worker \ {u} : GuardedFrom(v, a)'
    BY <1>5, <2>1
  <2> QED BY <2>2 DEF RepeatsGuarded, GuardedFrom
<1> QED BY <1>3, <1>4, <1>6

\* A step that writes no row, and keeps the call's version and its snapshots.
LEMMA PairQuiet ==
    ASSUME AtMostTwo, PairInv, NEW w \in Worker, UNCHANGED <<artifact, workspace>>,
           NEW r, Becomes(w, r), ~In(w, "idle"),
           r.phase = "idle" \/ /\ r.artifact = call[w].artifact /\ r.op = call[w].op
                               /\ r.space = call[w].space /\ r.row = call[w].row
                               /\ r.dup = call[w].dup
    PROVE  PointersExist' /\ RepeatsGuarded' /\ CallsApproved'
<1>1. call'[w] = r
  BY DEF Becomes, PairInv, IInv, TypeOK
<1>2. r.phase # "idle" => /\ r.artifact \in Artifact /\ Repeat(r) = Repeat(call[w])
                          /\ r.op \in {"publish", "deploy"} => artifact[r.artifact].approved
  BY CallOf DEF PairInv, Sound, In, Repeat, CallsApproved, Approval
<1>3. \A a \in Artifact : GuardedFrom(w, a) => GuardedFrom(w, a)'
  BY <1>1 DEF GuardedFrom, In
<1>4. Repeat(r) => Repeat(call[w]) /\ r.artifact = call[w].artifact
  BY <1>2 DEF Repeat
<1> QED BY <1>2, <1>3, <1>4, PairStep

LEMMA BeginPair ==
    ASSUME AtMostTwo, PairInv, NEW w \in Worker, NEW a \in Artifact, In(w, "idle"), Begin(w, a)
    PROVE  PointersExist' /\ RepeatsGuarded' /\ CallsApproved'
<1>1. UNCHANGED <<artifact, workspace>>
  BY DEF Begin, BeginPublish, BeginDeploy, BeginRefresh, database
<1>2. \/ \E mode, result : Becomes(w, Ended(mode, result))
      \/ \E phase, mode :
           \/ Becomes(w, Open("publish", phase, mode, a)) /\ artifact[a].exists /\ artifact[a].approved
           \/ Becomes(w, Open("deploy", phase, mode, a)) /\ artifact[a].exists /\ artifact[a].approved
           \/ Becomes(w, Open("refresh", phase, mode, a)) /\ artifact[a].exists
  BY DEF Begin, BeginPublish, BeginDeploy, BeginRefresh, Deployable
<1>3. PICK r : /\ Becomes(w, r)
               /\ r.phase = "idle" \/ /\ r.artifact = a /\ r.space = workspace /\ r.row = artifact[a]
                                      /\ r.op \in {"publish", "deploy"} => artifact[a].approved
                                      /\ artifact[a].exists
  <2>1. \A op, phase, mode : LET c == Open(op, phase, mode, a)
                             IN /\ c.artifact = a /\ c.space = workspace /\ c.row = artifact[a]
                                /\ c.op = op
    BY DEF Open
  <2>2. CASE \E mode, result : Becomes(w, Ended(mode, result))
    BY <2>2, PhaseOver
  <2>3. ASSUME NEW op \in {"publish", "deploy", "refresh"}, NEW phase, NEW mode,
               Becomes(w, Open(op, phase, mode, a)), artifact[a].exists,
               op \in {"publish", "deploy"} => artifact[a].approved
        PROVE  \E r : /\ Becomes(w, r) /\ r.artifact = a /\ r.space = workspace
                      /\ r.row = artifact[a] /\ artifact[a].exists
                      /\ r.op \in {"publish", "deploy"} => artifact[a].approved
    <3> DEFINE r == Open(op, phase, mode, a)
    <3>1. /\ r.artifact = a /\ r.space = workspace /\ r.row = artifact[a] /\ r.op = op
      BY <2>1
    <3>2. Becomes(w, r)
      BY <2>3
    <3> HIDE DEF r
    <3> QED BY <2>3, <3>1, <3>2
  <2> QED BY <1>2, <2>2, <2>3
<1>4. call'[w] = r
  BY <1>3 DEF Becomes, PairInv, IInv, TypeOK
<1>5. \A b \in Artifact : GuardedFrom(w, b) => GuardedFrom(w, b)'
  BY <1>1, <1>3, <1>4 DEF GuardedFrom
<1>6. Repeat(r) => artifact[r.artifact].exists /\ artifact'[r.artifact].publish = "published"
  BY <1>1, <1>3 DEF Repeat
<1> QED BY <1>1, <1>3, <1>5, <1>6, PairStep

LEMMA GithubStepPair ==
    ASSUME AtMostTwo, PairInv, NEW w \in Worker,
           \/ ReadBranch(w) \/ Push(w) \/ ProvisionWorkflow(w) \/ SkipWorkflow(w)
           \/ RefuseRunning(w) \/ Dispatch(w) \/ Crash(w)
    PROVE  PointersExist' /\ RepeatsGuarded' /\ CallsApproved'
<1>1. UNCHANGED <<artifact, workspace>> /\ ~In(w, "idle")
  BY DEF ReadBranch, Push, ProvisionWorkflow, SkipWorkflow, RefuseRunning, Dispatch, Crash, database, In
<1>2. \E r : /\ Becomes(w, r)
             /\ r.phase = "idle" \/ /\ r.artifact = call[w].artifact /\ r.op = call[w].op
                                    /\ r.space = call[w].space /\ r.row = call[w].row
                                    /\ r.dup = call[w].dup
  <2> DEFINE Same(r) == /\ r.artifact = call[w].artifact /\ r.op = call[w].op
                        /\ r.space = call[w].space /\ r.row = call[w].row
                        /\ r.dup = call[w].dup
  <2>1. \A phase, parent :
          /\ Same([call[w] EXCEPT !.phase = phase])
          /\ Same([call[w] EXCEPT !.phase = phase, !.parent = parent])
    BY CallOf DEF PairInv, Call
  <2>2. Same(Recording(call[w], TRUE)) /\ Same(Recording(call[w], FALSE))
    BY CallOf DEF PairInv, Call, Recording
  <2>3. \/ \E mode, result : Becomes(w, Over(result)) \/ Becomes(w, Ended(mode, result))
        \/ \E phase, parent :
             \/ Becomes(w, [call[w] EXCEPT !.phase = phase])
             \/ Becomes(w, [call[w] EXCEPT !.phase = phase, !.parent = parent])
        \/ Becomes(w, Recording(call[w], TRUE)) \/ Becomes(w, Recording(call[w], FALSE))
    BY DEF ReadBranch, Push, ProvisionWorkflow, SkipWorkflow, RefuseRunning, Dispatch, Crash, GoTo
  <2> HIDE DEF Same
  <2>4. \E r : Becomes(w, r) /\ (r.phase = "idle" \/ Same(r))
    BY <2>1, <2>2, <2>3, PhaseOver
  <2> QED BY <2>4 DEF Same
<1> QED BY <1>1, <1>2, PairQuiet

\* A failure leaves an item of the version in the history.
LEMMA FailurePair ==
    ASSUME AtMostTwo, ~HistoriesFull, PairInv, NEW w \in Worker, ~In(w, "idle"), RecordPublishFailure(w)
    PROVE  PointersExist' /\ RepeatsGuarded' /\ CallsApproved'
<1> DEFINE c == call[w]
           a == call[w].artifact
<1>1. /\ c \in Call /\ workspace \in WorkspaceRow /\ a \in Artifact
      /\ artifact \in [Artifact -> ArtifactRow]
  BY CallOf DEF PairInv, IInv, TypeOK, In, Sound
<1>2. CASE ~artifact[a].exists
  BY <1>2, PhaseOver, PairQuiet DEF RecordPublishFailure
<1>3. CASE artifact[a].exists
  <2>1. Trimmed(c.space.publishes) = {c.space.publishes}
    BY NothingTrimmed
  <2>2. /\ artifact' = [artifact EXCEPT ![a].publish = Flush(c.row.publish, "publish_failed", @)]
        /\ workspace' = [workspace EXCEPT !.publishes =
                           [c.space.publishes EXCEPT ![a] = WithFailure(@)]]
        /\ Becomes(w, Ended(c.mode, "error"))
    BY <1>3, <2>1 DEF RecordPublishFailure
  <2>3. \A b \in Artifact : /\ artifact'[b].exists = artifact[b].exists
                            /\ artifact'[b].approved = artifact[b].approved
                            /\ b # a => artifact'[b].publish = artifact[b].publish
    BY <1>1, <2>2 DEF ArtifactRow
  <2>4. /\ workspace'.published = workspace.published /\ workspace'.deployed = workspace.deployed
        /\ \A b \in Artifact \ {a} : workspace'.publishes[b] = c.space.publishes[b]
        /\ workspace'.publishes[a] # "none"
    BY <1>1, <2>2 DEF WorkspaceRow, WithFailure, Call
  <2>5. call'[w].phase = "idle"
    BY <2>2, PhaseOver DEF Becomes, PairInv, IInv, TypeOK
  <2>6. \A b \in Artifact : GuardedFrom(w, b) => GuardedFrom(w, b)'
    BY <2>3, <2>4, <2>5 DEF GuardedFrom, In
  <2>7. Ended(c.mode, "error").phase = "idle" /\ ~Repeat(Ended(c.mode, "error"))
    BY PhaseOver DEF Repeat
  <2> QED BY <2>2, <2>3, <2>4, <2>6, <2>7, PairStep
<1> QED BY <1>2, <1>3

LEMMA WorkflowErrorPair ==
    ASSUME AtMostTwo, ~HistoriesFull, PairInv, NEW w \in Worker, WorkflowError(w)
    PROVE  PointersExist' /\ RepeatsGuarded' /\ CallsApproved'
<1>1. ~In(w, "idle")
  BY DEF WorkflowError, In
<1>2. CASE call[w].dup
  BY <1>1, <1>2, FailurePair DEF WorkflowError
<1>3. CASE ~call[w].dup
  <2> DEFINE r == Recording(call[w], FALSE)
  <2>1. /\ r.artifact = call[w].artifact /\ r.op = call[w].op
        /\ r.space = call[w].space /\ r.row = call[w].row /\ r.dup = call[w].dup
    BY CallOf DEF PairInv, Recording, Call
  <2>2. UNCHANGED <<artifact, workspace>> /\ Becomes(w, r)
    BY <1>3 DEF WorkflowError
  <2> HIDE DEF r
  <2> QED BY <1>1, <2>1, <2>2, PairQuiet
<1> QED BY <1>2, <1>3

\* A publication is recorded on a version that exists, or repeats an earlier
\* one: then no other call could delete the version.
LEMMA RecordPublishPair ==
    ASSUME AtMostTwo, ~HistoriesFull, PairInv, NEW w \in Worker, RecordPublish(w)
    PROVE  PointersExist' /\ RepeatsGuarded' /\ CallsApproved'
<1> DEFINE c == call[w]
           a == call[w].artifact
<1>1. /\ c \in Call /\ workspace \in WorkspaceRow /\ a \in Artifact /\ c.op = "publish"
      /\ artifact \in [Artifact -> ArtifactRow] /\ ~In(w, "idle") /\ c.phase = "record"
  BY CallOf DEF PairInv, IInv, TypeOK, In, Sound, RecordPublish, Publishing
<1>2. CASE Unmatched(c)
  BY <1>1, <1>2, PhaseOver, PairQuiet DEF RecordPublish, database
<1>3. CASE ~Unmatched(c)
  <2>1. Trimmed(c.space.publishes) = {c.space.publishes}
    BY NothingTrimmed
  <2>2. /\ artifact' = [artifact EXCEPT
               ![a].publish = Flush(c.row.publish, "published", @),
               ![a].sha = RecordedSha(c, @)]
        /\ workspace' = [workspace EXCEPT
               !.published = Flush(c.space.published, a, @),
               !.publishes = [c.space.publishes EXCEPT ![a] = PublishItem(c)]]
        /\ Becomes(w, Ended(c.mode, "ok"))
    BY <1>3, <2>1 DEF RecordPublish
  <2>3. artifact[a].exists /\ artifact[a].approved
    <3>1. artifact[a].exists
      BY <1>1, <1>3 DEF Unmatched, PairInv, RepeatsGuarded, Repeat
    <3> QED BY <1>1, <3>1 DEF PairInv, CallsApproved, Approval
  <2>4. \A b \in Artifact : /\ artifact'[b].exists = artifact[b].exists
                            /\ artifact'[b].approved = artifact[b].approved
                            /\ b # a => artifact'[b].publish = artifact[b].publish
    BY <1>1, <2>2 DEF ArtifactRow
  <2>5. /\ workspace'.published \in {workspace.published, a}
        /\ workspace'.deployed = workspace.deployed
        /\ \A b \in Artifact \ {a} : workspace'.publishes[b] = c.space.publishes[b]
        /\ workspace'.publishes[a] # "none"
    BY <1>1, <2>2 DEF WorkspaceRow, Flush, PublishItem, Call
  <2>6. call'[w].phase = "idle"
    BY <2>2, PhaseOver DEF Becomes, PairInv, IInv, TypeOK
  <2>7. \A b \in Artifact : GuardedFrom(w, b) => GuardedFrom(w, b)'
    BY <2>4, <2>5, <2>6 DEF GuardedFrom, In, RecordPublish
  <2>8. Ended(c.mode, "ok").phase = "idle" /\ ~Repeat(Ended(c.mode, "ok"))
    BY PhaseOver DEF Repeat
  <2> HIDE DEF c, a
  <2> QED BY <1>1, <2>2, <2>3, <2>4, <2>5, <2>7, <2>8, PairStep
<1> QED BY <1>2, <1>3

LEMMA DeployPair ==
    ASSUME AtMostTwo, PairInv, NEW w \in Worker,
           SettleRun(w) \/ RecordDeploy(w) \/ DispatchError(w) \/ DispatchLost(w)
    PROVE  PointersExist' /\ RepeatsGuarded' /\ CallsApproved'
<1> DEFINE c == call[w]
           a == call[w].artifact
<1>1. /\ c \in Call /\ Sound(c, artifact, repo, dispatched) /\ c.phase \in Deploying
      /\ workspace \in WorkspaceRow /\ c.space \in WorkspaceRow /\ a \in Artifact /\ ~c.dup
  BY CallOf DEF PairInv, IInv, TypeOK, In, Sound, Call, Deploying,
                SettleRun, RecordDeploy, DispatchError, DispatchLost
<1>2. /\ \A b \in Artifact : /\ artifact'[b].publish = artifact[b].publish
                             /\ artifact'[b].exists = artifact[b].exists
                             /\ artifact'[b].approved = artifact[b].approved
      /\ workspace'.publishes = workspace.publishes
      /\ workspace'.published = workspace.published
      /\ \/ workspace'.deployed = workspace.deployed
         \/ workspace'.deployed = a /\ artifact[a].exists /\ c.phase = "requested"
  BY DeployEffects DEF PairInv
<1>3. c.phase = "requested" => artifact[a].approved
  BY <1>1 DEF Sound, PairInv, CallsApproved, Approval
<1>4. PICK r : /\ Becomes(w, r)
               /\ r.phase = "idle" \/ /\ r.artifact = a /\ r.op = c.op /\ ~r.dup
                                      /\ r.space.publishes = workspace.publishes
  <2>1. CASE SettleRun(w)
    <3> DEFINE space == [workspace EXCEPT !.deploys = [c.space.deploys EXCEPT ![a] = "over"]]
               d == [c EXCEPT !.phase = "dispatch", !.space = space, !.row = artifact[a]]
    <3>1. Becomes(w, IF c.op = "refresh" THEN Over("none") ELSE d)
      BY <2>1 DEF SettleRun
    <3>2. space.publishes = workspace.publishes
      BY <1>1 DEF WorkspaceRow
    <3> HIDE DEF space
    <3>3. d.space = space /\ d.artifact = a /\ d.op = c.op /\ ~d.dup
      BY <1>1 DEF Call
    <3> HIDE DEF d, c
    <3> QED BY <3>1, <3>2, <3>3, PhaseOver
  <2>2. CASE ~SettleRun(w)
    BY <2>2, PhaseOver DEF RecordDeploy, DispatchError, DispatchLost, RecordDeployFailure
  <2> QED BY <2>1, <2>2
<1>5. call'[w] = r
  BY <1>4 DEF Becomes, PairInv, IInv, TypeOK
<1>6. \A b \in Artifact : GuardedFrom(w, b) => GuardedFrom(w, b)'
  BY <1>2, <1>4, <1>5 DEF GuardedFrom
<1>7. ~Repeat(r)
  BY <1>4 DEF Repeat
<1>8. r.phase # "idle" /\ r.op \in {"publish", "deploy"} => artifact[r.artifact].approved
  BY <1>1, <1>4 DEF PairInv, CallsApproved, Approval, Deploying
<1> QED BY <1>1, <1>2, <1>3, <1>4, <1>6, <1>7, <1>8, PairStep

\* A deletion passes over a version that a call of the other worker repeats.
LEMMA RequestPair ==
    ASSUME AtMostTwo, PairInv, NEW w \in Worker, NEW a \in Artifact, In(w, "idle"), Request(a)
    PROVE  PointersExist' /\ RepeatsGuarded' /\ CallsApproved'
<1>1. /\ UNCHANGED <<workspace, call>>
      /\ \A b \in Artifact : /\ artifact'[b].publish = artifact[b].publish
                             /\ artifact[b].approved => artifact'[b].approved
                             /\ artifact[b].exists /\ ~artifact'[b].exists => b = a /\ Unreferenced(a)
  BY RequestEffects DEF PairInv
<1>2. /\ workspace \in WorkspaceRow
      /\ \A v \in Worker : call[v].phase # "idle" => call[v].artifact \in Artifact
  BY CallOf DEF PairInv, IInv, TypeOK, Sound
<1>3. PointersExist'
  BY <1>1, <1>2 DEF PairInv, PointersExist, WorkspaceRow, Unreferenced
<1>4. CallsApproved'
  BY <1>1, <1>2 DEF PairInv, CallsApproved, Approval
<1>5. ASSUME NEW u \in Worker, Repeat(call[u])
      PROVE  artifact'[call[u].artifact].exists
             /\ \A v \in Worker \ {u} : GuardedFrom(v, call[u].artifact)'
  <2>1. /\ call[u].artifact \in Artifact /\ artifact[call[u].artifact].exists /\ u # w
        /\ \A v \in Worker \ {u} : GuardedFrom(v, call[u].artifact)
    BY <1>2, <1>5 DEF PairInv, RepeatsGuarded, Repeat, In
  <2>2. ~Unreferenced(call[u].artifact)
    BY <2>1 DEF GuardedFrom, Unreferenced
  <2> QED BY <1>1, <2>1, <2>2 DEF GuardedFrom
<1>6. RepeatsGuarded'
  BY <1>1, <1>5 DEF RepeatsGuarded
<1> QED BY <1>3, <1>4, <1>6

LEMMA NextPair ==
    ASSUME AtMostTwo, ~HistoriesFull, PairInv, [Next]_vars
    PROVE  PairInv'
<1>1. IInv'
  BY NextIInv DEF PairInv
<1>2. ASSUME UNCHANGED <<artifact, workspace, call>>
      PROVE  PointersExist' /\ RepeatsGuarded' /\ CallsApproved'
  BY <1>2 DEF PairInv, PointersExist, RepeatsGuarded, CallsApproved, Approval, GuardedFrom
<1>3. ASSUME NEW w \in Worker, Step(w) \/ Error(w) \/ Crash(w)
      PROVE  PointersExist' /\ RepeatsGuarded' /\ CallsApproved'
  <2>1. CASE PushRejected(w) \/ BranchError(w) \/ PushLost(w)
    BY <2>1, FailurePair DEF PushRejected, BranchError, PushLost, In
  <2> QED BY <1>3, <2>1, GithubStepPair, WorkflowErrorPair, RecordPublishPair, DeployPair
          DEF Step, Error
<1>4. PointersExist' /\ RepeatsGuarded' /\ CallsApproved'
  BY <1>2, <1>3, BeginPair, RequestPair DEF Next, Rollout, database, vars
<1> QED BY <1>1, <1>4 DEF PairInv

\* With two calls at a time and room in the histories, the last-published and last-deployed pointers name
\* versions that exist and were approved, however publications, deployments,
\* deletions, failures and crashes interleave (delete_artifact_version guards).
THEOREM PointersKept == ASSUME AtMostTwo, ~HistoriesFull PROVE Spec => []PointersExist
<1>1. Init => PairInv
  BY InitIInv
  DEF PairInv, Init, PointersExist, RepeatsGuarded, CallsApproved, Approval, Repeat, NoSpace, Over
<1>2. PairInv /\ [Next]_vars => PairInv'
  BY NextPair
<1>3. PairInv => PointersExist
  BY DEF PairInv
<1> QED BY <1>1, <1>2, <1>3, PTL DEF Spec

-----------------------------------------------------------------------------
(* The publication log.  However many calls overlap, every step maps to a    *)
(* step of the log or to a stutter: a call works on what it read long ago,   *)
(* but its commit is only accepted over the tip, its record names its own    *)
(* commit, and what it failed to write it did not tell anybody.              *)

ApprovedNow  == {a \in Artifact : artifact[a].approved}
WithdrawnNow == {a \in Artifact : ~artifact[a].exists}
CommitNow    == [a \in Artifact |-> artifact[a].sha]
StatusNow    == [a \in Artifact |-> artifact[a].publish]

LogInv == IInv /\ CallsApproved

\* A step maps to one of the log, or to a stutter.
LogStep == [Outline!Next]_(Outline!logVars)

\* A call ends, or keeps its operation and its version.
LEMMA CallGoesOn ==
    ASSUME IInv, NEW w \in Worker, Step(w) \/ Error(w) \/ Crash(w)
    PROVE  \E r : /\ Becomes(w, r)
                  /\ r.phase # "idle" => r.artifact = call[w].artifact /\ r.op = call[w].op
<1> DEFINE Same(r) == r.artifact = call[w].artifact /\ r.op = call[w].op
<1>1. /\ \A phase, parent, space, row :
            /\ Same([call[w] EXCEPT !.phase = phase])
            /\ Same([call[w] EXCEPT !.phase = phase, !.parent = parent])
            /\ Same([call[w] EXCEPT !.phase = phase, !.space = space, !.row = row])
      /\ \A verified : Same(Recording(call[w], verified))
  BY CallOf DEF Call, Recording
<1>2. \/ \E mode, result : Becomes(w, Over(result)) \/ Becomes(w, Ended(mode, result))
      \/ \E phase, parent, space, row :
            \/ Becomes(w, [call[w] EXCEPT !.phase = phase])
            \/ Becomes(w, [call[w] EXCEPT !.phase = phase, !.parent = parent])
            \/ Becomes(w, [call[w] EXCEPT !.phase = phase, !.space = space, !.row = row])
      \/ \E verified : Becomes(w, Recording(call[w], verified))
  <2>1. CASE ReadBranch(w) \/ Push(w) \/ ProvisionWorkflow(w) \/ SkipWorkflow(w)
             \/ RefuseRunning(w) \/ Dispatch(w) \/ Crash(w)
    BY <2>1 DEF ReadBranch, Push, ProvisionWorkflow, SkipWorkflow, RefuseRunning, Dispatch, Crash, GoTo
  <2>2. CASE SettleRun(w)
    BY <2>2 DEF SettleRun
  <2>3. CASE RecordPublish(w)
    BY <2>3 DEF RecordPublish
  <2>4. CASE PushRejected(w) \/ BranchError(w) \/ PushLost(w) \/ WorkflowError(w)
    BY <2>4 DEF PushRejected, BranchError, PushLost, WorkflowError, RecordPublishFailure
  <2>5. CASE RecordDeploy(w) \/ DispatchError(w) \/ DispatchLost(w)
    BY <2>5 DEF RecordDeploy, DispatchError, DispatchLost, RecordDeployFailure
  <2> QED BY <2>1, <2>2, <2>3, <2>4, <2>5 DEF Step, Error
<1> HIDE DEF Same
<1>3. \E r : Becomes(w, r) /\ (r.phase = "idle" \/ Same(r))
  BY <1>1, <1>2, PhaseOver
<1> QED BY <1>3 DEF Same

\* Approvals are for good, so a call's version stays approved while it works.
LEMMA ApprovalsStay ==
    ASSUME LogInv, NEW w \in Worker, Step(w) \/ Error(w) \/ Crash(w),
           \A a \in Artifact : artifact'[a].approved = artifact[a].approved
    PROVE  CallsApproved'
<1>1. PICK r : /\ Becomes(w, r)
               /\ r.phase # "idle" => r.artifact = call[w].artifact /\ r.op = call[w].op
  BY CallGoesOn DEF LogInv
<1>2. \A v \in Worker : call'[v] = IF v = w THEN r ELSE call[v]
  BY <1>1 DEF Becomes, LogInv, IInv, TypeOK
<1>3. \A v \in Worker : call[v].phase # "idle" => call[v].artifact \in Artifact
  BY CallOf DEF LogInv, Sound
<1>4. call[w].phase # "idle"
  BY DEF Step, Error, Crash, In, ReadBranch, Push, PushRejected, ProvisionWorkflow, RecordPublish,
         SettleRun, RefuseRunning, Dispatch, RecordDeploy, BranchError, WorkflowError, SkipWorkflow, PushLost,
         DispatchError, DispatchLost
<1> QED BY <1>1, <1>2, <1>3, <1>4 DEF LogInv, CallsApproved, Approval

\* Steps that leave the rows, the branch and the workflow runs alone.
LEMMA QuietIsStutter ==
    ASSUME UNCHANGED <<artifact, workspace, repo, dispatched, live>>
    PROVE  LogStep
<1>1. UNCHANGED <<ApprovedNow, WithdrawnNow, CommitNow, StatusNow>>
  BY DEF ApprovedNow, WithdrawnNow, CommitNow, StatusNow
<1>2. UNCHANGED (Outline!logVars)
  BY <1>1 DEF Outline!logVars, Outline!rows, Outline!pointers, ApprovedNow, WithdrawnNow,
              CommitNow, StatusNow
<1> QED BY <1>2 DEF LogStep

\* A failure may be told to the row of the version, unless that is deleted.
LEMMA FailureIsTold ==
    ASSUME LogInv, NEW w \in Worker, ~In(w, "idle"), RecordPublishFailure(w)
    PROVE  /\ UNCHANGED <<ApprovedNow, WithdrawnNow, CommitNow,
                          workspace.published, workspace.deployed>>
           /\ \A b \in Artifact : artifact'[b].approved = artifact[b].approved
           /\ \E a \in Artifact : /\ a = call[w].artifact
                                  /\ \/ StatusNow' = StatusNow
                                     \/ /\ a \notin WithdrawnNow
                                        /\ StatusNow' = [StatusNow EXCEPT ![a] = "publish_failed"]
<1> DEFINE c == call[w]
<1>1. PICK a \in Artifact : a = call[w].artifact
  BY CallOf DEF LogInv, In, Sound
<1>2. artifact \in [Artifact -> ArtifactRow] /\ workspace \in WorkspaceRow
  BY DEF LogInv, IInv, TypeOK
<1>3. CASE ~artifact[a].exists
  BY <1>1, <1>3 DEF RecordPublishFailure, ApprovedNow, WithdrawnNow, CommitNow, StatusNow
<1>4. CASE artifact[a].exists
  <2>1. /\ artifact' = [artifact EXCEPT ![a].publish = Flush(c.row.publish, "publish_failed", @)]
        /\ \E kept \in Trimmed(c.space.publishes) :
              workspace' = [workspace EXCEPT !.publishes = [kept EXCEPT ![a] = WithFailure(@)]]
    BY <1>1, <1>4 DEF RecordPublishFailure
  <2>2. \A b \in Artifact :
           /\ artifact'[b].approved = artifact[b].approved
           /\ artifact'[b].exists = artifact[b].exists
           /\ artifact'[b].sha = artifact[b].sha
           /\ artifact'[b].publish = IF b = a THEN Flush(c.row.publish, "publish_failed", artifact[b].publish)
                                              ELSE artifact[b].publish
    BY <1>2, <2>1 DEF ArtifactRow
  <2>3. workspace'.published = workspace.published /\ workspace'.deployed = workspace.deployed
    BY <1>2, <2>1 DEF WorkspaceRow
  <2>4. UNCHANGED <<ApprovedNow, WithdrawnNow, CommitNow>>
    BY <2>2 DEF ApprovedNow, WithdrawnNow, CommitNow
  <2>5. \/ StatusNow' = StatusNow
        \/ StatusNow' = [StatusNow EXCEPT ![a] = "publish_failed"]
    BY <2>2 DEF StatusNow, Flush
  <2> HIDE DEF c
  <2> QED BY <1>1, <1>4, <2>2, <2>3, <2>4, <2>5 DEF WithdrawnNow
<1> QED BY <1>3, <1>4

\* The call of a step under way works on an approved version.
LEMMA VersionApproved ==
    ASSUME LogInv, NEW w \in Worker, ~In(w, "idle"), call[w].op \in {"publish", "deploy"}
    PROVE  call[w].artifact \in Artifact /\ artifact[call[w].artifact].approved
BY CallOf DEF LogInv, CallsApproved, Approval, In, Sound

LEMMA BeginIsStutter ==
    ASSUME LogInv, NEW w \in Worker, NEW a \in Artifact, Begin(w, a)
    PROVE  LogStep /\ CallsApproved'
<1>1. UNCHANGED <<artifact, workspace, repo, dispatched, live>>
  BY DEF Begin, BeginPublish, BeginDeploy, BeginRefresh, database, github
<1>2. \/ \E mode, result : Becomes(w, Ended(mode, result))
      \/ /\ artifact[a].approved
         /\ \E op, phase, mode : Becomes(w, Open(op, phase, mode, a))
      \/ Becomes(w, Open("refresh", "running", "manual", a))
  BY DEF Begin, BeginPublish, BeginDeploy, BeginRefresh, Deployable
<1>3. \A op, phase, mode : LET r == Open(op, phase, mode, a) IN r.artifact = a /\ r.op = op
  BY DEF Open
<1>4. \E r : Becomes(w, r) /\ (r.phase # "idle" => \/ r.op \notin {"publish", "deploy"}
                                                   \/ artifact[r.artifact].approved)
  BY <1>2, <1>3, PhaseOver
<1>5. CallsApproved'
  BY <1>1, <1>4 DEF LogInv, IInv, TypeOK, Becomes, CallsApproved, Approval
<1> QED BY <1>1, <1>5, QuietIsStutter

\* Versions are approved while they exist, and withdrawn while nothing says
\* that they are published.
LEMMA RequestIsLogged ==
    ASSUME LogInv, NEW a \in Artifact, Request(a)
    PROVE  LogStep /\ CallsApproved'
<1>1. /\ UNCHANGED <<workspace, repo, dispatched, live, call>>
      /\ artifact \in [Artifact -> ArtifactRow]
  BY DEF Request, Approve, Delete, SelectCertificate, FailCertificate, VerifyEndpoint, github,
         LogInv, IInv, TypeOK
<1>2. CallsApproved'
  <2>1. \A b \in Artifact : artifact[b].approved => artifact'[b].approved
    BY RequestEffects DEF LogInv
  <2>2. \A v \in Worker : call[v].phase # "idle" => call[v].artifact \in Artifact
    BY CallOf DEF LogInv, Sound
  <2> QED BY <1>1, <2>1, <2>2 DEF LogInv, CallsApproved, Approval
<1>3. CASE UNCHANGED artifact
  BY <1>1, <1>2, <1>3, QuietIsStutter
<1>4. CASE Approve(a)
  <2>1. /\ artifact[a].exists /\ ~artifact[a].approved
        /\ \A b \in Artifact : /\ artifact'[b].approved = (b = a \/ artifact[b].approved)
                               /\ artifact'[b].exists = artifact[b].exists
                               /\ artifact'[b].sha = artifact[b].sha
                               /\ artifact'[b].publish = artifact[b].publish
    BY <1>1, <1>4 DEF Approve, ArtifactRow
  <2>2. /\ a \notin ApprovedNow \cup WithdrawnNow
        /\ ApprovedNow' = ApprovedNow \cup {a}
        /\ UNCHANGED <<WithdrawnNow, CommitNow, StatusNow>>
    BY <2>1 DEF ApprovedNow, WithdrawnNow, CommitNow, StatusNow
  <2>3. Outline!Approve(a)
    BY <1>1, <2>2 DEF Outline!Approve, Outline!pointers, ApprovedNow, WithdrawnNow, CommitNow, StatusNow
  <2> QED BY <1>2, <2>3 DEF LogStep, Outline!Next
<1>5. CASE Delete(a)
  <2>1. /\ Unreferenced(a)
        /\ \A b \in Artifact : /\ artifact'[b].exists = (b # a /\ artifact[b].exists)
                               /\ artifact'[b].approved = artifact[b].approved
                               /\ artifact'[b].sha = artifact[b].sha
                               /\ artifact'[b].publish = artifact[b].publish
    BY <1>1, <1>5 DEF Delete, ArtifactRow
  <2>2. /\ WithdrawnNow' = WithdrawnNow \cup {a}
        /\ UNCHANGED <<ApprovedNow, CommitNow, StatusNow>>
        /\ StatusNow[a] # "published"
        /\ a \notin {workspace.published, workspace.deployed}
    BY <2>1 DEF ApprovedNow, WithdrawnNow, CommitNow, StatusNow, Unreferenced
  <2>3. Outline!Withdraw(a)
    BY <1>1, <2>2 DEF Outline!Withdraw, Outline!pointers, ApprovedNow, WithdrawnNow, CommitNow, StatusNow
  <2> QED BY <1>2, <2>3 DEF LogStep, Outline!Next
<1> QED BY <1>3, <1>4, <1>5 DEF Request, SelectCertificate, FailCertificate, VerifyEndpoint

\* A push that is accepted is a commit of the log, whether or not its answer
\* arrives.
LEMMA PushIsCommit ==
    ASSUME LogInv, NEW w \in Worker, Push(w) \/ PushLost(w)
    PROVE  LogStep /\ CallsApproved'
<1>1. In(w, "commit") /\ Accepts(call[w].parent) /\ UNCHANGED <<dispatched, live>>
  BY DEF Push, PushLost
<1>2. ~In(w, "idle") /\ call[w].op = "publish" /\ call[w].parent = Tip
  BY <1>1, CallOf DEF LogInv, Sound, In, Publishing, Accepts
<1>3. PICK a \in Artifact : a = call[w].artifact /\ artifact[a].approved
  BY <1>2, VersionApproved
<1>4. repo' = Append(repo, [files |-> a, cert |-> repo[Len(repo)].cert])
  BY <1>2, <1>3 DEF Push, PushLost, Tip
<1>5. /\ UNCHANGED <<ApprovedNow, WithdrawnNow, CommitNow,
                     workspace.published, workspace.deployed>>
      /\ \A b \in Artifact : artifact'[b].approved = artifact[b].approved
      /\ \/ StatusNow' = StatusNow
         \/ a \notin WithdrawnNow /\ StatusNow' = [StatusNow EXCEPT ![a] = "publish_failed"]
  <2>1. CASE Push(w)
    BY <2>1 DEF Push, database, ApprovedNow, WithdrawnNow, CommitNow, StatusNow
  <2>2. CASE PushLost(w)
    BY <1>2, <1>3, <2>2, FailureIsTold DEF PushLost
  <2> QED BY <2>1, <2>2
<1>6. a \in ApprovedNow
  BY <1>3 DEF ApprovedNow
<1>7. Outline!Commit(a)
  BY <1>1, <1>4, <1>5, <1>6
  DEF Outline!Commit, Outline!Newest, Outline!MayBeTold, Outline!pointers,
      ApprovedNow, WithdrawnNow, CommitNow, StatusNow
<1>8. LogStep
  BY <1>7 DEF LogStep, Outline!Next
<1>9. CallsApproved'
  BY <1>5, ApprovalsStay DEF Step, Error
<1> QED BY <1>8, <1>9

\* The manifest gets the certificate that was selected when the call began.
LEMMA ProvisionIsNaming ==
    ASSUME LogInv, NEW w \in Worker, ProvisionWorkflow(w)
    PROVE  LogStep /\ CallsApproved'
<1>1. UNCHANGED <<artifact, workspace, dispatched, live>>
  BY DEF ProvisionWorkflow, database
<1>2. CallsApproved'
  BY <1>1, ApprovalsStay DEF Step
<1>3. PICK c \in Cert \cup {None} : c = call[w].cert /\ Provision(c)
  BY CallOf DEF ProvisionWorkflow, LogInv, Call
<1>4. CASE repo' = repo
  BY <1>1, <1>2, <1>4, QuietIsStutter
<1>5. CASE repo' # repo
  <2>1. repo' = Append(repo, [files |-> repo[Len(repo)].files, cert |-> c])
    BY <1>3, <1>5 DEF Provision, Tip
  <2>2. UNCHANGED <<ApprovedNow, WithdrawnNow, CommitNow, StatusNow>>
    BY <1>1 DEF ApprovedNow, WithdrawnNow, CommitNow, StatusNow
  <2>3. Outline!Name(c)
    BY <1>1, <2>1, <2>2 DEF Outline!Name, Outline!Newest, Outline!rows, Outline!pointers,
       ApprovedNow, WithdrawnNow, CommitNow, StatusNow
  <2> QED BY <1>2, <2>3 DEF LogStep, Outline!Next
<1> QED BY <1>4, <1>5

LEMMA FailureIsFail ==
    ASSUME LogInv, NEW w \in Worker, PushRejected(w) \/ BranchError(w) \/ WorkflowError(w)
    PROVE  LogStep /\ CallsApproved'
<1>1. UNCHANGED <<repo, dispatched, live>> /\ ~In(w, "idle")
  BY DEF PushRejected, BranchError, WorkflowError, github, In
<1>2. CASE UNCHANGED <<artifact, workspace>>
  <2>1. LogStep
    BY <1>1, <1>2, QuietIsStutter
  <2>2. CallsApproved'
    BY <1>2, ApprovalsStay DEF Step, Error
  <2> QED BY <2>1, <2>2
<1>3. CASE RecordPublishFailure(w)
  <2>1. PICK a \in Artifact :
           /\ UNCHANGED <<ApprovedNow, WithdrawnNow, CommitNow,
                          workspace.published, workspace.deployed>>
           /\ \/ StatusNow' = StatusNow
              \/ a \notin WithdrawnNow /\ StatusNow' = [StatusNow EXCEPT ![a] = "publish_failed"]
    BY <1>1, <1>3, FailureIsTold
  <2>2. Outline!Fail(a)
    BY <1>1, <2>1 DEF Outline!Fail, Outline!MayBeTold, Outline!pointers,
       ApprovedNow, WithdrawnNow, CommitNow, StatusNow
  <2>3. LogStep
    BY <2>2 DEF LogStep, Outline!Next
  <2>4. CallsApproved'
    BY <1>1, <1>3, FailureIsTold, ApprovalsStay DEF Step, Error
  <2> QED BY <2>3, <2>4
<1> QED BY <1>2, <1>3 DEF PushRejected, BranchError, WorkflowError

\* The commit that is put on record has the version's files: the one the call
\* pushed, or the one there was when a duplicate was published before.
LEMMA RecordIsRecord ==
    ASSUME LogInv, NEW w \in Worker, RecordPublish(w)
    PROVE  LogStep /\ CallsApproved'
<1> DEFINE c == call[w]
<1>1. /\ c \in Call /\ Sound(c, artifact, repo, dispatched) /\ c.phase = "record"
      /\ c.op = "publish" /\ UNCHANGED <<repo, dispatched, live>>
  BY CallOf DEF LogInv, RecordPublish, In, Sound, Publishing, github
<1>2. PICK a \in Artifact : a = c.artifact /\ artifact[a].approved
  BY <1>1, VersionApproved DEF In
<1>3. CASE Unmatched(c)
  <2>1. UNCHANGED <<artifact, workspace>>
    BY <1>3 DEF RecordPublish, database
  <2>2. CallsApproved'
    BY <2>1, ApprovalsStay DEF Step
  <2> QED BY <1>1, <2>1, <2>2, QuietIsStutter
<1>4. CASE ~Unmatched(c)
  <2>1. /\ artifact' = [artifact EXCEPT
              ![a].publish = Flush(c.row.publish, "published", @),
              ![a].sha = RecordedSha(c, @)]
        /\ \E kept \in Trimmed(c.space.publishes) :
              workspace' = [workspace EXCEPT
                 !.published = Flush(c.space.published, a, @),
                 !.publishes = [kept EXCEPT ![a] = PublishItem(c)]]
    BY <1>2, <1>4 DEF RecordPublish
  <2>2. artifact \in [Artifact -> ArtifactRow] /\ workspace \in WorkspaceRow
    BY DEF LogInv, IInv, TypeOK
  <2>3. PICK n : n = RecordedSha(c, artifact[a].sha)
    OBVIOUS
  <2>4. \A b \in Artifact :
           /\ artifact'[b].approved = artifact[b].approved
           /\ artifact'[b].exists = artifact[b].exists
           /\ artifact'[b].sha = IF b = a THEN n ELSE artifact[b].sha
           /\ artifact'[b].publish = IF b = a THEN Flush(c.row.publish, "published", artifact[b].publish)
                                              ELSE artifact[b].publish
    BY <2>1, <2>2, <2>3 DEF ArtifactRow
  <2>5. /\ workspace'.published \in {workspace.published, a}
        /\ workspace'.deployed = workspace.deployed
    BY <2>1, <2>2 DEF WorkspaceRow, Flush
  <2>6. n \in DOMAIN repo /\ repo[n].files = a
    <3>1. CASE c.dup
      <4>1. artifact[a].sha # 0
        BY <1>1, <1>2, <3>1 DEF Sound
      <4> QED BY <2>3, <3>1, <4>1 DEF RecordedSha, LogInv, IInv, DataOK, ShaKnown
    <3>2. CASE ~c.dup
      BY <1>1, <1>2, <2>3, <3>2 DEF RecordedSha, Sound
    <3> QED BY <3>1, <3>2
  <2>7. ~artifact[a].exists => /\ n = artifact[a].sha
                               /\ artifact'[a].publish = artifact[a].publish
    BY <1>2, <1>4, <2>3, <2>4 DEF Unmatched, RecordedSha, Flush
  <2>8. /\ UNCHANGED <<ApprovedNow, WithdrawnNow>>
        /\ CommitNow' = [CommitNow EXCEPT ![a] = n]
        /\ a \in ApprovedNow
        /\ a \in WithdrawnNow => n = CommitNow[a]
    BY <1>2, <2>4, <2>7 DEF ApprovedNow, WithdrawnNow, CommitNow
  <2>9. \/ StatusNow' = StatusNow
        \/ a \notin WithdrawnNow /\ StatusNow' = [StatusNow EXCEPT ![a] = "published"]
    <3>1. CASE artifact'[a].publish = artifact[a].publish
      BY <2>4, <3>1 DEF StatusNow
    <3>2. CASE artifact'[a].publish # artifact[a].publish
      <4>1. artifact[a].exists /\ artifact'[a].publish = "published"
        BY <2>4, <2>7, <3>2 DEF Flush
      <4> HIDE DEF c
      <4> QED BY <2>4, <4>1 DEF StatusNow, WithdrawnNow
    <3> QED BY <3>1, <3>2
  <2> HIDE DEF c
  <2>10. Outline!Record(a, n)
    BY <1>1, <2>5, <2>6, <2>8, <2>9 DEF Outline!Record, Outline!MayBeTold,
       ApprovedNow, WithdrawnNow, CommitNow, StatusNow
  <2>11. LogStep
    BY <2>6, <2>10 DEF LogStep, Outline!Next
  <2>12. CallsApproved'
    BY <2>4, ApprovalsStay DEF Step
  <2> QED BY <2>11, <2>12
<1> QED BY <1>3, <1>4

\* A deployment's workflow runs on the head of the branch, after the commit
\* with the version's files.
LEMMA DispatchIsDispatch ==
    ASSUME LogInv, NEW w \in Worker, Dispatch(w) \/ DispatchLost(w)
    PROVE  LogStep /\ CallsApproved'
<1>1. /\ dispatched' = dispatched \cup {Len(repo)} /\ UNCHANGED <<repo, live>>
      /\ call[w].phase = "dispatch"
  BY DEF Dispatch, DispatchLost, Tip, In
<1>2. PICK a \in Artifact : /\ a = call[w].artifact /\ artifact[a].approved
                            /\ PushedBy(a, Len(repo), repo)
  BY <1>1, CallOf, VersionApproved DEF LogInv, Sound, In
<1>3. /\ \A b \in Artifact : /\ artifact'[b].sha = artifact[b].sha
                             /\ artifact'[b].publish = artifact[b].publish
                             /\ artifact'[b].exists = artifact[b].exists
                             /\ artifact'[b].approved = artifact[b].approved
      /\ workspace'.published = workspace.published
      /\ workspace'.deployed = workspace.deployed
  <2>1. CASE Dispatch(w)
    BY <2>1 DEF Dispatch, database
  <2>2. CASE DispatchLost(w)
    BY <1>1, <2>2, DeployEffects DEF LogInv
  <2> QED BY <2>1, <2>2
<1>4. UNCHANGED <<ApprovedNow, WithdrawnNow, CommitNow, StatusNow>> /\ a \in ApprovedNow
  BY <1>2, <1>3 DEF ApprovedNow, WithdrawnNow, CommitNow, StatusNow
<1>5. Outline!Dispatch(a)
  BY <1>1, <1>2, <1>3, <1>4 DEF Outline!Dispatch, Outline!BroughtBy, Outline!rows, Outline!pointers,
     PushedBy, ApprovedNow, WithdrawnNow, CommitNow, StatusNow
<1>6. LogStep
  BY <1>5 DEF LogStep, Outline!Next
<1>7. CallsApproved'
  BY <1>3, ApprovalsStay DEF Step, Error
<1> QED BY <1>6, <1>7

\* A deployment that is on record was dispatched by its call, and its version
\* was there to record it.
LEMMA DeployIsDeploy ==
    ASSUME LogInv, NEW w \in Worker, SettleRun(w) \/ RecordDeploy(w) \/ DispatchError(w)
    PROVE  LogStep /\ CallsApproved'
<1>1. UNCHANGED <<repo, dispatched, live>>
  BY DEF SettleRun, RecordDeploy, DispatchError, github
<1>2. /\ \A b \in Artifact : /\ artifact'[b].sha = artifact[b].sha
                             /\ artifact'[b].publish = artifact[b].publish
                             /\ artifact'[b].exists = artifact[b].exists
                             /\ artifact'[b].approved = artifact[b].approved
      /\ workspace'.published = workspace.published
      /\ \/ workspace'.deployed = workspace.deployed
         \/ workspace'.deployed = call[w].artifact /\ artifact[call[w].artifact].exists
                                                   /\ call[w].phase = "requested"
  BY DeployEffects DEF LogInv
<1>3. UNCHANGED <<ApprovedNow, WithdrawnNow, CommitNow, StatusNow>>
  BY <1>2 DEF ApprovedNow, WithdrawnNow, CommitNow, StatusNow
<1>4. CallsApproved'
  BY <1>2, ApprovalsStay DEF Step, Error
<1>5. CASE workspace'.deployed = workspace.deployed
  <2>1. UNCHANGED (Outline!logVars)
    BY <1>1, <1>2, <1>3, <1>5 DEF Outline!logVars, Outline!rows, Outline!pointers,
       ApprovedNow, WithdrawnNow, CommitNow, StatusNow
  <2> QED BY <1>4, <2>1 DEF LogStep
<1>6. CASE workspace'.deployed # workspace.deployed
  <2>1. PICK a \in Artifact : /\ workspace'.deployed = a
                              /\ artifact[a].approved /\ artifact[a].exists
                              /\ \E n \in dispatched : PushedBy(a, n, repo)
    BY <1>2, <1>6, CallOf, VersionApproved DEF LogInv, Sound, In
  <2>2. a \in ApprovedNow \ WithdrawnNow
    BY <2>1 DEF ApprovedNow, WithdrawnNow
  <2>3. Outline!Deploy(a)
    BY <1>1, <1>2, <1>3, <2>1, <2>2 DEF Outline!Deploy, Outline!BroughtBy, PushedBy,
       ApprovedNow, WithdrawnNow, CommitNow, StatusNow
  <2> QED BY <1>4, <2>3 DEF LogStep, Outline!Next
<1> QED BY <1>5, <1>6

LEMMA RolloutIsRollOut ==
    ASSUME LogInv, Rollout
    PROVE  LogStep /\ CallsApproved'
<1>1. /\ live' \in dispatched
      /\ UNCHANGED <<artifact, workspace, repo, dispatched, call>>
  BY DEF Rollout, database
<1>2. UNCHANGED <<ApprovedNow, WithdrawnNow, CommitNow, StatusNow>>
  BY <1>1 DEF ApprovedNow, WithdrawnNow, CommitNow, StatusNow
<1>3. Outline!RollOut
  BY <1>1, <1>2 DEF Outline!RollOut, Outline!rows, Outline!pointers,
     ApprovedNow, WithdrawnNow, CommitNow, StatusNow
<1>4. CallsApproved'
  BY <1>1 DEF LogInv, CallsApproved, Approval
<1> QED BY <1>3, <1>4 DEF LogStep, Outline!Next

LEMMA NextIsLogged ==
    ASSUME LogInv, [Next]_vars
    PROVE  LogInv' /\ LogStep
<1>1. IInv'
  BY NextIInv DEF LogInv
<1>2. ASSUME NEW w \in Worker, ReadBranch(w) \/ SkipWorkflow(w) \/ RefuseRunning(w) \/ Crash(w)
      PROVE  LogStep /\ CallsApproved'
  <2>1. UNCHANGED <<artifact, workspace, repo, dispatched, live>>
    BY <1>2 DEF ReadBranch, SkipWorkflow, RefuseRunning, Crash, database, github
  <2>2. CallsApproved'
    BY <1>2, <2>1, ApprovalsStay DEF Step, Error
  <2> QED BY <2>1, <2>2, QuietIsStutter
<1>3. ASSUME NEW w \in Worker, Step(w) \/ Error(w)
      PROVE  LogStep /\ CallsApproved'
  BY <1>2, <1>3, PushIsCommit, ProvisionIsNaming, FailureIsFail, RecordIsRecord,
     DispatchIsDispatch, DeployIsDeploy DEF Step, Error
<1>4. ASSUME UNCHANGED vars
      PROVE  LogStep /\ CallsApproved'
  <2>1. UNCHANGED <<artifact, workspace, repo, dispatched, live, call>>
    BY <1>4 DEF vars
  <2>2. CallsApproved'
    BY <2>1 DEF LogInv, CallsApproved, Approval
  <2> QED BY <2>1, <2>2, QuietIsStutter
<1>5. LogStep /\ CallsApproved'
  BY <1>2, <1>3, <1>4, BeginIsStutter, RequestIsLogged, RolloutIsRollOut DEF Next
<1> QED BY <1>1, <1>5 DEF LogInv

\* Publication implements its log, for any number of overlapping calls and any
\* failures: commits only build on the tip and bring one thing, records name
\* commits of their own version, what is published is not deleted, what is
\* recorded as deployed was dispatched, and only that goes live
\* (publish_artifact_version, deploy_artifact_version, delete_artifact_version).
THEOREM PublishingIsLogged == Spec => LogSpec
<1>1. Init => LogInv
  BY InitIInv DEF LogInv, Init, CallsApproved, Approval, Over
<1>2. Init => Outline!Init
  BY DEF Init, Outline!Init, NewArtifact, NoSpace
<1>3. LogInv /\ [Next]_vars => LogInv' /\ LogStep
  BY NextIsLogged
<1> QED BY <1>1, <1>2, <1>3, PTL DEF Spec, LogSpec, Outline!Spec, LogStep
=============================================================================
