------------------------ MODULE ProfileGeneration_proofs ------------------------
(***************************************************************************)
(* What TLAPS proves of ProfileGeneration, for any number of runs,         *)
(* competitor sets, operators and lost tasks: first what holds of drafts   *)
(* and their links, then that to reviewers the whole is a DraftReview.     *)
(***************************************************************************)
EXTENDS ProfileGeneration, TLAPS

\* A review is of a run; an acceptance names the set that will list the
\* competitor.  What a cleanup is going to delete is linked to no set.
RequestsAreSound ==
    \A o \in Operator :
        /\ operator[o].phase = "reviewing" =>
              /\ operator[o].run \in Run /\ operator[o].verdict # "none"
              /\ operator[o].verdict = "accepted" => operator[o].set \in CompetitorSet
        /\ operator[o].phase = "retrying" => operator[o].run \in Run
        /\ \A g \in operator[o].doomed : draft[g].set = Nothing

\* The competitor that a draft is linked to is listed.
LinksAreLive == \A g \in Run : draft[g].set # Nothing => draft[g].set \in live

ReviewInv == ProfileTypeOK /\ RequestsAreSound /\ LinksAreLive /\ DraftsOfEndedRuns

-----------------------------------------------------------------------------
LEMMA NoRequestYetType == NoRequestYet \in OperatorRequest
BY DEF NoRequestYet, OperatorRequest, ReviewStatus

LEMMA InitReviewInv == ProfileInit => ReviewInv
<1> SUFFICES ASSUME ProfileInit PROVE ReviewInv
  OBVIOUS
<1> USE DEF ProfileInit
<1>1. ProfileTypeOK
  BY NoRequestYetType
  DEF ProfileTypeOK, RunRow, Ended, DraftRow, NoDraft, ReviewStatus, Task, NoTask
<1>2. RequestsAreSound /\ LinksAreLive /\ DraftsOfEndedRuns
  BY DEF RequestsAreSound, NoRequestYet, LinksAreLive, DraftsOfEndedRuns, NoDraft
<1> QED BY <1>1, <1>2 DEF ReviewInv

\* Steps of runs and tasks.  Drafts of runs that end appear, no others do.
LEMMA RunMoves ==
    ASSUME ReviewInv, UNCHANGED live, task' \in [Run -> Task], lost' \in Nat,
           run' \in [Run -> RunRow], draft' \in [Run -> DraftRow],
           \A g \in Run : draft'[g].set = draft[g].set,
           \A g \in Run : draft'[g] = draft[g] \/ HasEnded(g)',
           \A g \in Run : HasEnded(g) /\ draft[g] # NoDraft => HasEnded(g)',
           \/ operator' = operator
           \/ \E o \in Operator : Answer(o)
    PROVE  ReviewInv'
<1> USE DEF ReviewInv
<1>1. \A o \in Operator : operator'[o] = operator[o] \/ operator'[o] = NoRequestYet
  BY DEF Answer, ProfileTypeOK
<1>2. operator' \in [Operator -> OperatorRequest]
  BY NoRequestYetType DEF Answer, ProfileTypeOK
<1>3. ProfileTypeOK'
  BY <1>2 DEF ProfileTypeOK
<1>4. RequestsAreSound'
  BY <1>1 DEF RequestsAreSound, NoRequestYet, ProfileTypeOK, OperatorRequest
<1>5. LinksAreLive' /\ DraftsOfEndedRuns'
  BY DEF LinksAreLive, DraftsOfEndedRuns
<1> QED BY <1>3, <1>4, <1>5

\* Steps that open a request.
LEMMA RequestOpens ==
    ASSUME ReviewInv, UNCHANGED <<run, draft, live, task, lost>>,
           NEW o \in Operator, NEW q \in OperatorRequest, operator' = [operator EXCEPT ![o] = q],
           q.phase = "reviewing" => /\ q.run \in Run /\ q.verdict # "none"
                                    /\ q.verdict = "accepted" => q.set \in CompetitorSet,
           q.phase = "retrying" => q.run \in Run,
           \A g \in q.doomed : draft[g].set = Nothing
    PROVE  ReviewInv'
<1> USE DEF ReviewInv
<1>1. ProfileTypeOK'
  BY DEF ProfileTypeOK
<1>2. RequestsAreSound'
  BY DEF RequestsAreSound, ProfileTypeOK
<1>3. LinksAreLive' /\ DraftsOfEndedRuns'
  BY DEF LinksAreLive, DraftsOfEndedRuns, HasEnded
<1> QED BY <1>1, <1>2, <1>3

\* A run is queued in a row that was never used, so it has no draft.
LEMMA QueueMoves ==
    ASSUME ReviewInv, NEW g \in Run, NEW parent \in Run \cup {Nothing}, Queue(g, parent),
           UNCHANGED <<draft, live, lost>>,
           operator' = operator \/ \E o \in Operator : Answer(o)
    PROVE  ReviewInv'
<1> USE DEF ReviewInv
<1>1. run' \in [Run -> RunRow] /\ task' \in [Run -> Task]
  BY DEF Queue, ProfileTypeOK, RunRow, Ended, Task
<1>2. \A h \in Run : HasEnded(h) => HasEnded(h)'
  BY DEF Queue, HasEnded, ProfileTypeOK, Ended
<1> QED BY <1>1, <1>2, RunMoves DEF ProfileTypeOK

LEMMA ReviewMoves ==
    ASSUME ReviewInv, NEW o \in Operator, CommitReview(o)
    PROVE  ReviewInv'
<1> DEFINE g == operator[o].run
           s == operator[o].set
           verdict == operator[o].verdict
<1> USE DEF ReviewInv
<1>1. g \in Run /\ verdict \in {"edited", "rejected", "accepted"}
      /\ (verdict = "accepted" => s \in CompetitorSet)
      /\ operator[o].loaded \in ReviewStatus
      /\ \A p \in Operator : g \notin operator[p].doomed
  BY DEF CommitReview, RequestsAreSound, ProfileTypeOK, OperatorRequest
<1>2. /\ operator' = [operator EXCEPT ![o] = NoRequestYet]
      /\ UNCHANGED <<run, task, lost>>
  BY DEF CommitReview, Answer
<1>3. CASE UNCHANGED <<draft, live>>
  BY <1>2, <1>3, RunMoves DEF Answer, ProfileTypeOK, HasEnded
<1>4. CASE ~UNCHANGED <<draft, live>>
  <2>1. /\ draft[g] # NoDraft
        /\ draft' = [draft EXCEPT
                        ![g].review = Changed(@, operator[o].loaded, verdict),
                        ![g].set = IF verdict = "accepted" THEN s ELSE @]
        /\ live' = IF verdict = "accepted" THEN live \cup {s} ELSE live
    BY <1>4 DEF CommitReview
  <2>2. verdict \in ReviewStatus
    BY <1>1 DEF ReviewStatus
  <2> HIDE DEF g, s, verdict
  <2>3. draft' \in [Run -> DraftRow] /\ live' \in SUBSET CompetitorSet
    BY <1>1, <2>1, <2>2 DEF ProfileTypeOK, DraftRow, Changed
  <2>4. ProfileTypeOK'
    BY <1>2, <2>3, NoRequestYetType DEF ProfileTypeOK
  <2>5. \A h \in Run \ {g} : draft'[h] = draft[h]
    BY <2>1 DEF ProfileTypeOK
  <2>6. RequestsAreSound'
    BY <1>1, <1>2, <2>5 DEF RequestsAreSound, ProfileTypeOK, NoRequestYet, OperatorRequest
  <2>7. draft'[g].set = IF verdict = "accepted" THEN s ELSE draft[g].set
    BY <1>1, <2>1 DEF ProfileTypeOK, DraftRow
  <2>8. LinksAreLive'
    <3> SUFFICES ASSUME NEW h \in Run, draft'[h].set # Nothing PROVE draft'[h].set \in live'
      BY DEF LinksAreLive
    <3>1. CASE h = g /\ verdict = "accepted"
      BY <2>1, <2>7, <3>1
    <3>2. CASE ~(h = g /\ verdict = "accepted")
      <4>1. draft'[h].set = draft[h].set
        BY <2>5, <2>7, <3>2
      <4>2. live \subseteq live'
        BY <2>1
      <4> QED BY <4>1, <4>2 DEF LinksAreLive
    <3> QED BY <3>1, <3>2
  <2>9. DraftsOfEndedRuns'
    BY <1>2, <2>1, <2>5 DEF DraftsOfEndedRuns, HasEnded
  <2> QED BY <2>4, <2>6, <2>8, <2>9
<1> QED BY <1>3, <1>4

LEMMA StepKeepsReview ==
    ASSUME ReviewInv, [ProfileNext]_profileVars
    PROVE  ReviewInv'
<1> USE DEF ReviewInv
<1>1. ASSUME NEW g \in Run, CreateRun(g) PROVE ReviewInv'
  BY <1>1, QueueMoves DEF CreateRun
<1>2. ASSUME NEW g \in Run, ClaimRun(g) PROVE ReviewInv'
  <2>1. run' \in [Run -> RunRow] /\ task' \in [Run -> Task]
    <3>1. [run EXCEPT ![g].status = "running", ![g].drafts = 0] \in [Run -> RunRow]
      BY DEF ProfileTypeOK, RunRow
    <3>2. [phase |-> "working", known |-> live # {}] \in Task /\ NoTask \in Task
      BY DEF Task, NoTask
    <3> QED BY <1>2, <3>1, <3>2 DEF ClaimRun, ProfileTypeOK
  <2>2. \A h \in Run : HasEnded(h) => HasEnded(h)'
    BY <1>2 DEF ClaimRun, Claimed, HasEnded, Ended, ProfileTypeOK, RunRow
  <2> QED BY <1>2, <2>1, <2>2, RunMoves DEF ClaimRun, ProfileTypeOK
<1>3. ASSUME NEW g \in Run, NEW n \in {0, 1}, FinishRun(g, n) PROVE ReviewInv'
  <2>1. run' \in [Run -> RunRow] /\ task' \in [Run -> Task]
    <3>1. \A drafts \in {0, 1} :
              [run EXCEPT ![g].status = "completed", ![g].drafts = drafts] \in [Run -> RunRow]
      BY DEF ProfileTypeOK, RunRow, Ended
    <3>2. run[g].drafts \in {0, 1} /\ Changed(run[g].drafts, 0, n) \in {0, 1}
      BY DEF ProfileTypeOK, RunRow, Changed
    <3>3. run' = run \/ run' = [run EXCEPT ![g].status = "completed",
                                          ![g].drafts = Changed(run[g].drafts, 0, n)]
      BY <1>3 DEF FinishRun
    <3>4. task' = [task EXCEPT ![g] = NoTask] /\ NoTask \in Task
      BY <1>3 DEF FinishRun, Task, NoTask
    <3> QED BY <3>1, <3>2, <3>3, <3>4 DEF ProfileTypeOK
  <2>2. draft' \in [Run -> DraftRow] /\ \A h \in Run : draft'[h].set = draft[h].set
    <3>1. draft' = draft \/ draft' = [draft EXCEPT ![g].review = "pending"]
      BY <1>3 DEF FinishRun
    <3>2. [draft EXCEPT ![g].review = "pending"] \in [Run -> DraftRow]
      BY DEF ProfileTypeOK, DraftRow, ReviewStatus
    <3>3. \A h \in Run : [draft EXCEPT ![g].review = "pending"][h].set = draft[h].set
      BY DEF ProfileTypeOK, DraftRow
    <3> QED BY <3>1, <3>2, <3>3 DEF ProfileTypeOK
  <2>3. \A h \in Run : HasEnded(h) => HasEnded(h)'
    BY <1>3 DEF FinishRun, HasEnded, Ended, ProfileTypeOK, RunRow
  <2>4. \A h \in Run : draft'[h] = draft[h] \/ HasEnded(h)'
    BY <1>3 DEF FinishRun, HasEnded, Ended, ProfileTypeOK, RunRow
  <2> QED BY <1>3, <2>1, <2>2, <2>3, <2>4, RunMoves DEF FinishRun, ProfileTypeOK
<1>4. ASSUME NEW g \in Run, FailRun(g) \/ LoseTask(g) PROVE ReviewInv'
  <2>1. run' \in [Run -> RunRow] /\ task' \in [Run -> Task] /\ lost' \in Nat
    <3>1. [run EXCEPT ![g].status = "failed", ![g].drafts = 0] \in [Run -> RunRow]
      BY DEF ProfileTypeOK, RunRow, Ended
    <3>2. NoTask \in Task
      BY DEF Task, NoTask
    <3>3. /\ run' = run \/ run' = [run EXCEPT ![g].status = "failed", ![g].drafts = 0]
          /\ task' = [task EXCEPT ![g] = NoTask]
          /\ lost' = lost \/ lost' = lost + 1
      BY <1>4 DEF FailRun, LoseTask
    <3>4. lost' \in Nat
      BY <3>3 DEF ProfileTypeOK
    <3>5. task' \in [Run -> Task]
      BY <3>2, <3>3 DEF ProfileTypeOK
    <3>6. run' \in [Run -> RunRow]
      BY <3>1, <3>3 DEF ProfileTypeOK
    <3> QED BY <3>4, <3>5, <3>6
  <2>2. \A h \in Run : HasEnded(h) => HasEnded(h)'
    BY <1>4 DEF FailRun, LoseTask, HasEnded, Ended, ProfileTypeOK, RunRow
  <2> QED BY <1>4, <2>1, <2>2, RunMoves DEF FailRun, LoseTask, ProfileTypeOK
<1>5. ASSUME NEW o \in Operator, ListStaleRuns(o) PROVE ReviewInv'
  <2>1. PICK stale \in SUBSET Run :
          operator' = [operator EXCEPT ![o] =
              [NoRequestYet EXCEPT !.phase = "reconciling", !.stale = stale]]
    BY <1>5 DEF ListStaleRuns
  <2> DEFINE q == [NoRequestYet EXCEPT !.phase = "reconciling", !.stale = stale]
  <2>2. q \in OperatorRequest /\ q.phase = "reconciling" /\ q.doomed = {}
    BY DEF NoRequestYet, OperatorRequest, ReviewStatus
  <2> HIDE DEF q
  <2> QED BY <1>5, <2>1, <2>2, RequestOpens DEF ListStaleRuns, q
<1>6. ASSUME NEW o \in Operator, FailStale(o) PROVE ReviewInv'
  <2>1. run' \in [Run -> RunRow]
    BY <1>6 DEF FailStale, TimedOut, ProfileTypeOK, RunRow, Ended
  <2>2. \A h \in Run : HasEnded(h) => HasEnded(h)'
    BY <1>6 DEF FailStale, TimedOut, HasEnded, Ended, ProfileTypeOK, RunRow
  <2> QED BY <1>6, <2>1, <2>2, RunMoves DEF FailStale, ProfileTypeOK
<1>7. ASSUME NEW o \in Operator, NEW g \in Run, LoadFailed(o, g) PROVE ReviewInv'
  <2> DEFINE q == [NoRequestYet EXCEPT !.phase = "retrying", !.run = g]
  <2>1. q \in OperatorRequest /\ q.phase = "retrying" /\ q.run = g /\ q.doomed = {}
    BY DEF NoRequestYet, OperatorRequest, ReviewStatus
  <2>2. operator' = [operator EXCEPT ![o] = q]
    BY <1>7 DEF LoadFailed
  <2> HIDE DEF q
  <2> QED BY <1>7, <2>1, <2>2, RequestOpens DEF LoadFailed
<1>8. ASSUME NEW o \in Operator, QueueRetry(o) PROVE ReviewInv'
  <2>1. CASE Stored(operator[o].run) /\ \E g \in Run : run[g].status = "absent"
    <3>1. PICK g \in Run : Queue(g, operator[o].run)
      BY <1>8, <2>1 DEF QueueRetry
    <3>2. operator[o].run \in Run
      BY <1>8 DEF QueueRetry, RequestsAreSound
    <3> QED BY <1>8, <3>1, <3>2, QueueMoves DEF QueueRetry
  <2>2. CASE ~(Stored(operator[o].run) /\ \E g \in Run : run[g].status = "absent")
    BY <1>8, <2>2, RunMoves DEF QueueRetry, ProfileTypeOK, HasEnded
  <2> QED BY <2>1, <2>2
<1>9. ASSUME NEW o \in Operator, SelectOld(o) PROVE ReviewInv'
  <2>1. PICK doomed \in SUBSET {g \in Run : Prunable(g)}, victims \in SUBSET Run :
          operator' = [operator EXCEPT ![o] =
             [NoRequestYet EXCEPT !.phase = "pruning", !.doomed = doomed, !.victims = victims]]
    BY <1>9 DEF SelectOld
  <2> DEFINE q == [NoRequestYet EXCEPT !.phase = "pruning", !.doomed = doomed, !.victims = victims]
  <2>2. q \in OperatorRequest /\ q.phase = "pruning" /\ q.doomed = doomed
    BY DEF NoRequestYet, OperatorRequest, ReviewStatus
  <2> HIDE DEF q
  <2>3. \A g \in q.doomed : draft[g].set = Nothing
    BY <2>2 DEF Prunable
  <2> QED BY <1>9, <2>1, <2>2, <2>3, RequestOpens DEF SelectOld, q
<1>10. ASSUME NEW o \in Operator, DeleteOld(o) PROVE ReviewInv'
  <2>1. CASE Referenced(o)
    BY <1>10, <2>1, RunMoves DEF DeleteOld, ProfileTypeOK, HasEnded
  <2>2. CASE ~Referenced(o)
    <3>1. \A g \in operator[o].victims : draft[g] = NoDraft
      BY <2>2 DEF Referenced
    <3>2. /\ draft' = [g \in Run |-> IF g \in operator[o].doomed THEN NoDraft ELSE draft[g]]
          /\ run' = [g \in Run |-> IF g \in operator[o].victims
                      THEN [status |-> "deleted", parent |-> Nothing, drafts |-> 0] ELSE run[g]]
          /\ UNCHANGED <<live, task, lost>> /\ Answer(o)
      BY <1>10, <2>2 DEF DeleteOld
    <3>3. draft' \in [Run -> DraftRow] /\ run' \in [Run -> RunRow]
      BY <3>2 DEF ProfileTypeOK, DraftRow, NoDraft, ReviewStatus, RunRow
    <3>4. \A g \in Run : draft'[g].set = draft[g].set
      BY <3>2 DEF RequestsAreSound, NoDraft
    <3>5. operator' \in [Operator -> OperatorRequest]
      BY <3>2, NoRequestYetType DEF Answer, ProfileTypeOK
    <3>6. ProfileTypeOK'
      BY <3>2, <3>3, <3>5 DEF ProfileTypeOK
    <3>7. RequestsAreSound' /\ LinksAreLive'
      BY <3>2, <3>4
      DEF RequestsAreSound, LinksAreLive, Answer, ProfileTypeOK, NoRequestYet, OperatorRequest
    <3>8. DraftsOfEndedRuns'
      BY <3>1, <3>2 DEF DraftsOfEndedRuns, HasEnded
    <3> QED BY <3>6, <3>7, <3>8
  <2> QED BY <2>1, <2>2
<1>11. ASSUME NEW o \in Operator, NEW g \in Run, NEW verdict \in {"edited", "rejected", "accepted"},
              NEW s \in CompetitorSet \cup {Nothing}, BeginReview(o, g, verdict, s),
              verdict = "accepted" => s \in CompetitorSet
       PROVE  ReviewInv'
  <2> DEFINE q == [NoRequestYet EXCEPT !.phase = "reviewing", !.run = g, !.verdict = verdict,
                       !.set = s, !.loaded = draft[g].review]
  <2>1. /\ q \in OperatorRequest /\ q.phase = "reviewing" /\ q.run = g
        /\ q.verdict = verdict /\ q.set = s /\ q.doomed = {}
    BY DEF NoRequestYet, OperatorRequest, ProfileTypeOK, DraftRow
  <2>2. operator' = [operator EXCEPT ![o] = q]
    BY <1>11 DEF BeginReview
  <2> HIDE DEF q
  <2> QED BY <1>11, <2>1, <2>2, RequestOpens DEF BeginReview
<1>12. ASSUME NEW o \in Operator, CommitReview(o) PROVE ReviewInv'
  BY <1>12, ReviewMoves
<1>13. ASSUME NEW s \in CompetitorSet, AddCompetitor(s) \/ RemoveCompetitor(s) PROVE ReviewInv'
  BY <1>13
  DEF AddCompetitor, RemoveCompetitor, ProfileTypeOK, RequestsAreSound, LinksAreLive,
      DraftsOfEndedRuns, HasEnded
<1>14. CASE UNCHANGED profileVars
  BY <1>14
  DEF profileVars, ProfileTypeOK, RequestsAreSound, LinksAreLive, DraftsOfEndedRuns, HasEnded
<1>15. ASSUME NEW o \in Operator, BeginRequest(o) PROVE ReviewInv'
  BY <1>5, <1>7, <1>9, <1>11, <1>15 DEF BeginRequest
<1> QED
  BY <1>1, <1>2, <1>3, <1>4, <1>6, <1>8, <1>10, <1>12, <1>13, <1>14, <1>15
  DEF ProfileNext, ExecuteStep, OperatorStep

LEMMA ReviewInductive == ProfileSpec => []ReviewInv
<1>1. ReviewInv /\ [ProfileNext]_profileVars => ReviewInv'
  BY StepKeepsReview
<1> QED BY <1>1, InitReviewInv, PTL DEF ProfileSpec

-----------------------------------------------------------------------------
\* Every variable keeps its type.
THEOREM ProfileTypeCorrect == ProfileSpec => []ProfileTypeOK
<1>1. ReviewInv => ProfileTypeOK
  BY DEF ReviewInv
<1> QED BY <1>1, ReviewInductive, PTL

\* No draft of a run that is still queued or running is ever seen.
THEOREM DraftsComeAtTheEnd == ProfileSpec => []DraftsOfEndedRuns
<1>1. ReviewInv => DraftsOfEndedRuns
  BY DEF ReviewInv
<1> QED BY <1>1, ReviewInductive, PTL

\* An accepted draft keeps its run and a listed competitor, whatever reviews and
\* cleanups overlap.
THEOREM AcceptedStays == ProfileSpec => AcceptedIsKept
<1>1. ASSUME ReviewInv, ReviewInv', [ProfileNext]_profileVars
      PROVE  [\A g \in Run : draft[g].set # Nothing =>
                  /\ draft'[g].set # Nothing
                  /\ draft[g].set \in live'
                  /\ run'[g].status \in Ended]_profileVars
  <2> SUFFICES ASSUME NEW g \in Run, draft[g].set # Nothing
               PROVE  /\ draft'[g].set # Nothing
                      /\ draft[g].set \in live'
                      /\ run'[g].status \in Ended
    OBVIOUS
  <2> USE <1>1 DEF ReviewInv
  <2>1. draft[g].set \in live'
    <3>1. draft[g].set \in live /\ draft[g].set \in CompetitorSet
      BY DEF LinksAreLive, ProfileTypeOK
    <3>2. CASE live' = live
      BY <3>1, <3>2
    <3>3. ASSUME NEW o \in Operator, CommitReview(o) PROVE draft[g].set \in live'
      BY <3>1, <3>3 DEF CommitReview
    <3>4. ASSUME NEW s \in CompetitorSet, AddCompetitor(s) \/ RemoveCompetitor(s)
          PROVE  draft[g].set \in live'
      BY <3>1, <3>4 DEF AddCompetitor, RemoveCompetitor
    <3> QED BY <3>2, <3>3, <3>4
            DEF ProfileNext, CreateRun, ExecuteStep, ClaimRun, FinishRun, FailRun, LoseTask,
                BeginRequest, ListStaleRuns, SelectOld, LoadFailed, BeginReview, OperatorStep,
                FailStale, QueueRetry, DeleteOld, profileVars
  <2>2. draft'[g].set # Nothing
    <3>1. CASE draft' = draft
      BY <3>1
    <3>2. ASSUME NEW h \in Run, NEW n \in {0, 1}, FinishRun(h, n) PROVE draft'[g].set = draft[g].set
      BY <3>2 DEF FinishRun, ProfileTypeOK, DraftRow
    <3>3. ASSUME NEW o \in Operator, CommitReview(o) PROVE draft'[g].set # Nothing
      BY <3>3, ProfileAssumption
      DEF CommitReview, RequestsAreSound, ProfileTypeOK, DraftRow
    <3>4. ASSUME NEW o \in Operator, DeleteOld(o) PROVE draft'[g].set = draft[g].set
      BY <3>4 DEF DeleteOld, RequestsAreSound
    <3> QED BY <3>1, <3>2, <3>3, <3>4
            DEF ProfileNext, CreateRun, ExecuteStep, ClaimRun, FailRun, LoseTask,
                BeginRequest, ListStaleRuns, SelectOld, LoadFailed, BeginReview, OperatorStep,
                FailStale, QueueRetry, AddCompetitor, RemoveCompetitor, profileVars
  <2>3. run'[g].status \in Ended
    BY <2>2 DEF DraftsOfEndedRuns, NoDraft, HasEnded
  <2> QED BY <2>1, <2>2, <2>3
<1> QED BY <1>1, ReviewInductive, PTL DEF ProfileSpec, AcceptedIsKept

-----------------------------------------------------------------------------
(* To reviewers the generation is a DraftReview *)

\* A task has its result still to bring, to a run that is not deleted by then.
TasksAreDue ==
    \A g \in Run :
        /\ task[g].phase # "none" => draft[g] = NoDraft
        /\ task[g].phase = "working" => run[g].status \in Ended \cup {"running"}

RowsAreWhole ==
    \A g \in Run :
        /\ draft[g].review = "none" => draft[g].set = Nothing
        /\ run[g].status = "deleted" => run[g].parent = Nothing

Settled(g) == task[g].phase = "none" /\ run[g].status \in Ended \cup {"deleted"}

\* What requests have read stays true of rows that others may have deleted: a
\* retried run has ended, and so has what is cleaned up, whose draft was rejected.
RequestsStayTrue ==
    \A o \in Operator :
        /\ operator[o].phase = "retrying" => run[operator[o].run].status \in Ended \cup {"deleted"}
        /\ operator[o].phase = "reviewing" /\ operator[o].verdict = "accepted"
             => operator[o].loaded # "accepted"
        /\ \A g \in operator[o].victims : Settled(g)
        /\ \A g \in operator[o].doomed :
              Settled(g) /\ (draft[g] = NoDraft \/ draft[g] = [review |-> "rejected", set |-> Nothing])

WorkInv == ReviewInv /\ TasksAreDue /\ RowsAreWhole /\ RequestsStayTrue

LEMMA InitWorkInv == ProfileInit => WorkInv
BY InitReviewInv
DEF WorkInv, ProfileInit, TasksAreDue, RowsAreWhole, RequestsStayTrue, NoTask, NoDraft, NoRequestYet

\* A request that stays, or begins with nothing to clean up, relies on rows that
\* keep what it has read.
LEMMA RequestsKeep ==
    ASSUME WorkInv, operator' \in [Operator -> OperatorRequest],
           \A g \in Run : Settled(g) => Settled(g)',
           \A g \in Run : run[g].status \in Ended \cup {"deleted"}
                            => run'[g].status \in Ended \cup {"deleted"},
           \A o \in Operator : \A g \in operator[o].doomed : draft'[g] \in {draft[g], NoDraft},
           \A o \in Operator : operator'[o] \in {operator[o], NoRequestYet}
    PROVE  RequestsStayTrue'
<1> SUFFICES ASSUME NEW o \in Operator, operator'[o] = operator[o]
             PROVE  /\ operator[o].phase = "retrying"
                         => run'[operator[o].run].status \in Ended \cup {"deleted"}
                    /\ operator[o].phase = "reviewing" /\ operator[o].verdict = "accepted"
                         => operator[o].loaded # "accepted"
                    /\ \A g \in operator[o].victims : Settled(g)'
                    /\ \A g \in operator[o].doomed :
                          /\ Settled(g)'
                          /\ \/ draft'[g] = NoDraft
                             \/ draft'[g] = [review |-> "rejected", set |-> Nothing]
  BY DEF RequestsStayTrue, NoRequestYet
<1>1. operator[o] \in OperatorRequest
  BY DEF WorkInv, ReviewInv, ProfileTypeOK
<1>2. operator[o].phase = "retrying" => operator[o].run \in Run
  BY DEF WorkInv, ReviewInv, RequestsAreSound
<1>3. operator[o].victims \subseteq Run /\ operator[o].doomed \subseteq Run
  BY <1>1 DEF OperatorRequest
<1> QED BY <1>2, <1>3 DEF WorkInv, RequestsStayTrue

\* A request that begins has read what is true.
LEMMA RequestBegins ==
    ASSUME WorkInv, UNCHANGED <<run, draft, live, task, lost>>,
           NEW o \in Operator, NEW q \in OperatorRequest, operator' = [operator EXCEPT ![o] = q],
           q.phase = "retrying" => run[q.run].status \in Ended \cup {"deleted"},
           q.phase = "reviewing" /\ q.verdict = "accepted" => q.loaded # "accepted",
           \A g \in q.victims : Settled(g),
           \A g \in q.doomed : Settled(g) /\ draft[g] = [review |-> "rejected", set |-> Nothing]
    PROVE  TasksAreDue' /\ RowsAreWhole' /\ RequestsStayTrue'
<1>1. TasksAreDue' /\ RowsAreWhole'
  BY DEF WorkInv, TasksAreDue, RowsAreWhole
<1>2. \A p \in Operator : operator'[p] = IF p = o THEN q ELSE operator[p]
  BY DEF WorkInv, ReviewInv, ProfileTypeOK
<1>3. RequestsStayTrue'
  <2> SUFFICES ASSUME NEW p \in Operator
               PROVE  /\ operator'[p].phase = "retrying"
                           => run[operator'[p].run].status \in Ended \cup {"deleted"}
                      /\ operator'[p].phase = "reviewing" /\ operator'[p].verdict = "accepted"
                           => operator'[p].loaded # "accepted"
                      /\ \A g \in operator'[p].victims : Settled(g)
                      /\ \A g \in operator'[p].doomed :
                            /\ Settled(g)
                            /\ \/ draft[g] = NoDraft
                               \/ draft[g] = [review |-> "rejected", set |-> Nothing]
    BY DEF RequestsStayTrue, Settled
  <2> QED BY <1>2 DEF WorkInv, RequestsStayTrue
<1> QED BY <1>1, <1>3

LEMMA BeginKeepsWork ==
    ASSUME WorkInv, NEW o \in Operator, BeginRequest(o)
    PROVE  TasksAreDue' /\ RowsAreWhole' /\ RequestsStayTrue'
<1> USE DEF WorkInv, ReviewInv
<1>1. CASE ListStaleRuns(o)
  <2>1. PICK stale \in SUBSET Run :
          operator' = [operator EXCEPT ![o] =
              [NoRequestYet EXCEPT !.phase = "reconciling", !.stale = stale]]
    BY <1>1 DEF ListStaleRuns
  <2> DEFINE q == [NoRequestYet EXCEPT !.phase = "reconciling", !.stale = stale]
  <2>2. q \in OperatorRequest /\ q.phase = "reconciling" /\ q.doomed = {} /\ q.victims = {}
    BY DEF NoRequestYet, OperatorRequest, ReviewStatus
  <2> HIDE DEF q
  <2> QED BY <1>1, <2>1, <2>2, RequestBegins DEF ListStaleRuns, q
<1>2. CASE SelectOld(o)
  <2>1. PICK doomed \in SUBSET {g \in Run : Prunable(g)}, victims \in SUBSET {g \in Run : Removable(g)} :
          operator' = [operator EXCEPT ![o] =
             [NoRequestYet EXCEPT !.phase = "pruning", !.doomed = doomed, !.victims = victims]]
    BY <1>2 DEF SelectOld
  <2> DEFINE q == [NoRequestYet EXCEPT !.phase = "pruning", !.doomed = doomed, !.victims = victims]
  <2>2. q \in OperatorRequest /\ q.phase = "pruning" /\ q.doomed = doomed /\ q.victims = victims
    BY DEF NoRequestYet, OperatorRequest, ReviewStatus
  <2> HIDE DEF q
  <2>3. \A g \in q.victims : Settled(g)
    BY <2>2 DEF Removable, HasEnded, Settled
  <2>4. ASSUME NEW g \in q.doomed
        PROVE  Settled(g) /\ draft[g] = [review |-> "rejected", set |-> Nothing]
    <3>1. g \in Run /\ Prunable(g)
      BY <2>2
    <3>2. draft[g] \in DraftRow
      BY <3>1 DEF ProfileTypeOK
    <3> QED BY <3>1, <3>2 DEF Prunable, HasEnded, Settled, DraftRow
  <2> QED BY <1>2, <2>1, <2>2, <2>3, <2>4, RequestBegins DEF SelectOld, q
<1>3. ASSUME NEW g \in Run, LoadFailed(o, g)
      PROVE  TasksAreDue' /\ RowsAreWhole' /\ RequestsStayTrue'
  <2> DEFINE q == [NoRequestYet EXCEPT !.phase = "retrying", !.run = g]
  <2>1. /\ q \in OperatorRequest /\ q.phase = "retrying" /\ q.run = g
        /\ q.doomed = {} /\ q.victims = {}
    BY DEF NoRequestYet, OperatorRequest, ReviewStatus
  <2>2. operator' = [operator EXCEPT ![o] = q] /\ run[g].status \in Ended
    BY <1>3 DEF LoadFailed, Ended
  <2> HIDE DEF q
  <2> QED BY <1>3, <2>1, <2>2, RequestBegins DEF LoadFailed
<1>4. ASSUME NEW g \in Run, NEW verdict \in {"edited", "rejected", "accepted"},
             NEW s \in CompetitorSet \cup {Nothing}, BeginReview(o, g, verdict, s)
      PROVE  TasksAreDue' /\ RowsAreWhole' /\ RequestsStayTrue'
  <2> DEFINE q == [NoRequestYet EXCEPT !.phase = "reviewing", !.run = g, !.verdict = verdict,
                       !.set = s, !.loaded = draft[g].review]
  <2>1. /\ q \in OperatorRequest /\ q.phase = "reviewing" /\ q.verdict = verdict
        /\ q.loaded = draft[g].review /\ q.doomed = {} /\ q.victims = {}
    BY DEF NoRequestYet, OperatorRequest, ProfileTypeOK, DraftRow
  <2>2. operator' = [operator EXCEPT ![o] = q]
    BY <1>4 DEF BeginReview
  <2>3. verdict = "accepted" => draft[g].review # "accepted"
    BY <1>4 DEF BeginReview, Reviewable
  <2> HIDE DEF q
  <2> QED BY <1>4, <2>1, <2>2, <2>3, RequestBegins DEF BeginReview
<1> QED BY <1>1, <1>2, <1>3, <1>4 DEF BeginRequest

\* Rows that move; no request does but for one that is answered.
LEMMA WorkMoves ==
    ASSUME WorkInv, operator' = operator \/ \E o \in Operator : Answer(o),
           \A g \in Run : run[g].status \in Ended \cup {"deleted"}
                            => run'[g].status \in Ended \cup {"deleted"},
           \A g \in Run : Settled(g) => task'[g].phase = "none",
           \A o \in Operator : \A g \in operator[o].doomed : draft'[g] \in {draft[g], NoDraft}
    PROVE  RequestsStayTrue'
<1>1. /\ operator' \in [Operator -> OperatorRequest]
      /\ \A o \in Operator : operator'[o] \in {operator[o], NoRequestYet}
  BY NoRequestYetType DEF WorkInv, ReviewInv, ProfileTypeOK, Answer
<1>2. \A g \in Run : Settled(g) => Settled(g)'
  BY DEF Settled
<1> QED BY <1>1, <1>2, RequestsKeep

LEMMA QueueKeepsWork ==
    ASSUME WorkInv, NEW g \in Run, NEW parent, Queue(g, parent), UNCHANGED draft,
           operator' = operator \/ \E o \in Operator : Answer(o)
    PROVE  TasksAreDue' /\ RowsAreWhole' /\ RequestsStayTrue'
<1> USE DEF WorkInv, ReviewInv
<1>1. /\ run[g].status = "absent" /\ g \in DOMAIN run /\ task[g] \in Task
      /\ \A h \in Run \ {g} : run'[h] = run[h] /\ task'[h] = task[h]
      /\ run'[g].status = "queued" /\ task'[g].phase = "scheduled"
  BY DEF Queue, ProfileTypeOK, Task
<1>2. draft[g] = NoDraft
  BY <1>1 DEF DraftsOfEndedRuns, HasEnded, Ended
<1>3. TasksAreDue' /\ RowsAreWhole'
  BY <1>1, <1>2 DEF TasksAreDue, RowsAreWhole
<1>4. RequestsStayTrue'
  BY <1>1, WorkMoves DEF Settled, Ended
<1> QED BY <1>3, <1>4

LEMMA ExecuteKeepsWork ==
    ASSUME WorkInv, NEW g \in Run, ExecuteStep(g) \/ LoseTask(g)
    PROVE  TasksAreDue' /\ RowsAreWhole' /\ RequestsStayTrue'
<1> USE DEF WorkInv, ReviewInv
<1>1. /\ task[g].phase # "none" /\ draft[g] = NoDraft /\ UNCHANGED operator
      /\ \A h \in Run \ {g} : run'[h] = run[h] /\ task'[h] = task[h] /\ draft'[h] = draft[h]
  BY DEF ExecuteStep, ClaimRun, FinishRun, FailRun, LoseTask, ProfileTypeOK, TasksAreDue
<1>2. /\ run[g].status \in Ended \cup {"deleted"} => run'[g].status \in Ended \cup {"deleted"}
      /\ run'[g].status = "deleted" => run[g].status = "deleted"
      /\ run'[g].parent = run[g].parent
  BY DEF ExecuteStep, ClaimRun, Claimed, FinishRun, FailRun, LoseTask, ProfileTypeOK, RunRow, Ended
<1>3. /\ draft'[g].review = "none" => draft'[g] = NoDraft
      /\ task'[g].phase # "none" => draft'[g] = NoDraft
      /\ task'[g].phase = "working" => run'[g].status \in Ended \cup {"running"}
  BY <1>1
  DEF ExecuteStep, ClaimRun, FinishRun, FailRun, LoseTask, ProfileTypeOK, NoDraft, NoTask, DraftRow,
      RunRow
<1>4. TasksAreDue' /\ RowsAreWhole'
  BY <1>1, <1>2, <1>3 DEF TasksAreDue, RowsAreWhole, NoDraft
<1>5. RequestsStayTrue'
  <2>1. \A h \in Run : run[h].status \in Ended \cup {"deleted"}
                         => run'[h].status \in Ended \cup {"deleted"}
    BY <1>1, <1>2
  <2>2. \A h \in Run : Settled(h) => h # g /\ task'[h].phase = "none"
    BY <1>1 DEF Settled
  <2>3. \A o \in Operator : \A h \in operator[o].doomed : draft'[h] = draft[h]
    BY <1>1, <2>2 DEF RequestsStayTrue, ProfileTypeOK, OperatorRequest
  <2> QED BY <1>1, <2>1, <2>2, <2>3, WorkMoves
<1> QED BY <1>4, <1>5

LEMMA OperatorKeepsWork ==
    ASSUME WorkInv, NEW o \in Operator, OperatorStep(o)
    PROVE  TasksAreDue' /\ RowsAreWhole' /\ RequestsStayTrue'
<1> USE DEF WorkInv, ReviewInv
<1>1. CASE FailStale(o)
  <2>1. /\ \A g \in Run : run'[g] = run[g] \/ /\ Stored(g) /\ run'[g].status \in Ended
                                              /\ run'[g].parent = run[g].parent
        /\ UNCHANGED <<draft, task>> /\ Answer(o)
    BY <1>1 DEF FailStale, TimedOut, ProfileTypeOK, RunRow, Ended
  <2>2. TasksAreDue' /\ RowsAreWhole'
    BY <2>1 DEF TasksAreDue, RowsAreWhole, Ended
  <2>3. RequestsStayTrue'
    BY <2>1, WorkMoves DEF Settled
  <2> QED BY <2>2, <2>3
<1>2. CASE QueueRetry(o)
  <2>1. CASE \E g \in Run : Queue(g, operator[o].run)
    BY <1>2, <2>1, QueueKeepsWork DEF QueueRetry
  <2>2. CASE UNCHANGED <<run, task>>
    <3>1. TasksAreDue' /\ RowsAreWhole'
      BY <1>2, <2>2 DEF QueueRetry, TasksAreDue, RowsAreWhole
    <3>2. RequestsStayTrue'
      BY <1>2, <2>2, WorkMoves DEF QueueRetry, Settled
    <3> QED BY <3>1, <3>2
  <2> QED BY <1>2, <2>1, <2>2 DEF QueueRetry
<1>3. CASE DeleteOld(o)
  <2>1. /\ UNCHANGED task /\ Answer(o)
        /\ \A g \in Run : draft'[g] \in {draft[g], NoDraft}
        /\ \A g \in Run : \/ run'[g] = run[g]
                          \/ /\ g \in operator[o].victims
                             /\ run'[g] = [status |-> "deleted", parent |-> Nothing, drafts |-> 0]
    BY <1>3 DEF DeleteOld
  <2>2. \A g \in operator[o].victims : Settled(g)
    BY DEF RequestsStayTrue
  <2>3. TasksAreDue' /\ RowsAreWhole'
    BY <2>1, <2>2 DEF TasksAreDue, RowsAreWhole, Settled, NoDraft
  <2>4. RequestsStayTrue'
    BY <2>1, WorkMoves DEF Settled, ProfileTypeOK, OperatorRequest
  <2> QED BY <2>3, <2>4
<1>4. CASE CommitReview(o)
  <2> DEFINE g == operator[o].run
  <2>1. /\ g \in Run /\ operator[o].verdict # "none"
        /\ \A p \in Operator : g \notin operator[p].doomed
        /\ UNCHANGED <<run, task>> /\ Answer(o)
    BY <1>4 DEF CommitReview, RequestsAreSound
  <2>2. /\ \A h \in Run \ {g} : draft'[h] = draft[h]
        /\ draft[g] = NoDraft => draft'[g] = draft[g]
    BY <1>4 DEF CommitReview, ProfileTypeOK
  <2>3. draft'[g].review = "none" => draft'[g] = NoDraft
    <3>1. CASE draft' = draft
      BY <2>1, <3>1 DEF RowsAreWhole, NoDraft, ProfileTypeOK, DraftRow
    <3>2. CASE draft' # draft
      <4>1. /\ draft[g] # NoDraft
            /\ draft'[g].review = Changed(draft[g].review, operator[o].loaded, operator[o].verdict)
        BY <1>4, <2>1, <3>2 DEF CommitReview, ProfileTypeOK, DraftRow
      <4>2. draft[g].review # "none"
        BY <2>1, <4>1 DEF RowsAreWhole, NoDraft, ProfileTypeOK, DraftRow
      <4> QED BY <2>1, <4>1, <4>2 DEF Changed
    <3> QED BY <3>1, <3>2
  <2> HIDE DEF g
  <2>4. TasksAreDue' /\ RowsAreWhole'
    BY <2>1, <2>2, <2>3 DEF TasksAreDue, RowsAreWhole, NoDraft
  <2>5. RequestsStayTrue'
    BY <2>1, <2>2, WorkMoves DEF Settled, ProfileTypeOK, OperatorRequest
  <2> QED BY <2>4, <2>5
<1> QED BY <1>1, <1>2, <1>3, <1>4 DEF OperatorStep

LEMMA StepKeepsWork ==
    ASSUME WorkInv, [ProfileNext]_profileVars
    PROVE  WorkInv'
<1>1. ReviewInv'
  BY StepKeepsReview DEF WorkInv
<1>2. ASSUME NEW g \in Run, CreateRun(g) PROVE TasksAreDue' /\ RowsAreWhole' /\ RequestsStayTrue'
  BY <1>2, QueueKeepsWork DEF CreateRun
<1>3. ASSUME UNCHANGED <<run, draft, task, operator>>
      PROVE  TasksAreDue' /\ RowsAreWhole' /\ RequestsStayTrue'
  BY <1>3 DEF WorkInv, TasksAreDue, RowsAreWhole, RequestsStayTrue, Settled
<1>4. TasksAreDue' /\ RowsAreWhole' /\ RequestsStayTrue'
  BY <1>2, <1>3, ExecuteKeepsWork, BeginKeepsWork, OperatorKeepsWork
  DEF ProfileNext, AddCompetitor, RemoveCompetitor, profileVars
<1> QED BY <1>1, <1>4 DEF WorkInv

ReviewStep == [Reviewing!Next]_(Reviewing!reviewVars)

\* A run is ordered, for the first time or as the retry of one that ended.
LEMMA QueueIsOrder ==
    ASSUME WorkInv, NEW g \in Run, NEW parent \in Run \cup {Nothing}, Queue(g, parent),
           parent # Nothing => HasEnded(parent), UNCHANGED <<draft, live>>
    PROVE  Reviewing!Order(g, parent)
<1> USE DEF WorkInv, ReviewInv
<1>1. /\ run[g].status = "absent" /\ ~HasEnded(g) /\ task[g].phase # "working"
      /\ run' = [run EXCEPT ![g] = [status |-> "queued", parent |-> parent, drafts |-> 0]]
      /\ task' = [task EXCEPT ![g].phase = "scheduled"]
  BY DEF Queue, HasEnded, Ended, TasksAreDue
<1>2. /\ \A h \in Run : /\ run'[h].status = IF h = g THEN "queued" ELSE run[h].status
                        /\ run'[h].parent = IF h = g THEN parent ELSE run[h].parent
      /\ \A h \in Run : task'[h].phase = IF h = g THEN "scheduled" ELSE task[h].phase
  BY <1>1 DEF ProfileTypeOK, Task
<1>3. {h \in Run : task[h].phase = "working"}' = {h \in Run : task[h].phase = "working"}
  BY <1>1, <1>2
<1>4. [h \in Run |-> IF HasEnded(h) THEN "ended" ELSE run[h].status]'
        = [[h \in Run |-> IF HasEnded(h) THEN "ended" ELSE run[h].status] EXCEPT ![g] = "queued"]
  BY <1>2 DEF HasEnded, Ended
<1>5. [h \in Run |-> run[h].parent]' = [[h \in Run |-> run[h].parent] EXCEPT ![g] = parent]
  BY <1>2
<1> QED BY <1>1, <1>3, <1>4, <1>5 DEF Reviewing!Order

LEMMA ClaimIsStart ==
    ASSUME WorkInv, NEW g \in Run, ClaimRun(g)
    PROVE  ReviewStep
<1> USE DEF WorkInv, ReviewInv
<1>1. CASE Claimed(g)
  <2>1. /\ run[g].status = "queued" /\ ~HasEnded(g)
        /\ \A h \in Run : /\ run'[h].status = IF h = g THEN "running" ELSE run[h].status
                          /\ run'[h].parent = run[h].parent
        /\ \A h \in Run : task'[h].phase = IF h = g THEN "working" ELSE task[h].phase
        /\ UNCHANGED <<draft, live>>
    BY <1>1 DEF ClaimRun, Claimed, HasEnded, Ended, ProfileTypeOK, RunRow
  <2>2. {h \in Run : task[h].phase = "working"}' = {h \in Run : task[h].phase = "working"} \cup {g}
    BY <2>1
  <2>3. [h \in Run |-> IF HasEnded(h) THEN "ended" ELSE run[h].status]'
          = [[h \in Run |-> IF HasEnded(h) THEN "ended" ELSE run[h].status] EXCEPT ![g] = "running"]
    BY <2>1 DEF HasEnded, Ended
  <2>4. [h \in Run |-> run[h].parent]' = [h \in Run |-> run[h].parent]
    BY <2>1
  <2>5. Reviewing!Start(g)
    BY <2>1, <2>2, <2>3, <2>4 DEF Reviewing!Start
  <2> QED BY <2>5 DEF ReviewStep, Reviewing!Next
<1>2. CASE ~Claimed(g)
  <2>1. /\ UNCHANGED <<run, draft, live>> /\ task[g].phase # "working"
        /\ \A h \in Run : h # g => task'[h] = task[h]
        /\ task'[g].phase = "none"
    BY <1>2 DEF ClaimRun, ProfileTypeOK, NoTask
  <2>2. {h \in Run : task[h].phase = "working"}' = {h \in Run : task[h].phase = "working"}
    BY <2>1
  <2> QED BY <2>1, <2>2 DEF ReviewStep, Reviewing!reviewVars, HasEnded
<1> QED BY <1>1, <1>2

\* The task ends: its result counts, although the run may have been given up.
LEMMA EndIsReport ==
    ASSUME WorkInv, NEW g \in Run, NEW outcome \in {"none", "pending"},
           task[g].phase = "working", task' = [task EXCEPT ![g] = NoTask], UNCHANGED live,
           HasEnded(g)', run'[g].parent = run[g].parent, draft'[g] = [draft[g] EXCEPT !.review = outcome],
           \A h \in Run \ {g} : run'[h] = run[h] /\ draft'[h] = draft[h]
    PROVE  Reviewing!Report(g, outcome)
<1> USE DEF WorkInv, ReviewInv
<1>1. run[g].status \in Ended \cup {"running"} /\ draft[g] = NoDraft
  BY DEF TasksAreDue
<1>2. draft'[g].review = outcome /\ draft'[g].set = draft[g].set /\ draft[g].review = "none"
  BY <1>1 DEF NoDraft
<1>3. {h \in Run : task[h].phase = "working"}' = {h \in Run : task[h].phase = "working"} \ {g}
  BY DEF ProfileTypeOK, NoTask
<1>4. [h \in Run |-> IF HasEnded(h) THEN "ended" ELSE run[h].status]'
        = [[h \in Run |-> IF HasEnded(h) THEN "ended" ELSE run[h].status] EXCEPT ![g] = "ended"]
  BY DEF HasEnded
<1>5. [h \in Run |-> draft[h].review]' = [[h \in Run |-> draft[h].review] EXCEPT ![g] = outcome]
  BY <1>2
<1>6. /\ [h \in Run |-> run[h].parent]' = [h \in Run |-> run[h].parent]
      /\ [h \in Run |-> draft[h].set]' = [h \in Run |-> draft[h].set]
  BY <1>2
<1>7. (IF HasEnded(g) THEN "ended" ELSE run[g].status) \in {"running", "ended"}
  BY <1>1 DEF HasEnded
<1> QED BY <1>2, <1>3, <1>4, <1>5, <1>6, <1>7 DEF Reviewing!Report, Reviewing!HasDraft

LEMMA TaskRefines ==
    ASSUME WorkInv, NEW g \in Run, ExecuteStep(g) \/ LoseTask(g)
    PROVE  ReviewStep
<1> USE DEF WorkInv, ReviewInv
<1>1. CASE ClaimRun(g)
  BY <1>1, ClaimIsStart
<1>2. ASSUME NEW n \in {0, 1}, FinishRun(g, n) PROVE ReviewStep
  <2>1. Stored(g) /\ draft[g] = NoDraft
    BY <1>2 DEF FinishRun, TasksAreDue, Stored, Ended
  <2>2. /\ task[g].phase = "working" /\ task' = [task EXCEPT ![g] = NoTask] /\ UNCHANGED live
        /\ HasEnded(g)' /\ run'[g].parent = run[g].parent
        /\ \A h \in Run \ {g} : run'[h] = run[h] /\ draft'[h] = draft[h]
    BY <1>2, <2>1 DEF FinishRun, HasEnded, Ended, ProfileTypeOK, RunRow
  <2>3. \E outcome \in {"none", "pending"} : draft'[g] = [draft[g] EXCEPT !.review = outcome]
    BY <1>2, <2>1 DEF FinishRun, ProfileTypeOK, NoDraft
  <2> QED BY <2>2, <2>3, EndIsReport DEF ReviewStep, Reviewing!Next
<1>3. CASE FailRun(g)
  <2>1. Stored(g) /\ draft[g] = NoDraft
    BY <1>3 DEF FailRun, TasksAreDue, Stored, Ended
  <2>2. /\ task[g].phase = "working" /\ task' = [task EXCEPT ![g] = NoTask] /\ UNCHANGED live
        /\ HasEnded(g)' /\ run'[g].parent = run[g].parent
        /\ \A h \in Run \ {g} : run'[h] = run[h] /\ draft'[h] = draft[h]
    BY <1>3, <2>1 DEF FailRun, HasEnded, Ended, ProfileTypeOK, RunRow
  <2>3. draft'[g] = [draft[g] EXCEPT !.review = "none"]
    BY <1>3, <2>1 DEF FailRun, NoDraft
  <2> QED BY <2>2, <2>3, EndIsReport DEF ReviewStep, Reviewing!Next
<1>4. CASE LoseTask(g)
  <2>1. {h \in Run : task[h].phase = "working"}' = {h \in Run : task[h].phase = "working"} \ {g}
    BY <1>4 DEF LoseTask, ProfileTypeOK, NoTask
  <2>2. Reviewing!Lose(g)
    BY <1>4, <2>1 DEF LoseTask, Reviewing!Lose, HasEnded
  <2> QED BY <2>2 DEF ReviewStep, Reviewing!Next
<1> QED BY <1>1, <1>2, <1>3, <1>4 DEF ExecuteStep

LEMMA FailStaleIsGiveUp ==
    ASSUME WorkInv, NEW o \in Operator, FailStale(o)
    PROVE  ReviewStep
<1> USE DEF WorkInv, ReviewInv
<1>1. UNCHANGED <<draft, live, task>>
  BY DEF FailStale
<1>2. CASE run' = run
  BY <1>1, <1>2 DEF ReviewStep, Reviewing!reviewVars, HasEnded
<1>3. CASE run' # run
  <2>1. /\ \A g \in operator[o].stale : Stored(g)
        /\ \A g \in Run : /\ run'[g].status = IF g \in operator[o].stale THEN "failed" ELSE run[g].status
                          /\ run'[g].parent = run[g].parent
    BY <1>3 DEF FailStale, TimedOut, ProfileTypeOK, RunRow
  <2>2. PICK late \in SUBSET Run : late = {g \in operator[o].stale : ~HasEnded(g)}
    BY DEF ProfileTypeOK, OperatorRequest
  <2>3. \A g \in late : run[g].status \in {"queued", "running"} /\ ~HasEnded(g)
    BY <2>1, <2>2 DEF Stored, HasEnded, Ended, ProfileTypeOK, RunRow
  <2>4. \A g \in Run : HasEnded(g)' <=> HasEnded(g) \/ g \in late
    BY <2>1, <2>2 DEF HasEnded, Ended
  <2>5. [g \in Run |-> IF HasEnded(g) THEN "ended" ELSE run[g].status]'
          = [g \in Run |-> IF g \in late THEN "ended"
                           ELSE [h \in Run |-> IF HasEnded(h) THEN "ended" ELSE run[h].status][g]]
    <3>1. \A g \in Run : (IF HasEnded(g) THEN "ended" ELSE run[g].status)'
              = IF g \in late THEN "ended" ELSE IF HasEnded(g) THEN "ended" ELSE run[g].status
      BY <2>1, <2>2, <2>4
    <3> QED BY <3>1
  <2>6. [g \in Run |-> run[g].parent]' = [g \in Run |-> run[g].parent]
    BY <2>1
  <2>7. \A g \in late : [h \in Run |-> IF HasEnded(h) THEN "ended" ELSE run[h].status][g]
                           \in {"queued", "running"}
    BY <2>2, <2>3
  <2>8. Reviewing!GiveUp(late)
    BY <1>1, <2>5, <2>6, <2>7 DEF Reviewing!GiveUp
  <2> QED BY <2>2, <2>8 DEF ReviewStep, Reviewing!Next
<1> QED BY <1>2, <1>3

\* What others have deleted meanwhile is not deleted again.
LEMMA DeleteIsCleanUp ==
    ASSUME WorkInv, NEW o \in Operator, DeleteOld(o)
    PROVE  ReviewStep
<1> USE DEF WorkInv, ReviewInv
<1>1. UNCHANGED <<live, task>>
  BY DEF DeleteOld
<1>2. CASE Referenced(o)
  BY <1>2 DEF DeleteOld, ReviewStep, Reviewing!reviewVars, HasEnded
<1>3. CASE ~Referenced(o)
  <2>0. PICK drafts, runs \in SUBSET Run :
          /\ drafts = {g \in operator[o].doomed : draft[g] # NoDraft}
          /\ runs = {g \in operator[o].victims : HasEnded(g)}
    BY DEF ProfileTypeOK, OperatorRequest
  <2>1. \A g \in operator[o].doomed \cup operator[o].victims : g \in Run /\ Settled(g)
    BY DEF ProfileTypeOK, OperatorRequest, RequestsStayTrue
  <2>2. /\ draft' = [g \in Run |-> IF g \in operator[o].doomed THEN NoDraft ELSE draft[g]]
        /\ run' = [g \in Run |-> IF g \in operator[o].victims
                     THEN [status |-> "deleted", parent |-> Nothing, drafts |-> 0] ELSE run[g]]
    BY <1>3 DEF DeleteOld
  <2>3. \A g \in drafts : /\ draft[g].review = "rejected" /\ draft[g].set = Nothing
                          /\ task[g].phase # "working"
    BY <2>0, <2>1 DEF RequestsStayTrue, Settled
  <2>4. \A g \in runs : /\ HasEnded(g) /\ task[g].phase # "working"
                        /\ draft[g].review = "none" /\ \A h \in Run : run[h].parent # g
    BY <1>3, <2>0, <2>1 DEF Referenced, Settled, NoDraft
  <2>5. \A g \in Run : /\ draft'[g].review = IF g \in drafts THEN "none" ELSE draft[g].review
                       /\ draft'[g].set = draft[g].set
    BY <2>0, <2>2, <2>3 DEF NoDraft
  <2>6. \A g \in Run : /\ (IF HasEnded(g) THEN "ended" ELSE run[g].status)'
                            = IF g \in runs THEN "deleted"
                              ELSE IF HasEnded(g) THEN "ended" ELSE run[g].status
                       /\ run'[g].parent = IF g \in runs THEN Nothing ELSE run[g].parent
    <3> SUFFICES ASSUME NEW g \in Run
                 PROVE  /\ (IF HasEnded(g) THEN "ended" ELSE run[g].status)'
                             = IF g \in runs THEN "deleted"
                               ELSE IF HasEnded(g) THEN "ended" ELSE run[g].status
                        /\ run'[g].parent = IF g \in runs THEN Nothing ELSE run[g].parent
      OBVIOUS
    <3>1. CASE g \in operator[o].victims
      <4>1. /\ run'[g].status = "deleted" /\ run'[g].parent = Nothing /\ ~HasEnded(g)'
            /\ g \in runs \/ (run[g].status = "deleted" /\ ~HasEnded(g))
            /\ g \in runs => HasEnded(g)
        BY <2>0, <2>1, <2>2, <3>1 DEF Settled, HasEnded, Ended
      <4>2. run[g].status = "deleted" => run[g].parent = Nothing
        BY DEF RowsAreWhole
      <4> QED BY <4>1, <4>2
    <3>2. CASE g \notin operator[o].victims
      BY <2>0, <2>2, <3>2 DEF HasEnded
    <3> QED BY <3>1, <3>2
  <2>7. Reviewing!CleanUp(drafts, runs)
    <3>1. \A g \in drafts : /\ [h \in Run |-> draft[h].review][g] = "rejected"
                            /\ [h \in Run |-> draft[h].set][g] = Nothing
                            /\ g \notin {h \in Run : task[h].phase = "working"}
      BY <2>1, <2>3
    <3>2. \A g \in runs :
             /\ [h \in Run |-> IF HasEnded(h) THEN "ended" ELSE run[h].status][g] = "ended"
             /\ g \notin {h \in Run : task[h].phase = "working"}
             /\ [h \in Run |-> draft[h].review][g] = "none"
             /\ \A h \in Run : [k \in Run |-> run[k].parent][h] # g
      BY <2>1, <2>4
    <3>3. [g \in Run |-> draft[g].review]'
            = [g \in Run |-> IF g \in drafts THEN "none" ELSE [h \in Run |-> draft[h].review][g]]
      BY <2>5
    <3>4. [g \in Run |-> draft[g].set]' = [g \in Run |-> draft[g].set]
      BY <2>5
    <3>5. [g \in Run |-> IF HasEnded(g) THEN "ended" ELSE run[g].status]'
            = [g \in Run |-> IF g \in runs THEN "deleted"
                 ELSE [h \in Run |-> IF HasEnded(h) THEN "ended" ELSE run[h].status][g]]
      BY <2>6
    <3>6. [g \in Run |-> run[g].parent]'
            = [g \in Run |-> IF g \in runs THEN Nothing ELSE [h \in Run |-> run[h].parent][g]]
      BY <2>6
    <3> QED BY <1>1, <3>1, <3>2, <3>3, <3>4, <3>5, <3>6
            DEF Reviewing!CleanUp, Reviewing!Rejected, Reviewing!Finished, Reviewing!HasDraft
  <2> QED BY <2>7 DEF ReviewStep, Reviewing!Next
<1> QED BY <1>2, <1>3

LEMMA CommitIsVerdict ==
    ASSUME WorkInv, NEW o \in Operator, CommitReview(o)
    PROVE  ReviewStep
<1> USE DEF WorkInv, ReviewInv
<1>1. PICK g \in Run, verdict \in {"edited", "rejected", "accepted"},
           s \in CompetitorSet \cup {Nothing} :
        /\ g = operator[o].run /\ verdict = operator[o].verdict /\ s = operator[o].set
        /\ verdict = "accepted" => s \in CompetitorSet /\ operator[o].loaded # "accepted"
        /\ UNCHANGED <<run, task>>
  BY DEF CommitReview, RequestsAreSound, ProfileTypeOK, OperatorRequest, RequestsStayTrue
<1>2. CASE UNCHANGED <<draft, live>>
  BY <1>1, <1>2 DEF ReviewStep, Reviewing!reviewVars, HasEnded
<1>3. CASE ~UNCHANGED <<draft, live>>
  <2>1. /\ draft[g] # NoDraft
        /\ draft' = [draft EXCEPT
                        ![g].review = Changed(@, operator[o].loaded, verdict),
                        ![g].set = IF verdict = "accepted" THEN s ELSE @]
        /\ live' = IF verdict = "accepted" THEN live \cup {s} ELSE live
        /\ verdict = "accepted" => s \notin live
    BY <1>1, <1>3 DEF CommitReview
  <2>2. draft[g].review # "none"
    BY <1>1, <2>1 DEF RowsAreWhole, NoDraft, ProfileTypeOK, DraftRow
  <2>3. \A h \in Run :
           /\ draft'[h].review = IF h = g THEN Changed(draft[g].review, operator[o].loaded, verdict)
                                 ELSE draft[h].review
           /\ draft'[h].set = IF h = g /\ verdict = "accepted" THEN s ELSE draft[h].set
    BY <1>1, <2>1 DEF ProfileTypeOK, DraftRow
  <2>4. CASE verdict = "accepted"
    <3>1. [h \in Run |-> draft[h].review]' = [[h \in Run |-> draft[h].review] EXCEPT ![g] = "accepted"]
      BY <1>1, <2>3, <2>4 DEF Changed
    <3>2. [h \in Run |-> draft[h].set]' = [[h \in Run |-> draft[h].set] EXCEPT ![g] = s]
      BY <1>1, <2>3, <2>4
    <3>3. Reviewing!Accept(g, s)
      BY <1>1, <2>1, <2>2, <2>4, <3>1, <3>2 DEF Reviewing!Accept, Reviewing!HasDraft, HasEnded
    <3> QED BY <1>1, <2>4, <3>3 DEF ReviewStep, Reviewing!Next
  <2>5. CASE verdict # "accepted"
    <3>1. [h \in Run |-> draft[h].set]' = [h \in Run |-> draft[h].set] /\ live' = live
      BY <2>1, <2>3, <2>5
    <3>2. CASE operator[o].loaded = verdict
      <4>1. [h \in Run |-> draft[h].review]' = [h \in Run |-> draft[h].review]
        BY <2>3, <3>2 DEF Changed
      <4> QED BY <1>1, <3>1, <4>1 DEF ReviewStep, Reviewing!reviewVars, HasEnded
    <3>3. CASE operator[o].loaded # verdict
      <4>1. [h \in Run |-> draft[h].review]' = [[h \in Run |-> draft[h].review] EXCEPT ![g] = verdict]
        BY <2>3, <3>3 DEF Changed
      <4>2. Reviewing!Judge(g, verdict)
        BY <1>1, <2>2, <3>1, <4>1 DEF Reviewing!Judge, Reviewing!HasDraft, HasEnded
      <4> QED BY <1>1, <2>5, <4>2 DEF ReviewStep, Reviewing!Next
    <3> QED BY <3>2, <3>3
  <2> QED BY <2>4, <2>5
<1> QED BY <1>2, <1>3

LEMMA SetIsEdited ==
    ASSUME WorkInv, NEW s \in CompetitorSet, AddCompetitor(s) \/ RemoveCompetitor(s)
    PROVE  ReviewStep
<1> USE DEF WorkInv, ReviewInv
<1>1. live' \in SUBSET CompetitorSet /\ UNCHANGED <<run, draft, task>>
  BY DEF AddCompetitor, RemoveCompetitor, ProfileTypeOK
<1>2. \A g \in Run : draft[g].set # Nothing => draft[g].set \in live'
  BY DEF AddCompetitor, RemoveCompetitor, LinksAreLive
<1>3. Reviewing!Edit(live')
  BY <1>1, <1>2 DEF Reviewing!Edit, HasEnded
<1> QED BY <1>1, <1>3 DEF ReviewStep, Reviewing!Next

LEMMA StepRefines ==
    ASSUME WorkInv, [ProfileNext]_profileVars
    PROVE  ReviewStep
<1>1. ASSUME NEW g \in Run, CreateRun(g) PROVE ReviewStep
  BY <1>1, QueueIsOrder DEF CreateRun, ReviewStep, Reviewing!Next
<1>2. ASSUME NEW o \in Operator, QueueRetry(o) PROVE ReviewStep
  <2>1. CASE Stored(operator[o].run) /\ \E g \in Run : run[g].status = "absent"
    <3>1. PICK of \in Run : of = operator[o].run /\ HasEnded(of)
      BY <1>2, <2>1
      DEF QueueRetry, WorkInv, ReviewInv, RequestsAreSound, RequestsStayTrue, Stored, HasEnded
    <3>2. PICK g \in Run : Queue(g, of) /\ UNCHANGED <<draft, live>>
      BY <1>2, <2>1, <3>1 DEF QueueRetry
    <3>3. Reviewing!Order(g, of)
      BY <3>1, <3>2, QueueIsOrder
    <3> QED BY <3>3 DEF ReviewStep, Reviewing!Next
  <2>2. CASE UNCHANGED <<run, task>>
    BY <1>2, <2>2 DEF QueueRetry, ReviewStep, Reviewing!reviewVars, HasEnded
  <2> QED BY <1>2, <2>1, <2>2 DEF QueueRetry
<1>3. ASSUME UNCHANGED <<run, draft, live, task>> PROVE ReviewStep
  BY <1>3 DEF ReviewStep, Reviewing!reviewVars, HasEnded
<1>4. ASSUME NEW o \in Operator, BeginRequest(o) PROVE ReviewStep
  BY <1>3, <1>4 DEF BeginRequest, ListStaleRuns, SelectOld, LoadFailed, BeginReview
<1> QED BY <1>1, <1>2, <1>3, <1>4, TaskRefines, FailStaleIsGiveUp, DeleteIsCleanUp, CommitIsVerdict,
           SetIsEdited DEF ProfileNext, OperatorStep, profileVars

\* Whatever runs, reviews, cleanups and losses overlap, reviewers see a review
\* of drafts: nothing starts or reports twice, what is accepted stays, and only
\* what is rejected and unlinked, or has nothing left that refers to it, goes.
THEOREM GenerationIsReview == ProfileSpec => ReviewSpec
<1>1. ProfileInit => Reviewing!Init
  BY DEF ProfileInit, Reviewing!Init, HasEnded, Ended, NoDraft, NoTask
<1>2. WorkInv /\ [ProfileNext]_profileVars => WorkInv'
  BY StepKeepsWork
<1>3. WorkInv /\ [ProfileNext]_profileVars => ReviewStep
  BY StepRefines
<1> QED BY <1>1, <1>2, <1>3, InitWorkInv, PTL DEF ProfileSpec, ReviewSpec, Reviewing!Spec, ReviewStep
=============================================================================
