--------------------------- MODULE ProfileGeneration ---------------------------
(* Generation of competitor profiles for one site: runs queued by requests and  *)
(* executed by background tasks of the API process, stale runs failed by        *)
(* whoever reads them, drafts reviewed by operators, retention cleanup.         *)
(*                                                                              *)
(* run[g]       the row of a generation run                                     *)
(* draft[g]     the draft that run produced for one competitor; drafts of other *)
(*              competitors are independent of it                               *)
(* live         the competitor sets that list this competitor                   *)
(* task[g]      the background task of the run                                  *)
(* operator     requests in flight                                              *)
EXTENDS Naturals

CONSTANTS
    Run,
    CompetitorSet,
    Operator,
    MaxLost,        \* bound on background tasks lost with their process
    Nothing

ASSUME ProfileAssumption ==
    /\ Nothing \notin Run \cup CompetitorSet
    /\ MaxLost \in Nat

VARIABLES run, draft, live, task, operator, lost
profileVars == <<run, draft, live, task, operator, lost>>

Ended == {"completed", "failed"}
RunRow == [status: {"absent", "queued", "running", "deleted"} \cup Ended,
           parent: Run \cup {Nothing}, drafts: {0, 1}]
ReviewStatus == {"none", "pending", "edited", "accepted", "rejected"}
DraftRow == [review: ReviewStatus, set: CompetitorSet \cup {Nothing}]
Task == [phase: {"none", "scheduled", "working"}, known: BOOLEAN]
OperatorRequest == [phase: {"idle", "reconciling", "retrying", "pruning", "reviewing"},
                    run: Run \cup {Nothing}, stale: SUBSET Run,
                    doomed: SUBSET Run, victims: SUBSET Run,
                    verdict: {"none", "edited", "rejected", "accepted"},
                    loaded: ReviewStatus, set: CompetitorSet \cup {Nothing}]

NoDraft == [review |-> "none", set |-> Nothing]
NoTask == [phase |-> "none", known |-> FALSE]
NoRequestYet == [phase |-> "idle", run |-> Nothing, stale |-> {}, doomed |-> {}, victims |-> {},
                 verdict |-> "none", loaded |-> "none", set |-> Nothing]

ProfileTypeOK ==
    /\ run \in [Run -> RunRow]
    /\ draft \in [Run -> DraftRow]
    /\ live \in SUBSET CompetitorSet
    /\ task \in [Run -> Task]
    /\ operator \in [Operator -> OperatorRequest]
    /\ lost \in Nat

ProfileInit ==
    /\ run = [g \in Run |-> [status |-> "absent", parent |-> Nothing, drafts |-> 0]]
    /\ draft = [g \in Run |-> NoDraft]
    /\ live = {}
    /\ task = [g \in Run |-> NoTask]
    /\ operator = [o \in Operator |-> NoRequestYet]
    /\ lost = 0

Stored(g) == run[g].status \notin {"absent", "deleted"}
HasEnded(g) == run[g].status \in Ended
Answer(o) == operator' = [operator EXCEPT ![o] = NoRequestYet]

(* SQLAlchemy writes a column when the new value differs from the loaded one.   *)
Changed(stored, loaded, new) == IF loaded = new THEN stored ELSE new

-------------------------------------------------------------------------------
(* _queue_run: the row is committed, then the response schedules the task.      *)
Queue(g, parent) ==
    /\ run[g].status = "absent"
    /\ run' = [run EXCEPT ![g] = [status |-> "queued", parent |-> parent, drafts |-> 0]]
    /\ task' = [task EXCEPT ![g].phase = "scheduled"]

CreateRun(g) ==
    /\ Queue(g, Nothing)
    /\ UNCHANGED <<draft, live, operator, lost>>

(* execute_queued_run: claim_run_for_execution, then the competitors that exist *)
(* already are read and the provider is called.                                 *)
\* Mutant: a run that was failed as stale is claimed as well.
ClaimedAnyway(g) == run[g].status \in {"queued", "failed"}

Claimed(g) == run[g].status = "queued"

ClaimRun(g) ==
    /\ task[g].phase = "scheduled"
    /\ IF Claimed(g)
         THEN /\ run' = [run EXCEPT ![g].status = "running", ![g].drafts = 0]
              /\ task' = [task EXCEPT ![g] = [phase |-> "working", known |-> live # {}]]
         ELSE /\ task' = [task EXCEPT ![g] = NoTask]
              /\ UNCHANGED run
    /\ UNCHANGED <<draft, live, operator, lost>>

(* Completion writes the row that was loaded as running, and n drafts with it.  *)
FinishRun(g, n) ==
    /\ task[g].phase = "working"
    /\ n = 1 => ~task[g].known
    /\ IF Stored(g)
         THEN /\ run' = [run EXCEPT ![g].status = "completed", ![g].drafts = Changed(@, 0, n)]
              /\ draft' = IF n = 1 THEN [draft EXCEPT ![g].review = "pending"] ELSE draft
         ELSE UNCHANGED <<run, draft>>
    /\ task' = [task EXCEPT ![g] = NoTask]
    /\ UNCHANGED <<live, operator, lost>>

(* _mark_run_failed reads the row again, after a rollback.                      *)
FailRun(g) ==
    /\ task[g].phase = "working"
    /\ run' = IF Stored(g) THEN [run EXCEPT ![g].status = "failed", ![g].drafts = 0] ELSE run
    /\ task' = [task EXCEPT ![g] = NoTask]
    /\ UNCHANGED <<draft, live, operator, lost>>

(* The API process stops with the task.                                         *)
LoseTask(g) ==
    /\ task[g].phase # "none"
    /\ lost < MaxLost
    /\ lost' = lost + 1
    /\ task' = [task EXCEPT ![g] = NoTask]
    /\ UNCHANGED <<run, draft, live, operator>>

-------------------------------------------------------------------------------
(* _reconcile_stale_runs_for_site comes first in list_runs, get_run_detail,     *)
(* retry_failed_run and cleanup_retention and commits on its own, so that a     *)
(* retry or a cleanup is this request followed by the next ones. Any queued or  *)
(* running run may have been so for too long, one whose task is slow included.  *)
\* Mutant: runs that were never started are not looked at.
MayBeLostRunning(g) == run[g].status = "running"

MayBeLost(g) == run[g].status \in {"queued", "running"}

ListStaleRuns(o) ==
    /\ operator[o].phase = "idle"
    /\ \E stale \in SUBSET {g \in Run : MayBeLost(g)} \ {{}} :
          operator' = [operator EXCEPT ![o] =
              [NoRequestYet EXCEPT !.phase = "reconciling", !.stale = stale]]
    /\ UNCHANGED <<run, draft, live, task, lost>>

(* Whatever the rows have become is overwritten, but for the count of drafts,   *)
(* which was 0 when they were loaded; an UPDATE of a row that is gone fails.    *)
\* Mutant: a stale run is put back into the queue.
PutBack == "queued"

TimedOut == "failed"

FailStale(o) ==
    /\ operator[o].phase = "reconciling"
    /\ run' = IF \A g \in operator[o].stale : Stored(g)
         THEN [g \in Run |-> IF g \in operator[o].stale
                               THEN [run[g] EXCEPT !.status = TimedOut] ELSE run[g]]
         ELSE run
    /\ Answer(o)
    /\ UNCHANGED <<draft, live, task, lost>>

(* retry_failed_run *)
LoadFailed(o, g) ==
    /\ operator[o].phase = "idle"
    /\ run[g].status = "failed"
    /\ operator' = [operator EXCEPT ![o] = [NoRequestYet EXCEPT !.phase = "retrying", !.run = g]]
    /\ UNCHANGED <<run, draft, live, task, lost>>

(* The foreign key to the parent refuses the row when the parent is gone. Run   *)
(* is a bound: the last retry finds no row left and is dropped.                 *)
QueueRetry(o) ==
    /\ operator[o].phase = "retrying"
    /\ IF Stored(operator[o].run) /\ \E g \in Run : run[g].status = "absent"
         THEN \E g \in Run : Queue(g, operator[o].run)
         ELSE UNCHANGED <<run, task>>
    /\ Answer(o)
    /\ UNCHANGED <<draft, live, lost>>

(* cleanup_retention, over all runs and drafts past their retention: rejected   *)
(* drafts, and ended runs that have neither drafts nor retries. A run whose     *)
(* task is at work is not past it.                                              *)
\* Mutant: the link of the draft is not looked at.
PrunableRejected(g) == HasEnded(g) /\ task[g].phase = "none" /\ draft[g].review = "rejected"

Prunable(g) ==
    /\ HasEnded(g)
    /\ task[g].phase = "none"
    /\ draft[g].review = "rejected"
    /\ draft[g].set = Nothing

Removable(g) ==
    /\ HasEnded(g)
    /\ task[g].phase = "none"
    /\ run[g].drafts = 0
    /\ draft[g] = NoDraft
    /\ \A h \in Run : run[h].parent # g

SelectOld(o) ==
    /\ operator[o].phase = "idle"
    /\ \E doomed \in SUBSET {g \in Run : Prunable(g)},
          victims \in SUBSET {g \in Run : Removable(g)} :
          /\ doomed \cup victims # {}
          /\ operator' = [operator EXCEPT ![o] =
                 [NoRequestYet EXCEPT !.phase = "pruning", !.doomed = doomed, !.victims = victims]]
    /\ UNCHANGED <<run, draft, live, task, lost>>

(* The foreign keys of drafts and retries hold for the whole transaction.       *)
Referenced(o) ==
    \E g \in operator[o].victims : draft[g] # NoDraft \/ \E h \in Run : run[h].parent = g

DeleteOld(o) ==
    /\ operator[o].phase = "pruning"
    /\ IF Referenced(o)
         THEN UNCHANGED <<run, draft>>
         ELSE /\ draft' = [g \in Run |-> IF g \in operator[o].doomed THEN NoDraft ELSE draft[g]]
              /\ run' = [g \in Run |->
                    IF g \in operator[o].victims
                      THEN [status |-> "deleted", parent |-> Nothing, drafts |-> 0] ELSE run[g]]
    /\ Answer(o)
    /\ UNCHANGED <<live, task, lost>>

-------------------------------------------------------------------------------
(* edit_draft, reject_draft, accept_draft: the draft is loaded and judged. An   *)
(* acceptance also looks for the competitor in every set of the site.           *)
Reviewable(review, verdict) ==
    /\ review # "none"
    /\ review \notin (IF verdict = "rejected" THEN {"accepted"} ELSE {"accepted", "rejected"})

BeginReview(o, g, verdict, s) ==
    /\ operator[o].phase = "idle"
    /\ Reviewable(draft[g].review, verdict)
    /\ verdict = "accepted" => live = {}
    /\ operator' = [operator EXCEPT ![o] = [NoRequestYet EXCEPT
           !.phase = "reviewing", !.run = g, !.verdict = verdict, !.set = s,
           !.loaded = draft[g].review]]
    /\ UNCHANGED <<run, draft, live, task, lost>>

(* Deleting keeps the draft locked until it commits. A set lists a competitor   *)
(* once; when the INSERT or the UPDATE of a deleted row fails nothing is kept.  *)
CommitReview(o) ==
    LET g == operator[o].run
        s == operator[o].set
        verdict == operator[o].verdict IN
    /\ operator[o].phase = "reviewing"
    /\ \A p \in Operator : g \notin operator[p].doomed
    /\ IF draft[g] = NoDraft \/ (verdict = "accepted" /\ s \in live)
         THEN UNCHANGED <<draft, live>>
         ELSE /\ draft' = [draft EXCEPT
                     ![g].review = Changed(@, operator[o].loaded, verdict),
                     ![g].set = IF verdict = "accepted" THEN s ELSE @]
              /\ live' = IF verdict = "accepted" THEN live \cup {s} ELSE live
    /\ Answer(o)
    /\ UNCHANGED <<run, task, lost>>

(* add_domain and remove_domain of the competitor sets; a draft that refers to  *)
(* the listed competitor keeps it there.                                        *)
AddCompetitor(s) ==
    /\ s \notin live
    /\ live' = live \cup {s}
    /\ UNCHANGED <<run, draft, task, operator, lost>>

RemoveCompetitor(s) ==
    /\ s \in live
    /\ \A g \in Run : draft[g].set # s
    /\ live' = live \ {s}
    /\ UNCHANGED <<run, draft, task, operator, lost>>

-------------------------------------------------------------------------------
ExecuteStep(g) == ClaimRun(g) \/ (\E n \in {0, 1} : FinishRun(g, n)) \/ FailRun(g)

OperatorStep(o) == FailStale(o) \/ QueueRetry(o) \/ DeleteOld(o) \/ CommitReview(o)

BeginRequest(o) ==
    \/ ListStaleRuns(o)
    \/ SelectOld(o)
    \/ \E g \in Run :
          \/ LoadFailed(o, g)
          \/ \E verdict \in {"edited", "rejected"} : BeginReview(o, g, verdict, Nothing)
          \/ \E s \in CompetitorSet : BeginReview(o, g, "accepted", s)

ProfileNext ==
    \/ \E g \in Run : CreateRun(g) \/ ExecuteStep(g) \/ LoseTask(g)
    \/ \E o \in Operator : BeginRequest(o) \/ OperatorStep(o)
    \/ \E s \in CompetitorSet : AddCompetitor(s) \/ RemoveCompetitor(s)

ProfileSpec == ProfileInit /\ [][ProfileNext]_profileVars

ReadStale(g) == \E o \in Operator : ListStaleRuns(o) /\ g \in operator'[o].stale

(* A task that is scheduled runs and ends, a request goes on, and somebody      *)
(* looks at the runs again and again once one of them is stale.                 *)
ProfileFairness ==
    /\ \A g \in Run : WF_profileVars(ExecuteStep(g)) /\ SF_profileVars(ReadStale(g))
    /\ \A o \in Operator : WF_profileVars(OperatorStep(o))

-------------------------------------------------------------------------------
(* Operators never see drafts of a run that is still queued or running.         *)
DraftsOfEndedRuns == \A g \in Run : draft[g] # NoDraft => HasEnded(g)

(* "Cleanup must never delete accepted live competitor entities": an accepted   *)
(* draft keeps its competitor, its run and its link through every cleanup, even *)
(* when a review that raced with the acceptance has overwritten its status.     *)
AcceptedIsKept ==
    [][\A g \in Run : draft[g].set # Nothing =>
          /\ draft'[g].set # Nothing
          /\ draft[g].set \in live'
          /\ run'[g].status \in Ended]_profileVars

(* A queued run ends, although its background task may be lost.                 *)
RunsEnd == \A g \in Run : run[g].status = "queued" ~> run[g].status \in Ended \cup {"deleted"}

(* To reviewers the whole of it is a review of drafts: a run that ended, be it  *)
(* because somebody took it for lost, never starts again and still brings its   *)
(* draft at most once; an acceptance is for good; only what is rejected and     *)
(* unlinked is cleaned up, and no run before its retries.                       *)
Reviewing == INSTANCE DraftReview WITH
    stage <- [g \in Run |-> IF HasEnded(g) THEN "ended" ELSE run[g].status],
    retryOf <- [g \in Run |-> run[g].parent],
    reporting <- {g \in Run : task[g].phase = "working"},
    verdict <- [g \in Run |-> draft[g].review],
    link <- [g \in Run |-> draft[g].set],
    listed <- live

ReviewSpec == Reviewing!Spec
===============================================================================
