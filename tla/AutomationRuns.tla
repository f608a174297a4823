----------------------------- MODULE AutomationRuns -----------------------------
(* SEO automation of one site: manual and scheduled calls start a run and carry *)
(* it out in the same request, step by step with a commit after each.           *)
(*                                                                              *)
(* config         the row of the site (business and site are unique)            *)
(* automation[u]  the row of a run, with the steps of steps_json                *)
(* caller[c]      requests: trigger_manual_run, or run_due_configs at this site *)
EXTENDS Naturals, Sequences, FiniteSets

CONSTANTS
    AutomationRun,  \* rows, as many as may be created
    Caller,         \* requests at the same time
    Triggers,       \* sets of steps that an operator may enable
    MaxLostCalls,   \* bound on requests that die with their process
    NoRun

VARIABLES config, automation, caller, lostCalls
automationVars == <<config, automation, caller, lostCalls>>

Steps == <<"audit_run", "audit_summary", "competitor_snapshot_run", "comparison_run",
           "competitor_summary", "recommendation_run", "recommendation_narrative">>
Step == {Steps[i] : i \in DOMAIN Steps}

ASSUME AutomationAssumption ==
    /\ NoRun \notin AutomationRun /\ IsFiniteSet(Caller)
    /\ Triggers \subseteq SUBSET Step /\ {} \notin Triggers /\ Triggers # {}
    /\ MaxLostCalls \in Nat

StepStatus == {"queued", "running", "completed", "failed", "skipped"}
RunEnd == {"completed", "failed", "skipped"}

Config == [exists: BOOLEAN,
           triggers: SUBSET Step,
           last: RunEnd \cup {"none"}]   \* last_status
AutomationRow == [status: RunEnd \cup {"absent", "queued", "running"},
                  steps: [Step -> StepStatus]]
Call == [phase: {"idle", "configuring", "deciding", "starting", "queued", "running",
                 "refused", "conflict", "ended"},
         run: AutomationRun \cup {NoRun}, at: 1 .. Len(Steps) + 1]

InitialSteps == [s \in Step |-> "queued"]
NoCall == [phase |-> "idle", run |-> NoRun, at |-> 1]

AutomationTypeOK ==
    /\ config \in Config
    /\ automation \in [AutomationRun -> AutomationRow]
    /\ caller \in [Caller -> Call]
    /\ lostCalls \in Nat

AutomationInit ==
    /\ config = [exists |-> FALSE, triggers |-> {}, last |-> "none"]
    /\ automation = [u \in AutomationRun |->
           [status |-> "absent", steps |-> InitialSteps]]
    /\ caller = [c \in Caller |-> NoCall]
    /\ lostCalls = 0

Active(u) == automation[u].status \in {"queued", "running"}
EndedRuns == {u \in AutomationRun : automation[u].status \in RunEnd}
Reply(c, answer) == caller' = [caller EXCEPT ![c] = [NoCall EXCEPT !.phase = answer]]

-------------------------------------------------------------------------------
(* create_or_replace_config, update_config: an edit leaves last_status alone.   *)
Edited(triggers) == [config EXCEPT !.exists = TRUE, !.triggers = triggers]

EditConfig ==
    /\ \E triggers \in Triggers : config' = Edited(triggers)
    /\ UNCHANGED <<automation, caller, lostCalls>>

(* trigger_manual_run: a missing config is created with defaults first.         *)
BeginManual(c) ==
    /\ caller[c].phase = "idle"
    /\ caller' = [caller EXCEPT ![c] =
           [NoCall EXCEPT !.phase = IF config.exists THEN "deciding" ELSE "configuring"]]
    /\ UNCHANGED <<config, automation, lostCalls>>

(* The config of a business and site is unique.                                 *)
InsertDefaultConfig(c) ==
    /\ caller[c].phase = "configuring"
    /\ IF config.exists
         THEN Reply(c, "refused") /\ UNCHANGED config
         ELSE /\ \E triggers \in Triggers : config' = Edited(triggers)
              /\ caller' = [caller EXCEPT ![c].phase = "deciding"]
    /\ UNCHANGED <<automation, lostCalls>>

(* run_due_configs: a config may be enabled and due at any time.                *)
BeginScheduled(c) ==
    /\ caller[c].phase = "idle"
    /\ config.exists
    /\ caller' = [caller EXCEPT ![c] = [NoCall EXCEPT !.phase = "deciding"]]
    /\ UNCHANGED <<config, automation, lostCalls>>

\* Mutant: a run that was started already is not found.
NoQueuedRun == \A u \in AutomationRun : automation[u].status # "queued"

NoActiveRun == \A u \in AutomationRun : ~Active(u)

(* _start_run: _ensure_no_active_run, then the row is inserted.                 *)
EnsureNoActiveRun(c) ==
    /\ caller[c].phase = "deciding"
    /\ IF NoActiveRun
         THEN caller' = [caller EXCEPT ![c].phase = "starting"]
         ELSE Reply(c, "conflict")
    /\ UNCHANGED <<config, automation, lostCalls>>

QueueRun(c) ==
    /\ caller[c].phase = "starting"
    /\ \E u \in AutomationRun :
          /\ automation[u].status = "absent"
          /\ automation' = [automation EXCEPT ![u].status = "queued"]
          /\ caller' = [caller EXCEPT ![c].phase = "queued", ![c].run = u]
    /\ UNCHANGED <<config, lostCalls>>

(* _execute_run *)
StartRun(c) ==
    /\ caller[c].phase = "queued"
    /\ automation' = [automation EXCEPT ![caller[c].run].status = "running"]
    /\ caller' = [caller EXCEPT ![c].phase = "running"]
    /\ UNCHANGED <<config, lostCalls>>

(* What a step needs of the run's own earlier steps. A snapshot run is left     *)
(* queued by the call that creates it, so that nothing is ever compared.        *)
SnapshotStatus == "queued"

\* Mutant: recommendations without asking what there is to recommend from.
ProvidedAudit(steps, s) == s # "audit_summary" \/ steps["audit_run"] = "completed"

Provided(steps, s) ==
    CASE s = "audit_summary" -> steps["audit_run"] = "completed"
      [] s = "comparison_run" ->
            steps["competitor_snapshot_run"] = "completed" /\ SnapshotStatus = "completed"
      [] s = "competitor_summary" -> steps["comparison_run"] = "completed"
      [] s = "recommendation_run" ->
            steps["audit_run"] = "completed" \/ steps["comparison_run"] = "completed"
      [] s = "recommendation_narrative" -> steps["recommendation_run"] = "completed"
      [] OTHER -> TRUE

(* _run_step commits "running" or "skipped" ...  Whether the step is enabled is *)
(* read from the config as it is by then.                                       *)
RunStep(c) ==
    LET u == caller[c].run
        s == Steps[caller[c].at] IN
    /\ caller[c].phase = "running" /\ caller[c].at \in DOMAIN Steps
    /\ automation[u].steps[s] = "queued"
    /\ IF s \in config.triggers /\ Provided(automation[u].steps, s)
         THEN /\ automation' = [automation EXCEPT ![u].steps[s] = "running"]
              /\ UNCHANGED caller
         ELSE /\ automation' = [automation EXCEPT ![u].steps[s] = "skipped"]
              /\ caller' = [caller EXCEPT ![c].at = @ + 1]
    /\ UNCHANGED <<config, lostCalls>>

(* ... and how the action of the step ended.                                    *)
EndStep(c, outcome) ==
    LET u == caller[c].run
        s == Steps[caller[c].at] IN
    /\ caller[c].phase = "running" /\ caller[c].at \in DOMAIN Steps
    /\ automation[u].steps[s] = "running"
    /\ automation' = [automation EXCEPT ![u].steps[s] = outcome]
    /\ caller' = [caller EXCEPT ![c].at = @ + 1]
    /\ UNCHANGED <<config, lostCalls>>

(* _resolve_run_status *)
ResolvedStatus(steps) ==
    LET statuses == {steps[s] : s \in Step} IN
    IF "failed" \in statuses THEN "failed"
    ELSE IF "completed" \in statuses THEN "completed" ELSE "skipped"

FinishAutomation(c) ==
    LET u == caller[c].run
        status == ResolvedStatus(automation[u].steps) IN
    /\ caller[c].phase = "running" /\ caller[c].at \notin DOMAIN Steps
    /\ automation' = [automation EXCEPT ![u].status = status]
    /\ config' = [config EXCEPT !.last = status]
    /\ caller' = [caller EXCEPT ![c] = [NoCall EXCEPT !.run = u, !.phase = "ended"]]
    /\ UNCHANGED lostCalls

(* The call returns the run, or raises.                                         *)
Return(c) ==
    /\ caller[c].phase \in {"refused", "conflict", "ended"}
    /\ caller' = [caller EXCEPT ![c] = NoCall]
    /\ UNCHANGED <<config, automation, lostCalls>>

(* The process dies with the request; the run stays active.                     *)
LoseCall(c) ==
    /\ caller[c].phase # "idle"
    /\ lostCalls < MaxLostCalls
    /\ lostCalls' = lostCalls + 1
    /\ caller' = [caller EXCEPT ![c] = NoCall]
    /\ UNCHANGED <<config, automation>>

-------------------------------------------------------------------------------
BeginCall(c) == BeginManual(c) \/ BeginScheduled(c)

CallStep(c) ==
    \/ InsertDefaultConfig(c)
    \/ EnsureNoActiveRun(c)
    \/ QueueRun(c)
    \/ StartRun(c)
    \/ RunStep(c)
    \/ \E outcome \in {"completed", "failed"} : EndStep(c, outcome)
    \/ FinishAutomation(c)

AutomationNext ==
    \/ EditConfig
    \/ \E c \in Caller : BeginCall(c) \/ CallStep(c) \/ Return(c) \/ LoseCall(c)

AutomationSpec == AutomationInit /\ [][AutomationNext]_automationVars

-------------------------------------------------------------------------------
(* Whatever was enabled or disabled while it ran, a run has no output that was  *)
(* made without its input, and it failed exactly if one of its steps did.       *)
OutputsHaveInputs ==
    \A u \in AutomationRun :
        LET steps == automation[u].steps
            done == {s \in Step : steps[s] = "completed"} IN
        /\ done \cap {"audit_summary", "recommendation_run", "recommendation_narrative"} # {}
              => "audit_run" \in done
        /\ "recommendation_narrative" \in done => "recommendation_run" \in done
        /\ u \in EndedRuns =>
              /\ \A s \in Step : steps[s] \in RunEnd
              /\ automation[u].status = "failed" <=> \E s \in Step : steps[s] = "failed"

(* "one active automation run is allowed per business/site" is what a single    *)
(* caller gets; calls that overlap start one each, because the lookup and the   *)
(* insert are apart, and no more: also a run whose process died counts.         *)
ActiveRuns == {u \in AutomationRun : Active(u)}
ActiveRunsBounded == Cardinality(ActiveRuns) <= Cardinality(Caller)
===============================================================================
