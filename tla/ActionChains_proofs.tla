--------------------------- MODULE ActionChains_proofs ---------------------------
(***************************************************************************)
(* What TLAPS proves of AutomationRuns and of the ActionChains built on    *)
(* it, for any number of runs, requests and drafts and any sets of enabled *)
(* steps.  First the automation: its invariant ties a run to the one       *)
(* request that carries it out, says how far its steps have come, and      *)
(* counts the runs that requests are still about to insert.  Then the      *)
(* chains: every step of a chain is a step of the automation or leaves it  *)
(* alone, so that what holds of the automation holds of it here too; the   *)
(* invariant of the chains adds what the callers in flight know, which     *)
(* stays true although others write.                                       *)
(***************************************************************************)
EXTENDS ActionChains, FiniteSetTheorems, TLAPS

-----------------------------------------------------------------------------
(* Automation runs *)

Carries(c) == caller[c].phase \in {"queued", "running"}

\* The steps of a run while its request is at one of them.
Progress(steps, at) ==
    /\ \A i \in 1 .. Len(Steps) : i < at => steps[Steps[i]] \in RunEnd
    /\ \A i \in 1 .. Len(Steps) : i > at => steps[Steps[i]] = "queued"
    /\ at \in 1 .. Len(Steps) => steps[Steps[at]] \in {"queued", "running"}

\* A request carries out a run of its own, as far as the steps show.
CallsAreSound ==
    \A c \in Caller :
        /\ caller[c].phase \in {"queued", "running", "ended"} =>
              caller[c].run \in AutomationRun /\ automation[caller[c].run].status # "absent"
        /\ Carries(c) => automation[caller[c].run].status = caller[c].phase
        /\ caller[c].phase # "running" => caller[c].at = 1
        /\ caller[c].phase = "running" => Progress(automation[caller[c].run].steps, caller[c].at)
RunsHaveOneCall ==
    \A c, e \in Caller : Carries(c) /\ Carries(e) /\ caller[c].run = caller[e].run => c = e

\* Steps begin when the run does; what began had its inputs; what ended is whole.
InputsGiven(steps) ==
    \A s \in Step : steps[s] \in {"running", "completed"} => Provided(steps, s)
RunsAreSound ==
    \A u \in AutomationRun :
        /\ automation[u].status \in {"absent", "queued"} => automation[u].steps = InitialSteps
        /\ InputsGiven(automation[u].steps)
        /\ u \in EndedRuns =>
              /\ \A s \in Step : automation[u].steps[s] \in RunEnd
              /\ automation[u].status = "failed" <=>
                    \E s \in Step : automation[u].steps[s] = "failed"

\* A run that is still to be inserted was decided on when none was active.
Starting == {c \in Caller : caller[c].phase = "starting"}
StartsBounded ==
    /\ IsFiniteSet(ActiveRuns)
    /\ Cardinality(ActiveRuns) + Cardinality(Starting) <= Cardinality(Caller)

AutomationInv ==
    /\ AutomationTypeOK
    /\ CallsAreSound
    /\ RunsHaveOneCall
    /\ RunsAreSound
    /\ StartsBounded

-----------------------------------------------------------------------------
(* The table of the steps *)

LEMMA StepTable ==
    /\ Len(Steps) = 7 /\ DOMAIN Steps = 1 .. 7
    /\ \A i \in 1 .. 7 : Steps[i] \in Step
    /\ \A i, j \in 1 .. 7 : Steps[i] = Steps[j] => i = j
    /\ \A s \in Step : \E i \in 1 .. 7 : s = Steps[i]
<1>1. Len(Steps) = 7 /\ DOMAIN Steps = 1 .. 7
  BY DEF Steps
<1>2. \A i, j \in 1 .. 7 : Steps[i] = Steps[j] => i = j
  BY DEF Steps
<1> QED BY <1>1, <1>2 DEF Step

LEMMA StepNames ==
    Step = {"audit_run", "audit_summary", "competitor_snapshot_run", "comparison_run",
            "competitor_summary", "recommendation_run", "recommendation_narrative"}
<1>1. /\ Steps[1] = "audit_run" /\ Steps[2] = "audit_summary"
      /\ Steps[3] = "competitor_snapshot_run" /\ Steps[4] = "comparison_run"
      /\ Steps[5] = "competitor_summary" /\ Steps[6] = "recommendation_run"
      /\ Steps[7] = "recommendation_narrative"
  BY DEF Steps
<1>2. \A s \in Step : \E i \in 1 .. 7 : s = Steps[i]
  BY StepTable
<1>3. \A i \in 1 .. 7 : Steps[i] \in Step
  BY StepTable
<1>4. \A i \in 1 .. 7 : i = 1 \/ i = 2 \/ i = 3 \/ i = 4 \/ i = 5 \/ i = 6 \/ i = 7
  OBVIOUS
<1> HIDE DEF Step, Steps
<1> QED BY <1>1, <1>2, <1>3, <1>4

\* A step keeps its inputs as long as no completed step is taken back.
LEMMA ProvidedStays ==
    ASSUME NEW steps, NEW later, NEW s \in Step, Provided(steps, s),
           \A x \in Step : steps[x] = "completed" => later[x] = "completed"
    PROVE  Provided(later, s)
BY StepNames DEF Provided

\* Only an audit provides what recommendations are made from: the comparison
\* of a run never begins.
LEMMA InputsOfOutputs ==
    ASSUME NEW steps, InputsGiven(steps)
    PROVE  /\ steps["comparison_run"] # "completed"
           /\ steps["audit_summary"] = "completed" => steps["audit_run"] = "completed"
           /\ steps["recommendation_run"] = "completed" => steps["audit_run"] = "completed"
           /\ steps["recommendation_narrative"] = "completed" =>
                 steps["recommendation_run"] = "completed"
<1>1. steps["comparison_run"] # "completed"
  BY StepNames DEF InputsGiven, Provided, SnapshotStatus
<1> QED BY <1>1, StepNames DEF InputsGiven, Provided

LEMMA SetsOfCallers ==
    ASSUME NEW S \in SUBSET Caller
    PROVE  /\ IsFiniteSet(S) /\ Cardinality(S) \in Nat /\ Cardinality(Caller) \in Nat
           /\ Cardinality(S) <= Cardinality(Caller)
<1>1. IsFiniteSet(S) /\ Cardinality(S) <= Cardinality(Caller)
  BY FS_Subset, AutomationAssumption
<1> QED BY <1>1, FS_CardinalityType, AutomationAssumption

-----------------------------------------------------------------------------
(* Steps of a request that change no run *)

LEMMA InitAutomationInv == AutomationInit => AutomationInv
<1> SUFFICES ASSUME AutomationInit PROVE AutomationInv
  OBVIOUS
<1> USE DEF AutomationInit
<1>1. AutomationTypeOK
  BY StepTable DEF AutomationTypeOK, Config, AutomationRow, Call, InitialSteps, NoCall, StepStatus
<1>2. CallsAreSound /\ RunsHaveOneCall
  BY DEF CallsAreSound, RunsHaveOneCall, Carries, NoCall
<1>3. RunsAreSound
  BY DEF RunsAreSound, InputsGiven, InitialSteps, EndedRuns, RunEnd
<1>4. StartsBounded
  <2>1. ActiveRuns = {}
    BY DEF ActiveRuns, Active
  <2>2. Starting = {}
    BY DEF Starting, NoCall
  <2> QED BY <2>1, <2>2, FS_EmptySet, SetsOfCallers DEF StartsBounded
<1> QED BY <1>1, <1>2, <1>3, <1>4 DEF AutomationInv

\* A request that moves on without a run, and does not start one.
LEMMA CallerMoves ==
    ASSUME AutomationInv, UNCHANGED automation, config' \in Config, lostCalls' \in Nat,
           NEW c \in Caller, NEW q \in Call, caller' = [caller EXCEPT ![c] = q],
           q.phase \notin {"queued", "running", "ended"}, q.at = 1,
           q.phase = "starting" => caller[c].phase = "starting" \/ NoActiveRun
    PROVE  AutomationInv'
<1> USE DEF AutomationInv
<1>1. caller'[c] = q /\ \A v \in Caller \ {c} : caller'[v] = caller[v]
  BY DEF AutomationTypeOK
<1>2. AutomationTypeOK'
  BY DEF AutomationTypeOK
<1>3. CallsAreSound'
  BY <1>1 DEF CallsAreSound, Carries
<1>4. RunsHaveOneCall'
  BY <1>1 DEF RunsHaveOneCall, Carries
<1>5. RunsAreSound'
  BY DEF RunsAreSound, EndedRuns
<1>6. StartsBounded'
  <2>1. ActiveRuns' = ActiveRuns
    BY DEF ActiveRuns, Active
  <2>2. Starting' \in SUBSET Caller /\ Starting \in SUBSET Caller
    BY DEF Starting
  <2>3. CASE NoActiveRun
    <3>1. ActiveRuns = {}
      BY <2>3 DEF ActiveRuns, NoActiveRun
    <3> QED BY <2>1, <2>2, <3>1, FS_EmptySet, SetsOfCallers DEF StartsBounded
  <2>4. CASE ~NoActiveRun
    <3>1. Starting' \subseteq Starting
      BY <1>1, <2>4 DEF Starting
    <3>2. Cardinality(Starting') <= Cardinality(Starting)
      BY <2>2, <3>1, SetsOfCallers, FS_Subset
    <3>3. Cardinality(Starting') \in Nat /\ Cardinality(Starting) \in Nat
      BY <2>2, SetsOfCallers
    <3>4. IsFiniteSet(ActiveRuns) /\ Cardinality(ActiveRuns) \in Nat /\ Cardinality(Caller) \in Nat
      BY FS_CardinalityType, AutomationAssumption DEF StartsBounded
    <3> QED BY <2>1, <3>2, <3>3, <3>4 DEF StartsBounded
  <2> QED BY <2>3, <2>4
<1> QED BY <1>2, <1>3, <1>4, <1>5, <1>6

LEMMA ConfigMoves ==
    ASSUME AutomationInv, EditConfig
    PROVE  AutomationInv'
<1> USE DEF AutomationInv
<1>1. config' \in Config /\ UNCHANGED <<automation, caller, lostCalls>>
  BY AutomationAssumption DEF EditConfig, Edited, AutomationTypeOK, Config
<1> QED BY <1>1
    DEF AutomationTypeOK, CallsAreSound, Carries, RunsHaveOneCall, RunsAreSound, EndedRuns,
        StartsBounded, ActiveRuns, Active, Starting

-----------------------------------------------------------------------------
(* Steps of a request on a run *)

SoundRow(row) ==
    /\ row.status \in {"absent", "queued"} => row.steps = InitialSteps
    /\ InputsGiven(row.steps)
    /\ row.status \in RunEnd =>
          /\ \A s \in Step : row.steps[s] \in RunEnd
          /\ row.status = "failed" <=> \E s \in Step : row.steps[s] = "failed"

\* A request writes the row of the run that it carries out, and goes on or ends.
Writes(c, row, q) ==
    /\ Carries(c)
    /\ row \in AutomationRow /\ SoundRow(row) /\ row.status \in RunEnd \cup {"running"}
    /\ q \in Call /\ q.run = caller[c].run
    /\ \/ q.phase = "running" /\ row.status = "running" /\ Progress(row.steps, q.at)
       \/ q.phase = "ended" /\ q.at = 1 /\ row.status \in RunEnd
    /\ automation' = [automation EXCEPT ![caller[c].run] = row]
    /\ caller' = [caller EXCEPT ![c] = q]
    /\ config' \in Config /\ UNCHANGED lostCalls

LEMMA RowMoves ==
    ASSUME AutomationInv, NEW c \in Caller, NEW row, NEW q, Writes(c, row, q)
    PROVE  AutomationInv'
<1> DEFINE u == caller[c].run
<1>a. /\ Carries(c) /\ SoundRow(row) /\ q.run = u
      /\ row \in AutomationRow /\ row.status \in RunEnd \cup {"running"}
      /\ q \in Call /\ q.phase \in {"running", "ended"} /\ row.status # "absent"
      /\ q.phase = "running" => row.status = "running" /\ Progress(row.steps, q.at)
      /\ q.phase = "ended" => q.at = 1
  BY DEF Writes, RunEnd
<1>b. /\ automation' = [automation EXCEPT ![u] = row] /\ caller' = [caller EXCEPT ![c] = q]
      /\ config' \in Config /\ UNCHANGED lostCalls
  BY DEF Writes
<1> HIDE DEF u
<1> USE DEF AutomationInv
<1>0. u \in AutomationRun /\ Active(u)
  BY <1>a DEF CallsAreSound, Carries, Active, u
<1>1. /\ caller'[c] = q /\ \A v \in Caller \ {c} : caller'[v] = caller[v]
      /\ automation'[u] = row /\ \A w \in AutomationRun \ {u} : automation'[w] = automation[w]
  BY <1>0, <1>a, <1>b DEF AutomationTypeOK
<1>2. AutomationTypeOK'
  BY <1>0, <1>a, <1>b DEF AutomationTypeOK
<1>3. \A v \in Caller \ {c} : Carries(v) => caller[v].run # u
  BY <1>a DEF RunsHaveOneCall, u
<1>4. CallsAreSound'
  <2>1. ASSUME NEW v \in Caller \ {c}, caller[v].phase \in {"queued", "running"}
        PROVE  automation'[caller[v].run] = automation[caller[v].run]
    BY <1>1, <1>3, <2>1 DEF CallsAreSound, Carries
  <2>2. ASSUME NEW v \in Caller \ {c}, caller[v].phase = "ended"
        PROVE  caller[v].run \in AutomationRun /\ automation'[caller[v].run].status # "absent"
    <3>1. caller[v].run \in AutomationRun /\ automation[caller[v].run].status # "absent"
      BY <2>2 DEF CallsAreSound
    <3> QED BY <1>1, <1>a, <3>1
  <2>3. row.status # "absent"
    BY <1>a
  <2>4. ASSUME NEW v \in Caller
        PROVE  /\ caller'[v].phase \in {"queued", "running", "ended"} =>
                     caller'[v].run \in AutomationRun /\ automation'[caller'[v].run].status # "absent"
               /\ caller'[v].phase \in {"queued", "running"} =>
                     automation'[caller'[v].run].status = caller'[v].phase
               /\ caller'[v].phase # "running" => caller'[v].at = 1
               /\ caller'[v].phase = "running" =>
                     Progress(automation'[caller'[v].run].steps, caller'[v].at)
    <3>1. CASE v = c
      BY <1>0, <1>1, <1>a, <2>3, <3>1
    <3>2. CASE v # c
      <4>1. caller'[v] = caller[v]
        BY <1>1, <3>2
      <4> QED BY <2>1, <2>2, <3>2, <4>1 DEF CallsAreSound, Carries
    <3> QED BY <3>1, <3>2
  <2> QED BY <2>4 DEF CallsAreSound, Carries
<1>5. RunsHaveOneCall'
  <2> SUFFICES ASSUME NEW v \in Caller, NEW w \in Caller, Carries(v)', Carries(w)',
                      caller'[v].run = caller'[w].run
               PROVE  v = w
    BY DEF RunsHaveOneCall
  <2>1. CASE v # c /\ w # c
    BY <1>1, <2>1 DEF RunsHaveOneCall, Carries
  <2>2. CASE v = c /\ w # c
    BY <1>1, <1>3, <1>a, <2>2 DEF Carries
  <2>3. CASE v # c /\ w = c
    BY <1>1, <1>3, <1>a, <2>3 DEF Carries
  <2> QED BY <2>1, <2>2, <2>3
<1>6. RunsAreSound'
  <2>1. ASSUME NEW w \in AutomationRun
        PROVE  /\ automation'[w].status \in {"absent", "queued"} => automation'[w].steps = InitialSteps
               /\ InputsGiven(automation'[w].steps)
               /\ automation'[w].status \in RunEnd =>
                     /\ \A s \in Step : automation'[w].steps[s] \in RunEnd
                     /\ automation'[w].status = "failed" <=>
                           \E s \in Step : automation'[w].steps[s] = "failed"
    <3>1. CASE w = u
      BY <1>1, <1>a, <3>1 DEF SoundRow
    <3>2. CASE w # u
      BY <1>1, <3>2 DEF RunsAreSound, EndedRuns
    <3> QED BY <3>1, <3>2
  <2> QED BY <2>1 DEF RunsAreSound, EndedRuns, InputsGiven
<1>7. StartsBounded'
  <2>1. ActiveRuns' \subseteq ActiveRuns
    BY <1>0, <1>1 DEF ActiveRuns, Active
  <2>2. Starting' \subseteq Starting
    BY <1>1, <1>a DEF Starting
  <2>3. IsFiniteSet(ActiveRuns) /\ IsFiniteSet(Starting)
    BY SetsOfCallers DEF StartsBounded, Starting
  <2>4. /\ IsFiniteSet(ActiveRuns') /\ Cardinality(ActiveRuns') <= Cardinality(ActiveRuns)
        /\ IsFiniteSet(Starting') /\ Cardinality(Starting') <= Cardinality(Starting)
    BY <2>1, <2>2, <2>3, FS_Subset
  <2>5. /\ Cardinality(ActiveRuns') \in Nat /\ Cardinality(ActiveRuns) \in Nat
        /\ Cardinality(Starting') \in Nat /\ Cardinality(Starting) \in Nat
        /\ Cardinality(Caller) \in Nat
    BY <2>3, <2>4, FS_CardinalityType, AutomationAssumption
  <2> QED BY <2>4, <2>5 DEF StartsBounded
<1> QED BY <1>2, <1>4, <1>5, <1>6, <1>7

\* Of the requests that are to insert a run, one less; of the active runs, one more.
LEMMA RunsQueue ==
    ASSUME AutomationInv, NEW c \in Caller, QueueRun(c)
    PROVE  AutomationInv'
<1> USE DEF AutomationInv
<1>1. PICK u \in AutomationRun :
          /\ automation[u].status = "absent"
          /\ automation' = [automation EXCEPT ![u].status = "queued"]
          /\ caller' = [caller EXCEPT ![c].phase = "queued", ![c].run = u]
  BY DEF QueueRun
<1>2. caller[c].phase = "starting" /\ caller[c].at = 1 /\ UNCHANGED <<config, lostCalls>>
  BY DEF QueueRun, CallsAreSound
<1>0. /\ automation'[u] = [automation[u] EXCEPT !.status = "queued"]
      /\ caller'[c] = [caller[c] EXCEPT !.phase = "queued", !.run = u]
  BY <1>1 DEF AutomationTypeOK
<1>3. /\ \A w \in AutomationRun \ {u} : automation'[w] = automation[w]
      /\ \A v \in Caller \ {c} : caller'[v] = caller[v]
  BY <1>1 DEF AutomationTypeOK
<1>4. /\ automation'[u] \in AutomationRow /\ automation'[u].status = "queued"
      /\ automation'[u].steps = InitialSteps
  BY <1>0, <1>1 DEF AutomationTypeOK, AutomationRow, RunsAreSound
<1>5. /\ caller'[c] \in Call /\ caller'[c].phase = "queued" /\ caller'[c].run = u
      /\ caller'[c].at = 1
  BY <1>0, <1>2 DEF AutomationTypeOK, Call
<1>6. AutomationTypeOK'
  <2>1. automation' = [automation EXCEPT ![u] = automation'[u]]
        /\ caller' = [caller EXCEPT ![c] = caller'[c]]
    BY <1>0, <1>1 DEF AutomationTypeOK
  <2>2. automation' \in [AutomationRun -> AutomationRow] /\ caller' \in [Caller -> Call]
    BY <1>4, <1>5, <2>1 DEF AutomationTypeOK
  <2> QED BY <1>2, <2>2 DEF AutomationTypeOK
<1>7. \A v \in Caller : caller[v].phase \in {"queued", "running", "ended"} => caller[v].run # u
  BY <1>1 DEF CallsAreSound
<1>8. CallsAreSound'
  <2>1. ASSUME NEW v \in Caller
        PROVE  /\ caller'[v].phase \in {"queued", "running", "ended"} =>
                     caller'[v].run \in AutomationRun /\ automation'[caller'[v].run].status # "absent"
               /\ caller'[v].phase \in {"queued", "running"} =>
                     automation'[caller'[v].run].status = caller'[v].phase
               /\ caller'[v].phase # "running" => caller'[v].at = 1
               /\ caller'[v].phase = "running" =>
                     Progress(automation'[caller'[v].run].steps, caller'[v].at)
    <3>1. CASE v = c
      BY <1>4, <1>5, <3>1
    <3>2. CASE v # c
      <4>1. caller'[v] = caller[v]
        BY <1>3, <3>2
      <4>2. caller[v].phase \in {"queued", "running", "ended"} =>
                caller[v].run \in AutomationRun \ {u}
        BY <1>7 DEF CallsAreSound
      <4> QED BY <1>3, <4>1, <4>2 DEF CallsAreSound, Carries
    <3> QED BY <3>1, <3>2
  <2> QED BY <2>1 DEF CallsAreSound, Carries
<1>9. RunsHaveOneCall'
  <2> SUFFICES ASSUME NEW v \in Caller, NEW w \in Caller, Carries(v)', Carries(w)',
                      caller'[v].run = caller'[w].run
               PROVE  v = w
    BY DEF RunsHaveOneCall
  <2>1. CASE v # c /\ w # c
    BY <1>3, <2>1 DEF RunsHaveOneCall, Carries
  <2>2. CASE v = c /\ w # c
    BY <1>3, <1>5, <1>7, <2>2 DEF Carries
  <2>3. CASE v # c /\ w = c
    BY <1>3, <1>5, <1>7, <2>3 DEF Carries
  <2> QED BY <2>1, <2>2, <2>3
<1>10. RunsAreSound'
  <2>1. automation'[u].steps = automation[u].steps
    BY <1>1, <1>4 DEF RunsAreSound
  <2>2. ASSUME NEW w \in AutomationRun
        PROVE  /\ automation'[w].status \in {"absent", "queued"} => automation'[w].steps = InitialSteps
               /\ InputsGiven(automation'[w].steps)
               /\ automation'[w].status \in RunEnd =>
                     /\ \A s \in Step : automation'[w].steps[s] \in RunEnd
                     /\ automation'[w].status = "failed" <=>
                           \E s \in Step : automation'[w].steps[s] = "failed"
    <3>1. CASE w = u
      BY <1>4, <2>1, <3>1 DEF RunsAreSound, RunEnd
    <3>2. CASE w # u
      BY <1>3, <3>2 DEF RunsAreSound, EndedRuns
    <3> QED BY <3>1, <3>2
  <2> QED BY <2>2 DEF RunsAreSound, EndedRuns, InputsGiven
<1>11. StartsBounded'
  <2>1. ActiveRuns' = ActiveRuns \cup {u} /\ u \notin ActiveRuns
    BY <1>1, <1>3, <1>4 DEF ActiveRuns, Active
  <2>2. Starting' = Starting \ {c} /\ c \in Starting
    BY <1>2, <1>3, <1>5 DEF Starting
  <2>3. IsFiniteSet(ActiveRuns) /\ IsFiniteSet(Starting)
    BY SetsOfCallers DEF StartsBounded, Starting
  <2>4. /\ Cardinality(ActiveRuns') = Cardinality(ActiveRuns) + 1 /\ IsFiniteSet(ActiveRuns')
        /\ Cardinality(Starting') = Cardinality(Starting) - 1
    BY <2>1, <2>2, <2>3, FS_AddElement, FS_RemoveElement
  <2>5. /\ Cardinality(ActiveRuns) \in Nat /\ Cardinality(Starting) \in Nat
        /\ Cardinality(Caller) \in Nat
    BY <2>3, FS_CardinalityType, AutomationAssumption
  <2> QED BY <2>4, <2>5 DEF StartsBounded
<1> QED BY <1>6, <1>8, <1>9, <1>10, <1>11

LEMMA RunsStart ==
    ASSUME AutomationInv, NEW c \in Caller, StartRun(c)
    PROVE  AutomationInv'
<1> DEFINE u == caller[c].run
           row == [automation[u] EXCEPT !.status = "running"]
           q == [caller[c] EXCEPT !.phase = "running"]
<1> USE DEF AutomationInv
<1>1. /\ u \in AutomationRun /\ automation[u].status = "queued" /\ caller[c].at = 1
      /\ caller[c].phase = "queued" /\ Carries(c)
  BY DEF StartRun, CallsAreSound, Carries
<1>2. automation[u] \in AutomationRow /\ caller[c] \in Call
  BY <1>1 DEF AutomationTypeOK
<1>3. /\ row \in AutomationRow /\ row.status = "running" /\ row.steps = InitialSteps
      /\ q \in Call /\ q.phase = "running" /\ q.at = 1 /\ q.run = u
  BY <1>1, <1>2 DEF AutomationRow, Call, RunsAreSound
<1>4. automation' = [automation EXCEPT ![u] = row] /\ caller' = [caller EXCEPT ![c] = q]
      /\ UNCHANGED <<config, lostCalls>>
  BY DEF StartRun
<1>5. SoundRow(row)
  <2>1. InputsGiven(row.steps)
    BY <1>3 DEF InputsGiven, InitialSteps
  <2> QED BY <1>3, <2>1 DEF SoundRow, RunEnd
<1>6. Progress(row.steps, q.at)
  BY <1>3, StepTable DEF Progress, InitialSteps
<1>7. config' \in Config
  BY <1>4 DEF AutomationTypeOK
<1> HIDE DEF AutomationInv, row, q
<1>8. Writes(c, row, q)
  BY <1>1, <1>3, <1>4, <1>5, <1>6, <1>7 DEF Writes
<1> QED BY <1>8, RowMoves

\* One step of a run goes from one status to another.
LEMMA StepMoves ==
    ASSUME AutomationInv, NEW c \in Caller, caller[c].phase = "running",
           caller[c].at \in DOMAIN Steps, NEW s, s = Steps[caller[c].at],
           NEW old, old = automation[caller[c].run].steps[s], NEW new \in StepStatus,
           \/ (old = "queued" /\ new = "running" /\ Provided(automation[caller[c].run].steps, s))
           \/ (old = "queued" /\ new = "skipped")
           \/ (old = "running" /\ new \in {"completed", "failed"}),
           automation' = [automation EXCEPT ![caller[c].run].steps[s] = new],
           caller' = IF new = "running" THEN caller ELSE [caller EXCEPT ![c].at = @ + 1],
           UNCHANGED <<config, lostCalls>>
    PROVE  AutomationInv'
<1> DEFINE u == caller[c].run
           at == caller[c].at
           steps == automation[u].steps
           later == [steps EXCEPT ![s] = new]
           row == [automation[u] EXCEPT !.steps = later]
           q == IF new = "running" THEN caller[c] ELSE [caller[c] EXCEPT !.at = at + 1]
<1> USE DEF AutomationInv
<1>1. /\ u \in AutomationRun /\ automation[u].status = "running" /\ Carries(c)
      /\ Progress(steps, at)
  BY DEF CallsAreSound, Carries
<1>2. automation[u] \in AutomationRow /\ caller[c] \in Call /\ steps \in [Step -> StepStatus]
      /\ at \in 1 .. 7 /\ s = Steps[at] /\ s \in Step
  BY <1>1, StepTable DEF AutomationTypeOK, AutomationRow
<1>3. later \in [Step -> StepStatus] /\ later[s] = new /\ \A x \in Step \ {s} : later[x] = steps[x]
  BY <1>2
<1>4. row \in AutomationRow /\ row.status = "running" /\ row.steps = later
  BY <1>1, <1>2, <1>3 DEF AutomationRow
<1>5. /\ q \in Call /\ q.phase = "running" /\ q.run = u
      /\ q.at = IF new = "running" THEN at ELSE at + 1
  <2>1. at + 1 \in 1 .. Len(Steps) + 1
    <3>1. Len(Steps) = 7
      BY StepTable
    <3> HIDE DEF at
    <3> QED BY <1>2, <3>1
  <2>2. CASE new = "running"
    BY <1>2, <2>2 DEF Call
  <2>3. CASE new # "running"
    <3>1. q = [caller[c] EXCEPT !.at = at + 1]
      BY <2>3
    <3> QED BY <1>2, <2>1, <2>3, <3>1 DEF Call
  <2> QED BY <2>2, <2>3
<1>6. automation' = [automation EXCEPT ![u] = row] /\ caller' = [caller EXCEPT ![c] = q]
  <2>1. automation' = [automation EXCEPT ![u] = row]
    OBVIOUS
  <2>2. caller' = [caller EXCEPT ![c] = q]
    BY DEF AutomationTypeOK
  <2> QED BY <2>1, <2>2
<1>7. SoundRow(row)
  <2>1. InputsGiven(steps)
    BY <1>1 DEF RunsAreSound
  <2>2. \A x \in Step : steps[x] = "completed" => later[x] = "completed"
    BY <1>3
  <2>3. ASSUME NEW x \in Step, later[x] \in {"running", "completed"}
        PROVE  Provided(later, x)
    <3>1. Provided(steps, x)
      BY <1>2, <1>3, <2>1, <2>3 DEF InputsGiven
    <3> HIDE DEF later, steps
    <3> QED BY <2>2, <3>1, ProvidedStays
  <2>4. InputsGiven(later)
    BY <2>3 DEF InputsGiven
  <2> HIDE DEF later, row
  <2> QED BY <1>4, <2>4 DEF SoundRow, RunEnd
<1>8. Progress(row.steps, q.at)
  <2>1. \A i \in 1 .. 7 : i # at => Steps[i] \in Step \ {s}
    <3> HIDE DEF AutomationInv, u, at, steps, later, row, q
    <3>1. at \in 1 .. 7 /\ s = Steps[at]
      BY <1>2
    <3>2. \A i \in 1 .. 7 : Steps[i] \in Step /\ (Steps[i] = Steps[at] => i = at)
      BY <3>1, StepTable
    <3> QED BY <3>1, <3>2
  <2>2. \A i \in 1 .. 7 : i # at => later[Steps[i]] = steps[Steps[i]]
    BY <1>3, <2>1
  <2>3. later[Steps[at]] = new
    BY <1>2, <1>3
  <2>4. new = "running" \/ new \in RunEnd
    BY DEF RunEnd
  <2>5. at \in Int
    BY <1>2
  <2> HIDE DEF later, steps, row, q, at
  <2>6. CASE new = "running"
    BY <1>1, <1>2, <1>4, <1>5, <2>2, <2>3, <2>6, StepTable DEF Progress
  <2>7. CASE new # "running"
    BY <1>1, <1>2, <1>4, <1>5, <2>2, <2>3, <2>4, <2>5, <2>7, StepTable DEF Progress
  <2> QED BY <2>6, <2>7
<1>9. config' \in Config /\ UNCHANGED lostCalls
  BY DEF AutomationTypeOK
<1> HIDE DEF AutomationInv, row, q
<1>10. Writes(c, row, q)
  BY <1>1, <1>4, <1>5, <1>6, <1>7, <1>8, <1>9 DEF Writes
<1> QED BY <1>10, RowMoves

LEMMA RunsStep ==
    ASSUME AutomationInv, NEW c \in Caller, RunStep(c)
    PROVE  AutomationInv'
<1> DEFINE u == caller[c].run
           s == Steps[caller[c].at]
<1>1. /\ caller[c].phase = "running" /\ caller[c].at \in DOMAIN Steps
      /\ automation[u].steps[s] = "queued" /\ UNCHANGED <<config, lostCalls>>
  BY DEF RunStep
<1>2. CASE s \in config.triggers /\ Provided(automation[u].steps, s)
  <2>1. automation' = [automation EXCEPT ![u].steps[s] = "running"] /\ caller' = caller
    BY <1>2 DEF RunStep
  <2>2. "running" \in StepStatus
    BY DEF StepStatus
  <2> QED BY <1>1, <1>2, <2>1, <2>2, StepMoves
<1>3. CASE ~(s \in config.triggers /\ Provided(automation[u].steps, s))
  <2>1. /\ automation' = [automation EXCEPT ![u].steps[s] = "skipped"]
        /\ caller' = [caller EXCEPT ![c].at = @ + 1]
    BY <1>3 DEF RunStep
  <2>2. "skipped" \in StepStatus
    BY DEF StepStatus
  <2>3. caller' = IF "skipped" = "running" THEN caller ELSE [caller EXCEPT ![c].at = @ + 1]
    BY <2>1
  <2>4. PICK old, step : old = automation[u].steps[step] /\ step = s
    OBVIOUS
  <2>5. old = "queued"
    BY <1>1, <2>4
  <2> QED BY <1>1, <2>1, <2>2, <2>3, <2>4, <2>5, StepMoves
<1> QED BY <1>2, <1>3

LEMMA StepsEnd ==
    ASSUME AutomationInv, NEW c \in Caller, NEW outcome \in {"completed", "failed"},
           EndStep(c, outcome)
    PROVE  AutomationInv'
<1> DEFINE u == caller[c].run
           s == Steps[caller[c].at]
<1>1. /\ caller[c].phase = "running" /\ caller[c].at \in DOMAIN Steps
      /\ automation[u].steps[s] = "running" /\ UNCHANGED <<config, lostCalls>>
      /\ automation' = [automation EXCEPT ![u].steps[s] = outcome]
      /\ caller' = [caller EXCEPT ![c].at = @ + 1]
  BY DEF EndStep
<1>2. outcome \in StepStatus /\ outcome # "running"
  BY DEF StepStatus
<1> QED BY <1>1, <1>2, StepMoves

\* After the last step every step has ended.
LEMMA AutomationsFinish ==
    ASSUME AutomationInv, NEW c \in Caller, FinishAutomation(c)
    PROVE  AutomationInv'
<1> DEFINE u == caller[c].run
           steps == automation[u].steps
           status == ResolvedStatus(steps)
           row == [automation[u] EXCEPT !.status = status]
           q == [NoCall EXCEPT !.run = u, !.phase = "ended"]
<1> USE DEF AutomationInv
<1>1. /\ u \in AutomationRun /\ Carries(c) /\ Progress(steps, caller[c].at)
      /\ caller[c].at \notin DOMAIN Steps
  BY DEF FinishAutomation, CallsAreSound, Carries
<1>2. automation[u] \in AutomationRow /\ caller[c] \in Call /\ steps \in [Step -> StepStatus]
  BY <1>1 DEF AutomationTypeOK, AutomationRow
<1>3. caller[c].at = 8
  <2>1. caller[c].at \in 1 .. 8
    BY <1>2, StepTable DEF Call
  <2>2. caller[c].at \notin 1 .. 7
    BY <1>1, StepTable
  <2> QED BY <2>1, <2>2
<1>4. \A s \in Step : steps[s] \in RunEnd
  <2>1. \A i \in 1 .. 7 : steps[Steps[i]] \in RunEnd
    BY <1>1, <1>3, StepTable DEF Progress
  <2> HIDE DEF steps
  <2> QED BY <2>1, StepTable
<1>5. status \in RunEnd /\ (status = "failed" <=> \E s \in Step : steps[s] = "failed")
  <2> HIDE DEF steps
  <2> QED BY DEF ResolvedStatus, RunEnd
<1>6. /\ row \in AutomationRow /\ row.status = status /\ row.steps = steps
      /\ q \in Call /\ q.phase = "ended" /\ q.at = 1 /\ q.run = u
  <2>1. 1 \in 1 .. Len(Steps) + 1
    BY StepTable
  <2> HIDE DEF steps, status
  <2> QED BY <1>1, <1>2, <1>5, <2>1 DEF AutomationRow, Call, NoCall, steps
<1>7. /\ automation' = [automation EXCEPT ![u] = row] /\ caller' = [caller EXCEPT ![c] = q]
      /\ config' \in Config /\ UNCHANGED lostCalls
  <2>1. config' = [config EXCEPT !.last = status]
    BY DEF FinishAutomation
  <2>2. config' \in Config
    <3> HIDE DEF status
    <3> QED BY <1>5, <2>1 DEF AutomationTypeOK, Config
  <2> QED BY <2>2 DEF FinishAutomation
<1>8. SoundRow(row)
  <2>1. InputsGiven(steps)
    BY <1>1 DEF RunsAreSound
  <2> HIDE DEF steps, status, row
  <2> QED BY <1>4, <1>5, <1>6, <2>1 DEF SoundRow, RunEnd
<1> HIDE DEF AutomationInv, row, q, steps, status
<1>9. Writes(c, row, q)
  BY <1>1, <1>5, <1>6, <1>7, <1>8 DEF Writes
<1> QED BY <1>9, RowMoves

-----------------------------------------------------------------------------
LEMMA StepKeepsRuns ==
    ASSUME AutomationInv, [AutomationNext]_automationVars
    PROVE  AutomationInv'
<1> DEFINE Moved(c, q) == /\ q \in Call /\ q.phase \notin {"queued", "running", "ended"}
                          /\ q.at = 1
                          /\ q.phase = "starting" => caller[c].phase = "starting" \/ NoActiveRun
                          /\ caller' = [caller EXCEPT ![c] = q]
<1>1. ASSUME NEW c \in Caller, NEW q, Moved(c, q), UNCHANGED automation, config' \in Config,
             lostCalls' \in Nat
      PROVE  AutomationInv'
  BY <1>1, CallerMoves
<1>2. /\ config \in Config /\ lostCalls \in Nat /\ \A c \in Caller : caller[c] \in Call
      /\ \A c \in Caller : caller[c].phase # "running" => caller[c].at = 1
  BY DEF AutomationInv, AutomationTypeOK, CallsAreSound
<1>3. \A phase \in {"idle", "configuring", "deciding", "refused", "conflict"} :
          LET q == [NoCall EXCEPT !.phase = phase] IN
          q \in Call /\ q.phase = phase /\ q.at = 1
  BY StepTable DEF NoCall, Call
<1>4. \A c \in Caller : caller[c].phase # "running" =>
          \A phase \in {"deciding", "starting"} :
              LET q == [caller[c] EXCEPT !.phase = phase] IN
              q \in Call /\ q.phase = phase /\ q.at = 1
  BY <1>2 DEF Call
<1>5. ASSUME NEW c \in Caller, BeginCall(c) \/ EnsureNoActiveRun(c) \/ Return(c) \/ LoseCall(c)
      PROVE  AutomationInv'
  <2>1. /\ UNCHANGED automation /\ config' \in Config /\ lostCalls' \in Nat
    BY <1>2, <1>5 DEF BeginCall, BeginManual, BeginScheduled, EnsureNoActiveRun, Return, LoseCall
  <2>2. \E q : Moved(c, q)
    <3>1. CASE BeginManual(c)
      BY <1>3, <3>1 DEF BeginManual
    <3>2. CASE BeginScheduled(c)
      BY <1>3, <3>2 DEF BeginScheduled
    <3>3. CASE EnsureNoActiveRun(c)
      BY <1>3, <1>4, <3>3 DEF EnsureNoActiveRun, Reply
    <3>4. CASE Return(c) \/ LoseCall(c)
      <4>1. caller' = [caller EXCEPT ![c] = NoCall]
        BY <3>4 DEF Return, LoseCall
      <4>2. NoCall \in Call /\ NoCall.phase = "idle" /\ NoCall.at = 1
        BY StepTable DEF NoCall, Call
      <4> QED BY <4>1, <4>2
    <3> QED BY <1>5, <3>1, <3>2, <3>3, <3>4 DEF BeginCall
  <2> HIDE DEF Moved
  <2> QED BY <1>1, <2>1, <2>2
<1>6. ASSUME NEW c \in Caller, InsertDefaultConfig(c)
      PROVE  AutomationInv'
  <2>1. config' \in Config
    <3>1. CASE config.exists
      BY <1>2, <1>6, <3>1 DEF InsertDefaultConfig
    <3>2. CASE ~config.exists
      <4>1. PICK triggers \in Triggers : config' = Edited(triggers)
        BY <1>6, <3>2 DEF InsertDefaultConfig
      <4>2. triggers \in SUBSET Step
        BY AutomationAssumption
      <4> QED BY <1>2, <4>1, <4>2 DEF Edited, Config
    <3> QED BY <3>1, <3>2
  <2>2. UNCHANGED <<automation, lostCalls>>
    BY <1>6 DEF InsertDefaultConfig
  <2>3. \E q : Moved(c, q)
    BY <1>3, <1>4, <1>6 DEF InsertDefaultConfig, Reply
  <2> HIDE DEF Moved
  <2> QED BY <1>1, <1>2, <2>1, <2>2, <2>3
<1>7. CASE UNCHANGED automationVars
  BY <1>7
  DEF automationVars, AutomationInv, AutomationTypeOK, CallsAreSound, Carries, RunsHaveOneCall,
      RunsAreSound, EndedRuns, StartsBounded, ActiveRuns, Active, Starting
<1> HIDE DEF Moved
<1>8. ASSUME NEW c \in Caller, CallStep(c) PROVE AutomationInv'
  BY <1>5, <1>6, <1>8, RunsQueue, RunsStart, RunsStep, StepsEnd, AutomationsFinish DEF CallStep
<1> QED BY <1>5, <1>7, <1>8, ConfigMoves DEF AutomationNext

LEMMA AutomationInductive == AutomationSpec => []AutomationInv
<1>1. AutomationInv /\ [AutomationNext]_automationVars => AutomationInv'
  BY StepKeepsRuns
<1> QED BY <1>1, InitAutomationInv, PTL DEF AutomationSpec

-----------------------------------------------------------------------------
\* Every variable keeps its type.
THEOREM AutomationTypeCorrect == AutomationSpec => []AutomationTypeOK
<1>1. AutomationInv => AutomationTypeOK
  BY DEF AutomationInv
<1> QED BY <1>1, AutomationInductive, PTL

\* However the configuration is edited while it runs, no run has an output
\* without its input, and a run fails exactly if one of its steps does.
THEOREM OutputsAlwaysHaveInputs == AutomationSpec => []OutputsHaveInputs
<1>1. AutomationInv => OutputsHaveInputs
  <2> SUFFICES ASSUME AutomationInv, NEW u \in AutomationRun
               PROVE  LET steps == automation[u].steps
                          done == {s \in Step : steps[s] = "completed"} IN
                      /\ done \cap {"audit_summary", "recommendation_run", "recommendation_narrative"} # {}
                            => "audit_run" \in done
                      /\ "recommendation_narrative" \in done => "recommendation_run" \in done
                      /\ u \in EndedRuns =>
                            /\ \A s \in Step : steps[s] \in RunEnd
                            /\ automation[u].status = "failed" <=> \E s \in Step : steps[s] = "failed"
    BY DEF OutputsHaveInputs
  <2> DEFINE steps == automation[u].steps
  <2>1. /\ InputsGiven(steps)
        /\ u \in EndedRuns =>
              /\ \A s \in Step : steps[s] \in RunEnd
              /\ automation[u].status = "failed" <=> \E s \in Step : steps[s] = "failed"
    BY DEF AutomationInv, RunsAreSound
  <2>2. /\ steps["audit_summary"] = "completed" => steps["audit_run"] = "completed"
        /\ steps["recommendation_run"] = "completed" => steps["audit_run"] = "completed"
        /\ steps["recommendation_narrative"] = "completed" =>
              steps["recommendation_run"] = "completed"
    <3> HIDE DEF steps
    <3> QED BY <2>1, InputsOfOutputs
  <2> QED BY <2>1, <2>2, StepNames
<1> QED BY <1>1, AutomationInductive, PTL

\* Requests that overlap start one run each, and no more are ever active.
THEOREM ActiveRunsStayBounded == AutomationSpec => []ActiveRunsBounded
<1>1. AutomationInv => ActiveRunsBounded
  <2> SUFFICES ASSUME AutomationInv
               PROVE  Cardinality(ActiveRuns) <= Cardinality(Caller)
    BY DEF ActiveRunsBounded
  <2>1. Starting \in SUBSET Caller
    BY DEF Starting
  <2>2. Cardinality(Starting) \in Nat /\ Cardinality(ActiveRuns) \in Nat /\ Cardinality(Caller) \in Nat
    BY <2>1, SetsOfCallers, FS_CardinalityType DEF AutomationInv, StartsBounded
  <2> QED BY <2>2 DEF AutomationInv, StartsBounded
<1> QED BY <1>1, AutomationInductive, PTL

-----------------------------------------------------------------------------
(* Action chains *)

\* An execution names a run that was inserted.
Real(e) ==
    /\ e \in Execution /\ e.state # "not_requested"
    /\ e.run \in AutomationRun /\ automation[e.run].status # "absent"

DraftsAreWhole ==
    /\ \A i, j \in Item : item[i].draft = item[j].draft /\ item[i].draft # Unset => i = j
    /\ \A d \in Draft : chained[d].state = "activated" <=> ItemsOf(d) # {}
    /\ \A i \in Item : item[i].draft # Unset => Linked(i)
ItemsAreWhole ==
    \A i \in Item :
        /\ item[i].bound => item[i].draft # Unset /\ config.exists
        /\ item[i].execution # NeverRun => item[i].bound /\ Real(item[i].execution)

\* What a caller goes on from: if the execution that it loaded was one, so is
\* the stored one that it may leave in part.
SoundCall(h) ==
    /\ h.phase = "activating" => h.draft \in Draft
    /\ h.phase \in {"triggering", "recording"} =>
          /\ h.item \in Item /\ item[h.item].bound
          /\ h.loaded # Unset /\ h.loaded # NeverRun => item[h.item].execution # NeverRun
    /\ h.phase = "recording" => Real(h.new)
ChainCallsAreSound == \A c \in Caller : SoundCall(chainCall[c])

ChainInv ==
    /\ AutomationInv
    /\ ChainTypeOK
    /\ DraftsAreWhole
    /\ ItemsAreWhole
    /\ ChainCallsAreSound

-----------------------------------------------------------------------------
(* The automation below *)

LEMMA ChainStepIsAutomationStep ==
    [ChainNext]_chainVars => [AutomationNext]_automationVars
<1>1. ASSUME NEW c \in Caller, ChainStep(c) PROVE [AutomationNext]_automationVars
  <2>1. \/ UNCHANGED automationVars \/ BeginManual(c) \/ Return(c)
    BY <1>1 DEF ChainStep, Accept, GenerateDrafts, BeginActivate, CommitActivate, Bind,
                RequestExecution, Triggered, TriggerRefused, RecordExecution
  <2> QED BY <2>1 DEF AutomationNext, BeginCall
<1>2. CASE UNCHANGED chainVars
  BY <1>2 DEF chainVars
<1>3. ASSUME NEW c \in Caller, BeginCall(c) \/ CallStep(c) \/ Return(c) \/ LoseCall(c)
      PROVE  [AutomationNext]_automationVars
  BY <1>3 DEF AutomationNext
<1>4. CASE EditConfig
  BY <1>4 DEF AutomationNext
<1> QED BY <1>1, <1>2, <1>3, <1>4 DEF ChainNext

\* The chains implement the automation: whatever they do, its rows move by its
\* own steps only.
THEOREM ChainsRunTheAutomation == ChainSpec => AutomationSpec
<1>1. ChainInit => AutomationInit
  BY DEF ChainInit
<1>2. [ChainNext]_chainVars => [AutomationNext]_automationVars
  BY ChainStepIsAutomationStep
<1> QED BY <1>1, <1>2, PTL DEF ChainSpec, AutomationSpec

\* No run and no configuration is ever removed.
RowsRemain ==
    /\ \A u \in AutomationRun : automation[u].status # "absent" => automation'[u].status # "absent"
    /\ config.exists => config'.exists

LEMMA RowsStay ==
    ASSUME AutomationInv, [AutomationNext]_automationVars
    PROVE  RowsRemain
<1> USE DEF RowsRemain
<1>1. AutomationTypeOK /\ CallsAreSound
  BY DEF AutomationInv
<1>2. ASSUME NEW c \in Caller, NEW u \in AutomationRun, NEW row, row.status # "absent",
             automation' = [automation EXCEPT ![u] = row], config'.exists = config.exists
      PROVE  RowsRemain
  BY <1>1, <1>2 DEF AutomationTypeOK
<1>3. CASE EditConfig
  BY <1>1, <1>3 DEF EditConfig, Edited, AutomationTypeOK, Config
<1>4. ASSUME NEW c \in Caller, BeginCall(c) \/ EnsureNoActiveRun(c) \/ Return(c) \/ LoseCall(c)
      PROVE  RowsRemain
  BY <1>4 DEF BeginCall, BeginManual, BeginScheduled, EnsureNoActiveRun, Return, LoseCall
<1>5. ASSUME NEW c \in Caller, InsertDefaultConfig(c)
      PROVE  RowsRemain
  <2>1. UNCHANGED automation
    BY <1>5 DEF InsertDefaultConfig
  <2>2. config.exists => config' = config
    BY <1>5 DEF InsertDefaultConfig
  <2> QED BY <2>1, <2>2
<1>6. ASSUME NEW c \in Caller, QueueRun(c)
      PROVE  RowsRemain
  <2>1. PICK u \in AutomationRun : automation' = [automation EXCEPT ![u].status = "queued"]
    BY <1>6 DEF QueueRun
  <2>2. [automation[u] EXCEPT !.status = "queued"].status # "absent"
    BY <1>1 DEF AutomationTypeOK, AutomationRow
  <2> QED BY <1>1, <1>2, <1>6, <2>1, <2>2 DEF QueueRun
<1>7. ASSUME NEW c \in Caller,
             StartRun(c) \/ RunStep(c) \/ FinishAutomation(c)
             \/ \E outcome \in {"completed", "failed"} : EndStep(c, outcome)
      PROVE  RowsRemain
  <2> DEFINE u == caller[c].run
  <2>1. u \in AutomationRun /\ automation[u].status # "absent" /\ automation[u] \in AutomationRow
    BY <1>1, <1>7 DEF StartRun, RunStep, FinishAutomation, EndStep, CallsAreSound, AutomationTypeOK
  <2>2. config'.exists = config.exists
    BY <1>1, <1>7 DEF StartRun, RunStep, FinishAutomation, EndStep, AutomationTypeOK, Config
  <2>3. CASE StartRun(c)
    <3>1. automation' = [automation EXCEPT ![u].status = "running"]
      BY <2>3 DEF StartRun
    <3>2. [automation[u] EXCEPT !.status = "running"].status # "absent"
      BY <2>1 DEF AutomationRow
    <3> QED BY <1>2, <2>1, <2>2, <3>1, <3>2
  <2>4. CASE RunStep(c) \/ \E outcome \in {"completed", "failed"} : EndStep(c, outcome)
    <3>1. PICK s, new : automation' = [automation EXCEPT ![u].steps[s] = new]
      BY <2>4 DEF RunStep, EndStep
    <3>2. [automation[u] EXCEPT !.steps[s] = new].status # "absent"
      BY <2>1 DEF AutomationRow
    <3> QED BY <1>2, <2>1, <2>2, <3>1, <3>2
  <2>5. CASE FinishAutomation(c)
    <3>1. PICK status \in RunEnd : automation' = [automation EXCEPT ![u].status = status]
      BY <2>5 DEF FinishAutomation, ResolvedStatus, RunEnd
    <3>2. [automation[u] EXCEPT !.status = status].status # "absent"
      BY <2>1 DEF AutomationRow, RunEnd
    <3> QED BY <1>2, <2>1, <2>2, <3>1, <3>2
  <2> QED BY <1>7, <2>3, <2>4, <2>5
<1>8. CASE UNCHANGED automationVars
  BY <1>8 DEF automationVars
<1> QED BY <1>3, <1>4, <1>5, <1>6, <1>7, <1>8 DEF AutomationNext, CallStep

-----------------------------------------------------------------------------
(* The chains *)

LEMMA InitChainInv == ChainInit => ChainInv
<1> SUFFICES ASSUME ChainInit PROVE ChainInv
  OBVIOUS
<1> USE DEF ChainInit
<1>1. AutomationInv
  BY InitAutomationInv
<1>2. NeverRun \in Execution
  BY DEF NeverRun, Execution
<1>3. ChainTypeOK
  BY <1>1, <1>2 DEF ChainTypeOK, AutomationInv, ChainedRow, ItemRow, ChainCall, NoChainCall
<1>4. DraftsAreWhole /\ ItemsAreWhole
  BY ChainAssumption DEF DraftsAreWhole, ItemsAreWhole, ItemsOf
<1>5. ChainCallsAreSound
  BY DEF ChainCallsAreSound, SoundCall, NoChainCall
<1> QED BY <1>1, <1>3, <1>4, <1>5 DEF ChainInv

LEMMA RealStays ==
    ASSUME RowsRemain, NEW e, Real(e)
    PROVE  Real(e)'
BY DEF RowsRemain, Real

\* What is known of an item stays known while no item is written.
LEMMA SoundStays ==
    ASSUME RowsRemain, item' = item, NEW h, SoundCall(h)
    PROVE  SoundCall(h)'
BY RealStays DEF SoundCall

\* A caller moves on; no draft and no item is written.
LEMMA CallMoves ==
    ASSUME ChainInv, AutomationInv', RowsRemain, accepted' \in BOOLEAN, UNCHANGED <<chained, item>>,
           NEW c \in Caller, NEW q \in ChainCall, chainCall' = [chainCall EXCEPT ![c] = q],
           SoundCall(q)
    PROVE  ChainInv'
<1> USE DEF ChainInv
<1>1. ChainTypeOK'
  BY DEF ChainTypeOK, AutomationInv
<1>2. DraftsAreWhole'
  BY DEF DraftsAreWhole, ItemsOf, Linked
<1>3. ItemsAreWhole'
  BY RealStays DEF ItemsAreWhole, RowsRemain
<1>4. ChainCallsAreSound'
  <2> SUFFICES ASSUME NEW v \in Caller, NEW h, h = chainCall'[v] PROVE SoundCall(h)'
    BY DEF ChainCallsAreSound, SoundCall, Real
  <2>1. SoundCall(h)
    BY DEF ChainCallsAreSound, ChainTypeOK
  <2> QED BY <2>1, SoundStays
<1> QED BY <1>1, <1>2, <1>3, <1>4

\* Nobody moves, or a caller whose process died.
LEMMA ChainsRest ==
    ASSUME ChainInv, [AutomationNext]_automationVars, UNCHANGED <<accepted, chained, item>>,
           chainCall' = chainCall \/ \E c \in Caller : chainCall' = [chainCall EXCEPT ![c] = NoChainCall]
    PROVE  ChainInv'
<1> USE DEF ChainInv
<1>1. AutomationInv' /\ RowsRemain
  BY StepKeepsRuns, RowsStay
<1>2. accepted' \in BOOLEAN
  BY DEF ChainTypeOK
<1>3. NoChainCall \in ChainCall /\ SoundCall(NoChainCall)
  BY DEF NoChainCall, ChainCall, SoundCall
<1>4. CASE chainCall' = chainCall
  <2>1. ChainTypeOK'
    BY <1>1, <1>4 DEF ChainTypeOK, AutomationInv
  <2>2. DraftsAreWhole'
    BY DEF DraftsAreWhole, ItemsOf, Linked
  <2>3. ItemsAreWhole'
    BY <1>1, RealStays DEF ItemsAreWhole, RowsRemain
  <2>4. ChainCallsAreSound'
    <3> SUFFICES ASSUME NEW v \in Caller, NEW h, h = chainCall'[v] PROVE SoundCall(h)'
      BY DEF ChainCallsAreSound, SoundCall, Real
    <3>1. SoundCall(h)
      BY <1>4 DEF ChainCallsAreSound
    <3> QED BY <1>1, <3>1, SoundStays
  <2> QED BY <1>1, <2>1, <2>2, <2>3, <2>4
<1>5. CASE \E c \in Caller : chainCall' = [chainCall EXCEPT ![c] = NoChainCall]
  <2> HIDE DEF ChainInv
  <2> QED BY <1>1, <1>2, <1>3, <1>5, CallMoves
<1> QED BY <1>4, <1>5

LEMMA Accepted ==
    ASSUME ChainInv, NEW c \in Caller, Accept(c)
    PROVE  ChainInv'
<1> DEFINE q == [chainCall[c] EXCEPT !.phase = "chaining"]
<1>1. AutomationInv' /\ RowsRemain
  BY StepKeepsRuns, RowsStay DEF ChainInv, Accept
<1>2. chainCall[c] \in ChainCall
  BY DEF ChainInv, ChainTypeOK
<1>3. q \in ChainCall /\ q.phase = "chaining"
  BY <1>2 DEF ChainCall
<1>4. chainCall' = [chainCall EXCEPT ![c] = q] /\ accepted' \in BOOLEAN /\ UNCHANGED <<chained, item>>
  BY DEF Accept
<1> HIDE DEF q
<1>5. SoundCall(q)
  BY <1>3 DEF SoundCall
<1> QED BY <1>1, <1>3, <1>4, <1>5, CallMoves

LEMMA ActivationsBegin ==
    ASSUME ChainInv, NEW c \in Caller, NEW d \in Draft, BeginActivate(c, d)
    PROVE  ChainInv'
<1> DEFINE q == [chainCall[c] EXCEPT !.phase = "activating", !.draft = d]
<1>1. AutomationInv' /\ RowsRemain
  BY StepKeepsRuns, RowsStay DEF ChainInv, BeginActivate
<1>2. chainCall[c] \in ChainCall
  BY DEF ChainInv, ChainTypeOK
<1>3. q \in ChainCall /\ q.phase = "activating" /\ q.draft = d
  BY <1>2 DEF ChainCall
<1>4. chainCall' = [chainCall EXCEPT ![c] = q] /\ accepted' \in BOOLEAN /\ UNCHANGED <<chained, item>>
  BY DEF BeginActivate, ChainInv, ChainTypeOK
<1> HIDE DEF q
<1>5. SoundCall(q)
  BY <1>3 DEF SoundCall
<1> QED BY <1>1, <1>3, <1>4, <1>5, CallMoves

\* What the row of a run shows as the execution of an item.
LEMMA ExecutionsAreReal ==
    ASSUME AutomationInv, NEW u \in AutomationRun, automation[u].status # "absent"
    PROVE  Real(ExecutionOf(u))
<1>1. automation[u].status \in RunEnd \cup {"queued", "running"}
  BY DEF AutomationInv, AutomationTypeOK, AutomationRow
<1> QED BY <1>1 DEF Real, ExecutionOf, Execution, RunEnd

LEMMA ExecutionsAreRequested ==
    ASSUME ChainInv, NEW c \in Caller, NEW i \in Item, RequestExecution(c, i)
    PROVE  ChainInv'
<1> DEFINE loaded == [NoChainCall EXCEPT !.item = i, !.loaded = item[i].execution]
<1> USE DEF ChainInv
<1>1. [AutomationNext]_automationVars
  BY DEF RequestExecution, AutomationNext, BeginCall
<1>2. AutomationInv' /\ RowsRemain
  BY <1>1, StepKeepsRuns, RowsStay
<1>3. item[i] \in ItemRow /\ item[i].bound
  BY DEF ChainTypeOK, RequestExecution
<1>4. /\ loaded \in ChainCall /\ loaded.item = i /\ loaded.loaded = item[i].execution
  BY <1>3 DEF ChainCall, NoChainCall, ItemRow
<1>5. accepted' \in BOOLEAN /\ UNCHANGED <<chained, item>>
  BY DEF RequestExecution, ChainTypeOK
<1>6. \/ /\ \E u \in AutomationRun :
               /\ Active(u)
               /\ chainCall' = [chainCall EXCEPT ![c] =
                      [loaded EXCEPT !.phase = "recording", !.new = ExecutionOf(u)]]
      \/ chainCall' = [chainCall EXCEPT ![c] = [loaded EXCEPT !.phase = "triggering"]]
  BY DEF RequestExecution
<1> HIDE DEF loaded
<1>7. ASSUME NEW u \in AutomationRun, Active(u),
             chainCall' = [chainCall EXCEPT ![c] =
                 [loaded EXCEPT !.phase = "recording", !.new = ExecutionOf(u)]]
      PROVE  ChainInv'
  <2> DEFINE q == [loaded EXCEPT !.phase = "recording", !.new = ExecutionOf(u)]
  <2>1. Real(ExecutionOf(u))
    BY <1>7, ExecutionsAreReal DEF Active
  <2>2. /\ q \in ChainCall /\ q.phase = "recording" /\ q.new = ExecutionOf(u) /\ q.item = i
        /\ q.loaded = item[i].execution
    BY <1>4, <2>1 DEF ChainCall, Real
  <2>3. chainCall' = [chainCall EXCEPT ![c] = q]
    BY <1>7
  <2> HIDE DEF q, ChainInv
  <2>4. SoundCall(q)
    BY <1>3, <2>1, <2>2 DEF SoundCall
  <2> QED BY <1>2, <1>5, <2>2, <2>3, <2>4, CallMoves
<1>8. CASE chainCall' = [chainCall EXCEPT ![c] = [loaded EXCEPT !.phase = "triggering"]]
  <2> DEFINE q == [loaded EXCEPT !.phase = "triggering"]
  <2>1. /\ q \in ChainCall /\ q.phase = "triggering" /\ q.item = i
        /\ q.loaded = item[i].execution
    BY <1>4 DEF ChainCall
  <2>2. chainCall' = [chainCall EXCEPT ![c] = q]
    BY <1>8
  <2> HIDE DEF q, ChainInv
  <2>3. SoundCall(q)
    BY <1>3, <2>1 DEF SoundCall
  <2> QED BY <1>2, <1>5, <2>1, <2>2, <2>3, CallMoves
<1> QED BY <1>6, <1>7, <1>8

\* The call that started a run, or was refused one, has returned.
LEMMA ExecutionsReturn ==
    ASSUME ChainInv, NEW c \in Caller, Triggered(c) \/ TriggerRefused(c)
    PROVE  ChainInv'
<1> DEFINE h == chainCall[c]
<1> USE DEF ChainInv
<1>1. [AutomationNext]_automationVars
  BY DEF Triggered, TriggerRefused, AutomationNext
<1>2. AutomationInv' /\ RowsRemain
  BY <1>1, StepKeepsRuns, RowsStay
<1>3. accepted' \in BOOLEAN /\ UNCHANGED <<chained, item>>
  BY DEF Triggered, TriggerRefused, ChainTypeOK
<1>4. h \in ChainCall /\ SoundCall(h) /\ h.phase = "triggering"
  BY DEF ChainTypeOK, ChainCallsAreSound, Triggered, TriggerRefused
<1>5. ASSUME NEW u \in AutomationRun, automation[u].status # "absent", NEW before \in {h.loaded, Unset},
             chainCall' = [chainCall EXCEPT ![c] =
                 [h EXCEPT !.phase = "recording", !.loaded = before, !.new = ExecutionOf(u)]]
      PROVE  ChainInv'
  <2> DEFINE q == [h EXCEPT !.phase = "recording", !.loaded = before, !.new = ExecutionOf(u)]
  <2> HIDE DEF h
  <2>1. Real(ExecutionOf(u))
    BY <1>5, ExecutionsAreReal
  <2>2. /\ q \in ChainCall /\ q.phase = "recording" /\ q.new = ExecutionOf(u) /\ q.item = h.item
        /\ q.loaded = before
    BY <1>4, <2>1 DEF ChainCall, Real
  <2>3. chainCall' = [chainCall EXCEPT ![c] = q]
    BY <1>5
  <2> HIDE DEF q, ChainInv
  <2>4. SoundCall(q)
    BY <1>4, <2>1, <2>2 DEF SoundCall
  <2> QED BY <1>2, <1>3, <2>2, <2>3, <2>4, CallMoves
<1>6. CASE Triggered(c)
  <2>1. caller[c].run \in AutomationRun /\ automation[caller[c].run].status # "absent"
    BY <1>6 DEF Triggered, AutomationInv, CallsAreSound
  <2>2. chainCall' = [chainCall EXCEPT ![c] =
            [h EXCEPT !.phase = "recording", !.loaded = Unset, !.new = ExecutionOf(caller[c].run)]]
    BY <1>6 DEF Triggered
  <2> HIDE DEF h, ChainInv
  <2> QED BY <1>5, <2>1, <2>2
<1>7. CASE TriggerRefused(c)
  <2>1. CASE chainCall' = [chainCall EXCEPT ![c] = NoChainCall]
    BY <1>1, <1>3, <2>1, <1>7, ChainsRest DEF TriggerRefused
  <2>2. CASE \E u \in AutomationRun :
                 /\ Active(u)
                 /\ chainCall' = [chainCall EXCEPT ![c].phase = "recording", ![c].new = ExecutionOf(u)]
    <3>1. PICK u \in AutomationRun :
              /\ Active(u)
              /\ chainCall' = [chainCall EXCEPT ![c].phase = "recording", ![c].new = ExecutionOf(u)]
      BY <2>2
    <3>2. chainCall' = [chainCall EXCEPT ![c] = [h EXCEPT !.phase = "recording", !.new = ExecutionOf(u)]]
      BY <3>1
    <3>3. [h EXCEPT !.phase = "recording", !.new = ExecutionOf(u)]
             = [h EXCEPT !.phase = "recording", !.loaded = h.loaded, !.new = ExecutionOf(u)]
      BY <1>4 DEF ChainCall
    <3>4. automation[u].status # "absent"
      BY <3>1 DEF Active
    <3> HIDE DEF h, ChainInv
    <3> QED BY <1>5, <3>2, <3>3, <3>4
  <2> QED BY <1>7, <2>1, <2>2 DEF TriggerRefused
<1> QED BY <1>6, <1>7

-----------------------------------------------------------------------------
(* Rows of the chains *)

\* Drafts that were absent get pending; no item is of one of them.
LEMMA DraftsAreGenerated ==
    ASSUME ChainInv, NEW c \in Caller, GenerateDrafts(c)
    PROVE  ChainInv'
<1> USE DEF ChainInv
<1>1. /\ UNCHANGED <<automationVars, accepted, item>>
      /\ chainCall' = [chainCall EXCEPT ![c] = NoChainCall]
      /\ \/ chained' = chained
         \/ chained' = [d \in Draft |->
                IF chained[d].state = "absent" THEN [state |-> "pending", item |-> Unset]
                ELSE chained[d]]
  BY DEF GenerateDrafts
<1>2. AutomationInv' /\ RowsRemain
  BY <1>1, StepKeepsRuns, RowsStay
<1>3. CASE chained' = chained
  <2> HIDE DEF ChainInv
  <2> QED BY <1>1, <1>3, ChainsRest
<1>4. CASE chained' = [d \in Draft |->
               IF chained[d].state = "absent" THEN [state |-> "pending", item |-> Unset]
               ELSE chained[d]]
  <2>1. ChainTypeOK'
    <3>1. chained' \in [Draft -> ChainedRow]
      BY <1>4 DEF ChainTypeOK, ChainedRow
    <3>2. NoChainCall \in ChainCall
      BY DEF NoChainCall, ChainCall
    <3> QED BY <1>1, <1>2, <3>1, <3>2 DEF ChainTypeOK, AutomationInv
  <2>2. DraftsAreWhole'
    <3>1. \A d \in Draft : (chained'[d].state = "activated" <=> chained[d].state = "activated")
                          /\ (chained[d].state = "activated" => chained'[d] = chained[d])
      BY <1>4
    <3>2. \A i \in Item : item[i].draft # Unset => item[i].draft \in Draft
      BY DEF ChainTypeOK, ItemRow
    <3> QED BY <1>1, <3>1, <3>2 DEF DraftsAreWhole, ItemsOf, Linked
  <2>3. ItemsAreWhole'
    BY <1>1, <1>2, RealStays DEF ItemsAreWhole, RowsRemain
  <2>4. ChainCallsAreSound'
    <3> SUFFICES ASSUME NEW v \in Caller, NEW h, h = chainCall'[v] PROVE SoundCall(h)'
      BY DEF ChainCallsAreSound, SoundCall, Real
    <3>1. SoundCall(NoChainCall)
      BY DEF SoundCall, NoChainCall
    <3>2. SoundCall(h)
      BY <1>1, <3>1 DEF ChainCallsAreSound, ChainTypeOK
    <3> QED BY <1>1, <1>2, <3>2, SoundStays
  <2> QED BY <1>2, <2>1, <2>2, <2>3, <2>4
<1> QED BY <1>1, <1>3, <1>4

\* What a caller knows of an item survives a write that unbinds no item and
\* takes back no execution.
LEMMA CallsSurvive ==
    ASSUME ChainInv, RowsRemain, NEW c \in Caller, NEW q \in ChainCall, SoundCall(q),
           chainCall' = [chainCall EXCEPT ![c] = q],
           \A i \in Item : item[i].bound => item'[i].bound,
           \A i \in Item : item[i].execution # NeverRun => item'[i].execution # NeverRun
    PROVE  ChainCallsAreSound'
<1> SUFFICES ASSUME NEW v \in Caller, NEW h, h = chainCall'[v] PROVE SoundCall(h)'
  BY DEF ChainCallsAreSound, SoundCall, Real
<1>1. SoundCall(h)
  BY DEF ChainInv, ChainCallsAreSound, ChainTypeOK
<1> QED BY <1>1, RealStays DEF SoundCall

LEMMA ActivationsCommit ==
    ASSUME ChainInv, NEW c \in Caller, CommitActivate(c)
    PROVE  ChainInv'
<1> DEFINE d == chainCall[c].draft
<1> USE DEF ChainInv
<1>1. PICK i \in Item :
          /\ IF Refused(d) THEN item[i].draft = d ELSE item[i].draft = Unset
          /\ item' = [item EXCEPT ![i].draft = d]
          /\ chained' = [chained EXCEPT ![d] = [state |-> "activated", item |-> i]]
  BY DEF CommitActivate, ItemsOf
<1>2. /\ UNCHANGED <<automationVars, accepted>> /\ d \in Draft /\ d # Unset
      /\ chainCall' = [chainCall EXCEPT ![c] = NoChainCall]
  BY ChainAssumption DEF CommitActivate, ChainCallsAreSound, SoundCall
<1>3. AutomationInv' /\ RowsRemain
  BY <1>2, StepKeepsRuns, RowsStay
<1>4. item[i] \in ItemRow
  BY DEF ChainTypeOK
<1>5. /\ item'[i] \in ItemRow /\ item'[i].draft = d /\ item'[i].execution = item[i].execution
      /\ \A j \in Item \ {i} : item'[j] = item[j]
  BY <1>1, <1>2, <1>4 DEF ChainTypeOK, ItemRow
<1>6. item'[i].bound = item[i].bound
  BY <1>1, <1>4 DEF ChainTypeOK, ItemRow
<1>7. /\ chained'[d] = [state |-> "activated", item |-> i]
      /\ \A e \in Draft \ {d} : chained'[e] = chained[e]
  BY <1>1, <1>2 DEF ChainTypeOK
<1>8. \A j \in Item \ {i} : item[j].draft # d
  <2>1. CASE Refused(d)
    BY <1>1, <1>2, <2>1 DEF DraftsAreWhole
  <2>2. CASE ~Refused(d)
    BY <2>2 DEF Refused, ItemsOf
  <2> QED BY <2>1, <2>2
<1> HIDE DEF d
<1>9. ChainTypeOK'
  <2>1. item' \in [Item -> ItemRow]
    <3>1. item' = [item EXCEPT ![i] = item'[i]]
      BY <1>1, <1>5 DEF ChainTypeOK
    <3> QED BY <1>5, <3>1 DEF ChainTypeOK
  <2>2. chained' \in [Draft -> ChainedRow]
    BY <1>1, <1>2 DEF ChainTypeOK, ChainedRow
  <2>3. NoChainCall \in ChainCall
    BY DEF NoChainCall, ChainCall
  <2> QED BY <1>2, <1>3, <2>1, <2>2, <2>3 DEF ChainTypeOK, AutomationInv
<1>10. DraftsAreWhole'
  <2>1. \A j, k \in Item : item'[j].draft = item'[k].draft /\ item'[j].draft # Unset => j = k
    BY <1>5, <1>8 DEF DraftsAreWhole
  <2>2. ASSUME NEW e \in Draft PROVE chained'[e].state = "activated" <=> ItemsOf(e)' # {}
    <3>1. CASE e = d
      BY <1>5, <1>7, <3>1 DEF ItemsOf
    <3>2. CASE e # d
      <4>1. e # Unset
        BY ChainAssumption
      <4>2. item[i].draft # e /\ item'[i].draft # e
        BY <1>1, <1>5, <3>2, <4>1
      <4>3. \A j \in Item : item'[j].draft = e <=> item[j].draft = e
        BY <1>5, <4>2
      <4>4. ItemsOf(e)' = ItemsOf(e)
        BY <4>3 DEF ItemsOf
      <4> QED BY <1>7, <3>2, <4>4 DEF DraftsAreWhole
    <3> QED BY <3>1, <3>2
  <2>3. ASSUME NEW j \in Item, item'[j].draft # Unset PROVE Linked(j)'
    <3>1. CASE j = i
      BY <1>2, <1>5, <1>7, <3>1 DEF Linked
    <3>2. CASE j # i
      <4>1. item'[j] = item[j] /\ Linked(j)
        BY <1>5, <2>3, <3>2 DEF DraftsAreWhole
      <4>2. item[j].draft \in Draft \ {d}
        BY <1>8, <3>2, <4>1 DEF Linked, ChainTypeOK, ItemRow
      <4> QED BY <1>7, <4>1, <4>2 DEF Linked
    <3> QED BY <3>1, <3>2
  <2> QED BY <2>1, <2>2, <2>3 DEF DraftsAreWhole
<1>11. ItemsAreWhole'
  <2> SUFFICES ASSUME NEW j \in Item
               PROVE  /\ item'[j].bound => item'[j].draft # Unset /\ config'.exists
                      /\ item'[j].execution # NeverRun => item'[j].bound /\ Real(item[j].execution)'
    BY DEF ItemsAreWhole, Real
  <2>1. /\ item[j].bound => item[j].draft # Unset /\ config.exists
        /\ item[j].execution # NeverRun => item[j].bound /\ Real(item[j].execution)
    BY DEF ItemsAreWhole
  <2>2. /\ item'[j].execution = item[j].execution /\ (item[j].bound <=> item'[j].bound)
        /\ item[j].draft # Unset => item'[j].draft # Unset
    BY <1>2, <1>5, <1>6
  <2>3. config.exists => config'.exists
    BY <1>3 DEF RowsRemain
  <2>4. Real(item[j].execution) => Real(item[j].execution)'
    BY <1>3, <2>2 DEF Real, RowsRemain
  <2> QED BY <2>1, <2>2, <2>3, <2>4
<1>12. ChainCallsAreSound'
  <2>1. NoChainCall \in ChainCall /\ SoundCall(NoChainCall)
    BY DEF NoChainCall, ChainCall, SoundCall
  <2>2. \A j \in Item : (item[j].bound => item'[j].bound) /\ item'[j].execution = item[j].execution
    BY <1>5, <1>6
  <2> HIDE DEF ChainInv
  <2> QED BY <1>2, <1>3, <2>1, <2>2, CallsSurvive
<1> QED BY <1>3, <1>9, <1>10, <1>11, <1>12

\* An item is bound, or its execution recorded; its draft stays.
LEMMA ItemsMove ==
    ASSUME ChainInv, AutomationInv', RowsRemain, UNCHANGED <<accepted, chained>>,
           NEW i \in Item, NEW row \in ItemRow, item' = [item EXCEPT ![i] = row],
           row.draft = item[i].draft, row.bound => row.draft # Unset /\ config.exists,
           row.execution # NeverRun => row.bound /\ Real(row.execution),
           item[i].bound => row.bound, item[i].execution # NeverRun => row.execution # NeverRun,
           NEW c \in Caller, NEW q \in ChainCall, SoundCall(q), chainCall' = [chainCall EXCEPT ![c] = q]
    PROVE  ChainInv'
<1> USE DEF ChainInv
<1>1. item'[i] = row /\ \A j \in Item \ {i} : item'[j] = item[j]
  BY DEF ChainTypeOK
<1>2. ChainTypeOK'
  BY DEF ChainTypeOK, AutomationInv
<1>3. DraftsAreWhole'
  <2>1. \A j \in Item : item'[j].draft = item[j].draft
    BY <1>1
  <2> QED BY <2>1 DEF DraftsAreWhole, ItemsOf, Linked
<1>4. ItemsAreWhole'
  <2> SUFFICES ASSUME NEW j \in Item, NEW e, e = item'[j].execution
               PROVE  /\ item'[j].bound => item'[j].draft # Unset /\ config'.exists
                      /\ e # NeverRun => item'[j].bound /\ Real(e)'
    BY DEF ItemsAreWhole, Real
  <2>1. config.exists => config'.exists
    BY DEF RowsRemain
  <2>2. Real(e) => Real(e)'
    BY RealStays
  <2>3. CASE j = i
    BY <1>1, <2>1, <2>2, <2>3
  <2>4. CASE j # i
    BY <1>1, <2>1, <2>2, <2>4 DEF ItemsAreWhole
  <2> QED BY <2>3, <2>4
<1>5. ChainCallsAreSound'
  <2>1. /\ \A j \in Item : item[j].bound => item'[j].bound
        /\ \A j \in Item : item[j].execution # NeverRun => item'[j].execution # NeverRun
    BY <1>1
  <2> HIDE DEF ChainInv
  <2> QED BY <2>1, CallsSurvive
<1> QED BY <1>2, <1>3, <1>4, <1>5

LEMMA ItemsAreBound ==
    ASSUME ChainInv, NEW c \in Caller, NEW i \in Item, Bind(c, i)
    PROVE  ChainInv'
<1> DEFINE row == [item[i] EXCEPT !.bound = TRUE]
<1> USE DEF ChainInv
<1>1. AutomationInv' /\ RowsRemain
  BY StepKeepsRuns, RowsStay DEF Bind
<1>2. item[i] \in ItemRow /\ item[i].draft # Unset /\ config.exists
  BY DEF ChainTypeOK, Bind, Linked
<1>3. row \in ItemRow /\ row.draft = item[i].draft /\ row.execution = item[i].execution
  BY <1>2 DEF ItemRow
<1>4. row.bound
  BY <1>2 DEF ItemRow
<1>5. item' = [item EXCEPT ![i] = row] /\ UNCHANGED <<accepted, chained, chainCall>>
  BY DEF Bind
<1>6. /\ chainCall[c] \in ChainCall /\ SoundCall(chainCall[c])
      /\ chainCall' = [chainCall EXCEPT ![c] = chainCall[c]]
  BY <1>5 DEF ChainTypeOK, ChainCallsAreSound
<1>7. row.execution # NeverRun => row.bound /\ Real(row.execution)
  BY <1>3, <1>4 DEF ItemsAreWhole
<1> HIDE DEF row, ChainInv
<1> QED BY <1>1, <1>2, <1>3, <1>4, <1>5, <1>6, <1>7, ItemsMove

\* Two requests may leave an item with the state of one run and the name of
\* another one, but both are of runs that were started.
LEMMA ExecutionsAreRecorded ==
    ASSUME ChainInv, NEW c \in Caller, RecordExecution(c)
    PROVE  ChainInv'
<1> DEFINE h == chainCall[c]
           i == h.item
           old == item[i].execution
           state == IF h.loaded # Unset /\ h.loaded.state = h.new.state THEN old.state ELSE h.new.state
           run == IF h.loaded # Unset /\ h.loaded.run = h.new.run THEN old.run ELSE h.new.run
           new == [old EXCEPT !.state = state, !.run = run]
           row == [item[i] EXCEPT !.execution = new]
<1> USE DEF ChainInv
<1>1. AutomationInv' /\ RowsRemain
  BY StepKeepsRuns, RowsStay DEF RecordExecution
<1>2. /\ h \in ChainCall /\ i \in Item /\ item[i].bound /\ Real(h.new)
      /\ h.loaded # Unset /\ h.loaded # NeverRun => old # NeverRun
  BY DEF RecordExecution, ChainTypeOK, ChainCallsAreSound, SoundCall
<1>3. item[i] \in ItemRow /\ old \in Execution
  BY <1>2 DEF ChainTypeOK, ItemRow
<1>4. /\ item' = [item EXCEPT ![i] = row] /\ UNCHANGED <<accepted, chained>>
      /\ chainCall' = [chainCall EXCEPT ![c] = NoChainCall]
  BY DEF RecordExecution
<1>5. old # NeverRun => Real(old)
  BY <1>2 DEF ItemsAreWhole
<1>6. h.loaded = NeverRun /\ h.loaded # Unset => state = h.new.state /\ run = h.new.run
  <2>1. h.new.state # "not_requested" /\ h.new.run # NoRun
    BY <1>2, AutomationAssumption DEF Real
  <2> HIDE DEF h
  <2> QED BY <2>1 DEF NeverRun
<1>7. /\ state \in {"requested", "running", "succeeded", "failed"}
      /\ run \in AutomationRun /\ automation[run].status # "absent"
  <2>1. Real(h.new)
    BY <1>2
  <2> HIDE DEF h
  <2>2. CASE h.loaded = Unset
    BY <2>1, <2>2 DEF Real, Execution
  <2>3. CASE h.loaded # Unset /\ h.loaded = NeverRun
    <3>1. state = h.new.state /\ run = h.new.run
      BY <1>6, <2>3
    <3> HIDE DEF state, run
    <3> QED BY <2>1, <3>1 DEF Real, Execution
  <2>4. CASE h.loaded # Unset /\ h.loaded # NeverRun
    <3>1. Real(old)
      BY <1>2, <1>5, <2>4
    <3> HIDE DEF old
    <3> QED BY <2>1, <3>1 DEF Real, Execution
  <2> QED BY <2>2, <2>3, <2>4
<1>8. new \in Execution /\ Real(new) /\ new # NeverRun
  <2> HIDE DEF state, run, old
  <2>1. new \in Execution /\ new.state = state /\ new.run = run
    BY <1>3, <1>7 DEF Execution
  <2> HIDE DEF new
  <2> QED BY <1>7, <2>1 DEF Real, NeverRun
<1> HIDE DEF new
<1>9. /\ row \in ItemRow /\ row.draft = item[i].draft /\ row.execution = new
      /\ item[i].draft # Unset /\ config.exists
  BY <1>2, <1>3, <1>8 DEF ItemRow, ItemsAreWhole
<1>10. row.bound
  BY <1>2, <1>3 DEF ItemRow
<1>11. NoChainCall \in ChainCall /\ SoundCall(NoChainCall)
  BY DEF NoChainCall, ChainCall, SoundCall
<1> HIDE DEF row, i, h, old, ChainInv
<1> QED BY <1>1, <1>2, <1>4, <1>8, <1>9, <1>10, <1>11, ItemsMove

LEMMA StepKeepsChains ==
    ASSUME ChainInv, [ChainNext]_chainVars
    PROVE  ChainInv'
<1>1. [AutomationNext]_automationVars
  BY ChainStepIsAutomationStep
<1>2. ASSUME NEW c \in Caller, ChainStep(c) PROVE ChainInv'
  BY <1>2, Accepted, DraftsAreGenerated, ActivationsBegin, ActivationsCommit, ItemsAreBound,
     ExecutionsAreRequested, ExecutionsReturn, ExecutionsAreRecorded DEF ChainStep
<1>3. CASE OthersUnchanged /\ (UNCHANGED chainCall \/ \E c \in Caller :
                                   chainCall' = [chainCall EXCEPT ![c] = NoChainCall])
  BY <1>1, <1>3, ChainsRest DEF OthersUnchanged
<1>4. CASE UNCHANGED chainVars
  BY <1>1, <1>4, ChainsRest DEF chainVars
<1> QED BY <1>2, <1>3, <1>4 DEF ChainNext

LEMMA ChainInductive == ChainSpec => []ChainInv
<1>1. ChainInv /\ [ChainNext]_chainVars => ChainInv'
  BY StepKeepsChains
<1> QED BY <1>1, InitChainInv, PTL DEF ChainSpec

-----------------------------------------------------------------------------
\* Every variable of the automation and of the chains keeps its type.
THEOREM ChainTypeCorrect == ChainSpec => []ChainTypeOK
<1>1. ChainInv => ChainTypeOK
  BY DEF ChainInv
<1> QED BY <1>1, ChainInductive, PTL

\* Drafts, items, bindings and executions stay linked, whatever races.
THEOREM ChainStaysWhole == ChainSpec => []ChainIsWhole
<1>1. ChainInv => ChainIsWhole
  BY DEF ChainInv, ChainIsWhole, DraftsAreWhole, ItemsAreWhole, Real
<1> QED BY <1>1, ChainInductive, PTL
=============================================================================
