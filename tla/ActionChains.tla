------------------------------ MODULE ActionChains ------------------------------
(* Follow-up actions of an accepted recommendation: chained drafts, the action  *)
(* items they are activated into, their binding to the automation of the site   *)
(* and the executions requested through it.                                     *)
(*                                                                              *)
(* accepted       the recommendation was accepted                               *)
(* chained[d]     a draft of the recommendation; one per action type, ready for *)
(*                automation                                                    *)
(* item[i]        an action execution item                                      *)
(* chainCall[c]     what caller c does besides the automation calls of its own    *)
EXTENDS AutomationRuns

CONSTANTS Draft, Item, Unset

ASSUME ChainAssumption == Unset \notin Draft \cup Item

VARIABLES accepted, chained, item, chainCall
chainVars == <<automationVars, accepted, chained, item, chainCall>>

ChainedRow == [state: {"absent", "pending", "activated"}, item: Item \cup {Unset}]
Execution == [state: {"not_requested", "requested", "running", "succeeded", "failed"},
              run: AutomationRun \cup {NoRun}]
ItemRow == [draft: Draft \cup {Unset}, bound: BOOLEAN, execution: Execution]
ChainCall == [phase: {"idle", "chaining", "activating", "triggering", "recording"},
            draft: Draft \cup {Unset}, item: Item \cup {Unset},
            loaded: Execution \cup {Unset}, new: Execution \cup {Unset}]

NeverRun == [state |-> "not_requested", run |-> NoRun]
NoChainCall == [phase |-> "idle", draft |-> Unset, item |-> Unset, loaded |-> Unset, new |-> Unset]

ChainTypeOK ==
    /\ AutomationTypeOK
    /\ accepted \in BOOLEAN
    /\ chained \in [Draft -> ChainedRow]
    /\ item \in [Item -> ItemRow]
    /\ chainCall \in [Caller -> ChainCall]

ChainInit ==
    /\ AutomationInit
    /\ accepted = FALSE
    /\ chained = [d \in Draft |-> [state |-> "absent", item |-> Unset]]
    /\ item = [i \in Item |-> [draft |-> Unset, bound |-> FALSE, execution |-> NeverRun]]
    /\ chainCall = [c \in Caller |-> NoChainCall]

Free(c) == caller[c].phase = "idle" /\ chainCall[c].phase = "idle"
ItemsOf(d) == {i \in Item : item[i].draft = d}

-------------------------------------------------------------------------------
(* update_recommendation_workflow commits the status; only the call that made   *)
(* the transition then generates the drafts, in a second commit. Of two calls   *)
(* that both read the earlier status the second one's drafts are duplicates.    *)
Accept(c) ==
    /\ Free(c) /\ ~accepted
    /\ accepted' = TRUE
    /\ chainCall' = [chainCall EXCEPT ![c].phase = "chaining"]
    /\ UNCHANGED <<automationVars, chained, item>>

(* create_if_missing of each; an error is logged and the drafts are gone.       *)
GenerateDrafts(c) ==
    /\ chainCall[c].phase = "chaining"
    /\ chained' \in {chained, [d \in Draft |->
           IF chained[d].state = "absent" THEN [state |-> "pending", item |-> Unset]
           ELSE chained[d]]}
    /\ chainCall' = [chainCall EXCEPT ![c] = NoChainCall]
    /\ UNCHANGED <<automationVars, accepted, item>>

(* activate_chained_action_draft: no item of the draft is found ...             *)
BeginActivate(c, d) ==
    /\ Free(c)
    /\ chained[d].state = "pending" /\ ItemsOf(d) = {}
    /\ chainCall' = [chainCall EXCEPT ![c].phase = "activating", ![c].draft = d]
    /\ UNCHANGED <<automationVars, accepted, chained, item>>

(* ... and one is inserted with the draft marked in one commit. A second item   *)
(* of the draft violates the unique constraint, and the first one is taken.     *)
\* Mutant: the draft of an item is not unique.
NeverRefused(d) == FALSE

Refused(d) == ItemsOf(d) # {}

CommitActivate(c) ==
    LET d == chainCall[c].draft IN
    /\ chainCall[c].phase = "activating"
    /\ \E i \in IF Refused(d) THEN ItemsOf(d) ELSE ItemsOf(Unset) :
          /\ item' = [item EXCEPT ![i].draft = d]
          /\ chained' = [chained EXCEPT ![d] = [state |-> "activated", item |-> i]]
    /\ chainCall' = [chainCall EXCEPT ![c] = NoChainCall]
    /\ UNCHANGED <<automationVars, accepted>>

(* Both callers require that the draft of the item is activated into it.        *)
Linked(i) ==
    /\ item[i].draft # Unset
    /\ chained[item[i].draft] = [state |-> "activated", item |-> i]

(* bind_activated_action_to_automation: a site has one automation config.       *)
Bind(c, i) ==
    /\ Free(c)
    /\ Linked(i) /\ config.exists
    /\ item' = [item EXCEPT ![i].bound = TRUE]
    /\ UNCHANGED <<automationVars, accepted, chained, chainCall>>

-------------------------------------------------------------------------------
\* Mutant: the status of the run is copied.
ExecutionLike(u) == [run |-> u, state |-> automation[u].status]

(* _apply_run_state *)
ExecutionOf(u) ==
    [run |-> u,
     state |-> CASE automation[u].status = "queued" -> "requested"
                 [] automation[u].status = "running" -> "running"
                 [] automation[u].status = "failed" -> "failed"
                 [] OTHER -> "succeeded"]

(* request_bound_action_automation_execution: an active run is taken as it is,  *)
(* otherwise trigger_manual_run starts one and carries it out.                  *)
RequestExecution(c, i) ==
    /\ Free(c)
    /\ Linked(i) /\ item[i].bound
    /\ LET loaded == [NoChainCall EXCEPT !.item = i, !.loaded = item[i].execution] IN
       \/ /\ \E u \in AutomationRun :
                /\ Active(u)
                /\ chainCall' = [chainCall EXCEPT ![c] =
                       [loaded EXCEPT !.phase = "recording", !.new = ExecutionOf(u)]]
          /\ UNCHANGED automationVars
       \/ /\ NoActiveRun
          /\ chainCall' = [chainCall EXCEPT ![c] = [loaded EXCEPT !.phase = "triggering"]]
          /\ BeginManual(c)
    /\ UNCHANGED <<accepted, chained, item>>

(* The run that was started has ended. Its commits have expired the item, which *)
(* is written without having been read again.                                   *)
Triggered(c) ==
    /\ chainCall[c].phase = "triggering" /\ caller[c].phase = "ended"
    /\ Return(c)
    /\ chainCall' = [chainCall EXCEPT ![c].phase = "recording", ![c].loaded = Unset,
                                  ![c].new = ExecutionOf(caller[c].run)]
    /\ UNCHANGED <<accepted, chained, item>>

(* SEOAutomationConflictError: the run that was started meanwhile, if it still  *)
(* runs. Other errors end the request.                                          *)
TriggerRefused(c) ==
    /\ chainCall[c].phase = "triggering"
    /\ caller[c].phase \in {"conflict", "refused"}
    /\ Return(c)
    /\ \/ \E u \in AutomationRun :
             /\ Active(u) /\ caller[c].phase = "conflict"
             /\ chainCall' = [chainCall EXCEPT ![c].phase = "recording", ![c].new = ExecutionOf(u)]
       \/ /\ caller[c].phase = "conflict" => NoActiveRun
          /\ chainCall' = [chainCall EXCEPT ![c] = NoChainCall]
    /\ UNCHANGED <<accepted, chained, item>>

(* SQLAlchemy writes a column when the new value differs from the loaded one.   *)
RecordExecution(c) ==
    LET h == chainCall[c] IN
    /\ h.phase = "recording"
    /\ item' = [item EXCEPT
           ![h.item].execution.state = IF h.loaded # Unset /\ h.loaded.state = h.new.state
                                         THEN @ ELSE h.new.state,
           ![h.item].execution.run = IF h.loaded # Unset /\ h.loaded.run = h.new.run
                                       THEN @ ELSE h.new.run]
    /\ chainCall' = [chainCall EXCEPT ![c] = NoChainCall]
    /\ UNCHANGED <<automationVars, accepted, chained>>

-------------------------------------------------------------------------------
ChainStep(c) ==
    \/ Accept(c)
    \/ GenerateDrafts(c)
    \/ \E d \in Draft : BeginActivate(c, d)
    \/ CommitActivate(c)
    \/ \E i \in Item : Bind(c, i) \/ RequestExecution(c, i)
    \/ Triggered(c)
    \/ TriggerRefused(c)
    \/ RecordExecution(c)

OthersUnchanged == UNCHANGED <<accepted, chained, item>>

ChainNext ==
    \/ EditConfig /\ OthersUnchanged /\ UNCHANGED chainCall
    \/ \E c \in Caller :
          \/ ChainStep(c)
          \/ Free(c) /\ BeginCall(c) /\ OthersUnchanged /\ UNCHANGED chainCall
          \/ CallStep(c) /\ OthersUnchanged /\ UNCHANGED chainCall
          \/ /\ chainCall[c].phase # "triggering" /\ Return(c)
             /\ OthersUnchanged /\ UNCHANGED chainCall
          \/ LoseCall(c) /\ OthersUnchanged /\ chainCall' = [chainCall EXCEPT ![c] = NoChainCall]

ChainSpec == ChainInit /\ [][ChainNext]_chainVars

-------------------------------------------------------------------------------
(* Activations that race end up with one item, which the draft names; only such *)
(* an item is bound, and only a bound one has an execution, of a run that was   *)
(* really started.                                                              *)
ChainIsWhole ==
    /\ \A i, j \in Item : item[i].draft = item[j].draft /\ item[i].draft # Unset => i = j
    /\ \A d \in Draft : chained[d].state = "activated" <=> ItemsOf(d) # {}
    /\ \A i \in Item :
          /\ item[i].draft # Unset => Linked(i)
          /\ item[i].bound => item[i].draft # Unset /\ config.exists
          /\ item[i].execution # NeverRun =>
                /\ item[i].bound
                /\ item[i].execution.state # "not_requested"
                /\ automation[item[i].execution.run].status # "absent"
===============================================================================
