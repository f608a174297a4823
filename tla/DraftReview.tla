------------------------------ MODULE DraftReview ------------------------------
(***************************************************************************)
(* What the generation of competitor profiles promises to those who review *)
(* its drafts, whatever runs, reviews and cleanups overlap: a run starts   *)
(* once and reports once, be it after somebody has taken it for lost; only *)
(* a run that ended is retried; an acceptance puts the competitor in a set *)
(* that does not list it and links the draft to it for good; a cleanup     *)
(* takes rejected drafts that are linked to nothing, and runs that ended   *)
(* and have nothing left that refers to them.                              *)
(*                                                                         *)
(*   stage[g]    how far the run is                                        *)
(*   retryOf[g]  the run it retries, Nothing if none                       *)
(*   reporting   runs whose result is still to come                        *)
(*   verdict[g]  what was said last of its draft, "none" while it has none *)
(*   link[g]     the set that its draft was accepted into                  *)
(*   listed      the sets that list the competitor                         *)
(***************************************************************************)
CONSTANTS Run, CompetitorSet, Nothing

VARIABLES stage, retryOf, reporting, verdict, link, listed

reviewVars == <<stage, retryOf, reporting, verdict, link, listed>>

Init ==
    /\ stage = [g \in Run |-> "absent"]
    /\ retryOf = [g \in Run |-> Nothing]
    /\ reporting = {}
    /\ verdict = [g \in Run |-> "none"]
    /\ link = [g \in Run |-> Nothing]
    /\ listed = {}

HasDraft(g) == verdict[g] # "none"

Order(g, of) ==
    /\ stage[g] = "absent"
    /\ of # Nothing => stage[of] = "ended"
    /\ stage' = [stage EXCEPT ![g] = "queued"]
    /\ retryOf' = [retryOf EXCEPT ![g] = of]
    /\ UNCHANGED <<reporting, verdict, link, listed>>

Start(g) ==
    /\ stage[g] = "queued"
    /\ stage' = [stage EXCEPT ![g] = "running"]
    /\ reporting' = reporting \cup {g}
    /\ UNCHANGED <<retryOf, verdict, link, listed>>

(* The result comes, perhaps late, and may bring a draft.                       *)
Report(g, outcome) ==
    /\ g \in reporting
    /\ stage[g] \in {"running", "ended"}
    /\ ~HasDraft(g)
    /\ stage' = [stage EXCEPT ![g] = "ended"]
    /\ reporting' = reporting \ {g}
    /\ verdict' = [verdict EXCEPT ![g] = outcome]
    /\ UNCHANGED <<retryOf, link, listed>>

Lose(g) ==
    /\ reporting' = reporting \ {g}
    /\ UNCHANGED <<stage, retryOf, verdict, link, listed>>

(* Runs that nobody has heard of for long; their results may still come.        *)
GiveUp(late) ==
    /\ \A g \in late : stage[g] \in {"queued", "running"}
    /\ stage' = [g \in Run |-> IF g \in late THEN "ended" ELSE stage[g]]
    /\ UNCHANGED <<retryOf, reporting, verdict, link, listed>>

Judge(g, v) ==
    /\ HasDraft(g)
    /\ verdict' = [verdict EXCEPT ![g] = v]
    /\ UNCHANGED <<stage, retryOf, reporting, link, listed>>

Accept(g, s) ==
    /\ HasDraft(g)
    /\ s \notin listed
    /\ verdict' = [verdict EXCEPT ![g] = "accepted"]
    /\ link' = [link EXCEPT ![g] = s]
    /\ listed' = listed \cup {s}
    /\ UNCHANGED <<stage, retryOf, reporting>>

Rejected(g) == verdict[g] = "rejected" /\ link[g] = Nothing

Finished(g) ==
    /\ stage[g] = "ended" /\ g \notin reporting
    /\ ~HasDraft(g)
    /\ \A h \in Run : retryOf[h] # g

CleanUp(drafts, runs) ==
    /\ \A g \in drafts : Rejected(g) /\ g \notin reporting
    /\ \A g \in runs : Finished(g)
    /\ verdict' = [g \in Run |-> IF g \in drafts THEN "none" ELSE verdict[g]]
    /\ stage' = [g \in Run |-> IF g \in runs THEN "deleted" ELSE stage[g]]
    /\ retryOf' = [g \in Run |-> IF g \in runs THEN Nothing ELSE retryOf[g]]
    /\ UNCHANGED <<reporting, link, listed>>

(* A set is edited by hand, but for what a draft is linked to.                  *)
Edit(sets) ==
    /\ \A g \in Run : link[g] # Nothing => link[g] \in sets
    /\ listed' = sets
    /\ UNCHANGED <<stage, retryOf, reporting, verdict, link>>

Next ==
    \/ \E g \in Run :
          \/ \E of \in Run \cup {Nothing} : Order(g, of)
          \/ Start(g)
          \/ Lose(g)
          \/ \E outcome \in {"none", "pending"} : Report(g, outcome)
          \/ \E v \in {"edited", "rejected"} : Judge(g, v)
          \/ \E s \in CompetitorSet : Accept(g, s)
    \/ \E late \in SUBSET Run : GiveUp(late)
    \/ \E drafts, runs \in SUBSET Run : CleanUp(drafts, runs)
    \/ \E sets \in SUBSET CompetitorSet : Edit(sets)

Spec == Init /\ [][Next]_reviewVars
===============================================================================
