----------------------------- MODULE MCServicesSafe -----------------------------
(* Four services that share no row, in one run: from the initial state one of   *)
(* them moves and the others stay where they are. Their requests are the same   *)
(* processes, and rows that are interchangeable have the same names, so that    *)
(* one group of permutations serves all of them.                                *)
EXTENDS ActionChains, LeadHandling, GoogleConnection, MigrationMedia, TLC

Symmetric ==
    Permutations(Caller) \cup Permutations(AutomationRun) \cup Permutations(Upload)

(* One message, whose phone and email are those of one customer; a lead entered *)
(* by hand has only his email.                                                  *)
OnePhone == [m \in Message |-> CHOOSE p \in Phone : TRUE]
OneEmail == [m \in Message |-> CHOOSE e \in Email : TRUE]
ByHand == {[phone |-> Nil, email |-> e] : e \in Email}

(* The first key is as good as any other.                                       *)
ConnectionRests == ConnectionInit /\ activeKey = SomeKey

ServicesInit == ChainInit /\ LeadInit /\ ConnectionRests /\ MediaInit

(* Bound: the runs of the automation are many only while nothing is chained.    *)
OneRunWhenChained ==
    accepted => Cardinality({u \in AutomationRun : automation[u].status # "absent"}) <= 1

(* Bound: of two media requests at most one imports or generates a draft; the   *)
(* other one then uploads or edits.                                             *)
FewMediaRequests ==
    Cardinality({e \in Editor : editor[e].op \in {"import", "generate", "frozen"}}) <= 1

ServicesNext ==
    \/ /\ LeadInit /\ ConnectionRests /\ MediaInit
       /\ ChainNext /\ OneRunWhenChained'
       /\ UNCHANGED <<leadVars, googleVars, mediaVars>>
    \/ /\ ChainInit /\ ConnectionRests /\ MediaInit
       /\ LeadNext
       /\ UNCHANGED <<chainVars, googleVars, mediaVars>>
    \/ /\ ChainInit /\ LeadInit /\ MediaInit
       /\ ConnectionNext
       /\ UNCHANGED <<chainVars, leadVars, mediaVars>>
    \/ /\ ChainInit /\ LeadInit /\ ConnectionRests
       /\ MediaNext /\ FewMediaRequests'
       /\ UNCHANGED <<chainVars, leadVars, googleVars>>

ServicesSpec == ServicesInit /\ [][ServicesNext]_<<chainVars, leadVars, googleVars, mediaVars>>

(* The state of every service is of its type.                                   *)
ServicesTypeOK == ChainTypeOK /\ LeadTypeOK /\ ConnectionTypeOK /\ MediaTypeOK
===============================================================================
