----------------------------- MODULE MCServicesLive -----------------------------
(* Source captures and profile generation in one run. They share no row: from   *)
(* the initial state one of them moves and the other stays where it is. Both    *)
(* are scheduled fairly.                                                        *)
EXTENDS SourceCapture, ProfileGeneration

ServicesInit == CaptureInit /\ ProfileInit

(* Bound: requests ingest one at a time.                                        *)
OneIngest ==
    \A r, q \in Requester : requester[r].phase = "ingesting" /\ requester[q].phase = "ingesting" => r = q

(* Bound: operators edit the draft of one run only; they judge all of them.     *)
EditsOneDraft ==
    \A o \in Operator : operator[o].verdict = "edited" => operator[o].run = CHOOSE g \in Run : TRUE

ServicesNext ==
    \/ ProfileInit /\ CaptureNext /\ OneIngest' /\ UNCHANGED profileVars
    \/ CaptureInit /\ ProfileNext /\ EditsOneDraft' /\ UNCHANGED captureVars

ServicesSpec ==
    /\ ServicesInit
    /\ [][ServicesNext]_<<captureVars, profileVars>>
    /\ CaptureFairness /\ ProfileFairness
===============================================================================
