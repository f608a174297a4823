----------------------------- MODULE ReleaseLedger -----------------------------
(***************************************************************************)
(* What preview releases promise to an operator whose requests follow one  *)
(* another: each artifact version is released once, releases are numbered  *)
(* in the order they were made, a gate that has opened stays open unless   *)
(* it is one of the certificate's and the site has another certificate     *)
(* than the release was pinned to, or it is no longer a published one in   *)
(* the manifest; the pin is for life, and ready means all gates open.      *)
(*                                                                         *)
(*   number[a]  release number of artifact version a, 0: not released      *)
(*   open[a]    gates of the release that are open                         *)
(*   pinned[a]  its certificate, None before one is seen in the manifest   *)
(*   ready      versions whose release says that it is ready               *)
(***************************************************************************)
EXTENDS Naturals, FiniteSets

CONSTANTS Artifact, Gate, None

VARIABLES number, open, pinned, ready

ledgerVars == <<number, open, pinned, ready>>

Init ==
    /\ number = [a \in Artifact |-> 0]
    /\ open = [a \in Artifact |-> {}]
    /\ pinned = [a \in Artifact |-> None]
    /\ ready = {}

Released == {a \in Artifact : number[a] # 0}

(* A version is released once it is approved; its source may be known by then.  *)
Create(a) ==
    /\ number[a] = 0
    /\ number' = [number EXCEPT ![a] = Cardinality(Released) + 1]
    /\ \E known \in SUBSET {"source"} :
          open' = [open EXCEPT ![a] = known \cup {"draft_package", "approval"}]
    /\ UNCHANGED <<pinned, ready>>

OfCertificate == {"certificate", "verification"}

(* The release is compared with what there is evidence for by now.              *)
Review(a) ==
    LET now == open'[a]
        pin == pinned'[a] IN
    /\ number[a] # 0
    /\ open' = [open EXCEPT ![a] = now]
    /\ pinned' = [pinned EXCEPT ![a] = pin]
    /\ open[a] \ now \subseteq OfCertificate
    /\ open[a] \subseteq now \/ "certificate" \notin now
    /\ pinned[a] # None => pin = pinned[a]
    /\ now \cap OfCertificate # {} => pin # None
    /\ ready' = IF now = Gate THEN ready \cup {a} ELSE ready \ {a}
    /\ UNCHANGED number

Next == \E a \in Artifact : Create(a) \/ Review(a)

Spec == Init /\ [][Next]_ledgerVars
===============================================================================
