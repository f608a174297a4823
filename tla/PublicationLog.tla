---------------------------- MODULE PublicationLog ----------------------------
(***************************************************************************)
(* What publishing promises of a workspace whose versions go to one        *)
(* branch, however many calls overlap, fail or are lost on the way: the    *)
(* branch is a log that is only appended to; a commit brings the files of  *)
(* one approved version or the certificate of the manifest, and keeps the  *)
(* other; a version has on record a commit with its own files; one that    *)
(* was called published, or is pointed at, is not withdrawn; a deployment  *)
(* is recorded after a rollout of the version's files, or of later ones,   *)
(* was asked for, and nothing else goes live.                              *)
(*                                                                         *)
(*   approved, withdrawn  versions that ever were                          *)
(*   log                  commits, oldest first                            *)
(*   commitOf[a]          commit on record of the version, 0 if none       *)
(*   status[a]            what its row says of the publication             *)
(*   lastPublished,                                                        *)
(*   lastDeployed         versions the workspace points at, None if none   *)
(*   dispatched, live     commits asked to be rolled out, and the one that *)
(*                        was, 0 before                                    *)
(***************************************************************************)
EXTENDS Naturals, Sequences

CONSTANTS Artifact, Cert, None

VARIABLES approved, withdrawn, log, commitOf, status, lastPublished, lastDeployed,
          dispatched, live

pointers == <<lastPublished, lastDeployed>>
rows == <<approved, withdrawn, commitOf, status, pointers>>
logVars == <<rows, log, dispatched, live>>

Init ==
    /\ approved = {} /\ withdrawn = {}
    /\ log = <<[files |-> None, cert |-> None]>>
    /\ commitOf = [a \in Artifact |-> 0]
    /\ status = [a \in Artifact |-> "not_published"]
    /\ lastPublished = None /\ lastDeployed = None
    /\ dispatched = {}
    /\ live = 0

Approve(a) ==
    /\ a \notin approved \cup withdrawn
    /\ approved' = approved \cup {a}
    /\ UNCHANGED <<withdrawn, commitOf, status, pointers, log, dispatched, live>>

Withdraw(a) ==
    /\ status[a] # "published"
    /\ a \notin {lastPublished, lastDeployed}
    /\ withdrawn' = withdrawn \cup {a}
    /\ UNCHANGED <<approved, commitOf, status, pointers, log, dispatched, live>>

(* A row may be told the outcome, unless it is gone.                           *)
MayBeTold(a, outcome) ==
    \/ status' = status
    \/ a \notin withdrawn /\ status' = [status EXCEPT ![a] = outcome]

Newest == log[Len(log)]

(* The files of a version; whoever asked may take the push for a failure.      *)
Commit(a) ==
    /\ a \in approved
    /\ log' = Append(log, [files |-> a, cert |-> Newest.cert])
    /\ MayBeTold(a, "publish_failed")
    /\ UNCHANGED <<approved, withdrawn, commitOf, pointers, dispatched, live>>

Name(c) ==
    /\ log' = Append(log, [files |-> Newest.files, cert |-> c])
    /\ UNCHANGED <<rows, dispatched, live>>

Fail(a) ==
    /\ MayBeTold(a, "publish_failed")
    /\ UNCHANGED <<approved, withdrawn, commitOf, pointers, log, dispatched, live>>

(* A version gets one of its commits on record; one that is withdrawn keeps    *)
(* the commit it had.                                                          *)
Record(a, n) ==
    /\ a \in approved
    /\ log[n].files = a
    /\ a \in withdrawn => n = commitOf[a]
    /\ commitOf' = [commitOf EXCEPT ![a] = n]
    /\ MayBeTold(a, "published")
    /\ lastPublished' \in {lastPublished, a}
    /\ UNCHANGED <<lastDeployed, approved, withdrawn, log, dispatched, live>>

(* Some commit among the first n has the version's files.                      *)
BroughtBy(a, n) == \E k \in 1 .. n : log[k].files = a

Dispatch(a) ==
    /\ a \in approved /\ BroughtBy(a, Len(log))
    /\ dispatched' = dispatched \cup {Len(log)}
    /\ UNCHANGED <<rows, log, live>>

Deploy(a) ==
    /\ a \in approved \ withdrawn
    /\ \E n \in dispatched : BroughtBy(a, n)
    /\ lastDeployed' \in {lastDeployed, a}
    /\ UNCHANGED <<lastPublished, approved, withdrawn, commitOf, status, log, dispatched, live>>

RollOut ==
    /\ live' \in dispatched
    /\ UNCHANGED <<rows, log, dispatched>>

Next ==
    \/ \E a \in Artifact :
          \/ Approve(a) \/ Withdraw(a) \/ Commit(a) \/ Fail(a) \/ Dispatch(a) \/ Deploy(a)
          \/ \E n \in DOMAIN log : Record(a, n)
    \/ \E c \in Cert \cup {None} : Name(c)
    \/ RollOut

Spec == Init /\ [][Next]_logVars
===============================================================================
