----------------------------- MODULE CaptureQueue -----------------------------
(***************************************************************************)
(* What the source captures of a site promise: a queue with one consumer.  *)
(* Every capture that was accepted is taken in the order of its version,   *)
(* is tried at most MaxAttempts times however often the worker is lost,    *)
(* and ends once; the newest one is the one that was accepted last.        *)
(*                                                                         *)
(*   job[k]  the capture with key k: its status, version, and attempts     *)
(*   newest  key of the capture accepted last, NoKey before the first      *)
(***************************************************************************)
EXTENDS Naturals

CONSTANTS Key, MaxAttempts, NoKey

VARIABLES job, newest

queueVars == <<job, newest>>

Row(status, version, attempt) ==
    [status |-> status, version |-> version, attempt |-> attempt]

Init ==
    /\ job = [k \in Key |-> Row("absent", 0, 0)]
    /\ newest = NoKey

LastVersion == IF newest = NoKey THEN 0 ELSE job[newest].version

Accept(k) ==
    /\ job[k].status = "absent"
    /\ job' = [job EXCEPT ![k] = Row("queued", LastVersion + 1, 0)]
    /\ newest' = k

Waits(k) == job[k].status = "queued"

Start(k) ==
    /\ Waits(k)
    /\ \A j \in Key : Waits(j) => job[k].version <= job[j].version
    /\ job[k].attempt < MaxAttempts
    /\ job' = [job EXCEPT ![k] = Row("running", @.version, @.attempt + 1)]
    /\ UNCHANGED newest

Finish(k, result) ==
    /\ job[k].status = "running"
    /\ job' = [job EXCEPT ![k].status = result]
    /\ UNCHANGED newest

(* Captures whose worker was lost wait again, or have had all their attempts.   *)
AfterLoss(row) == IF row.attempt < MaxAttempts THEN "queued" ELSE "failed"
Recover(lost) ==
    /\ \A k \in lost : job[k].status = "running"
    /\ job' = [k \in Key |->
           IF k \in lost THEN [job[k] EXCEPT !.status = AfterLoss(job[k])] ELSE job[k]]
    /\ UNCHANGED newest

Next ==
    \/ \E k \in Key : Accept(k) \/ Start(k)
    \/ \E k \in Key, result \in {"completed", "failed"} : Finish(k, result)
    \/ \E lost \in SUBSET Key : Recover(lost)

Spec == Init /\ [][Next]_queueVars
===============================================================================
