---------------------------- MODULE Services_proofs ----------------------------
(***************************************************************************)
(* What TLAPS proves of GoogleConnection and of MigrationMedia, for any    *)
(* number of flows, requests, jobs, encryption keys and assets, and of the *)
(* services that MCServicesSafe puts side by side: what was proved of each *)
(* holds of all of them together.                                          *)
(***************************************************************************)
EXTENDS MCServicesSafe, ActionChains_proofs, LeadHandling_proofs

-----------------------------------------------------------------------------
(* The Google connection: one exchange per code, one key per row *)

\* A callback works on a flow.  The row that it has updated is locked, so
\* that one callback at a time holds a flow, and nobody a flow that is consumed.
CallbacksHaveFlows ==
    \A w \in Worker : worker[w].op \in {"found", "consumed", "persisting"} => worker[w].flow \in Flow
FlowsAreLocked ==
    \A w \in Worker : InTransaction(w) =>
        /\ flow[worker[w].flow] # "consumed"
        /\ \A v \in Worker : InTransaction(v) /\ worker[v].flow = worker[w].flow => v = w

\* An exchange that no rollback explains is the one of the callback that is at
\* the row, or of the one that has consumed the flow.
Exchanging(f) == \E w \in Worker : worker[w].op = "persisting" /\ worker[w].flow = f
ExchangesExplained ==
    \A f \in Flow : /\ exchanged[f] <= 1 + undone
                    /\ exchanged[f] <= undone \/ flow[f] = "consumed" \/ Exchanging(f)

\* With a configuration that drains, whoever is about to write the row uses the
\* active key.  A column it will leave alone names that key already.
HoldsRow(w) == worker[w].op \in {"persisting", "refreshing", "rewrapping", "disconnecting"}
LeftAlone(w) ==
    /\ worker[w].key = activeKey
    /\ HoldsRow(w) =>
          /\ worker[w].loaded.version = activeKey => connection.version = activeKey
          /\ worker[w].loaded.access = 0 => connection.access \in {0, activeKey}
          /\ worker[w].loaded.refresh = 0 => connection.refresh \in {0, activeKey}
KeysAgree ==
    Drains => /\ VersionNamesKey
              /\ \A w \in Worker : ~Idle(w) => LeftAlone(w)

FlowInv == CallbacksHaveFlows /\ FlowsAreLocked /\ ExchangesExplained

-----------------------------------------------------------------------------
LEMMA SomeKeyType == SomeKey \in KeyVersion
BY ConnectionAssumption DEF SomeKey

LEMMA NoWorkType == NoConnection \in Connection /\ NoGoogleWork \in GoogleWork
BY SomeKeyType DEF NoConnection, Connection, KeyOrNull, NoGoogleWork, GoogleWork

LEMMA AssignedType ==
    ASSUME NEW S, NEW held \in S, NEW loaded, NEW new \in S
    PROVE  Assigned(held, loaded, new) \in S
BY DEF Assigned

LEMMA InitAll == ConnectionInit => ConnectionTypeOK /\ FlowInv /\ KeysAgree
<1> SUFFICES ASSUME ConnectionInit PROVE ConnectionTypeOK /\ FlowInv /\ KeysAgree
  OBVIOUS
<1> USE DEF ConnectionInit
<1>1. ConnectionTypeOK
  BY NoWorkType DEF ConnectionTypeOK
<1>2. FlowInv
  BY DEF FlowInv, CallbacksHaveFlows, FlowsAreLocked, ExchangesExplained, InTransaction,
         NoGoogleWork
<1>3. KeysAgree
  BY DEF KeysAgree, VersionNamesKey, NoConnection, Idle, NoGoogleWork
<1> QED BY <1>1, <1>2, <1>3

LEMMA BeginWorkType ==
    ASSUME ConnectionTypeOK, NEW w \in Worker, NEW f \in Flow \cup {NoFlow},
           NEW op \in {"found", "refreshing", "rewrapping", "disconnecting"}, BeginWork(w, op, f)
    PROVE  worker' \in [Worker -> GoogleWork]
BY NoWorkType DEF BeginWork, ConnectionTypeOK, GoogleWork

LEMMA EndWorkType ==
    ASSUME ConnectionTypeOK, NEW w \in Worker, EndWork(w)
    PROVE  worker' \in [Worker -> GoogleWork]
BY NoWorkType DEF EndWork, ConnectionTypeOK

\* What a request loaded has the types of the row.
LEMMA WorkType ==
    ASSUME ConnectionTypeOK, NEW w \in Worker
    PROVE  /\ worker[w].key \in KeyVersion
           /\ worker[w].loaded \in Connection
           /\ worker[w].key \in KeyOrNull /\ 0 \in KeyOrNull
BY DEF ConnectionTypeOK, GoogleWork, KeyOrNull

LEMMA StepKeepsTypes ==
    ASSUME ConnectionTypeOK, FlowInv, [ConnectionNext]_googleVars
    PROVE  ConnectionTypeOK'
<1> USE DEF ConnectionTypeOK
<1>1. ASSUME NEW f \in Flow, StartConnection(f) \/ Expire(f) PROVE ConnectionTypeOK'
  BY <1>1 DEF StartConnection, Expire
<1>2. ASSUME NEW w \in Worker, NEW f \in Flow, FindState(w, f) PROVE ConnectionTypeOK'
  BY <1>2, BeginWorkType DEF FindState
<1>3. ASSUME NEW w \in Worker, ConsumeState(w) PROVE ConnectionTypeOK'
  <2>1. [worker EXCEPT ![w].op = "consumed"] \in [Worker -> GoogleWork]
    BY DEF GoogleWork
  <2> QED BY <1>3, <2>1, EndWorkType DEF ConsumeState
<1>4. ASSUME NEW w \in Worker, CallbackFails(w) PROVE ConnectionTypeOK'
  BY <1>4, EndWorkType DEF CallbackFails
<1>5. ASSUME NEW w \in Worker, ExchangeCode(w) PROVE ConnectionTypeOK'
  <2>1. [worker EXCEPT ![w].op = "persisting", ![w].loaded = connection] \in [Worker -> GoogleWork]
    BY DEF GoogleWork
  <2>2. worker[w].flow \in Flow
    BY <1>5 DEF ExchangeCode, FlowInv, CallbacksHaveFlows
  <2>3. [exchanged EXCEPT ![worker[w].flow] = @ + 1] \in [Flow -> Nat]
    BY <2>2
  <2> QED BY <1>5, <2>1, <2>3 DEF ExchangeCode
<1>6. ASSUME NEW w \in Worker, PersistConnection(w) PROVE ConnectionTypeOK'
  <2>1. connection' \in Connection
    BY <1>6, WorkType DEF PersistConnection, Connection, Assigned
  <2> QED BY <1>6, <2>1, EndWorkType DEF PersistConnection
<1>7. ASSUME NEW w \in Worker, CallbackUndone(w) PROVE ConnectionTypeOK'
  BY <1>7, EndWorkType, ConnectionAssumption DEF CallbackUndone
<1>8. ASSUME NEW w \in Worker, BeginRefresh(w) \/ BeginRewrap(w) \/ BeginDisconnect(w)
      PROVE  ConnectionTypeOK'
  BY <1>8, BeginWorkType DEF BeginRefresh, BeginRewrap, BeginDisconnect
<1>9. ASSUME NEW w \in Worker, CommitRefresh(w) \/ RefreshFails(w) PROVE ConnectionTypeOK'
  <2>1. connection' \in Connection
    BY <1>9, WorkType DEF CommitRefresh, RefreshFails, Connection, Assigned
  <2> QED BY <1>9, <2>1, EndWorkType DEF CommitRefresh, RefreshFails
<1>10. ASSUME NEW w \in Worker, CommitRewrap(w) PROVE ConnectionTypeOK'
  <2>1. connection' \in Connection
    BY <1>10, WorkType DEF CommitRewrap, Connection, Assigned
  <2> QED BY <1>10, <2>1, EndWorkType DEF CommitRewrap
<1>11. ASSUME NEW w \in Worker, CommitDisconnect(w) PROVE ConnectionTypeOK'
  <2>1. connection' \in Connection
    BY <1>11, WorkType DEF CommitDisconnect, Connection, Assigned
  <2> QED BY <1>11, <2>1, EndWorkType DEF CommitDisconnect
<1>12. ASSUME NEW k \in KeyVersion, Rotate(k) PROVE ConnectionTypeOK'
  BY <1>12 DEF Rotate
<1>13. CASE UNCHANGED googleVars
  BY <1>13 DEF googleVars
<1> QED
  BY <1>1, <1>2, <1>3, <1>4, <1>5, <1>6, <1>7, <1>8, <1>9, <1>10, <1>11, <1>12, <1>13
  DEF ConnectionNext, WorkerStep

-----------------------------------------------------------------------------
(* The exchange of a code *)

\* Steps of others, and those that begin or end work outside callbacks.
LEMMA OutsideCallbacks ==
    ASSUME ConnectionTypeOK, FlowInv, NEW w \in Worker, ~InTransaction(w),
           UNCHANGED <<flow, exchanged, undone>>,
           \/ EndWork(w)
           \/ \E f \in Flow : BeginWork(w, "found", f)
           \/ \E op \in {"refreshing", "rewrapping", "disconnecting"} : BeginWork(w, op, NoFlow)
    PROVE  FlowInv'
<1>1. /\ \A v \in Worker \ {w} : worker'[v] = worker[v]
      /\ worker'[w].op \in {"idle", "found", "refreshing", "rewrapping", "disconnecting"}
      /\ worker'[w].op = "found" => worker'[w].flow \in Flow
  BY DEF EndWork, BeginWork, NoGoogleWork, ConnectionTypeOK
<1>2. \A v \in Worker : /\ InTransaction(v)' <=> InTransaction(v)
                        /\ worker'[v].op = "persisting" <=> worker[v].op = "persisting"
                        /\ InTransaction(v) => worker'[v] = worker[v]
  BY <1>1 DEF InTransaction
<1>3. CallbacksHaveFlows'
  BY <1>1 DEF FlowInv, CallbacksHaveFlows
<1>4. FlowsAreLocked'
  BY <1>2 DEF FlowInv, FlowsAreLocked
<1>5. ExchangesExplained'
  BY <1>2 DEF FlowInv, ExchangesExplained, Exchanging, InTransaction
<1> QED BY <1>3, <1>4, <1>5 DEF FlowInv

LEMMA StepKeepsFlows ==
    ASSUME ConnectionTypeOK, FlowInv, [ConnectionNext]_googleVars
    PROVE  FlowInv'
<1> USE DEF ConnectionTypeOK, FlowInv
<1>1. ASSUME NEW f \in Flow, StartConnection(f) \/ Expire(f) PROVE FlowInv'
  <2>1. /\ UNCHANGED <<worker, exchanged, undone>>
        /\ \A g \in Flow : flow'[g] = "consumed" <=> flow[g] = "consumed"
    BY <1>1 DEF StartConnection, Expire
  <2> QED BY <2>1 DEF CallbacksHaveFlows, FlowsAreLocked, InTransaction, ExchangesExplained, Exchanging
<1>2. ASSUME NEW w \in Worker, NEW f \in Flow, FindState(w, f) PROVE FlowInv'
  BY <1>2, OutsideCallbacks DEF FindState, BeginWork, Idle, InTransaction
<1>3. ASSUME NEW w \in Worker, ConsumeState(w) PROVE FlowInv'
  <2>1. CASE StillActive(worker[w].flow)
    <3>1. /\ worker' = [worker EXCEPT ![w].op = "consumed"] /\ worker[w].op = "found"
          /\ UNCHANGED <<flow, exchanged, undone>> /\ ~RowLocked(worker[w].flow)
      BY <1>3, <2>1 DEF ConsumeState
    <3>2. \A v \in Worker : /\ worker'[v].flow = worker[v].flow
                            /\ v # w => worker'[v].op = worker[v].op
                            /\ worker'[w].op = "consumed"
      BY <3>1 DEF GoogleWork
    <3>3. CallbacksHaveFlows'
      BY <3>1, <3>2 DEF CallbacksHaveFlows
    <3>4. FlowsAreLocked'
      BY <2>1, <3>1, <3>2 DEF FlowsAreLocked, InTransaction, RowLocked, StillActive
    <3>5. ExchangesExplained'
      BY <3>1, <3>2 DEF ExchangesExplained, Exchanging
    <3> QED BY <3>3, <3>4, <3>5
  <2>2. CASE ~StillActive(worker[w].flow)
    BY <1>3, <2>2, OutsideCallbacks DEF ConsumeState, InTransaction
  <2> QED BY <2>1, <2>2
<1>4. ASSUME NEW w \in Worker, CallbackFails(w) \/ PersistConnection(w) PROVE FlowInv'
  <2> DEFINE f == worker[w].flow
  <2>1. /\ InTransaction(w) /\ f \in Flow
        /\ flow' = [flow EXCEPT ![f] = "consumed"] /\ UNCHANGED <<exchanged, undone>>
        /\ worker' = [worker EXCEPT ![w] = NoGoogleWork]
    BY <1>4 DEF CallbackFails, PersistConnection, InTransaction, EndWork, CallbacksHaveFlows
  <2> HIDE DEF f
  <2>2. CallbacksHaveFlows'
    BY <2>1 DEF CallbacksHaveFlows, NoGoogleWork
  <2>3. FlowsAreLocked'
    BY <2>1 DEF FlowsAreLocked, InTransaction, NoGoogleWork, CallbacksHaveFlows, f
  <2>4. ExchangesExplained'
    BY <2>1 DEF ExchangesExplained, Exchanging, f
  <2> QED BY <2>2, <2>3, <2>4
<1>5. ASSUME NEW w \in Worker, ExchangeCode(w) PROVE FlowInv'
  <2> DEFINE f == worker[w].flow
  <2>1. /\ worker[w].op = "consumed" /\ f \in Flow
        /\ exchanged' = [exchanged EXCEPT ![f] = @ + 1] /\ UNCHANGED <<flow, undone>>
        /\ \A v \in Worker : /\ worker'[v].flow = worker[v].flow
                             /\ v # w => worker'[v].op = worker[v].op
        /\ worker'[w].op = "persisting"
    BY <1>5 DEF ExchangeCode, CallbacksHaveFlows, GoogleWork
  <2>2. flow[f] # "consumed" /\ ~Exchanging(f)
    BY <2>1 DEF FlowsAreLocked, InTransaction, Exchanging
  <2>3. CallbacksHaveFlows'
    BY <2>1 DEF CallbacksHaveFlows
  <2>4. FlowsAreLocked'
    BY <2>1 DEF FlowsAreLocked, InTransaction
  <2>5. exchanged[f] \in Nat /\ undone \in Nat /\ exchanged[f] <= undone
    BY <2>1, <2>2 DEF ExchangesExplained
  <2>6. Exchanging(f)' /\ \A g \in Flow : Exchanging(g) => Exchanging(g)'
    BY <2>1 DEF Exchanging
  <2>7. exchanged'[f] <= 1 + undone /\ \A g \in Flow \ {f} : exchanged'[g] = exchanged[g]
    BY <2>1, <2>5
  <2>8. ExchangesExplained'
    BY <2>1, <2>6, <2>7 DEF ExchangesExplained
  <2> QED BY <2>3, <2>4, <2>8
<1>6. ASSUME NEW w \in Worker, CallbackUndone(w) PROVE FlowInv'
  <2>1. /\ undone' = undone + 1 /\ UNCHANGED <<flow, exchanged>>
        /\ worker' = [worker EXCEPT ![w] = NoGoogleWork]
    BY <1>6 DEF CallbackUndone, EndWork
  <2>2. CallbacksHaveFlows'
    BY <2>1 DEF CallbacksHaveFlows, NoGoogleWork
  <2>3. FlowsAreLocked'
    BY <2>1 DEF FlowsAreLocked, InTransaction, NoGoogleWork
  <2>4. ExchangesExplained'
    BY <2>1 DEF ExchangesExplained
  <2> QED BY <2>2, <2>3, <2>4
<1>7. ASSUME NEW w \in Worker, BeginRefresh(w) \/ BeginRewrap(w) \/ BeginDisconnect(w)
      PROVE  FlowInv'
  BY <1>7, OutsideCallbacks
  DEF BeginRefresh, BeginRewrap, BeginDisconnect, BeginWork, Idle, InTransaction
<1>8. ASSUME NEW w \in Worker,
             CommitRefresh(w) \/ RefreshFails(w) \/ CommitRewrap(w) \/ CommitDisconnect(w)
      PROVE  FlowInv'
  BY <1>8, OutsideCallbacks
  DEF CommitRefresh, RefreshFails, CommitRewrap, CommitDisconnect, InTransaction
<1>9. ASSUME UNCHANGED <<flow, worker, exchanged, undone>> PROVE FlowInv'
  BY <1>9 DEF CallbacksHaveFlows, FlowsAreLocked, InTransaction, ExchangesExplained, Exchanging
<1> QED
  BY <1>1, <1>2, <1>3, <1>4, <1>5, <1>6, <1>7, <1>8, <1>9
  DEF ConnectionNext, WorkerStep, Rotate, googleVars

-----------------------------------------------------------------------------
(* The keys of the stored tokens *)

\* The row as a request with the active key writes it.
LEMMA RowWritten ==
    ASSUME ConnectionTypeOK, Drains, KeysAgree, activeKey' = activeKey,
           NEW w \in Worker, ~Idle(w), worker' = [worker EXCEPT ![w] = NoGoogleWork],
           connection'.version \in {connection.version, activeKey},
           connection'.access \in {connection.access, 0, activeKey},
           connection'.refresh \in {connection.refresh, 0, activeKey},
           VersionNamesKey'
    PROVE  KeysAgree'
<1>1. \A v \in Worker : worker'[v] = IF v = w THEN NoGoogleWork ELSE worker[v]
  BY DEF ConnectionTypeOK
<1>2. ASSUME NEW v \in Worker, ~Idle(v)' PROVE LeftAlone(v)'
  <2>1. worker'[v] = worker[v] /\ ~Idle(v)
    BY <1>1, <1>2 DEF Idle, NoGoogleWork
  <2>2. LeftAlone(v)
    BY <2>1 DEF KeysAgree
  <2> QED BY <2>1, <2>2 DEF LeftAlone, HoldsRow
<1> QED BY <1>2 DEF KeysAgree

LEMMA StepKeepsKeys ==
    ASSUME ConnectionTypeOK, FlowInv, KeysAgree, [ConnectionNext]_googleVars
    PROVE  KeysAgree'
<1> SUFFICES ASSUME Drains PROVE KeysAgree'
  BY DEF KeysAgree
<1> USE DEF ConnectionTypeOK
<1>0. VersionNamesKey /\ \A w \in Worker : ~Idle(w) => LeftAlone(w)
  BY DEF KeysAgree
<1>1. ASSUME UNCHANGED <<connection, activeKey, worker>> PROVE KeysAgree'
  BY <1>1, <1>0 DEF KeysAgree, VersionNamesKey, LeftAlone, HoldsRow, Idle
<1>2. ASSUME UNCHANGED <<connection, activeKey>>, NEW w \in Worker, NEW f,
             NEW op \in {"found", "refreshing", "rewrapping", "disconnecting"}, BeginWork(w, op, f)
      PROVE  KeysAgree'
  <2>1. /\ \A v \in Worker \ {w} : worker'[v] = worker[v]
        /\ worker'[w].op = op /\ worker'[w].key = activeKey
        /\ op # "found" => worker'[w].loaded = connection
    BY <1>2 DEF BeginWork
  <2>2. LeftAlone(w)'
    BY <1>2, <2>1, <1>0 DEF LeftAlone, HoldsRow
  <2>3. \A v \in Worker \ {w} : ~Idle(v)' => LeftAlone(v)'
    BY <1>2, <2>1, <1>0 DEF LeftAlone, HoldsRow, Idle
  <2> QED BY <1>2, <1>0, <2>2, <2>3 DEF KeysAgree, VersionNamesKey
<1>3. ASSUME UNCHANGED <<connection, activeKey>>, NEW w \in Worker, EndWork(w) PROVE KeysAgree'
  <2>1. \A v \in Worker : ~Idle(v)' => worker'[v] = worker[v] /\ ~Idle(v)
    BY <1>3 DEF EndWork, Idle, NoGoogleWork
  <2> QED BY <1>3, <1>0, <2>1 DEF KeysAgree, VersionNamesKey, LeftAlone, HoldsRow
<1>4. ASSUME NEW w \in Worker, ConsumeState(w) PROVE KeysAgree'
  <2>1. CASE worker' = [worker EXCEPT ![w].op = "consumed"]
    <3>1. /\ UNCHANGED <<connection, activeKey>> /\ worker[w].op = "found"
          /\ \A v \in Worker \ {w} : worker'[v] = worker[v]
          /\ worker'[w].op = "consumed" /\ worker'[w].key = worker[w].key
      BY <1>4, <2>1 DEF ConsumeState, GoogleWork
    <3> QED BY <1>0, <3>1 DEF KeysAgree, VersionNamesKey, LeftAlone, HoldsRow, Idle
  <2> QED BY <1>3, <1>4, <2>1 DEF ConsumeState
<1>5. ASSUME NEW w \in Worker, ExchangeCode(w) PROVE KeysAgree'
  <2>1. /\ UNCHANGED <<connection, activeKey>> /\ worker[w].op = "consumed"
        /\ \A v \in Worker \ {w} : worker'[v] = worker[v]
        /\ worker'[w].op = "persisting" /\ worker'[w].key = worker[w].key
        /\ worker'[w].loaded = connection
    BY <1>5 DEF ExchangeCode, GoogleWork
  <2>2. LeftAlone(w)'
    BY <1>0, <2>1 DEF LeftAlone, HoldsRow, Idle
  <2> QED BY <1>0, <2>1, <2>2 DEF KeysAgree, VersionNamesKey, LeftAlone, HoldsRow, Idle
<1>6. ASSUME NEW w \in Worker, PersistConnection(w) \/ CommitRefresh(w) \/ CommitRewrap(w)
      PROVE  KeysAgree'
  <2> DEFINE key == worker[w].key
             loaded == worker[w].loaded
  <2>1. ~Idle(w) /\ HoldsRow(w) /\ UNCHANGED activeKey
        /\ worker' = [worker EXCEPT ![w] = NoGoogleWork]
    BY <1>6 DEF PersistConnection, CommitRefresh, CommitRewrap, Idle, HoldsRow, EndWork
  <2>2. /\ key = activeKey
        /\ loaded.version = key => connection.version = key
        /\ loaded.access = 0 => connection.access \in {0, key}
        /\ loaded.refresh = 0 => connection.refresh \in {0, key}
    BY <1>0, <2>1 DEF LeftAlone
  <2>3. /\ connection'.version = key
        /\ connection'.access \in {0, key} /\ connection'.refresh \in {0, key}
    <3>1. CASE PersistConnection(w)
      BY <2>2, <3>1 DEF PersistConnection, Connection, Assigned
    <3>2. CASE CommitRefresh(w)
      BY <2>2, <3>2 DEF CommitRefresh, Connection, Assigned
    <3>3. CASE CommitRewrap(w)
      BY <2>2, <3>3 DEF CommitRewrap, Connection, Assigned
    <3> QED BY <1>6, <3>1, <3>2, <3>3
  <2>4. VersionNamesKey'
    BY <2>3 DEF VersionNamesKey
  <2> QED BY <2>1, <2>2, <2>3, <2>4, RowWritten
<1>7. ASSUME NEW w \in Worker, CommitDisconnect(w) PROVE KeysAgree'
  <2>1. ~Idle(w) /\ UNCHANGED activeKey /\ worker' = [worker EXCEPT ![w] = NoGoogleWork]
    BY <1>7 DEF CommitDisconnect, Idle, EndWork
  <2>2. /\ connection'.version = connection.version
        /\ connection'.access \in {connection.access, 0}
        /\ connection'.refresh \in {connection.refresh, 0}
    BY <1>7 DEF CommitDisconnect, Connection, Assigned
  <2>3. VersionNamesKey'
    BY <1>0, <2>2 DEF VersionNamesKey
  <2> QED BY <2>1, <2>2, <2>3, RowWritten
<1>8. ASSUME NEW k \in KeyVersion, Rotate(k) PROVE KeysAgree'
  BY <1>0, <1>8 DEF Rotate, KeysAgree, VersionNamesKey, Idle
<1> QED
  BY <1>1, <1>2, <1>3, <1>4, <1>5, <1>6, <1>7, <1>8
  DEF ConnectionNext, WorkerStep, googleVars, StartConnection, Expire, FindState, CallbackFails,
      CallbackUndone, BeginRefresh, BeginRewrap, BeginDisconnect, RefreshFails

-----------------------------------------------------------------------------
LEMMA FlowInductive == ConnectionSpec => [](ConnectionTypeOK /\ FlowInv)
<1>1. ConnectionTypeOK /\ FlowInv /\ [ConnectionNext]_googleVars => (ConnectionTypeOK /\ FlowInv)'
  BY StepKeepsTypes, StepKeepsFlows
<1> QED BY <1>1, InitAll, PTL DEF ConnectionSpec

\* Every variable keeps its type.
THEOREM ConnectionTypeCorrect == ConnectionSpec => []ConnectionTypeOK
BY FlowInductive, PTL

\* The code of a flow is exchanged once, and once more for each rollback.
THEOREM CodesExchangedOnce == ConnectionSpec => []ExchangedOnce
<1>1. FlowInv => ExchangedOnce
  BY DEF FlowInv, ExchangesExplained, ExchangedOnce
<1> QED BY <1>1, FlowInductive, PTL

\* When a new configuration waits for the requests of the old one, the version
\* column names the key of the tokens beside it, whatever overlaps.
THEOREM VersionStaysExact == ConnectionSpec => [](Drains => VersionNamesKey)
<1>1. ConnectionTypeOK /\ FlowInv /\ KeysAgree /\ [ConnectionNext]_googleVars => KeysAgree'
  BY StepKeepsKeys
<1>2. KeysAgree => (Drains => VersionNamesKey)
  BY DEF KeysAgree
<1> QED BY <1>1, <1>2, InitAll, FlowInductive, PTL DEF ConnectionSpec

-----------------------------------------------------------------------------
(* Media: the limit of the uploads *)

Fits(document) == Cardinality(Listed(document)) <= MaxUploads

\* A request holds a list that fits, with room for the asset it uploads, and
\* replaces an asset of its list.
EditFits(d) ==
    /\ Fits(d.copy)
    /\ d.op = "upload" => Cardinality(Listed(d.copy)) < MaxUploads
    /\ d.op = "replace" => d.item \in Listed(d.copy)

MediaInv == MediaTypeOK /\ Fits(entry) /\ \A e \in Editor : EditFits(editor[e])

LEMMA ListedCount ==
    ASSUME NEW document
    PROVE  IsFiniteSet(Listed(document)) /\ Cardinality(Listed(document)) \in Nat
BY FS_Subset, FS_CardinalityType, MediaAssumption DEF Listed

\* A list with no more assets than one that fits, one without any, and one with
\* an asset more than a list with room.
LEMMA FewerFit ==
    ASSUME NEW shorter, NEW document, Listed(shorter) \subseteq Listed(document), Fits(document)
    PROVE  Fits(shorter)
<1>1. Cardinality(Listed(shorter)) <= Cardinality(Listed(document))
  BY ListedCount, FS_Subset
<1> QED BY <1>1, ListedCount, MediaAssumption DEF Fits

LEMMA NoneFit == ASSUME NEW document, Listed(document) = {} PROVE Fits(document)
BY FS_EmptySet, MediaAssumption DEF Fits

LEMMA OneMoreFits ==
    ASSUME NEW longer, NEW document, NEW x, Listed(longer) \subseteq Listed(document) \cup {x},
           \/ Cardinality(Listed(document)) < MaxUploads
           \/ Fits(document) /\ x \in Listed(document)
    PROVE  Fits(longer)
<1>1. CASE x \in Listed(document)
  <2>1. Fits(document) /\ Listed(longer) \subseteq Listed(document)
    BY <1>1, ListedCount, MediaAssumption DEF Fits
  <2> QED BY <2>1, FewerFit
<1>2. CASE x \notin Listed(document)
  <2>1. /\ IsFiniteSet(Listed(document) \cup {x})
        /\ Cardinality(Listed(document) \cup {x}) = Cardinality(Listed(document)) + 1
    BY <1>2, ListedCount, FS_AddElement
  <2>2. Cardinality(Listed(longer)) <= Cardinality(Listed(document) \cup {x})
    BY <2>1, FS_Subset
  <2> QED BY <1>2, <2>1, <2>2, ListedCount, MediaAssumption DEF Fits
<1> QED BY <1>1, <1>2

LEMMA EntryChanges ==
    ASSUME NEW n \in Entry, NEW b \in BOOLEAN, NEW g \in Nat,
           NEW s \in {"absent", "active", "ignored", "removed"}
    PROVE  /\ NoEntry \in Entry
           /\ [n EXCEPT !.selected = b] \in Entry
           /\ [n EXCEPT !.state = s, !.selected = b] \in Entry
           /\ [n EXCEPT !.generation = g, !.selected = b] \in Entry
           /\ [NoEntry EXCEPT !.state = s] \in Entry
           /\ [state |-> s, generation |-> g, selected |-> b] \in Entry
BY DEF Entry, NoEntry

LEMMA NoEditType == NoEdit \in Edit /\ EditFits(NoEdit)
<1>1. NoEntry \in Entry
  BY DEF NoEntry, Entry
<1>2. [x \in Media |-> NoEntry] \in [Media -> Entry]
  BY <1>1
<1>3. Listed(NoEdit.copy) = {}
  BY DEF NoEdit, Listed, Media
<1>4. EditFits(NoEdit)
  BY <1>3, NoneFit DEF EditFits, NoEdit
<1> QED BY <1>2, <1>4 DEF NoEdit, Edit

\* Steps that leave the draft on record alone.
LEMMA EditorMoves ==
    ASSUME MediaInv, package' = package, entry' \in [Media -> Entry], Fits(entry'),
           stored' \in [Media -> SUBSET Nat], generations' \in Nat,
           NEW e \in Editor, NEW d \in Edit, editor' = [editor EXCEPT ![e] = d], EditFits(d)
    PROVE  MediaInv'
<1>1. MediaTypeOK'
  BY DEF MediaInv, MediaTypeOK
<1>2. \A f \in Editor : EditFits(editor'[f])
  BY DEF MediaInv, MediaTypeOK
<1> QED BY <1>1, <1>2 DEF MediaInv, EditFits, Fits, Listed

LEMMA DraftCommitMoves ==
    ASSUME MediaInv, UNCHANGED <<entry, stored, generations>>, NEW e \in Editor,
           package' \in {editor[e].files, {}}, editor' = [editor EXCEPT ![e] = NoEdit]
    PROVE  MediaInv'
<1>1. MediaTypeOK'
  BY NoEditType DEF MediaInv, MediaTypeOK, Edit
<1>2. \A f \in Editor : EditFits(editor'[f])
  BY NoEditType DEF MediaInv, MediaTypeOK
<1> QED BY <1>1, <1>2 DEF MediaInv, EditFits, Fits, Listed

LEMMA WriteObjectType ==
    ASSUME MediaTypeOK, NEW x, WriteObject(x)
    PROVE  stored' \in [Media -> SUBSET Nat] /\ generations' \in Nat
<1>1. generations' \in Nat
  BY DEF MediaTypeOK, WriteObject
<1>2. \A y \in Media : stored'[y] = IF y = x THEN stored[y] \cup {generations'} ELSE stored[y]
  BY DEF MediaTypeOK, WriteObject
<1>3. \A y \in Media : stored[y] \in SUBSET Nat
  BY DEF MediaTypeOK
<1>4. stored' = [y \in Media |-> stored'[y]]
  BY DEF MediaTypeOK, WriteObject
<1>5. \A y \in Media : stored'[y] \in SUBSET Nat
  BY <1>1, <1>2, <1>3
<1> HIDE DEF WriteObject
<1> QED BY <1>1, <1>4, <1>5

LEMMA MaterializeFreezes ==
    ASSUME MediaInv, NEW e \in Editor, Materialize(e)
    PROVE  MediaInv'
<1>1. PICK copy \in [Media -> Entry] : copy = editor[e].copy
  BY DEF MediaInv, MediaTypeOK, Edit
<1>2. PICK files : files = {<<x, PayloadRead(x, copy[x].generation)>> : x \in Chosen(e)}
  OBVIOUS
<1>3. \A x \in Media : PayloadRead(x, copy[x].generation) \in Nat
  BY <1>1 DEF Entry, PayloadRead
<1>4. files \subseteq Media \X Nat
  BY <1>2, <1>3 DEF Chosen
<1>5. PICK d : d = [editor[e] EXCEPT !.op = "frozen", !.files = files]
  OBVIOUS
<1>6. d \in Edit /\ d.op = "frozen" /\ d.copy = editor[e].copy
  BY <1>4, <1>5 DEF MediaInv, MediaTypeOK, Edit
<1>7. EditFits(d)
  BY <1>6 DEF MediaInv, EditFits
<1>8. editor' = [editor EXCEPT ![e] = d]
  BY <1>1, <1>2, <1>5 DEF Materialize, MediaInv, MediaTypeOK
<1> QED BY <1>6, <1>7, <1>8, EditorMoves DEF Materialize, MediaInv, MediaTypeOK

LEMMA ImportMoves ==
    ASSUME MediaInv, NEW e \in Editor, NEW x \in Image,
           SkipImported(e, x) \/ ImportImage(e, x) \/ ImportFails(e, x)
    PROVE  MediaInv'
<1> USE DEF MediaInv
<1>1. x \in Media /\ editor[e] \in Edit /\ editor[e].copy[x] \in Entry
  BY DEF MediaTypeOK, Edit, Media
<1>2. ASSUME NEW n \in Entry, Treat(e, x, n), UNCHANGED <<entry, package>>,
             stored' \in [Media -> SUBSET Nat], generations' \in Nat
      PROVE  MediaInv'
  <2>1. PICK d : d = [editor[e] EXCEPT !.todo = @ \ {x}, !.touched = TRUE, !.copy[x] = n]
    OBVIOUS
  <2>2. d \in Edit /\ d.op = editor[e].op /\ d.item = editor[e].item
    BY <1>1, <2>1 DEF Edit
  <2>3. Listed(d.copy) = Listed(editor[e].copy)
    BY <1>1, <2>1, MediaAssumption DEF Edit, Listed
  <2>4. editor' = [editor EXCEPT ![e] = d]
    BY <1>2, <2>1 DEF Treat, MediaTypeOK
  <2>5. EditFits(d)
    BY <2>2, <2>3 DEF EditFits, Fits
  <2> QED BY <1>2, <2>2, <2>4, <2>5, EditorMoves DEF MediaTypeOK
<1>3. CASE SkipImported(e, x)
  <2>1. PICK n : n = [editor[e].copy[x] EXCEPT !.selected = editor[e].select]
    OBVIOUS
  <2>2. n \in Entry
    BY <1>1, <2>1 DEF Edit, Entry
  <2> QED BY <1>2, <1>3, <2>1, <2>2 DEF SkipImported, MediaTypeOK
<1>4. CASE ImportImage(e, x)
  <2>1. stored' \in [Media -> SUBSET Nat] /\ generations' \in Nat
    BY <1>1, <1>4, WriteObjectType DEF ImportImage
  <2>2. PICK n : n = [editor[e].copy[x] EXCEPT !.generation = generations',
                                               !.selected = editor[e].select]
    OBVIOUS
  <2>3. n \in Entry
    BY <1>1, <2>1, <2>2 DEF Edit, Entry
  <2> QED BY <1>2, <1>4, <2>1, <2>2, <2>3 DEF ImportImage
<1>5. CASE ImportFails(e, x)
  <2>1. PICK d : d = [editor[e] EXCEPT !.todo = @ \ {x}]
    OBVIOUS
  <2>2. d \in Edit /\ d.op = editor[e].op /\ d.item = editor[e].item /\ d.copy = editor[e].copy
    BY <1>1, <2>1 DEF Edit
  <2>3. editor' = [editor EXCEPT ![e] = d]
    BY <1>5, <2>1 DEF ImportFails, MediaTypeOK
  <2>4. EditFits(d)
    BY <2>2 DEF EditFits
  <2> QED BY <1>5, <2>2, <2>3, <2>4, EditorMoves DEF ImportFails, MediaTypeOK
<1> QED BY <1>3, <1>4, <1>5

LEMMA EditorStepKeepsMedia ==
    ASSUME MediaInv, NEW e \in Editor, EditorStep(e)
    PROVE  MediaInv'
<1> USE DEF MediaInv
<1>0. editor[e] \in Edit /\ editor[e].copy \in [Media -> Entry] /\ EditFits(editor[e])
  BY DEF MediaTypeOK, Edit
<1>1. \A x \in Media : /\ Document(x) \in [Media -> Entry]
                       /\ Listed(Document(x)) = IF x \in Upload THEN Listed(entry) ELSE {}
  BY EntryChanges DEF Document, MediaTypeOK, SameDocument, Listed, Media
<1>2. ASSUME NEW x \in Media \cup {NoMedia}, NEW copy \in [Media -> Entry], Fits(copy),
             NEW op \in {"upload", "replace", "write", "generate"}, StartEdit(e, op, x, copy),
             op = "upload" => Cardinality(Listed(copy)) < MaxUploads,
             op = "replace" => x \in Listed(copy),
             UNCHANGED <<entry, stored, generations, package>>
      PROVE  MediaInv'
  <2>1. PICK d : d = [NoEdit EXCEPT !.op = op, !.item = x, !.copy = copy]
    OBVIOUS
  <2>2. d \in Edit /\ d.op = op /\ d.item = x /\ d.copy = copy
    BY <1>2, <2>1, NoEditType DEF NoEdit, Edit
  <2>3. EditFits(d)
    BY <1>2, <2>2 DEF EditFits
  <2>4. editor' = [editor EXCEPT ![e] = d]
    BY <1>2, <2>1 DEF StartEdit
  <2> QED BY <1>2, <2>2, <2>3, <2>4, EditorMoves DEF MediaTypeOK
<1>3. ASSUME NEW x \in Upload, BeginUpload(e, x) \/ BeginReplace(e, x) PROVE MediaInv'
  <2>1. x \in Media /\ Listed(Document(x)) = Listed(entry) /\ Document(x) \in [Media -> Entry]
    BY <1>1, <1>3 DEF Media
  <2>2. Fits(Document(x))
    BY <2>1 DEF Fits
  <2>3. CASE BeginUpload(e, x)
    BY <1>2, <2>1, <2>2, <2>3 DEF BeginUpload
  <2>4. CASE BeginReplace(e, x)
    <3>1. entry[x] # NoEntry
      BY <2>4 DEF BeginReplace, Visible, NoEntry
    <3>2. x \in Listed(entry)
      BY <1>3, <3>1 DEF Listed
    <3>3. x \in Listed(Document(x))
      BY <2>1, <3>2
    <3> QED BY <1>2, <2>1, <2>2, <2>4, <3>3 DEF BeginReplace
  <2> QED BY <1>3, <2>3, <2>4
<1>4. ASSUME NEW b \in BOOLEAN, StoreUpload(e, b) PROVE MediaInv'
  <2>1. PICK x : x = editor[e].item
    OBVIOUS
  <2>2. stored' \in [Media -> SUBSET Nat] /\ generations' \in Nat
    BY <1>4, WriteObjectType DEF StoreUpload
  <2>3. PICK d : d = [editor[e] EXCEPT !.op = "write",
                         !.copy[x] = [state |-> "active", generation |-> generations',
                                      selected |-> b]]
    OBVIOUS
  <2>4. d \in Edit /\ d.op = "write"
    BY <1>0, <1>4, <2>1, <2>2, <2>3 DEF Edit, Entry
  <2>5. Listed(d.copy) \subseteq Listed(editor[e].copy) \cup {x}
    BY <1>0, <2>3 DEF Edit, Listed, Media
  <2>6. \/ Cardinality(Listed(editor[e].copy)) < MaxUploads
        \/ Fits(editor[e].copy) /\ x \in Listed(editor[e].copy)
    BY <1>0, <1>4, <2>1 DEF EditFits, StoreUpload
  <2>7. EditFits(d)
    BY <2>4, <2>5, <2>6, OneMoreFits DEF EditFits
  <2>8. editor' = [editor EXCEPT ![e] = d]
    BY <1>4, <2>1, <2>3 DEF StoreUpload, MediaTypeOK
  <2> QED BY <1>4, <2>2, <2>4, <2>7, <2>8, EditorMoves DEF StoreUpload, MediaTypeOK
<1>5. ASSUME NEW todo \in SUBSET Image, NEW b \in BOOLEAN, BeginImport(e, todo, b)
      PROVE  MediaInv'
  <2>1. PICK copy : copy = [x \in Media |-> IF x \in Image THEN entry[x] ELSE NoEntry]
    OBVIOUS
  <2>2. copy \in [Media -> Entry] /\ Listed(copy) = {}
    BY <2>1, EntryChanges, MediaAssumption DEF MediaTypeOK, Listed, Media
  <2>3. PICK d : d = [NoEdit EXCEPT !.op = "import", !.todo = todo, !.select = b, !.copy = copy]
    OBVIOUS
  <2>4. d \in Edit /\ d.op = "import" /\ d.copy = copy
    BY <1>5, <2>2, <2>3, NoEditType DEF NoEdit, Edit
  <2>5. EditFits(d)
    BY <2>2, <2>4, NoneFit DEF EditFits
  <2> QED BY <1>5, <2>1, <2>3, <2>4, <2>5, EditorMoves DEF BeginImport, MediaTypeOK
<1>6. CASE EndImport(e) \/ CommitWrite(e) \/ EditFails(e)
  <2>1. entry' \in [Media -> Entry]
    BY <1>0, <1>6 DEF EndImport, CommitWrite, EditFails, MediaTypeOK
  <2>2. Listed(entry') \in {Listed(entry), Listed(editor[e].copy)}
    <3>1. CASE EndImport(e)
      BY <3>1, MediaAssumption DEF EndImport, Listed, Media
    <3>2. CASE CommitWrite(e)
      BY <3>2 DEF CommitWrite, SameDocument, Listed, Media
    <3>3. CASE EditFails(e)
      BY <3>3 DEF EditFails
    <3> QED BY <1>6, <3>1, <3>2, <3>3
  <2>3. Fits(entry')
    BY <1>0, <2>2 DEF EditFits, Fits
  <2> QED BY <1>6, <2>1, <2>3, NoEditType, EditorMoves
          DEF EndImport, CommitWrite, EditFails, EndEdit, MediaTypeOK
<1>7. ASSUME NEW x \in Media, NEW n \in Entry, entry[x].state # "absent", Change(e, x, n)
      PROVE  MediaInv'
  <2>1. PICK copy : copy = [Document(x) EXCEPT ![x] = n]
    OBVIOUS
  <2>2. copy \in [Media -> Entry]
    BY <1>1, <2>1
  <2>3. Listed(copy) \subseteq Listed(entry)
    <3>1. entry[x] # NoEntry
      BY <1>7 DEF NoEntry
    <3> QED BY <1>1, <2>1, <3>1, MediaAssumption DEF Listed, Media
  <2>4. Fits(copy)
    BY <2>3, FewerFit
  <2> QED BY <1>2, <1>7, <2>1, <2>2, <2>4 DEF Change
<1>8. ASSUME NEW x \in Media,
             Select(e, x) \/ Deselect(e, x) \/ Ignore(e, x) \/ Remove(e, x) \/ Suggest(e, x)
      PROVE  MediaInv'
  <2>1. entry[x] \in Entry
    BY DEF MediaTypeOK
  <2>2. entry[x].state # "absent"
    BY <1>8 DEF Select, Deselect, Ignore, Remove, Suggest, UsableForDraft, Visible
  <2> QED BY <1>7, <1>8, <2>1, <2>2, EntryChanges DEF Select, Deselect, Ignore, Remove, Suggest
<1>9. CASE BeginDraft(e)
  BY <1>2, <1>9 DEF BeginDraft, MediaTypeOK
<1>10. CASE CommitDraft(e) \/ CommitFailedDraft(e)
  BY <1>10, DraftCommitMoves DEF CommitDraft, CommitFailedDraft, EndEdit
<1> QED
  BY <1>3, <1>4, <1>5, <1>6, <1>8, <1>9, <1>10, ImportMoves, MaterializeFreezes DEF EditorStep

LEMMA StepKeepsMedia ==
    ASSUME MediaInv, [MediaNext]_mediaVars
    PROVE  MediaInv'
<1> USE DEF MediaInv
<1>1. ASSUME NEW found \in SUBSET Image, IngestSnapshot(found) PROVE MediaInv'
  <2>1. entry' \in [Media -> Entry]
    BY <1>1, EntryChanges DEF IngestSnapshot, MediaTypeOK
  <2>2. Listed(entry') = Listed(entry)
    BY <1>1 DEF IngestSnapshot, Listed, Media
  <2> QED BY <1>1, <2>1, <2>2 DEF IngestSnapshot, MediaTypeOK, Fits, EditFits, Listed
<1>2. ASSUME NEW x \in Media, ExpireGenerations(x) PROVE MediaInv'
  <2>1. stored' \in [Media -> SUBSET Nat]
    BY <1>2 DEF ExpireGenerations, MediaTypeOK
  <2> QED BY <1>2, <2>1 DEF ExpireGenerations, MediaTypeOK, Fits, EditFits, Listed
<1>3. CASE UNCHANGED mediaVars
  BY <1>3 DEF mediaVars, MediaTypeOK, Fits, EditFits, Listed
<1> QED BY <1>1, <1>2, <1>3, EditorStepKeepsMedia DEF MediaNext

LEMMA MediaInductive == MediaSpec => []MediaInv
<1>1. MediaInit => MediaInv
  <2> SUFFICES ASSUME MediaInit PROVE MediaInv
    OBVIOUS
  <2>1. NoEntry \in Entry
    BY DEF NoEntry, Entry
  <2>2. MediaTypeOK
    BY <2>1, NoEditType DEF MediaInit, MediaTypeOK
  <2>3. Fits(entry)
    <3>1. Listed(entry) = {}
      BY DEF MediaInit, Listed, Media
    <3> QED BY <3>1, NoneFit
  <2> QED BY <2>2, <2>3, NoEditType DEF MediaInit, MediaInv
<1>2. MediaInv /\ [MediaNext]_mediaVars => MediaInv'
  BY StepKeepsMedia
<1> QED BY <1>1, <1>2, PTL DEF MediaSpec

\* Media documents, objects, requests and the draft on record keep their types.
THEOREM MediaTypeCorrect == MediaSpec => []MediaTypeOK
<1>1. MediaInv => MediaTypeOK
  BY DEF MediaInv
<1> QED BY <1>1, MediaInductive, PTL

\* However many uploads, replacements and edits overlap, fail or die between the
\* look for room and the write of the list, a workspace never lists more uploads
\* than it may have (upload_workspace_media_asset).
THEOREM UploadsStayBounded == MediaSpec => []UploadsBounded
<1>1. MediaInv => UploadsBounded
  BY DEF MediaInv, Fits, UploadsBounded
<1> QED BY <1>1, MediaInductive, PTL

-----------------------------------------------------------------------------
(* Side by side *)

\* From the initial state one of the services moves and the others stay, so that
\* each of them does what its own specification says, the idle ones included.
THEOREM ServicesAreTheirOwn ==
    ServicesSpec => ChainSpec /\ LeadSpec /\ ConnectionSpec /\ MediaSpec
<1>1. ServicesInit => ChainInit /\ LeadInit /\ ConnectionInit /\ MediaInit
  BY DEF ServicesInit, ConnectionRests
<1>2. [ServicesNext]_<<chainVars, leadVars, googleVars, mediaVars>>
        => /\ [ChainNext]_chainVars /\ [LeadNext]_leadVars
           /\ [ConnectionNext]_googleVars /\ [MediaNext]_mediaVars
  BY DEF ServicesNext
<1> QED BY <1>1, <1>2, PTL DEF ServicesSpec, ChainSpec, LeadSpec, ConnectionSpec, MediaSpec

\* The rows and requests of all four services keep their types together.
THEOREM ServicesTypeCorrect == ServicesSpec => []ServicesTypeOK
BY ServicesAreTheirOwn, ChainTypeCorrect, LeadTypeCorrect, ConnectionTypeCorrect, MediaTypeCorrect,
   PTL DEF ServicesTypeOK
================================================================================
