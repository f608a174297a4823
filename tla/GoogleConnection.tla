---------------------------- MODULE GoogleConnection ----------------------------
(* The Google Business Profile connection of one business: the OAuth flow, use  *)
(* and refresh of its tokens, disconnect, and the rotation of the key that the  *)
(* tokens are encrypted with. A token is represented by the version of the key  *)
(* it is encrypted with; 0 stands for NULL.                                     *)
(*                                                                              *)
(* flow[f]       the row of OAuth state f                                       *)
(* connection    the row of the business in provider_connections                *)
(* activeKey     the key version that the deployed configuration encrypts with  *)
(* worker        requests and jobs: the key their process encrypts with, and    *)
(*               the row they loaded before they called Google                  *)
(* exchanged[f]  code exchanges for f that Google answered with tokens          *)
(* undone        transactions of callbacks that were rolled back                *)
EXTENDS Naturals

CONSTANTS
    Flow,
    Worker,
    KeyVersion,    \* encryption keys, all of them in the keyring
    Drains,        \* a new configuration waits for the requests of the old one
    MaxUndone,     \* bound on failures inside a callback
    NoFlow

ASSUME ConnectionAssumption ==
    /\ NoFlow \notin Flow
    /\ KeyVersion \subseteq Nat \ {0} /\ KeyVersion # {}
    /\ Drains \in BOOLEAN
    /\ MaxUndone \in Nat

VARIABLES flow, connection, activeKey, worker, exchanged, undone
googleVars == <<flow, connection, activeKey, worker, exchanged, undone>>

KeyOrNull == KeyVersion \cup {0}
Connection == [exists: BOOLEAN, active: BOOLEAN, disconnected: BOOLEAN,
               access: KeyOrNull, refresh: KeyOrNull, version: KeyVersion]
GoogleWork == [op: {"idle", "found", "consumed", "persisting",
                    "refreshing", "rewrapping", "disconnecting"},
               key: KeyVersion, flow: Flow \cup {NoFlow}, loaded: Connection]

SomeKey == CHOOSE k \in KeyVersion : TRUE
NoConnection == [exists |-> FALSE, active |-> FALSE, disconnected |-> FALSE,
                 access |-> 0, refresh |-> 0, version |-> SomeKey]
NoGoogleWork == [op |-> "idle", key |-> SomeKey, flow |-> NoFlow, loaded |-> NoConnection]

ConnectionTypeOK ==
    /\ flow \in [Flow -> {"unused", "active", "consumed", "expired"}]
    /\ connection \in Connection
    /\ activeKey \in KeyVersion
    /\ worker \in [Worker -> GoogleWork]
    /\ exchanged \in [Flow -> Nat]
    /\ undone \in Nat

ConnectionInit ==
    /\ flow = [f \in Flow |-> "unused"]
    /\ connection = NoConnection
    /\ activeKey \in KeyVersion
    /\ worker = [w \in Worker |-> NoGoogleWork]
    /\ exchanged = [f \in Flow |-> 0]
    /\ undone = 0

Idle(w) == worker[w].op = "idle"
BeginWork(w, op, f) ==
    /\ Idle(w)
    /\ worker' = [worker EXCEPT ![w] =
           [op |-> op, key |-> activeKey, flow |-> f,
            loaded |-> IF op = "found" THEN NoConnection ELSE connection]]
EndWork(w) == worker' = [worker EXCEPT ![w] = NoGoogleWork]

(* SQLAlchemy writes a column when the new value differs from the loaded one.   *)
(* A new ciphertext always differs, even if the key and the token are the same. *)
Assigned(stored, loaded, new) == IF loaded = new THEN stored ELSE new

-------------------------------------------------------------------------------
(* The OAuth flow                                                               *)

StartConnection(f) ==
    /\ flow[f] = "unused"
    /\ flow' = [flow EXCEPT ![f] = "active"]
    /\ UNCHANGED <<connection, activeKey, worker, exchanged, undone>>

(* The row that mark_consumed_if_active updated stays locked until the          *)
(* transaction of the callback ends.                                            *)
InTransaction(w) == worker[w].op \in {"consumed", "persisting"}
RowLocked(f) == \E w \in Worker : InTransaction(w) /\ worker[w].flow = f

Expire(f) ==
    /\ flow[f] = "active"
    /\ flow' = [flow EXCEPT ![f] = "expired"]
    /\ UNCHANGED <<connection, activeKey, worker, exchanged, undone>>

(* handle_callback: get_active_by_state_hash                                    *)
FindState(w, f) ==
    /\ flow[f] = "active"
    /\ BeginWork(w, "found", f)
    /\ UNCHANGED <<flow, connection, activeKey, exchanged, undone>>

(* mark_consumed_if_active; the loser of a race is answered as a replay.        *)
\* Mutant: the state is consumed without looking at it again.
ActiveBefore(f) == TRUE

StillActive(f) == flow[f] = "active"
ConsumeState(w) ==
    LET f == worker[w].flow IN
    /\ worker[w].op = "found"
    /\ ~RowLocked(f)
    /\ IF StillActive(f) THEN worker' = [worker EXCEPT ![w].op = "consumed"] ELSE EndWork(w)
    /\ UNCHANGED <<flow, connection, activeKey, exchanged, undone>>

(* Denied, without a code, refused by Google, without the scope or without a    *)
(* refresh token: the consumption is committed and the row left alone.          *)
CallbackFails(w) ==
    /\ InTransaction(w)
    /\ flow' = [flow EXCEPT ![worker[w].flow] = "consumed"]
    /\ EndWork(w)
    /\ UNCHANGED <<connection, activeKey, exchanged, undone>>

(* exchange_code_for_tokens, then the row is loaded.                            *)
ExchangeCode(w) ==
    /\ worker[w].op = "consumed"
    /\ exchanged' = [exchanged EXCEPT ![worker[w].flow] = @ + 1]
    /\ worker' = [worker EXCEPT ![w].op = "persisting", ![w].loaded = connection]
    /\ UNCHANGED <<flow, connection, activeKey, undone>>

(* _persist_connection_from_callback                                            *)
PersistConnection(w) ==
    LET key == worker[w].key
        loaded == worker[w].loaded IN
    /\ worker[w].op = "persisting"
    /\ loaded.exists \/ ~connection.exists
    /\ connection' = IF loaded.exists
         THEN [connection EXCEPT !.active = Assigned(@, loaded.active, TRUE),
                                 !.disconnected = Assigned(@, loaded.disconnected, FALSE),
                                 !.access = key, !.refresh = key,
                                 !.version = Assigned(@, loaded.version, key)]
         ELSE [exists |-> TRUE, active |-> TRUE, disconnected |-> FALSE,
               access |-> key, refresh |-> key, version |-> key]
    /\ flow' = [flow EXCEPT ![worker[w].flow] = "consumed"]
    /\ EndWork(w)
    /\ UNCHANGED <<activeKey, exchanged, undone>>

(* The process dies, the principal is inactive, the insert loses to another one *)
(* on the unique (provider, business), or a token cannot be encrypted: rolled   *)
(* back, and the state is active again.                                         *)
CallbackUndone(w) ==
    /\ InTransaction(w)
    /\ undone < MaxUndone
    /\ undone' = undone + 1
    /\ EndWork(w)
    /\ UNCHANGED <<flow, connection, activeKey, exchanged>>

-------------------------------------------------------------------------------
(* Tokens                                                                       *)

CanDecrypt(row) == row.refresh = row.version

(* get_access_token_for_use of a token that expires, _refresh_connection_tokens *)
BeginRefresh(w) ==
    /\ connection.exists /\ connection.active
    /\ connection.refresh # 0 /\ CanDecrypt(connection)
    /\ BeginWork(w, "refreshing", NoFlow)
    /\ UNCHANGED <<flow, connection, activeKey, exchanged, undone>>

\* Mutant: a refresh leaves the version alone.
CommitRefreshUnversioned(w) ==
    /\ worker[w].op = "refreshing"
    /\ connection' = [connection EXCEPT !.access = worker[w].key, !.refresh = worker[w].key]
    /\ EndWork(w)
    /\ UNCHANGED <<flow, activeKey, exchanged, undone>>

CommitRefresh(w) ==
    LET key == worker[w].key IN
    /\ worker[w].op = "refreshing"
    /\ connection' = [connection EXCEPT
           !.access = key, !.refresh = key,
           !.version = Assigned(@, worker[w].loaded.version, key)]
    /\ EndWork(w)
    /\ UNCHANGED <<flow, activeKey, exchanged, undone>>

(* Google refuses, or a scope is missing: only last_error is written.           *)
RefreshFails(w) ==
    /\ worker[w].op = "refreshing"
    /\ EndWork(w)
    /\ UNCHANGED <<flow, connection, activeKey, exchanged, undone>>

(* run_token_rewrap_job: rows are loaded in batches and committed one by one.   *)
SkipRewrap(row) == ~row.active \/ row.disconnected \/ (row.access = 0 /\ row.refresh = 0)

BeginRewrap(w) ==
    /\ connection.exists
    /\ ~SkipRewrap(connection)
    /\ connection.version # activeKey
    /\ CanDecrypt(connection)
    /\ BeginWork(w, "rewrapping", NoFlow)
    /\ UNCHANGED <<flow, connection, activeKey, exchanged, undone>>

CommitRewrap(w) ==
    LET key == worker[w].key
        loaded == worker[w].loaded IN
    /\ worker[w].op = "rewrapping"
    /\ connection' = [connection EXCEPT
           !.access = IF loaded.access # 0 THEN key ELSE @,
           !.refresh = IF loaded.refresh # 0 THEN key ELSE @,
           !.version = Assigned(@, loaded.version, key)]
    /\ EndWork(w)
    /\ UNCHANGED <<flow, activeKey, exchanged, undone>>

(* revoke_or_disconnect_provider: Google is called between the two steps.       *)
BeginDisconnect(w) ==
    /\ connection.exists
    /\ BeginWork(w, "disconnecting", NoFlow)
    /\ UNCHANGED <<flow, connection, activeKey, exchanged, undone>>

CommitDisconnect(w) ==
    LET loaded == worker[w].loaded IN
    /\ worker[w].op = "disconnecting"
    /\ connection' = [connection EXCEPT !.active = Assigned(@, loaded.active, FALSE),
                                        !.disconnected = TRUE,
                                        !.access = Assigned(@, loaded.access, 0),
                                        !.refresh = Assigned(@, loaded.refresh, 0)]
    /\ EndWork(w)
    /\ UNCHANGED <<flow, activeKey, exchanged, undone>>

(* The runbook of the rotation, and its rollback: both keys stay in the keyring *)
(* and a configuration with another active version is deployed.                 *)
Rotate(k) ==
    /\ k # activeKey
    /\ Drains => \A w \in Worker : Idle(w)
    /\ activeKey' = k
    /\ UNCHANGED <<flow, connection, worker, exchanged, undone>>

-------------------------------------------------------------------------------
WorkerStep(w) ==
    \/ \E f \in Flow : FindState(w, f)
    \/ ConsumeState(w)
    \/ CallbackFails(w)
    \/ ExchangeCode(w)
    \/ PersistConnection(w)
    \/ CallbackUndone(w)
    \/ BeginRefresh(w)
    \/ CommitRefresh(w)
    \/ RefreshFails(w)
    \/ BeginRewrap(w)
    \/ CommitRewrap(w)
    \/ BeginDisconnect(w)
    \/ CommitDisconnect(w)

ConnectionNext ==
    \/ \E f \in Flow : StartConnection(f) \/ Expire(f)
    \/ \E w \in Worker : WorkerStep(w)
    \/ \E k \in KeyVersion : Rotate(k)

ConnectionSpec == ConnectionInit /\ [][ConnectionNext]_googleVars

-------------------------------------------------------------------------------
(* The code of one OAuth flow is exchanged once, however often the callback is  *)
(* delivered and whatever overlaps, and once more for each transaction that was *)
(* rolled back.                                                                 *)
ExchangedOnce == \A f \in Flow : exchanged[f] <= 1 + undone

(* "old rows still decrypt with their stored token_key_version": the version    *)
(* column names the key of the tokens that are stored beside it, although       *)
(* refresh, rewrap, callback and disconnect overwrite each other's columns.     *)
VersionNamesKey ==
    /\ connection.access # 0 => connection.access = connection.version
    /\ connection.refresh # 0 => connection.refresh = connection.version
===============================================================================
