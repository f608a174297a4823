---------------------------- MODULE TLSCertificates ----------------------------
(***************************************************************************)
(* Certificate assets and site bindings of one preview site                *)
(* (app/services/tls_certificates.py).  Every request runs in its own      *)
(* database session and talks to Secret Manager, Compute and the public    *)
(* endpoint between its commits, so a request is a sequence of steps:      *)
(* what a session loaded is kept in its request record and may be stale    *)
(* by the time the session commits.                                        *)
(*                                                                         *)
(*   asset     asset row per certificate: custody, status, resource name   *)
(*   binding   binding row per certificate of the site                     *)
(*   created   certificates in the order their asset rows were inserted    *)
(*   drawn     key pairs the service has generated so far                  *)
(*   vault     certificates whose PEM bundle is in Secret Manager          *)
(*   compute   Compute sslCertificates: <<certificate, kind of name>>      *)
(*   endpoint  certificate served on the preview hostname                  *)
(*   expiring  certificates within the minimum validity window             *)
(*   req       request record per worker (one HTTP request thread each)    *)
(***************************************************************************)
EXTENDS Naturals, Sequences, FiniteSets

CONSTANTS
    Generated,   \* key pairs the service can generate, each used once
    Supplied,    \* certificates an operator can hand in with their key
    OnCompute,   \* supplied certificates that Compute already holds
    Worker,
    Offered,     \* bound: the requests clients of this instance make
    Served,      \* bound: certificates a deployment may put on the endpoint
    Mortal,      \* bound: certificates that may come close to expiry
    None

Cert == Generated \cup Supplied

ASSUME CertificateAssumption ==
    /\ OnCompute \subseteq Supplied
    /\ Generated \cap Supplied = {}
    /\ Served \cup Mortal \subseteq Cert
    /\ Offered \subseteq {"generate", "import", "ensure", "adopt", "bind", "verify"}
    /\ None \notin Cert

VARIABLES asset, binding, created, drawn, vault, compute, endpoint, expiring, req

rows == <<asset, binding, created>>
cloud == <<vault, compute, endpoint, expiring>>
vars == <<asset, binding, created, drawn, vault, compute, endpoint, expiring, req>>

-----------------------------------------------------------------------------
(* Rows *)

Custody  == {"absent", "pending_vault", "vaulted", "external"}
Status   == {"none", "validated", "vaulted", "published", "failed"}
Resource == {"none", "derived", "adopted"}
Manifest == {"none", "republish_required", "published_to_repo", "retired"}
Serving  == {"none", "not_verified", "serving", "fingerprint_mismatch", "unreachable"}

AssetRow   == [custody : Custody, status : Status, resource : Resource]
BindingRow == [held : BOOLEAN, active : BOOLEAN, manifest : Manifest,
               serving : Serving, observed : Cert \cup {None}]

NoAsset   == [custody |-> "absent", status |-> "none", resource |-> "none"]
NoBinding == [held |-> FALSE, active |-> FALSE, manifest |-> "none",
              serving |-> "none", observed |-> None]

\* Mutant: an asset status written into the binding's manifest column.
NewBindingMislabelled ==
    [held |-> TRUE, active |-> TRUE, manifest |-> "validated",
     serving |-> "not_verified", observed |-> None]

NewAsset   == [custody |-> "pending_vault", status |-> "validated", resource |-> "none"]
NewBinding == [held |-> TRUE, active |-> TRUE, manifest |-> "republish_required",
               serving |-> "not_verified", observed |-> None]

\* A flush writes only the columns whose value differs from the loaded one.
Flush(loaded, new, stored) == IF new = loaded THEN stored ELSE new

Active == {c \in Cert : binding[c].active}
ActiveCert == IF Active = {} THEN None ELSE CHOOSE c \in Active : TRUE

Published(row) == row.status = "published" /\ row.resource # "none"

\* Name the publication uses: the recorded one, else derived from the fingerprint.
ResourceName(row) == IF row.resource # "none" THEN row.resource ELSE "derived"

-----------------------------------------------------------------------------
(* Requests *)

Phase == {"idle", "insert", "vault", "vaulted", "load", "compute", "probe",
          "select", "activate", "observe", "record"}
Kind == {"none", "publish", "adopt", "reuse", "verify"}

Request == [phase : Phase, kind : Kind, cert : Cert \cup {None}, row : AssetRow,
            cur : Cert \cup {None}, bound : BindingRow,
            seen : Cert \cup {None}, conflict : BOOLEAN]

\* A finished request; conflict: the database rejected its last flush.
Ended(conflict) ==
    [phase |-> "idle", kind |-> "none", cert |-> None, row |-> NoAsset,
     cur |-> None, bound |-> NoBinding, seen |-> None, conflict |-> conflict]

Idle == Ended(FALSE)

Open(phase, kind, c, cur) ==
    [phase |-> phase, kind |-> kind, cert |-> c, row |-> asset[c], cur |-> cur,
     bound |-> NoBinding, seen |-> None, conflict |-> FALSE]

In(w, phase) == req[w].phase = phase
Becomes(w, r) == req' = [req EXCEPT ![w] = r]
GoTo(w, phase) == Becomes(w, [req[w] EXCEPT !.phase = phase])

Idles(w, request) == In(w, "idle") /\ request \in Offered

Init ==
    /\ asset = [c \in Cert |-> NoAsset]
    /\ binding = [c \in Cert |-> NoBinding]
    /\ created = << >>
    /\ drawn = {}
    /\ vault = {}
    /\ compute = OnCompute \X {"adopted"}
    /\ endpoint = None
    /\ expiring = {}
    /\ req = [w \in Worker |-> Idle]

-----------------------------------------------------------------------------
(* generate_for_site, import_for_site and ensure_for_site: where they start *)

Generate(w) ==
    /\ \E c \in Generated \ drawn :
         /\ drawn' = drawn \cup {c}
         /\ Becomes(w, Open("insert", "publish", c, None))
    /\ UNCHANGED <<rows, cloud>>

\* Mutant: a retry of a failed asset resumes at the Compute call.
AfterRowRetried(row) ==
    CASE row.custody = "absent" -> "insert"
      [] row.custody = "vaulted" \/ row.status = "failed" -> "compute"
      [] OTHER -> "vault"

AfterRow(row) ==
    CASE row.custody = "absent"  -> "insert"
      [] row.custody = "vaulted" -> "compute"
      [] OTHER                   -> "vault"

BeginGenerate(w) == Idles(w, "generate") /\ Generate(w)

BeginImport(w) ==
    /\ Idles(w, "import")
    /\ \E c \in Supplied :
         Becomes(w, Open(AfterRow(asset[c]), "publish", c, None))
    /\ UNCHANGED <<rows, drawn, cloud>>

\* Mutant: resume by status instead of custody.
UsableByStatus(c) == /\ c \notin expiring
                     /\ Published(asset[c]) \/ asset[c].status = "vaulted"

\* An asset ensure can reuse (published) or resume (vaulted) for this hostname.
Usable(c) == /\ c \notin expiring
             /\ Published(asset[c]) \/ asset[c].custody = "vaulted"

\* The active binding's asset first, then the newest row.
Preferred(c, d) ==
    \/ c = ActiveCert
    \/ /\ d # ActiveCert
       /\ \E i, j \in DOMAIN created : created[i] = c /\ created[j] = d /\ i >= j

BeginEnsure(w) ==
    /\ Idles(w, "ensure")
    /\ \E c \in Cert :
         /\ Usable(c)
         /\ \A d \in Cert : Usable(d) => Preferred(c, d)
         /\ Becomes(w, IF Published(asset[c])
                       THEN Open("probe", "reuse", c, ActiveCert)
                       ELSE Open("load", "publish", c, ActiveCert))
    /\ UNCHANGED <<rows, drawn, cloud>>

BeginEnsureAnew(w) ==
    /\ Idles(w, "ensure")
    /\ \A c \in Cert : ~Usable(c)
    /\ Generate(w)

-----------------------------------------------------------------------------
(* adopt_for_site, bind_existing_asset, verify_site_endpoint: their reads *)

BeginAdopt(w) ==
    /\ Idles(w, "adopt")
    /\ \E c \in OnCompute :
         Becomes(w, IF asset[c].resource = "derived"
                    THEN Idle
                    ELSE Open("select", "adopt", c, None))
    /\ UNCHANGED <<rows, drawn, cloud>>

BeginBind(w) ==
    /\ Idles(w, "bind")
    /\ \E c \in Cert :
         /\ Published(asset[c])
         /\ Becomes(w, Open("select", "reuse", c, None))
    /\ UNCHANGED <<rows, drawn, cloud>>

BeginVerify(w) ==
    /\ Idles(w, "verify")
    /\ Active # {}
    /\ Becomes(w, [Open("observe", "verify", ActiveCert, ActiveCert)
                     EXCEPT !.bound = binding[ActiveCert]])
    /\ UNCHANGED <<rows, drawn, cloud>>

-----------------------------------------------------------------------------
(* _vault_publish_and_bind *)

\* The fingerprint is unique per business: the second insert is rejected.
InsertAsset(w) ==
    /\ In(w, "insert")
    /\ LET c == req[w].cert IN
         IF asset[c] = NoAsset
         THEN /\ asset' = [asset EXCEPT ![c] = NewAsset]
              /\ created' = Append(created, c)
              /\ Becomes(w, [req[w] EXCEPT !.phase = "vault", !.row = NewAsset])
         ELSE /\ Becomes(w, Ended(TRUE))
              /\ UNCHANGED <<asset, created>>
    /\ UNCHANGED <<binding, drawn, cloud>>

\* The bundle is in Secret Manager, the row does not say so yet.
StoreInVault(w) ==
    /\ In(w, "vault")
    /\ vault' = vault \cup {req[w].cert}
    /\ GoTo(w, "vaulted")
    /\ UNCHANGED <<rows, drawn, compute, endpoint, expiring>>

CommitVaulted(w) ==
    /\ In(w, "vaulted")
    /\ LET c   == req[w].cert
           new == [custody  |-> Flush(req[w].row.custody, "vaulted", asset[c].custody),
                   status   |-> Flush(req[w].row.status, "vaulted", asset[c].status),
                   resource |-> asset[c].resource]
       IN /\ asset' = [asset EXCEPT ![c] = new]
          /\ Becomes(w, [req[w] EXCEPT !.phase = "compute", !.row = new])
    /\ UNCHANGED <<binding, created, drawn, cloud>>

\* ensure resuming a vaulted asset reads the bundle back.
LoadFromVault(w) ==
    /\ In(w, "load")
    /\ req[w].cert \in vault
    /\ GoTo(w, "compute")
    /\ UNCHANGED <<rows, drawn, cloud>>

\* Mutant: the insert operation is not waited for, it may still fail.
CreateUnawaited(w) ==
    /\ In(w, "compute")
    /\ compute' \in {compute, compute \cup {<<req[w].cert, ResourceName(req[w].row)>>}}
    /\ GoTo(w, "select")
    /\ UNCHANGED <<rows, drawn, vault, endpoint, expiring>>

\* Creating a resource that exists already answers 409 and is accepted.
CreateOnCompute(w) ==
    /\ In(w, "compute")
    /\ compute' = compute \cup {<<req[w].cert, ResourceName(req[w].row)>>}
    /\ GoTo(w, "select")
    /\ UNCHANGED <<rows, drawn, vault, endpoint, expiring>>

\* _mark_failed, in a transaction of its own.
MarkFailed(w) ==
    LET c == req[w].cert IN
    asset' = [asset EXCEPT ![c].status = Flush(req[w].row.status, "failed", @)]

\* A provider error says nothing about whether the call took effect.
VaultError(w) ==
    /\ In(w, "vault")
    /\ vault' \in {vault, vault \cup {req[w].cert}}
    /\ MarkFailed(w)
    /\ Becomes(w, Idle)
    /\ UNCHANGED <<binding, created, drawn, compute, endpoint, expiring>>

ComputeError(w) ==
    /\ In(w, "compute")
    /\ compute' \in {compute, compute \cup {<<req[w].cert, ResourceName(req[w].row)>>}}
    /\ MarkFailed(w)
    /\ Becomes(w, Idle)
    /\ UNCHANGED <<binding, created, drawn, vault, endpoint, expiring>>

\* ensure reuses a published asset after Compute confirmed it; the asset that
\* was active when the request began needs no activation.
Probe(w) ==
    /\ In(w, "probe")
    /\ IF req[w].cur = req[w].cert THEN Becomes(w, Idle) ELSE GoTo(w, "select")
    /\ UNCHANGED <<rows, drawn, cloud>>

ReadError(w) ==
    /\ In(w, "probe") \/ In(w, "load")
    /\ Becomes(w, Idle)
    /\ UNCHANGED <<rows, drawn, cloud>>

-----------------------------------------------------------------------------
(* _activate_binding and the commit that ends every selecting request *)

ReadActive(w) ==
    /\ In(w, "select")
    /\ Becomes(w, [req[w] EXCEPT !.phase = "activate", !.cur = ActiveCert,
                     !.bound = IF ActiveCert = None THEN NoBinding ELSE binding[ActiveCert]])
    /\ UNCHANGED <<rows, drawn, cloud>>

\* The asset row as the committing request writes it.
AssetWritten(w) ==
    LET c   == req[w].cert
        row == req[w].row
        to  == IF req[w].kind = "adopt" THEN "adopted" ELSE ResourceName(row)
    IN CASE req[w].kind = "reuse" -> asset[c]
         [] req[w].kind = "adopt" /\ row = NoAsset ->
              [custody |-> "external", status |-> "published", resource |-> "adopted"]
         [] OTHER ->
              [custody  |-> asset[c].custody,
               status   |-> Flush(row.status, "published", asset[c].status),
               resource |-> Flush(row.resource, to, asset[c].resource)]

\* The binding rows after deactivating the loaded active one and inserting c's.
Reselected(w) ==
    [d \in Cert |->
        IF d = req[w].cert THEN NewBinding
        ELSE IF d = req[w].cur
             THEN [binding[d] EXCEPT !.active = FALSE,
                     !.manifest = Flush(req[w].bound.manifest, "retired", @)]
             ELSE binding[d]]

\* Mutant: the binding is inactive until its manifest is published again.
RepublishedInactive(w) ==
    [binding EXCEPT
        ![req[w].cert].active = FALSE,
        ![req[w].cert].manifest = Flush(req[w].bound.manifest, "republish_required", @),
        ![req[w].cert].serving = Flush(req[w].bound.serving, "not_verified", @)]

\* The certificate is the active one: republish it and verify it again.
Republished(w) ==
    [binding EXCEPT
        ![req[w].cert].manifest = Flush(req[w].bound.manifest, "republish_required", @),
        ![req[w].cert].serving = Flush(req[w].bound.serving, "not_verified", @)]

\* Mutant: no unique index over the active bindings.
RejectedUnindexed(w) ==
    \/ req[w].kind = "adopt" /\ req[w].row = NoAsset /\ asset[req[w].cert] # NoAsset
    \/ req[w].cur # req[w].cert /\ binding[req[w].cert].held

\* Unique (business, fingerprint); unique (business, site, certificate);
\* unique (business, site) among the active bindings.
Rejected(w) ==
    \/ req[w].kind = "adopt" /\ req[w].row = NoAsset /\ asset[req[w].cert] # NoAsset
    \/ /\ req[w].cur # req[w].cert
       /\ \/ binding[req[w].cert].held
          \/ Active \ {req[w].cur} # {}

CommitActivation(w) ==
    /\ In(w, "activate")
    /\ LET c == req[w].cert IN
         IF Rejected(w)
         THEN Becomes(w, Ended(TRUE)) /\ UNCHANGED rows
         ELSE /\ asset' = [asset EXCEPT ![c] = AssetWritten(w)]
              /\ created' = IF asset[c] = NoAsset THEN Append(created, c) ELSE created
              /\ binding' = IF req[w].cur = c THEN Republished(w) ELSE Reselected(w)
              /\ Becomes(w, Idle)
    /\ UNCHANGED <<drawn, cloud>>

-----------------------------------------------------------------------------
(* verify_site_endpoint: observe, then record on the binding that was loaded *)

Observe(w) ==
    /\ In(w, "observe")
    /\ \E seen \in {endpoint, None} :
         Becomes(w, [req[w] EXCEPT !.phase = "record", !.seen = seen])
    /\ UNCHANGED <<rows, drawn, cloud>>

Verdict(w) ==
    CASE req[w].seen = None        -> "unreachable"
      [] req[w].seen = req[w].cert -> "serving"
      [] OTHER                     -> "fingerprint_mismatch"

\* Mutant: the observed fingerprint is kept from the first verification.
CommitFirstObservation(w) ==
    /\ In(w, "record")
    /\ LET c == req[w].cert IN
       binding' = [binding EXCEPT
          ![c].serving = Flush(req[w].bound.serving, Verdict(w), @),
          ![c].observed = IF @ = None THEN req[w].seen ELSE @]
    /\ Becomes(w, Idle)
    /\ UNCHANGED <<asset, created, drawn, cloud>>

CommitObservation(w) ==
    /\ In(w, "record")
    /\ LET c == req[w].cert IN
       binding' = [binding EXCEPT
          ![c].serving = Flush(req[w].bound.serving, Verdict(w), @),
          ![c].observed = IF req[w].seen = None THEN @
                          ELSE Flush(req[w].bound.observed, req[w].seen, @)]
    /\ Becomes(w, Idle)
    /\ UNCHANGED <<asset, created, drawn, cloud>>

-----------------------------------------------------------------------------
(* The rest of the world *)

\* The process dies: the session is rolled back, cloud effects stay.
Crash(w) ==
    /\ ~In(w, "idle")
    /\ Becomes(w, Idle)
    /\ UNCHANGED <<rows, drawn, cloud>>

\* A deployment makes the load balancer serve a certificate Compute holds.
Serve ==
    /\ \E c \in Served : /\ \E kind \in Resource : <<c, kind>> \in compute
                         /\ endpoint' = c
    /\ UNCHANGED <<rows, drawn, vault, compute, expiring, req>>

\* A publication marks the manifest of the active binding.
ManifestPublished ==
    /\ \E c \in Active :
         binding' = [binding EXCEPT ![c].manifest = "published_to_repo"]
    /\ UNCHANGED <<asset, created, drawn, cloud, req>>

Expire ==
    /\ \E c \in Mortal : /\ asset[c] # NoAsset
                         /\ expiring' = expiring \cup {c}
    /\ UNCHANGED <<rows, drawn, vault, compute, endpoint, req>>

Begin(w) ==
    \/ BeginGenerate(w) \/ BeginImport(w) \/ BeginEnsure(w) \/ BeginEnsureAnew(w)
    \/ BeginAdopt(w) \/ BeginBind(w) \/ BeginVerify(w)

Step(w) ==
    \/ InsertAsset(w) \/ StoreInVault(w) \/ CommitVaulted(w) \/ LoadFromVault(w)
    \/ CreateOnCompute(w) \/ Probe(w) \/ ReadActive(w) \/ CommitActivation(w)
    \/ Observe(w) \/ CommitObservation(w)

Error(w) == VaultError(w) \/ ComputeError(w) \/ ReadError(w)

Next ==
    \/ \E w \in Worker : Begin(w) \/ Step(w) \/ Error(w) \/ Crash(w)
    \/ Serve \/ ManifestPublished \/ Expire

Spec == Init /\ [][Next]_vars

-----------------------------------------------------------------------------
(* Properties *)

\* Every row, request and cloud resource has its type.
TypeOK ==
    /\ asset \in [Cert -> AssetRow]
    /\ binding \in [Cert -> BindingRow]
    /\ created \in Seq(Cert)
    /\ drawn \subseteq Generated
    /\ vault \subseteq Cert
    /\ compute \subseteq Cert \X Resource
    /\ endpoint \in Cert \cup {None}
    /\ expiring \subseteq Cert
    /\ req \in [Worker -> Request]

\* A key whose certificate the service uploaded, or whose row says vaulted, is
\* in Secret Manager: no crash, error or retry loses the only copy of a key
\* that is in use (_vault_publish_and_bind stores before it creates).
KeysAreVaulted ==
    \A c \in Cert : <<c, "derived">> \in compute \/ asset[c].custody = "vaulted"
                    => c \in vault

\* A certificate bound to the site names a Compute resource that exists, for
\* the deployment puts that name on the Ingress.
BoundIsOnCompute ==
    \A c \in Cert : binding[c].held => /\ asset[c].resource # "none"
                                       /\ <<c, asset[c].resource>> \in compute

\* Racing selections leave one active binding (_activate_binding deactivates
\* what it read; the partial unique index rejects the rest).
OneActive == \A c, d \in Active : c = d

\* The selection the rest of the system sees: one certificate once there is
\* one, always on Compute, replaced in a single step.
Selection == INSTANCE CertificateSelection WITH
    selected <- ActiveCert,
    live <- {c \in Cert : \E kind \in Resource : <<c, kind>> \in compute}

SelectionSpec == Selection!Spec

\* A binding that says serving has the selected certificate's own fingerprint
\* on record ("Success requires the endpoint fingerprint to match the selected
\* asset", docs/runbooks/self-managed-preview-tls.md).
ServingWasObserved ==
    \A c \in Cert : binding[c].serving = "serving" => binding[c].observed = c

\* With no other request about, a published asset that an operator selects is
\* accepted ("select the prior published asset and republish the site").
SelectionAccepted == \A w \in Worker : ~req[w].conflict

\* Retried ensure requests finish what a partial failure left: a vaulted key
\* ends up published and selected ("resumes a vaulted asset").
EnsureResumes ==
    (\E c \in Cert : asset[c].custody = "vaulted")
        ~> (\E c \in Active : Published(asset[c]))

\* A request goes on or fails; clients repeat ensure, and no provider error or
\* crash hits a step of its publication forever.
EnsureRetried(w) ==
    /\ WF_vars(Step(w) \/ Error(w))
    /\ SF_vars(BeginEnsure(w)) /\ SF_vars(LoadFromVault(w))
    /\ SF_vars(CreateOnCompute(w)) /\ SF_vars(Probe(w))
    /\ SF_vars(ReadActive(w)) /\ SF_vars(CommitActivation(w))

RetrySpec == Spec /\ \A w \in Worker : EnsureRetried(w)
=============================================================================
