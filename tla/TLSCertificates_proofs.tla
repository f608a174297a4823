------------------------ MODULE TLSCertificates_proofs ------------------------
(***************************************************************************)
(* What TLAPS proves of TLSCertificates, for any number of certificates    *)
(* and concurrent requests.  The inductive invariant adds to the checked   *)
(* properties what the sessions of the requests under way may rely on.     *)
(***************************************************************************)
EXTENDS TLSCertificates, TLAPS

Publishing == {"insert", "vault", "vaulted", "load", "compute"}
Selecting  == {"select", "activate"}

\* What a request may rely on: its kind follows from its phase, a key it is to
\* upload is in Secret Manager, the resource names it holds exist on Compute,
\* and a row it saw with a resource name has one for ever.
Sound(r, rowOf, stored, live) ==
    r.phase # "idle" =>
        /\ r.cert \in Cert
        /\ r.phase \in Publishing => r.kind = "publish"
        /\ r.phase = "probe" => r.kind = "reuse"
        /\ r.phase \in {"observe", "record"} => r.kind = "verify"
        /\ r.phase \in Selecting => r.kind \in {"publish", "adopt", "reuse"}
        /\ r.phase \in Selecting /\ r.kind = "adopt" => <<r.cert, "adopted">> \in live
        /\ r.phase \in Selecting /\ r.kind = "publish"
             => <<r.cert, ResourceName(r.row)>> \in live
        /\ r.phase \in Selecting \cup {"probe"} /\ r.kind = "reuse"
             => rowOf[r.cert].resource # "none"
        /\ r.row.custody = "vaulted" \/ r.phase \in {"vaulted", "compute"}
             => r.cert \in stored
        /\ r.row.resource # "none" => /\ <<r.cert, r.row.resource>> \in live
                                      /\ rowOf[r.cert].resource # "none"

SoundRequests == \A w \in Worker : Sound(req[w], asset, vault, compute)

AdoptablesExist == OnCompute \X {"adopted"} \subseteq compute

\* The name on a row exists on Compute.
ResourcesExist ==
    \A c \in Cert : asset[c].resource # "none" => <<c, asset[c].resource>> \in compute

BoundHasResource == \A c \in Cert : binding[c].held => asset[c].resource # "none"

DataOK ==
    /\ AdoptablesExist
    /\ KeysAreVaulted
    /\ ResourcesExist
    /\ BoundHasResource
    /\ OneActive

IInv == TypeOK /\ DataOK /\ SoundRequests

-----------------------------------------------------------------------------
\* A chosen active certificate is one of the certificates of the site.
LEMMA ActiveCertIsActive ==
    ASSUME Active # {}
    PROVE  ActiveCert \in Active /\ ActiveCert \in Cert
BY DEF ActiveCert, Active

LEMMA ActiveCertType ==
    ActiveCert \in Cert \cup {None}
BY ActiveCertIsActive DEF ActiveCert

\* Opening a request on a certificate of the site gives a request record.
LEMMA OpenType ==
    ASSUME TypeOK, NEW phase \in Phase, NEW kind \in Kind, NEW c \in Cert,
           NEW cur \in Cert \cup {None}
    PROVE  Open(phase, kind, c, cur) \in Request
BY DEF Open, TypeOK, Request, NoBinding, BindingRow, Manifest, Serving

LEMMA EndedType ==
    ASSUME NEW b \in BOOLEAN
    PROVE  Ended(b) \in Request
BY DEF Ended, Request, Phase, Kind, NoAsset, AssetRow, Custody, Status, Resource,
       NoBinding, BindingRow, Manifest, Serving

\* A flushed column keeps its type.
LEMMA FlushType ==
    ASSUME NEW S, NEW loaded, NEW new \in S, NEW stored \in S
    PROVE  Flush(loaded, new, stored) \in S
BY DEF Flush

LEMMA RowTypes ==
    /\ NoAsset \in AssetRow /\ NewAsset \in AssetRow
    /\ NoBinding \in BindingRow /\ NewBinding \in BindingRow
BY DEF NoAsset, NewAsset, AssetRow, Custody, Status, Resource,
       NoBinding, NewBinding, BindingRow, Manifest, Serving

LEMMA AfterRowType ==
    ASSUME NEW row \in AssetRow
    PROVE  /\ AfterRow(row) \in {"insert", "vault", "compute"}
           /\ AfterRow(row) = "compute" => row.custody = "vaulted"
BY DEF AfterRow, AssetRow

LEMMA ResourceNameType ==
    ASSUME NEW row \in AssetRow
    PROVE  ResourceName(row) \in Resource /\ ResourceName(row) # "none"
BY DEF ResourceName, AssetRow, Resource

\* What a request relies on survives growth of the vault, of Compute and of
\* the recorded resource names.
LEMMA SoundGrows ==
    ASSUME NEW r, NEW rows1, NEW rows2, NEW stored1, NEW stored2, NEW live1, NEW live2,
           Sound(r, rows1, stored1, live1),
           stored1 \subseteq stored2, live1 \subseteq live2,
           \A c \in Cert : rows1[c].resource # "none" => rows2[c].resource # "none"
    PROVE  Sound(r, rows2, stored2, live2)
BY DEF Sound

LEMMA EndedIsSound ==
    ASSUME NEW b \in BOOLEAN, NEW a, NEW v, NEW k
    PROVE  Sound(Ended(b), a, v, k)
BY DEF Ended, Sound

LEMMA InitIInv == Init => IInv
<1> SUFFICES ASSUME Init PROVE IInv
  OBVIOUS
<1> USE DEF Init
<1>1. Idle \in Request /\ \A a, v, k : Sound(Idle, a, v, k)
  BY EndedType, EndedIsSound DEF Idle
<1>2. TypeOK
  BY <1>1, RowTypes, CertificateAssumption
  DEF TypeOK, Cert, Resource
<1>3. SoundRequests
  BY <1>1 DEF SoundRequests
<1>4. AdoptablesExist /\ KeysAreVaulted /\ ResourcesExist
  BY DEF AdoptablesExist, KeysAreVaulted, ResourcesExist, NoAsset
<1>5. BoundHasResource /\ OneActive
  BY DEF BoundHasResource, OneActive, Active, NoBinding
<1> QED BY <1>2, <1>3, <1>4, <1>5 DEF IInv, DataOK

-----------------------------------------------------------------------------
(* Steps that change one request and, at most, the key pairs drawn *)

LEMMA RequestStep ==
    ASSUME IInv, UNCHANGED <<rows, cloud>>, drawn' \subseteq Generated,
           NEW w \in Worker, NEW r \in Request, Becomes(w, r),
           Sound(r, asset, vault, compute)
    PROVE  IInv'
<1>1. TypeOK'
  BY DEF IInv, TypeOK, Becomes, rows, cloud
<1>2. SoundRequests'
  BY DEF IInv, TypeOK, SoundRequests, Becomes, rows, cloud
<1>3. DataOK'
  BY DEF IInv, DataOK, AdoptablesExist, KeysAreVaulted, ResourcesExist,
         BoundHasResource, OneActive, Active, rows, cloud
<1> QED BY <1>1, <1>2, <1>3 DEF IInv

LEMMA IdleStep ==
    ASSUME IInv, UNCHANGED <<rows, drawn, cloud>>, NEW w \in Worker, Becomes(w, Idle)
    PROVE  IInv'
BY RequestStep, EndedType, EndedIsSound DEF Idle, IInv, TypeOK

\* A request that goes on keeps what it loaded.
LEMMA RequestOf ==
    ASSUME IInv, NEW w \in Worker
    PROVE  req[w] \in Request /\ Sound(req[w], asset, vault, compute)
BY DEF IInv, TypeOK, SoundRequests

\* A request that begins with the row of a certificate of the site.
LEMMA OpenIsSound ==
    ASSUME IInv, NEW c \in Cert, NEW cur \in Cert \cup {None},
           NEW phase \in Phase \ {"vaulted"}, NEW kind \in Kind,
           phase \in Publishing => kind = "publish",
           phase = "probe" => kind = "reuse",
           phase \in {"observe", "record"} => kind = "verify",
           phase \in Selecting => kind \in {"adopt", "reuse"},
           phase = "compute" => asset[c].custody = "vaulted",
           phase \in Selecting /\ kind = "adopt" => c \in OnCompute,
           phase \in Selecting \cup {"probe"} /\ kind = "reuse"
             => asset[c].resource # "none"
    PROVE  /\ Open(phase, kind, c, cur) \in Request
           /\ Sound(Open(phase, kind, c, cur), asset, vault, compute)
<1>1. Open(phase, kind, c, cur) \in Request
  BY OpenType DEF IInv
<1>2. <<c, "adopted">> \in compute \/ c \notin OnCompute
  BY DEF IInv, DataOK, AdoptablesExist
<1>3. asset[c].resource # "none" => <<c, asset[c].resource>> \in compute
  BY DEF IInv, DataOK, ResourcesExist
<1>4. asset[c].custody = "vaulted" => c \in vault
  BY DEF IInv, DataOK, KeysAreVaulted
<1> QED BY <1>1, <1>2, <1>3, <1>4 DEF Open, Sound, Selecting

LEMMA BeginIInv ==
    ASSUME IInv, NEW w \in Worker, Begin(w)
    PROVE  IInv'
<1> USE DEF Phase, Kind, Publishing, Selecting
<1>0. asset \in [Cert -> AssetRow] /\ drawn \subseteq Generated /\ None \in Cert \cup {None}
  BY DEF IInv, TypeOK
<1>1. ASSUME Generate(w) PROVE IInv'
  <2>1. PICK c \in Generated \ drawn :
          /\ drawn' = drawn \cup {c}
          /\ Becomes(w, Open("insert", "publish", c, None))
    BY <1>1 DEF Generate
  <2> QED BY <1>0, <1>1, <2>1, OpenIsSound, RequestStep DEF Generate, Cert
<1>2. CASE BeginGenerate(w)
  BY <1>1, <1>2 DEF BeginGenerate
<1>3. CASE BeginImport(w)
  <2>1. PICK c \in Supplied : Becomes(w, Open(AfterRow(asset[c]), "publish", c, None))
    BY <1>3 DEF BeginImport
  <2>2. c \in Cert /\ asset[c] \in AssetRow
    BY <1>0 DEF Cert
  <2> QED BY <1>0, <1>3, <2>1, <2>2, AfterRowType, OpenIsSound, RequestStep DEF BeginImport
<1>4. CASE BeginEnsure(w)
  <2>1. PICK c \in Cert :
          /\ Usable(c)
          /\ Becomes(w, IF Published(asset[c])
                        THEN Open("probe", "reuse", c, ActiveCert)
                        ELSE Open("load", "publish", c, ActiveCert))
    BY <1>4 DEF BeginEnsure
  <2>2. CASE Published(asset[c])
    BY <1>0, <1>4, <2>1, <2>2, ActiveCertType, OpenIsSound, RequestStep
    DEF BeginEnsure, Published
  <2>3. CASE ~Published(asset[c])
    BY <1>0, <1>4, <2>1, <2>3, ActiveCertType, OpenIsSound, RequestStep
    DEF BeginEnsure
  <2> QED BY <2>2, <2>3
<1>5. CASE BeginEnsureAnew(w)
  BY <1>1, <1>5 DEF BeginEnsureAnew
<1>6. CASE BeginAdopt(w)
  <2>1. PICK c \in OnCompute :
          Becomes(w, IF asset[c].resource = "derived"
                     THEN Idle ELSE Open("select", "adopt", c, None))
    BY <1>6 DEF BeginAdopt
  <2>2. c \in Cert
    BY CertificateAssumption DEF Cert
  <2> QED BY <1>0, <1>6, <2>1, <2>2, IdleStep, OpenIsSound, RequestStep DEF BeginAdopt
<1>7. CASE BeginBind(w)
  <2>1. PICK c \in Cert : Published(asset[c]) /\ Becomes(w, Open("select", "reuse", c, None))
    BY <1>7 DEF BeginBind
  <2> QED BY <1>0, <1>7, <2>1, OpenIsSound, RequestStep DEF BeginBind, Published
<1>8. CASE BeginVerify(w)
  <2> DEFINE o == Open("observe", "verify", ActiveCert, ActiveCert)
             r == [o EXCEPT !.bound = binding[ActiveCert]]
  <2>1. ActiveCert \in Cert /\ Becomes(w, r)
    BY <1>8, ActiveCertIsActive DEF BeginVerify
  <2>2. o \in Request /\ Sound(o, asset, vault, compute)
    BY <2>1, OpenIsSound
  <2>3. binding[ActiveCert] \in BindingRow
    BY <2>1 DEF IInv, TypeOK
  <2>4. r \in Request /\ Sound(r, asset, vault, compute)
    <3> HIDE DEF o
    <3> QED BY <2>2, <2>3 DEF Request, Sound
  <2> QED BY <1>0, <1>8, <2>1, <2>4, RequestStep DEF BeginVerify
<1> QED BY <1>2, <1>3, <1>4, <1>5, <1>6, <1>7, <1>8 DEF Begin

-----------------------------------------------------------------------------
(* The steps of a request *)

\* LoadFromVault, Probe, ReadActive, Observe, ReadError and Crash: the
\* request goes on with what it read, or ends.
LEMMA ReadIInv ==
    ASSUME IInv, NEW w \in Worker,
           LoadFromVault(w) \/ Probe(w) \/ ReadActive(w) \/ Observe(w)
             \/ ReadError(w) \/ Crash(w)
    PROVE  IInv'
<1> USE DEF Phase, Publishing, Selecting
<1>1. req[w] \in Request /\ Sound(req[w], asset, vault, compute)
  BY RequestOf
<1>2. drawn \subseteq Generated
  BY DEF IInv, TypeOK
<1>3. CASE LoadFromVault(w)
  <2> DEFINE r == [req[w] EXCEPT !.phase = "compute"]
  <2>1. r \in Request /\ Sound(r, asset, vault, compute)
    BY <1>1, <1>3 DEF LoadFromVault, In, Sound, Request
  <2>2. Becomes(w, r) /\ UNCHANGED <<rows, drawn, cloud>>
    BY <1>3 DEF LoadFromVault, GoTo
  <2> HIDE DEF r
  <2> QED BY <1>2, <2>1, <2>2, RequestStep
<1>4. CASE Probe(w)
  <2> DEFINE r == [req[w] EXCEPT !.phase = "select"]
  <2>1. r \in Request /\ Sound(r, asset, vault, compute)
    BY <1>1, <1>4 DEF Probe, In, Sound, Request
  <2>2. Becomes(w, r) \/ Becomes(w, Idle)
    BY <1>4 DEF Probe, GoTo
  <2>3. UNCHANGED <<rows, drawn, cloud>>
    BY <1>4 DEF Probe
  <2> HIDE DEF r
  <2> QED BY <1>2, <2>1, <2>2, <2>3, RequestStep, IdleStep
<1>5. CASE ReadActive(w)
  <2> DEFINE b == IF ActiveCert = None THEN NoBinding ELSE binding[ActiveCert]
             r == [req[w] EXCEPT !.phase = "activate", !.cur = ActiveCert, !.bound = b]
  <2>1. b \in BindingRow /\ ActiveCert \in Cert \cup {None}
    BY ActiveCertType, RowTypes DEF IInv, TypeOK
  <2>2. r \in Request /\ Sound(r, asset, vault, compute)
    <3> HIDE DEF b
    <3> QED BY <1>1, <1>5, <2>1 DEF ReadActive, In, Sound, Request
  <2>3. Becomes(w, r) /\ UNCHANGED <<rows, drawn, cloud>>
    BY <1>5 DEF ReadActive
  <2> HIDE DEF r
  <2> QED BY <1>2, <2>2, <2>3, RequestStep
<1>6. CASE Observe(w)
  <2>1. PICK seen \in {endpoint, None} :
          Becomes(w, [req[w] EXCEPT !.phase = "record", !.seen = seen])
    BY <1>6 DEF Observe
  <2> DEFINE r == [req[w] EXCEPT !.phase = "record", !.seen = seen]
  <2>2. r \in Request /\ Sound(r, asset, vault, compute)
    BY <1>1, <1>6, <2>1 DEF Observe, In, Sound, Request, IInv, TypeOK
  <2>3. Becomes(w, r) /\ UNCHANGED <<rows, drawn, cloud>>
    BY <1>6, <2>1 DEF Observe
  <2> HIDE DEF r
  <2> QED BY <1>2, <2>2, <2>3, RequestStep
<1>7. CASE ReadError(w) \/ Crash(w)
  BY <1>7, IdleStep DEF ReadError, Crash
<1> QED BY <1>3, <1>4, <1>5, <1>6, <1>7

\* Data only grows under the other requests.
LEMMA OthersStaySound ==
    ASSUME IInv, NEW w \in Worker, NEW r \in Request, Becomes(w, r),
           Sound(r, asset', vault', compute'),
           vault \subseteq vault', compute \subseteq compute',
           \A c \in Cert : asset[c].resource # "none" => asset'[c].resource # "none"
    PROVE  SoundRequests' /\ req' \in [Worker -> Request]
<1>1. req' = [req EXCEPT ![w] = r] /\ req \in [Worker -> Request]
  BY DEF Becomes, IInv, TypeOK
<1>2. ASSUME NEW v \in Worker PROVE Sound(req'[v], asset', vault', compute')
  <2>1. CASE v = w
    BY <1>1, <2>1
  <2>2. CASE v # w
    BY <1>1, <2>2, SoundGrows DEF IInv, SoundRequests
  <2> QED BY <2>1, <2>2
<1> QED BY <1>1, <1>2 DEF SoundRequests

LEMMA InsertIInv ==
    ASSUME IInv, NEW w \in Worker, InsertAsset(w)
    PROVE  IInv'
<1> USE DEF Phase, Publishing, Selecting
<1> DEFINE c == req[w].cert
           r == [req[w] EXCEPT !.phase = "vault", !.row = NewAsset]
<1>1. req[w] \in Request /\ Sound(req[w], asset, vault, compute) /\ c \in Cert
  BY RequestOf DEF InsertAsset, In, Sound
<1>2. CASE asset[c] # NoAsset
  BY <1>2, EndedType, EndedIsSound, RequestStep
  DEF InsertAsset, rows, IInv, TypeOK
<1>3. CASE asset[c] = NoAsset
  <2>1. /\ asset' = [asset EXCEPT ![c] = NewAsset]
        /\ created' = Append(created, c)
        /\ Becomes(w, r)
        /\ UNCHANGED <<binding, drawn, cloud>>
    BY <1>3 DEF InsertAsset
  <2>2. r \in Request /\ Sound(r, asset', vault', compute')
    BY <1>1, <2>1, RowTypes DEF InsertAsset, In, Sound, Request, NewAsset, cloud
  <2>3. /\ SoundRequests'
        /\ req' \in [Worker -> Request]
    <3>1. asset[c].resource = "none" /\ asset \in [Cert -> AssetRow]
      BY <1>3 DEF NoAsset, IInv, TypeOK
    <3> HIDE DEF r
    <3> QED BY <1>1, <2>1, <2>2, <3>1, OthersStaySound DEF cloud
  <2>4. TypeOK'
    BY <1>1, <2>1, <2>3, RowTypes DEF IInv, TypeOK, cloud
  <2>5. DataOK'
    BY <1>1, <1>3, <2>1
    DEF IInv, TypeOK, DataOK, AdoptablesExist, KeysAreVaulted, ResourcesExist,
        BoundHasResource, OneActive, Active, cloud, NoAsset, NewAsset
  <2> QED BY <2>3, <2>4, <2>5 DEF IInv
<1> QED BY <1>2, <1>3

LEMMA StoreIInv ==
    ASSUME IInv, NEW w \in Worker, StoreInVault(w)
    PROVE  IInv'
<1> USE DEF Phase, Publishing, Selecting
<1> DEFINE r == [req[w] EXCEPT !.phase = "vaulted"]
<1>1. req[w] \in Request /\ Sound(req[w], asset, vault, compute) /\ req[w].cert \in Cert
  BY RequestOf DEF StoreInVault, In, Sound
<1>2. /\ Becomes(w, r)
      /\ vault' = vault \cup {req[w].cert}
      /\ UNCHANGED <<rows, drawn, compute, endpoint, expiring>>
  BY DEF StoreInVault, GoTo
<1>3. r \in Request /\ Sound(r, asset', vault', compute')
  BY <1>1, <1>2 DEF StoreInVault, In, Sound, Request, rows
<1>4. SoundRequests' /\ req' \in [Worker -> Request]
  <2> HIDE DEF r
  <2> QED BY <1>1, <1>2, <1>3, OthersStaySound DEF rows
<1>5. TypeOK'
  BY <1>1, <1>2, <1>4 DEF IInv, TypeOK, rows
<1>6. DataOK'
  BY <1>2
  DEF IInv, DataOK, AdoptablesExist, KeysAreVaulted, ResourcesExist,
      BoundHasResource, OneActive, Active, rows
<1> QED BY <1>4, <1>5, <1>6 DEF IInv

LEMMA CommitVaultedIInv ==
    ASSUME IInv, NEW w \in Worker, CommitVaulted(w)
    PROVE  IInv'
<1> USE DEF Phase, Publishing, Selecting
<1> DEFINE c   == req[w].cert
           new == [custody  |-> Flush(req[w].row.custody, "vaulted", asset[c].custody),
                   status   |-> Flush(req[w].row.status, "vaulted", asset[c].status),
                   resource |-> asset[c].resource]
           r   == [req[w] EXCEPT !.phase = "compute", !.row = new]
<1>1. /\ req[w] \in Request /\ Sound(req[w], asset, vault, compute)
      /\ c \in Cert /\ c \in vault
      /\ asset \in [Cert -> AssetRow] /\ asset[c] \in AssetRow
  BY RequestOf DEF CommitVaulted, In, Sound, IInv, TypeOK
<1>2. /\ asset' = [asset EXCEPT ![c] = new]
      /\ Becomes(w, r)
      /\ UNCHANGED <<binding, created, drawn, cloud>>
  BY DEF CommitVaulted
<1>3. new \in AssetRow /\ new.resource = asset[c].resource
  BY <1>1, FlushType DEF AssetRow, Custody, Status
<1> HIDE DEF new
<1>4. r \in Request
  BY <1>1, <1>3 DEF Request
<1>5. Sound(r, asset', vault', compute')
  <2>1. r.phase = "compute" /\ r.cert = c /\ r.kind = req[w].kind /\ r.row = new
    BY <1>1 DEF Request
  <2>2. req[w].kind = "publish"
    BY <1>1 DEF CommitVaulted, In, Sound
  <2>3. asset'[c] = new /\ vault' = vault /\ compute' = compute
    BY <1>1, <1>2 DEF cloud
  <2>4. new.resource # "none" => <<c, new.resource>> \in compute
    BY <1>1, <1>3 DEF IInv, DataOK, ResourcesExist
  <2> HIDE DEF r, c
  <2> QED BY <1>1, <2>1, <2>2, <2>3, <2>4 DEF Sound
<1>6. SoundRequests' /\ req' \in [Worker -> Request]
  <2> HIDE DEF r
  <2> QED BY <1>1, <1>2, <1>3, <1>4, <1>5, OthersStaySound DEF cloud
<1>7. TypeOK'
  BY <1>1, <1>2, <1>3, <1>6 DEF IInv, TypeOK, cloud
<1>8. DataOK'
  <2> HIDE DEF c
  <2> QED BY <1>1, <1>2, <1>3
          DEF IInv, DataOK, AdoptablesExist, KeysAreVaulted, ResourcesExist,
              BoundHasResource, OneActive, Active, cloud
<1> QED BY <1>6, <1>7, <1>8 DEF IInv

\* The Compute calls; a call that failed may have created the resource.
LEMMA ComputeIInv ==
    ASSUME IInv, NEW w \in Worker, CreateOnCompute(w) \/ ComputeError(w)
    PROVE  IInv' /\ compute \subseteq compute'
<1> USE DEF Phase, Publishing, Selecting
<1> DEFINE c == req[w].cert
           name == ResourceName(req[w].row)
           r == [req[w] EXCEPT !.phase = "select"]
<1>1. /\ req[w] \in Request /\ Sound(req[w], asset, vault, compute)
      /\ c \in Cert /\ c \in vault /\ req[w].kind = "publish"
      /\ asset \in [Cert -> AssetRow] /\ asset[c] \in AssetRow
      /\ name \in Resource /\ name # "none"
      /\ name # "derived" => <<c, name>> \in compute
  BY RequestOf, ResourceNameType
  DEF CreateOnCompute, ComputeError, In, Sound, IInv, TypeOK, Request, ResourceName
<1>2. compute' \in {compute, compute \cup {<<c, name>>}}
  BY DEF CreateOnCompute, ComputeError
<1>3. UNCHANGED <<binding, created, drawn, vault, endpoint, expiring>>
  BY DEF CreateOnCompute, ComputeError, rows
<1>4. compute \subseteq compute' /\ compute' \subseteq Cert \X Resource
  <2> HIDE DEF c, name
  <2> QED BY <1>1, <1>2 DEF IInv, TypeOK
<1>5. /\ asset' \in [Cert -> AssetRow]
      /\ \A d \in Cert : /\ asset'[d].resource = asset[d].resource
                         /\ asset'[d].custody = asset[d].custody
  <2>1. CASE CreateOnCompute(w)
    BY <1>1, <2>1 DEF CreateOnCompute, rows
  <2>2. CASE ComputeError(w)
    <3>1. Flush(req[w].row.status, "failed", asset[c].status) \in Status
      BY <1>1, FlushType DEF AssetRow, Status
    <3>2. asset' = [asset EXCEPT ![c].status =
                      Flush(req[w].row.status, "failed", asset[c].status)]
      BY <2>2 DEF ComputeError, MarkFailed
    <3> QED BY <1>1, <3>1, <3>2 DEF AssetRow
  <2> QED BY <2>1, <2>2
<1>6. \E q \in Request : Becomes(w, q) /\ Sound(q, asset', vault', compute')
  <2>1. CASE CreateOnCompute(w)
    <3>1. Becomes(w, r) /\ compute' = compute \cup {<<c, name>>}
      BY <2>1 DEF CreateOnCompute, GoTo
    <3>2. r \in Request
      BY <1>1 DEF Request
    <3>3. Sound(r, asset', vault', compute')
      <4>1. /\ r.phase = "select" /\ r.cert = c /\ r.kind = "publish"
            /\ r.row = req[w].row
        BY <1>1 DEF Request
      <4>2. <<c, ResourceName(r.row)>> \in compute'
        BY <3>1, <4>1
      <4>3. r.row.resource # "none" => /\ <<c, r.row.resource>> \in compute'
                                       /\ asset'[c].resource # "none"
        BY <1>1, <1>4, <1>5, <2>1, <4>1 DEF Sound, CreateOnCompute, In
      <4>4. c \in vault'
        BY <1>1, <1>3
      <4> HIDE DEF r, c
      <4> QED BY <1>1, <4>1, <4>2, <4>3, <4>4 DEF Sound
    <3> QED BY <3>1, <3>2, <3>3
  <2>2. CASE ComputeError(w)
    BY <2>2, EndedType, EndedIsSound DEF ComputeError, Idle
  <2> QED BY <2>1, <2>2
<1>7. SoundRequests' /\ req' \in [Worker -> Request]
  BY <1>3, <1>4, <1>5, <1>6, OthersStaySound
<1>8. TypeOK'
  BY <1>3, <1>4, <1>5, <1>7 DEF IInv, TypeOK
<1>9. DataOK'
  <2>1. KeysAreVaulted'
    <3> HIDE DEF c, name
    <3> QED BY <1>1, <1>2, <1>3, <1>5 DEF IInv, DataOK, KeysAreVaulted
  <2>2. ResourcesExist' /\ AdoptablesExist' /\ BoundHasResource' /\ OneActive'
    BY <1>3, <1>4, <1>5
    DEF IInv, DataOK, ResourcesExist, AdoptablesExist, BoundHasResource, OneActive, Active
  <2> QED BY <2>1, <2>2 DEF DataOK
<1> QED BY <1>4, <1>7, <1>8, <1>9 DEF IInv

LEMMA VaultErrorIInv ==
    ASSUME IInv, NEW w \in Worker, VaultError(w)
    PROVE  IInv'
<1> DEFINE c == req[w].cert
<1>1. /\ req[w] \in Request /\ c \in Cert
      /\ asset \in [Cert -> AssetRow] /\ asset[c] \in AssetRow
  BY RequestOf DEF VaultError, In, Sound, IInv, TypeOK
<1>2. /\ UNCHANGED <<binding, created, drawn, compute, endpoint, expiring>>
      /\ Becomes(w, Idle)
      /\ vault \subseteq vault' /\ vault' \subseteq Cert
  BY <1>1 DEF VaultError, IInv, TypeOK
<1>3. /\ asset' \in [Cert -> AssetRow]
      /\ \A d \in Cert : /\ asset'[d].resource = asset[d].resource
                         /\ asset'[d].custody = asset[d].custody
  <2>1. Flush(req[w].row.status, "failed", asset[c].status) \in Status
    BY <1>1, FlushType DEF AssetRow, Status
  <2>2. asset' = [asset EXCEPT ![c].status =
                    Flush(req[w].row.status, "failed", asset[c].status)]
    BY DEF VaultError, MarkFailed
  <2> QED BY <1>1, <2>1, <2>2 DEF AssetRow
<1>4. SoundRequests' /\ req' \in [Worker -> Request]
  BY <1>2, <1>3, OthersStaySound, EndedType, EndedIsSound DEF Idle
<1>5. TypeOK'
  BY <1>2, <1>3, <1>4 DEF IInv, TypeOK
<1>6. DataOK'
  BY <1>2, <1>3
  DEF IInv, DataOK, KeysAreVaulted, ResourcesExist, AdoptablesExist,
      BoundHasResource, OneActive, Active
<1> QED BY <1>4, <1>5, <1>6 DEF IInv

-----------------------------------------------------------------------------
(* The commit of a selection *)

\* The asset row a selection writes names a resource that exists.
LEMMA AssetWrittenType ==
    ASSUME IInv, NEW w \in Worker, In(w, "activate"), ~Rejected(w)
    PROVE  /\ AssetWritten(w) \in AssetRow
           /\ AssetWritten(w).resource # "none"
           /\ <<req[w].cert, AssetWritten(w).resource>> \in compute
           /\ AssetWritten(w).custody = "vaulted" => req[w].cert \in vault
<1> DEFINE c == req[w].cert
           row == req[w].row
           to == IF req[w].kind = "adopt" THEN "adopted" ELSE ResourceName(row)
<1>1. /\ req[w] \in Request /\ Sound(req[w], asset, vault, compute)
      /\ c \in Cert /\ row \in AssetRow /\ asset[c] \in AssetRow
      /\ req[w].kind \in {"publish", "adopt", "reuse"}
  BY RequestOf DEF In, Sound, IInv, TypeOK, Request, Selecting
<1>2. /\ asset[c].resource # "none" => <<c, asset[c].resource>> \in compute
      /\ asset[c].custody = "vaulted" => c \in vault
  BY <1>1 DEF IInv, DataOK, ResourcesExist, KeysAreVaulted
<1>3. CASE req[w].kind = "reuse"
  <2>1. AssetWritten(w) = asset[c]
    BY <1>3 DEF AssetWritten
  <2>2. asset[c].resource # "none"
    BY <1>1, <1>3 DEF In, Sound, Selecting
  <2> QED BY <1>1, <1>2, <2>1, <2>2
<1>4. CASE req[w].kind = "adopt" /\ row = NoAsset
  <2>1. AssetWritten(w) =
          [custody |-> "external", status |-> "published", resource |-> "adopted"]
    BY <1>4 DEF AssetWritten
  <2>2. <<c, "adopted">> \in compute
    BY <1>1, <1>4 DEF In, Sound, Selecting
  <2> QED BY <2>1, <2>2 DEF AssetRow, Custody, Status, Resource
<1>5. CASE req[w].kind = "publish" \/ (req[w].kind = "adopt" /\ row # NoAsset)
  <2>1. AssetWritten(w) =
          [custody  |-> asset[c].custody,
           status   |-> Flush(row.status, "published", asset[c].status),
           resource |-> Flush(row.resource, to, asset[c].resource)]
    BY <1>5 DEF AssetWritten
  <2>2. to \in Resource /\ to # "none" /\ <<c, to>> \in compute
    BY <1>1, <1>5, ResourceNameType DEF In, Sound, Selecting, Resource
  <2>3. row.resource # "none" => asset[c].resource # "none"
    BY <1>1 DEF In, Sound
  <2> HIDE DEF c, row, to
  <2>4. Flush(row.status, "published", asset[c].status) \in Status
    BY <1>1, FlushType DEF AssetRow, Status
  <2>5. LET n == Flush(row.resource, to, asset[c].resource) IN
          n \in Resource /\ n # "none" /\ <<c, n>> \in compute
    BY <1>1, <1>2, <2>2, <2>3 DEF Flush, AssetRow
  <2>6. asset[c].custody \in Custody
    BY <1>1 DEF AssetRow
  <2>7. c = req[w].cert
    BY DEF c
  <2> QED BY <1>2, <2>1, <2>4, <2>5, <2>6, <2>7 DEF AssetRow
<1> QED BY <1>1, <1>3, <1>4, <1>5

\* The binding rows a selection writes: the certificate's own row is held and
\* is the only active one.
LEMMA BindingsWritten ==
    ASSUME IInv, NEW w \in Worker, In(w, "activate"), ~Rejected(w),
           binding' = IF req[w].cur = req[w].cert THEN Republished(w) ELSE Reselected(w)
    PROVE  /\ binding' \in [Cert -> BindingRow]
           /\ \A d \in Cert : d # req[w].cert => binding'[d].held = binding[d].held
           /\ req[w].cur = req[w].cert => \A d \in Cert : binding'[d].active = binding[d].active
           /\ req[w].cur # req[w].cert => \A d \in Cert : binding'[d].active <=> d = req[w].cert
<1> DEFINE c == req[w].cert
           bound == req[w].bound
<1>1. /\ req[w] \in Request /\ c \in Cert /\ bound \in BindingRow
      /\ binding \in [Cert -> BindingRow]
  BY RequestOf DEF In, Sound, IInv, TypeOK, Request
<1>2. ASSUME NEW d \in Cert
      PROVE  /\ Flush(bound.manifest, "retired", binding[d].manifest) \in Manifest
             /\ Flush(bound.manifest, "republish_required", binding[d].manifest) \in Manifest
             /\ Flush(bound.serving, "not_verified", binding[d].serving) \in Serving
  <2>1. binding[d] \in BindingRow
    BY <1>1
  <2>2. binding[d].manifest \in Manifest /\ binding[d].serving \in Serving
    BY <2>1 DEF BindingRow
  <2>3. "retired" \in Manifest /\ "republish_required" \in Manifest /\ "not_verified" \in Serving
    BY DEF Manifest, Serving
  <2> QED BY <2>2, <2>3, FlushType
<1>3. CASE req[w].cur = c
  <2>1. binding' = [binding EXCEPT
          ![c].manifest = Flush(bound.manifest, "republish_required", @),
          ![c].serving = Flush(bound.serving, "not_verified", @)]
    BY <1>3 DEF Republished
  <2>2. binding'[c] = [binding[c] EXCEPT
          !.manifest = Flush(bound.manifest, "republish_required", binding[c].manifest),
          !.serving = Flush(bound.serving, "not_verified", binding[c].serving)]
    BY <1>1, <2>1
  <2>3. /\ DOMAIN binding' = Cert /\ binding' = [d \in Cert |-> binding'[d]]
        /\ \A d \in Cert : d # c => binding'[d] = binding[d]
    BY <1>1, <2>1
  <2>4. binding'[c] \in BindingRow /\ binding'[c].active = binding[c].active
    <3>1. binding[c] \in BindingRow
      BY <1>1
    <3> HIDE DEF c, bound
    <3> QED BY <1>1, <1>2, <2>2, <3>1 DEF BindingRow
  <2> QED BY <1>1, <1>3, <2>3, <2>4
<1>4. CASE req[w].cur # c
  <2>1. binding' = [d \in Cert |->
          IF d = c THEN NewBinding
          ELSE IF d = req[w].cur
               THEN [binding[d] EXCEPT !.active = FALSE,
                       !.manifest = Flush(bound.manifest, "retired", binding[d].manifest)]
               ELSE binding[d]]
    BY <1>4 DEF Reselected
  <2>2. Active \subseteq {req[w].cur}
    BY <1>4 DEF Rejected
  <2>3. ASSUME NEW d \in Cert
        PROVE  /\ binding'[d] \in BindingRow
               /\ d # c => binding'[d].held = binding[d].held
               /\ binding'[d].active <=> d = c
    <3>1. CASE d = c
      <4>1. binding'[d] = NewBinding
        BY <2>1, <3>1
      <4> QED BY <3>1, <4>1, RowTypes DEF NewBinding
    <3>2. CASE d # c /\ d = req[w].cur
      <4>1. binding'[d] = [binding[d] EXCEPT !.active = FALSE,
                !.manifest = Flush(bound.manifest, "retired", binding[d].manifest)]
        BY <2>1, <3>2
      <4>2. binding[d] \in BindingRow
        BY <1>1
      <4> QED BY <1>2, <3>2, <4>1, <4>2 DEF BindingRow
    <3>3. CASE d # c /\ d # req[w].cur
      BY <1>1, <2>1, <2>2, <3>3 DEF Active, BindingRow
    <3> QED BY <3>1, <3>2, <3>3
  <2> QED BY <1>4, <2>1, <2>3
<1> QED BY <1>3, <1>4

LEMMA CommitIInv ==
    ASSUME IInv, NEW w \in Worker, CommitActivation(w)
    PROVE  IInv'
<1> DEFINE c == req[w].cert
<1>1. /\ In(w, "activate") /\ req[w] \in Request /\ c \in Cert
      /\ asset \in [Cert -> AssetRow] /\ binding \in [Cert -> BindingRow]
  BY RequestOf DEF CommitActivation, In, Sound, IInv, TypeOK
<1>2. CASE Rejected(w)
  <2>1. Becomes(w, Ended(TRUE)) /\ UNCHANGED <<rows, drawn, cloud>>
    BY <1>2 DEF CommitActivation
  <2> QED BY <2>1, EndedType, EndedIsSound, RequestStep DEF IInv, TypeOK
<1>3. CASE ~Rejected(w)
  <2>1. /\ asset' = [asset EXCEPT ![c] = AssetWritten(w)]
        /\ created' = IF asset[c] = NoAsset THEN Append(created, c) ELSE created
        /\ binding' = IF req[w].cur = c THEN Republished(w) ELSE Reselected(w)
        /\ Becomes(w, Idle)
        /\ UNCHANGED <<drawn, cloud>>
    BY <1>3 DEF CommitActivation
  <2>2. /\ AssetWritten(w) \in AssetRow
        /\ AssetWritten(w).resource # "none"
        /\ <<c, AssetWritten(w).resource>> \in compute
        /\ AssetWritten(w).custody = "vaulted" => c \in vault
    BY <1>1, <1>3, AssetWrittenType
  <2>3. /\ binding' \in [Cert -> BindingRow]
        /\ \A d \in Cert : d # c => binding'[d].held = binding[d].held
        /\ req[w].cur = c => \A d \in Cert : binding'[d].active = binding[d].active
        /\ req[w].cur # c => \A d \in Cert : binding'[d].active <=> d = c
    BY <1>1, <1>3, <2>1, BindingsWritten
  <2> HIDE DEF c
  <2>4. SoundRequests' /\ req' \in [Worker -> Request]
    BY <1>1, <2>1, <2>2, OthersStaySound, EndedType, EndedIsSound DEF cloud, Idle
  <2>5. TypeOK'
    BY <1>1, <2>1, <2>2, <2>3, <2>4 DEF IInv, TypeOK, cloud
  <2>6. /\ AdoptablesExist' /\ KeysAreVaulted' /\ ResourcesExist'
        /\ BoundHasResource'
    BY <1>1, <2>1, <2>2, <2>3
    DEF IInv, DataOK, KeysAreVaulted, ResourcesExist, AdoptablesExist,
        BoundHasResource, cloud
  <2>7. OneActive'
    BY <1>1, <2>3 DEF IInv, DataOK, OneActive, Active
  <2> QED BY <2>4, <2>5, <2>6, <2>7 DEF IInv, DataOK
<1> QED BY <1>2, <1>3

\* Steps that rewrite columns of the binding rows and leave them held and
\* active as they were.
LEMMA ColumnStep ==
    ASSUME IInv, UNCHANGED <<asset, created, drawn, cloud>>,
           binding' \in [Cert -> BindingRow],
           \A d \in Cert : /\ binding'[d].held = binding[d].held
                           /\ binding'[d].active = binding[d].active,
           req' \in [Worker -> Request],
           SoundRequests'
    PROVE  IInv'
<1>1. TypeOK'
  BY DEF IInv, TypeOK, cloud
<1>2. DataOK'
  BY DEF IInv, DataOK, AdoptablesExist, KeysAreVaulted, ResourcesExist,
         BoundHasResource, OneActive, Active, cloud
<1> QED BY <1>1, <1>2 DEF IInv

LEMMA ObservationIInv ==
    ASSUME IInv, NEW w \in Worker, CommitObservation(w)
    PROVE  /\ IInv'
           /\ \A d \in Cert : binding'[d].active = binding[d].active
<1> DEFINE c == req[w].cert
           serving == Flush(req[w].bound.serving, Verdict(w), binding[c].serving)
           observed == IF req[w].seen = None THEN binding[c].observed
                       ELSE Flush(req[w].bound.observed, req[w].seen, binding[c].observed)
<1>1. /\ req[w] \in Request /\ c \in Cert
      /\ binding \in [Cert -> BindingRow] /\ binding[c] \in BindingRow
  BY RequestOf DEF CommitObservation, In, Sound, IInv, TypeOK
<1>2. serving \in Serving
  <2>1. Verdict(w) \in Serving /\ binding[c].serving \in Serving
    BY <1>1 DEF Verdict, Serving, BindingRow
  <2> QED BY <2>1, FlushType
<1>3. observed \in Cert \cup {None}
  <2>1. binding[c].observed \in Cert \cup {None} /\ req[w].seen \in Cert \cup {None}
    BY <1>1 DEF BindingRow, Request
  <2> QED BY <2>1, FlushType
<1>4. binding' = [binding EXCEPT ![c].serving = serving, ![c].observed = observed]
  BY DEF CommitObservation
<1>5. Becomes(w, Idle) /\ UNCHANGED <<asset, created, drawn, cloud>>
  BY DEF CommitObservation
<1> HIDE DEF c, serving, observed
<1>6. binding'[c] = [binding[c] EXCEPT !.serving = serving, !.observed = observed]
  BY <1>1, <1>4
<1>7. \A d \in Cert : d # c => binding'[d] = binding[d]
  BY <1>1, <1>4
<1>8. /\ binding'[c] \in BindingRow
      /\ binding'[c].held = binding[c].held /\ binding'[c].active = binding[c].active
  BY <1>1, <1>2, <1>3, <1>6 DEF BindingRow
<1>9. binding' \in [Cert -> BindingRow]
  BY <1>1, <1>4, <1>7, <1>8
<1>10. SoundRequests' /\ req' \in [Worker -> Request]
  BY <1>5, OthersStaySound, EndedType, EndedIsSound DEF cloud, Idle
<1> QED BY <1>5, <1>7, <1>8, <1>9, <1>10, ColumnStep

LEMMA WorldIInv ==
    ASSUME IInv, Serve \/ ManifestPublished \/ Expire
    PROVE  /\ IInv'
           /\ \A d \in Cert : binding'[d].active = binding[d].active
<1>1. CASE Serve \/ Expire
  <2>1. /\ UNCHANGED <<rows, drawn, vault, compute, req>>
        /\ endpoint' \in Cert \cup {None} /\ expiring' \subseteq Cert
    BY <1>1, CertificateAssumption DEF Serve, Expire, IInv, TypeOK
  <2>2. TypeOK'
    BY <2>1 DEF IInv, TypeOK, rows
  <2>3. DataOK' /\ SoundRequests'
    BY <2>1
    DEF IInv, DataOK, AdoptablesExist, KeysAreVaulted, ResourcesExist,
        BoundHasResource, OneActive, Active, SoundRequests, rows
  <2> QED BY <2>1, <2>2, <2>3 DEF IInv, rows
<1>2. CASE ManifestPublished
  <2>1. PICK c \in Active :
          binding' = [binding EXCEPT ![c].manifest = "published_to_repo"]
    BY <1>2 DEF ManifestPublished
  <2>2. UNCHANGED <<asset, created, drawn, cloud, req>>
    BY <1>2 DEF ManifestPublished
  <2>3. c \in Cert /\ binding \in [Cert -> BindingRow]
    BY DEF Active, IInv, TypeOK
  <2>4. /\ binding' \in [Cert -> BindingRow]
        /\ \A d \in Cert : /\ binding'[d].held = binding[d].held
                           /\ binding'[d].active = binding[d].active
    BY <2>1, <2>3 DEF BindingRow, Manifest
  <2>5. req' \in [Worker -> Request] /\ SoundRequests'
    BY <2>2 DEF IInv, TypeOK, SoundRequests, cloud
  <2> QED BY <2>2, <2>4, <2>5, ColumnStep
<1> QED BY <1>1, <1>2

-----------------------------------------------------------------------------
LEMMA NextIInv == IInv /\ [Next]_vars => IInv'
<1> SUFFICES ASSUME IInv, [Next]_vars PROVE IInv'
  OBVIOUS
<1>1. ASSUME NEW w \in Worker, Begin(w) PROVE IInv'
  BY <1>1, BeginIInv
<1>2. ASSUME NEW w \in Worker, Step(w) PROVE IInv'
  BY <1>2, InsertIInv, StoreIInv, CommitVaultedIInv, ReadIInv, ComputeIInv,
     CommitIInv, ObservationIInv DEF Step
<1>3. ASSUME NEW w \in Worker, Error(w) \/ Crash(w) PROVE IInv'
  BY <1>3, VaultErrorIInv, ComputeIInv, ReadIInv DEF Error
<1>4. ASSUME Serve \/ ManifestPublished \/ Expire PROVE IInv'
  BY <1>4, WorldIInv
<1>5. CASE UNCHANGED vars
  BY <1>5 DEF vars, IInv, TypeOK, DataOK, AdoptablesExist, KeysAreVaulted,
     ResourcesExist, BoundHasResource, OneActive, Active, SoundRequests
<1> QED BY <1>1, <1>2, <1>3, <1>4, <1>5 DEF Next

THEOREM Inductive == Spec => []IInv
BY InitIInv, NextIInv, PTL DEF Spec

\* Every row, request and cloud resource keeps its type.
THEOREM TypeCorrect == Spec => []TypeOK
BY Inductive, PTL DEF IInv

\* No interleaving of publications, provider errors and crashes leaves a
\* certificate of the service in use whose key is not in Secret Manager.
THEOREM KeysVaulted == Spec => []KeysAreVaulted
<1>1. IInv => KeysAreVaulted
  BY DEF IInv, DataOK
<1> QED BY <1>1, Inductive, PTL

\* Whatever selections race, at most one binding of the site is active.
THEOREM AtMostOneActive == Spec => []OneActive
<1>1. IInv => OneActive
  BY DEF IInv, DataOK
<1> QED BY <1>1, Inductive, PTL

\* A certificate that was ever bound names a Compute resource that exists.
THEOREM BoundExists == Spec => []BoundIsOnCompute
<1>1. IInv => BoundIsOnCompute
  BY DEF IInv, DataOK, BoundHasResource, ResourcesExist, BoundIsOnCompute
<1> QED BY <1>1, Inductive, PTL

-----------------------------------------------------------------------------
(* The service implements CertificateSelection *)

Live == {c \in Cert : \E kind \in Resource : <<c, kind>> \in compute}

\* The selection is a function of the active bindings.
LEMMA SameSelection ==
    ASSUME \A d \in Cert : binding'[d].active = binding[d].active
    PROVE  ActiveCert' = ActiveCert
<1>1. Active' = Active
  BY DEF Active
<1> QED BY <1>1 DEF ActiveCert

LEMMA OneSelected ==
    ASSUME NEW c \in Cert, \A d \in Cert : binding'[d].active <=> d = c
    PROVE  ActiveCert' = c
<1>1. Active' = {c}
  BY DEF Active
<1> QED BY <1>1 DEF ActiveCert

\* A step that leaves Compute and the active flags alone stutters.
LEMMA Stutters ==
    ASSUME compute' = compute, \A d \in Cert : binding'[d].active = binding[d].active
    PROVE  UNCHANGED Selection!selectionVars
BY SameSelection DEF Selection!selectionVars

LEMMA StepSelects ==
    ASSUME IInv, [Next]_vars
    PROVE  [Selection!Next]_(Selection!selectionVars)
<1> DEFINE Goal == [Selection!Next]_(Selection!selectionVars)
<1>1. ASSUME compute' = compute, binding' = binding PROVE Goal
  BY <1>1, Stutters
<1>2. ASSUME NEW w \in Worker, Begin(w) PROVE Goal
  BY <1>1, <1>2
  DEF Begin, BeginGenerate, BeginImport, BeginEnsure, BeginEnsureAnew, BeginAdopt,
      BeginBind, BeginVerify, Generate, rows, cloud
<1>3. ASSUME NEW w \in Worker, CreateOnCompute(w) \/ ComputeError(w) PROVE Goal
  <2> DEFINE c == req[w].cert
             name == ResourceName(req[w].row)
  <2>1. c \in Cert /\ name \in Resource
    BY <1>3, RequestOf, ResourceNameType
    DEF CreateOnCompute, ComputeError, In, Sound, Request
  <2>2. compute' \in {compute, compute \cup {<<c, name>>}} /\ binding' = binding
    BY <1>3 DEF CreateOnCompute, ComputeError, rows
  <2>3. ActiveCert' = ActiveCert
    BY <2>2, SameSelection
  <2>4. CASE compute' = compute \cup {<<c, name>>}
    <3>1. PICK d \in Cert : d = c
      BY <2>1
    <3>2. Live' = Live \cup {d}
      <4> HIDE DEF c, name
      <4> QED BY <2>1, <2>4, <3>1 DEF Live
    <3>3. Selection!Upload(d)
      BY <2>3, <3>2 DEF Selection!Upload, Live
    <3> QED BY <3>3 DEF Selection!Next
  <2> QED BY <1>1, <2>2, <2>4
<1>4. ASSUME NEW w \in Worker, CommitActivation(w) PROVE Goal
  <2> DEFINE c == req[w].cert
  <2>1. CASE Rejected(w)
    BY <1>1, <1>4, <2>1 DEF CommitActivation, rows, cloud
  <2>2. CASE ~Rejected(w)
    <3>1. /\ In(w, "activate") /\ c \in Cert /\ compute' = compute
          /\ binding' = IF req[w].cur = c THEN Republished(w) ELSE Reselected(w)
      BY <1>4, <2>2, RequestOf DEF CommitActivation, In, Sound, cloud
    <3>2. /\ req[w].cur = c => \A d \in Cert : binding'[d].active = binding[d].active
          /\ req[w].cur # c => \A d \in Cert : binding'[d].active <=> d = c
      BY <2>2, <3>1, BindingsWritten
    <3>3. CASE req[w].cur = c
      BY <3>1, <3>2, <3>3, Stutters
    <3>4. CASE req[w].cur # c
      <4>1. ActiveCert' = c
        BY <3>1, <3>2, <3>4, OneSelected
      <4>2. <<c, AssetWritten(w).resource>> \in compute /\ AssetWritten(w) \in AssetRow
        BY <2>2, <3>1, AssetWrittenType
      <4>3. c \in Live
        BY <3>1, <4>2 DEF Live, AssetRow
      <4>4. Selection!Select(c)
        BY <3>1, <4>1, <4>3 DEF Selection!Select, Live
      <4> QED BY <3>1, <4>4 DEF Selection!Next
    <3> QED BY <3>3, <3>4
  <2> QED BY <2>1, <2>2
<1>5. ASSUME NEW w \in Worker, CommitObservation(w) PROVE Goal
  BY <1>5, ObservationIInv, Stutters DEF CommitObservation, cloud
<1>6. ASSUME NEW w \in Worker, Step(w) PROVE Goal
  <2>1. CASE \/ InsertAsset(w) \/ StoreInVault(w) \/ CommitVaulted(w) \/ LoadFromVault(w)
             \/ Probe(w) \/ ReadActive(w) \/ Observe(w)
    BY <1>1, <2>1
    DEF InsertAsset, StoreInVault, CommitVaulted, LoadFromVault, Probe, ReadActive,
        Observe, rows, cloud
  <2> QED BY <1>3, <1>4, <1>5, <1>6, <2>1 DEF Step
<1>7. ASSUME NEW w \in Worker, Error(w) \/ Crash(w) PROVE Goal
  <2>1. CASE VaultError(w) \/ ReadError(w) \/ Crash(w)
    BY <1>1, <2>1 DEF VaultError, ReadError, Crash, rows, cloud
  <2> QED BY <1>3, <1>7, <2>1 DEF Error
<1>8. ASSUME Serve \/ ManifestPublished \/ Expire PROVE Goal
  BY <1>8, WorldIInv, Stutters DEF Serve, ManifestPublished, Expire, cloud
<1>9. CASE UNCHANGED vars
  BY <1>1, <1>9 DEF vars
<1> QED BY <1>2, <1>6, <1>7, <1>8, <1>9 DEF Next

\* To the rest of the system the service is a selection: one certificate once
\* there is one, on Compute, replaced in a single step, whatever races.
THEOREM ImplementsSelection == Spec => SelectionSpec
<1>1. Init => Selection!Init
  <2>1. Init => Active = {}
    BY DEF Init, Active, NoBinding
  <2> QED BY <2>1 DEF Selection!Init, ActiveCert
<1>2. IInv /\ [Next]_vars => [Selection!Next]_(Selection!selectionVars)
  BY StepSelects
<1> QED BY <1>1, <1>2, Inductive, PTL DEF Spec, SelectionSpec, Selection!Spec
-----------------------------------------------------------------------------
(* Requests one after the other                                              *)

\* No two requests overlap.
OneAtATime == \A v, w \in Worker : v = w

SameVerdict(b, d) == b.serving = d.serving /\ b.observed = d.observed

\* The binding a request has loaded still says what it said, but for its
\* manifest, which a publication may mark meanwhile.
LoadedIsCurrent ==
    \A w \in Worker :
        \/ req[w].phase \in {"observe", "record"}
        \/ req[w].phase = "activate" /\ req[w].cur = req[w].cert
        => SameVerdict(req[w].bound, binding[req[w].cert])

ObservedInv == IInv /\ ServingWasObserved /\ LoadedIsCurrent

\* A request that ends can rely on nothing any more.
LEMMA VerdictsOfEnded ==
    ASSUME OneAtATime, ObservedInv, NEW w \in Worker, NEW b \in BOOLEAN, Becomes(w, Ended(b)),
           ServingWasObserved'
    PROVE  ServingWasObserved' /\ LoadedIsCurrent'
<1>1. req'[w] = Ended(b) /\ \A v \in Worker : v = w
  BY DEF Becomes, OneAtATime, ObservedInv, IInv, TypeOK
<1> QED BY <1>1 DEF LoadedIsCurrent, Ended

\* What verify_site_endpoint records is a verdict on what it has seen.
LEMMA RecordedAsSeen ==
    ASSUME OneAtATime, ObservedInv, NEW w \in Worker, CommitObservation(w)
    PROVE  ServingWasObserved' /\ LoadedIsCurrent'
<1> DEFINE c == req[w].cert
           b == req[w].bound
<1>1. /\ req[w] \in Request /\ c \in Cert /\ c # None
      /\ binding \in [Cert -> BindingRow] /\ SameVerdict(b, binding[c])
  BY RequestOf, CertificateAssumption
  DEF CommitObservation, In, Sound, ObservedInv, IInv, TypeOK, LoadedIsCurrent
<1>2. /\ \A d \in Cert \ {c} : binding'[d] = binding[d]
      /\ binding'[c].serving = Verdict(w)
      /\ req[w].seen = c => binding'[c].observed = c
  BY <1>1 DEF CommitObservation, Flush, SameVerdict, BindingRow
<1>3. Verdict(w) = "serving" => req[w].seen = c
  BY DEF Verdict
<1>4. ServingWasObserved'
  <2> HIDE DEF c, b
  <2> QED BY <1>1, <1>2, <1>3 DEF ServingWasObserved, ObservedInv
<1>5. Becomes(w, Ended(FALSE))
  BY DEF CommitObservation, Idle
<1> QED BY <1>4, <1>5, VerdictsOfEnded

\* A selection forgets the verdict on the certificate it selects.
LEMMA SelectedIsUnverified ==
    ASSUME OneAtATime, ObservedInv, NEW w \in Worker, CommitActivation(w)
    PROVE  ServingWasObserved' /\ LoadedIsCurrent'
<1> DEFINE c == req[w].cert
<1>1. /\ c \in Cert /\ binding \in [Cert -> BindingRow] /\ req[w].phase = "activate"
      /\ req[w].cur = c => SameVerdict(req[w].bound, binding[c])
  BY RequestOf DEF CommitActivation, In, Sound, ObservedInv, IInv, TypeOK, LoadedIsCurrent
<1>2. CASE Rejected(w)
  BY <1>2, VerdictsOfEnded DEF CommitActivation, rows, ServingWasObserved, ObservedInv
<1>3. CASE ~Rejected(w)
  <2>1. /\ Becomes(w, Ended(FALSE))
        /\ binding' = IF req[w].cur = c THEN Republished(w) ELSE Reselected(w)
    BY <1>3 DEF CommitActivation, Idle
  <2>2. CASE req[w].cur = c
    <3>1. /\ binding'[c].serving = "not_verified"
          /\ \A d \in Cert \ {c} : binding'[d] = binding[d]
      BY <1>1, <2>1, <2>2 DEF Republished, Flush, SameVerdict, BindingRow
    <3>2. ServingWasObserved'
      <4> HIDE DEF c
      <4> QED BY <1>1, <3>1 DEF ServingWasObserved, ObservedInv
    <3> QED BY <2>1, <3>2, VerdictsOfEnded
  <2>3. CASE req[w].cur # c
    <3>1. /\ binding'[c].serving = "not_verified"
          /\ \A d \in Cert \ {c} : SameVerdict(binding'[d], binding[d])
      BY <1>1, <2>1, <2>3 DEF Reselected, NewBinding, SameVerdict, BindingRow
    <3>2. ServingWasObserved'
      <4> HIDE DEF c
      <4> QED BY <1>1, <3>1 DEF ServingWasObserved, ObservedInv, SameVerdict
    <3> QED BY <2>1, <3>2, VerdictsOfEnded
  <2> QED BY <2>2, <2>3
<1> QED BY <1>2, <1>3

\* The other steps of a request write no binding.
LEMMA RequestsKeepVerdicts ==
    ASSUME OneAtATime, ObservedInv, NEW w \in Worker,
           \/ Begin(w) \/ Error(w) \/ Crash(w)
           \/ InsertAsset(w) \/ StoreInVault(w) \/ CommitVaulted(w) \/ LoadFromVault(w)
           \/ CreateOnCompute(w) \/ Probe(w) \/ ReadActive(w) \/ Observe(w)
    PROVE  ServingWasObserved' /\ LoadedIsCurrent'
<1>1. req \in [Worker -> Request] /\ \A v \in Worker : v = w
  BY DEF OneAtATime, ObservedInv, IInv, TypeOK
<1>2. req[w].phase \notin {"idle"} => req[w].cert \in Cert
  BY RequestOf DEF ObservedInv, Sound
<1>3. binding' = binding
  BY DEF Begin, BeginGenerate, Generate, BeginImport, BeginEnsure, BeginEnsureAnew, BeginAdopt,
         BeginBind, BeginVerify, Error, VaultError, ComputeError, ReadError, Crash, InsertAsset,
         StoreInVault, CommitVaulted, LoadFromVault, CreateOnCompute, Probe, ReadActive, Observe,
         rows
<1>4. ServingWasObserved'
  BY <1>3 DEF ServingWasObserved, ObservedInv
<1>5. SUFFICES \/ req'[w].phase \in {"observe", "record"}
               \/ req'[w].phase = "activate" /\ req'[w].cur = req'[w].cert
               => SameVerdict(req'[w].bound, binding[req'[w].cert])
  BY <1>1, <1>3, <1>4 DEF LoadedIsCurrent
<1>6. CASE BeginVerify(w)
  BY <1>1, <1>6 DEF BeginVerify, Becomes, Open, SameVerdict
<1>7. CASE Observe(w)
  BY <1>1, <1>7 DEF Observe, Becomes, In, Request, ObservedInv, LoadedIsCurrent
<1>8. CASE ReadActive(w)
  BY <1>1, <1>2, <1>8, ActiveCertType, CertificateAssumption
  DEF ReadActive, Becomes, In, Request, SameVerdict
<1>9. CASE ~(BeginVerify(w) \/ Observe(w) \/ ReadActive(w))
  <2>1. req'[w].phase \notin {"observe", "record", "activate"}
    <3>1. CASE Begin(w)
      BY <1>1, <1>9, <3>1
      DEF Begin, BeginGenerate, Generate, BeginImport, AfterRow, BeginEnsure, BeginEnsureAnew,
          BeginAdopt, BeginBind, Becomes, Open, Idle, Ended
    <3>2. CASE Error(w) \/ Crash(w) \/ Probe(w)
      BY <1>1, <3>2
      DEF Error, VaultError, ComputeError, ReadError, Crash, Probe, Becomes, GoTo, Idle, Ended,
          Request
    <3>3. CASE InsertAsset(w)
      <4> DEFINE r == [req[w] EXCEPT !.phase = "vault", !.row = NewAsset]
      <4>1. r.phase = "vault" /\ Ended(TRUE).phase = "idle"
        BY <1>1 DEF Request, Ended
      <4>2. req'[w] = r \/ req'[w] = Ended(TRUE)
        BY <1>1, <3>3 DEF InsertAsset, Becomes
      <4> QED BY <4>1, <4>2
    <3>4. CASE CommitVaulted(w)
      <4>1. req'[w].phase = "compute"
        BY <1>1, <3>4 DEF CommitVaulted, Becomes, Request
      <4> QED BY <4>1
    <3>5. CASE StoreInVault(w) \/ LoadFromVault(w) \/ CreateOnCompute(w)
      BY <1>1, <3>5 DEF StoreInVault, LoadFromVault, CreateOnCompute, Becomes, GoTo, Request
    <3> QED BY <1>9, <3>1, <3>2, <3>3, <3>4, <3>5
  <2> QED BY <2>1
<1> QED BY <1>6, <1>7, <1>8, <1>9

LEMMA NextObserved ==
    ASSUME OneAtATime, ObservedInv, [Next]_vars
    PROVE  ObservedInv'
<1>1. IInv'
  BY NextIInv DEF ObservedInv
<1>2. ServingWasObserved' /\ LoadedIsCurrent'
  <2>1. ASSUME NEW w \in Worker, Begin(w) \/ Step(w) \/ Error(w) \/ Crash(w)
        PROVE  ServingWasObserved' /\ LoadedIsCurrent'
    BY <2>1, RecordedAsSeen, SelectedIsUnverified, RequestsKeepVerdicts DEF Step
  <2>2. CASE ManifestPublished
    <3>1. \A d \in Cert : SameVerdict(binding'[d], binding[d])
      BY <2>2 DEF ManifestPublished, SameVerdict, Active, ObservedInv, IInv, TypeOK, BindingRow
    <3>2. req' = req /\ \A w \in Worker : req[w].phase # "idle" => req[w].cert \in Cert
      BY <2>2, RequestOf DEF ManifestPublished, ObservedInv, Sound
    <3> QED BY <3>1, <3>2 DEF ObservedInv, ServingWasObserved, LoadedIsCurrent, SameVerdict
  <2>3. CASE Serve \/ Expire \/ UNCHANGED vars
    BY <2>3 DEF Serve, Expire, vars, rows, ObservedInv, ServingWasObserved, LoadedIsCurrent
  <2> QED BY <2>1, <2>2, <2>3 DEF Next
<1> QED BY <1>1, <1>2 DEF ObservedInv

\* As long as no two requests overlap, a binding that says serving was observed
\* to serve its own certificate, for any certificates, errors and crashes
\* (verify_site_endpoint).  Two that overlap can break it: each flushes only the
\* columns that differ from what it loaded.
THEOREM ServingIsObserved ==
    ASSUME OneAtATime
    PROVE  Spec => []ServingWasObserved
<1>1. Init => ObservedInv
  BY InitIInv DEF Init, ObservedInv, ServingWasObserved, LoadedIsCurrent, NoBinding, Idle, Ended
<1>2. ObservedInv /\ [Next]_vars => ObservedInv'
  BY NextObserved
<1>3. ObservedInv => ServingWasObserved
  BY DEF ObservedInv
<1> QED BY <1>1, <1>2, <1>3, PTL DEF Spec
=============================================================================
