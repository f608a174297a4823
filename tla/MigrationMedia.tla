----------------------------- MODULE MigrationMedia -----------------------------
(* Media of one migration workspace and the drafts that freeze them. The assets *)
(* are kept in two JSON documents of the workspace row, one for the images that *)
(* were discovered on the source site and one for the uploads; every request    *)
(* loads both, talks to storage or a provider, and writes back whole documents. *)
(*                                                                              *)
(* entry[x]     what the documents say of asset x                               *)
(* stored[x]    generations of its object that can be read                      *)
(* generations  how many objects were written so far                            *)
(* editor       requests: their working copy of the documents                   *)
(* package      files of the draft generated last: for each asset selected when *)
(*              the request began the generation frozen, 0 if it is missing     *)
EXTENDS Naturals, FiniteSets

CONSTANTS
    Upload, Image,   \* identifiers of uploaded and of discovered assets
    Editor,
    MaxUploads,      \* assets that may be uploaded to a workspace
    MaxGenerations,  \* bound on objects written
    NoMedia

Media == Upload \cup Image

ASSUME MediaAssumption ==
    /\ Upload \cap Image = {} /\ IsFiniteSet(Upload)
    /\ NoMedia \notin Media
    /\ MaxUploads \in Nat
    /\ MaxGenerations \in Nat

VARIABLES entry, stored, generations, editor, package
mediaVars == <<entry, stored, generations, editor, package>>

(* Generation 0: no bytes. A discovered image has none before it is imported.   *)
Entry == [state: {"absent", "active", "ignored", "removed"}, generation: Nat, selected: BOOLEAN]
Edit == [op: {"idle", "upload", "replace", "import", "write", "generate", "frozen"},
         item: Media \cup {NoMedia}, todo: SUBSET Image, select: BOOLEAN,
         touched: BOOLEAN, copy: [Media -> Entry],
         files: SUBSET (Media \X Nat)]

NoEntry == [state |-> "absent", generation |-> 0, selected |-> FALSE]
NoEdit == [op |-> "idle", item |-> NoMedia, todo |-> {}, select |-> FALSE, touched |-> FALSE,
           copy |-> [x \in Media |-> NoEntry], files |-> {}]

MediaTypeOK ==
    /\ entry \in [Media -> Entry]
    /\ stored \in [Media -> SUBSET Nat]
    /\ generations \in Nat
    /\ editor \in [Editor -> Edit]
    /\ package \in SUBSET (Media \X Nat)

MediaInit ==
    /\ entry = [x \in Media |-> NoEntry]
    /\ stored = [x \in Media |-> {}]
    /\ generations = 0
    /\ editor = [e \in Editor |-> NoEdit]
    /\ package = {}

Visible(n) == n.state = "active"
Imported(n) == n.generation # 0
UsableForDraft(n) == Visible(n) /\ Imported(n)

(* _read_workspace_media_payload_for_materialization: the bytes of the listed   *)
(* generation, whose length and digest must be the listed ones, or none.        *)
PayloadRead(x, generation) == IF generation \in stored[x] THEN generation ELSE 0
Ready(x, n) == PayloadRead(x, n.generation) # 0

(* The documents that a request works on: the one of its asset, or both         *)
SameDocument(x, y) == x \in Upload <=> y \in Upload
Document(x) == [y \in Media |-> IF SameDocument(x, y) THEN entry[y] ELSE NoEntry]

StartEdit(e, op, x, copy) ==
    /\ editor[e].op = "idle"
    /\ editor' = [editor EXCEPT ![e] = [NoEdit EXCEPT !.op = op, !.item = x, !.copy = copy]]
EndEdit(e) == editor' = [editor EXCEPT ![e] = NoEdit]

-------------------------------------------------------------------------------
(* Uploads                                                                      *)

\* The uploads that a document lists, removed ones too.
Listed(document) == {x \in Upload : document[x] # NoEntry}

\* Room is looked for in the list as it was read, before the object is stored.
BeginUpload(e, x) ==
    /\ entry[x] = NoEntry /\ stored[x] = {}
    /\ \A f \in Editor : editor[f].item # x
    /\ Cardinality(Listed(entry)) < MaxUploads
    /\ StartEdit(e, "upload", x, Document(x))
    /\ UNCHANGED <<entry, stored, generations, package>>

BeginReplace(e, x) ==
    /\ Visible(entry[x])
    /\ StartEdit(e, "replace", x, Document(x))
    /\ UNCHANGED <<entry, stored, generations, package>>

(* The key of an asset is always the same; a write adds a generation.           *)
WriteObject(x) ==
    /\ generations < MaxGenerations
    /\ generations' = generations + 1
    /\ stored' = [stored EXCEPT ![x] = @ \cup {generations'}]

StoreUpload(e, selected) ==
    LET x == editor[e].item IN
    /\ editor[e].op \in {"upload", "replace"}
    /\ editor[e].op = "replace" => selected = editor[e].copy[x].selected
    /\ WriteObject(x)
    /\ editor' = [editor EXCEPT ![e].op = "write",
                      ![e].copy[x] = [state |-> "active", generation |-> generations',
                                      selected |-> selected]]
    /\ UNCHANGED <<entry, package>>

-------------------------------------------------------------------------------
(* Import of discovered images, one after the other                             *)

BeginImport(e, requested, selected) ==
    /\ editor[e].op = "idle"
    /\ editor' = [editor EXCEPT ![e] = [NoEdit EXCEPT !.op = "import", !.todo = requested,
                  !.select = selected,
                  !.copy = [x \in Media |-> IF x \in Image THEN entry[x] ELSE NoEntry]]]
    /\ UNCHANGED <<entry, stored, generations, package>>

Awaited(e, x) == editor[e].op = "import" /\ x \in editor[e].todo
Treat(e, x, n) ==
    editor' = [editor EXCEPT ![e].todo = @ \ {x}, ![e].touched = TRUE, ![e].copy[x] = n]

(* Imported already and readable: only the selection changes.                   *)
SkipImported(e, x) ==
    LET n == editor[e].copy[x] IN
    /\ Awaited(e, x)
    /\ Visible(n) /\ Imported(n) /\ Ready(x, n)
    /\ Treat(e, x, [n EXCEPT !.selected = editor[e].select])
    /\ UNCHANGED <<entry, stored, generations, package>>

ImportImage(e, x) ==
    LET n == editor[e].copy[x] IN
    /\ Awaited(e, x)
    /\ Visible(n)
    /\ ~(Imported(n) /\ Ready(x, n))
    /\ WriteObject(x)
    /\ Treat(e, x, [n EXCEPT !.generation = generations', !.selected = editor[e].select])
    /\ UNCHANGED <<entry, package>>

(* Not in the snapshot, hidden, rejected, not fetched or not stored             *)
ImportFails(e, x) ==
    /\ Awaited(e, x)
    /\ ~(UsableForDraft(editor[e].copy[x]) /\ Ready(x, editor[e].copy[x]))
    /\ editor' = [editor EXCEPT ![e].todo = @ \ {x}]
    /\ UNCHANGED <<entry, stored, generations, package>>

EndImport(e) ==
    /\ editor[e].op = "import"
    /\ editor[e].todo = {}
    /\ entry' = IF editor[e].touched
         THEN [x \in Media |-> IF x \in Image THEN editor[e].copy[x] ELSE entry[x]]
         ELSE entry
    /\ EndEdit(e)
    /\ UNCHANGED <<stored, generations, package>>

-------------------------------------------------------------------------------
(* Changes of one asset: selection, removal, metadata that a provider suggests  *)

Change(e, x, n) ==
    /\ StartEdit(e, "write", x, [Document(x) EXCEPT ![x] = n])
    /\ UNCHANGED <<entry, stored, generations, package>>

Select(e, x) ==
    /\ UsableForDraft(entry[x]) /\ Ready(x, entry[x])
    /\ Change(e, x, [entry[x] EXCEPT !.selected = TRUE])
Deselect(e, x) ==
    /\ Visible(entry[x])
    /\ Change(e, x, [entry[x] EXCEPT !.selected = FALSE])
Ignore(e, x) ==
    /\ x \in Image
    /\ entry[x].state \in {"active", "removed"} /\ ~Imported(entry[x])
    /\ Change(e, x, [entry[x] EXCEPT !.state = "ignored", !.selected = FALSE])
Remove(e, x) ==
    /\ entry[x].state \in {"active", "ignored"} /\ (x \in Image => Imported(entry[x]))
    /\ Change(e, x, [entry[x] EXCEPT !.state = "removed", !.selected = FALSE])
Suggest(e, x) ==
    /\ Visible(entry[x])
    /\ Change(e, x, entry[x])

\* Mutant: a request adds its asset to the list as it is by now.
CommitWriteMerged(e) ==
    /\ editor[e].op = "write"
    /\ entry' = [entry EXCEPT ![editor[e].item] = editor[e].copy[editor[e].item]]
    /\ EndEdit(e)
    /\ UNCHANGED <<stored, generations, package>>

(* The document of the asset is written whole, the other one did not change.    *)
CommitWrite(e) ==
    /\ editor[e].op = "write"
    /\ entry' = [x \in Media |->
           IF SameDocument(x, editor[e].item) THEN editor[e].copy[x] ELSE entry[x]]
    /\ EndEdit(e)
    /\ UNCHANGED <<stored, generations, package>>

(* ingest_source_snapshot: a new snapshot knows nothing of earlier imports.     *)
IngestSnapshot(found) ==
    /\ entry' = [x \in Media |->
           IF x \in Upload THEN entry[x]
           ELSE IF x \in found THEN [NoEntry EXCEPT !.state = "active"] ELSE NoEntry]
    /\ UNCHANGED <<stored, generations, editor, package>>

-------------------------------------------------------------------------------
(* generate_draft_artifacts: the assets are listed, the provider writes the     *)
(* pages, the selected assets are read, and the version is committed.           *)

BeginDraft(e) ==
    /\ StartEdit(e, "generate", NoMedia, entry)
    /\ UNCHANGED <<entry, stored, generations, package>>

Chosen(e) == {x \in Media : UsableForDraft(editor[e].copy[x]) /\ editor[e].copy[x].selected}

Materialize(e) ==
    /\ editor[e].op = "generate"
    /\ editor' = [editor EXCEPT ![e].op = "frozen",
           ![e].files = {<<x, PayloadRead(x, editor[e].copy[x].generation)>> : x \in Chosen(e)}]
    /\ UNCHANGED <<entry, stored, generations, package>>

CommitDraft(e) ==
    /\ editor[e].op = "frozen"
    /\ package' = editor[e].files
    /\ EndEdit(e)
    /\ UNCHANGED <<entry, stored, generations>>

(* _record_failed_draft_generation: a version without files                     *)
CommitFailedDraft(e) ==
    /\ editor[e].op = "generate"
    /\ package' = {}
    /\ EndEdit(e)
    /\ UNCHANGED <<entry, stored, generations>>

-------------------------------------------------------------------------------
(* Generations that are not the current one expire in the bucket.               *)
ExpireGenerations(x) ==
    /\ \E g \in stored[x] : \E h \in stored[x] : g < h
    /\ stored' = [stored EXCEPT ![x] = {g \in @ : \A h \in @ : h <= g}]
    /\ UNCHANGED <<entry, generations, editor, package>>

(* A call fails or the process dies; what was stored stays.                     *)
EditFails(e) ==
    /\ editor[e].op # "idle"
    /\ EndEdit(e)
    /\ UNCHANGED <<entry, stored, generations, package>>

EditorStep(e) ==
    \/ \E x \in Upload : BeginUpload(e, x) \/ BeginReplace(e, x)
    \/ \E selected \in BOOLEAN : StoreUpload(e, selected)
    \/ \E requested \in SUBSET Image \ {{}}, selected \in BOOLEAN : BeginImport(e, requested, selected)
    \/ \E x \in Image : SkipImported(e, x) \/ ImportImage(e, x) \/ ImportFails(e, x)
    \/ EndImport(e)
    \/ \E x \in Media : Select(e, x) \/ Deselect(e, x) \/ Ignore(e, x) \/ Remove(e, x) \/ Suggest(e, x)
    \/ CommitWrite(e)
    \/ BeginDraft(e)
    \/ Materialize(e)
    \/ CommitDraft(e)
    \/ CommitFailedDraft(e)
    \/ EditFails(e)

MediaNext ==
    \/ \E e \in Editor : EditorStep(e)
    \/ \E found \in SUBSET Image : IngestSnapshot(found)
    \/ \E x \in Media : ExpireGenerations(x)

MediaSpec == MediaInit /\ [][MediaNext]_mediaVars

-------------------------------------------------------------------------------
(* A workspace keeps to its limit ("max upload count per workspace (80)",       *)
(* docs/features/seo-migration-workspace.md) although uploads that overlap all  *)
(* find room before any of them stores its object: each writes back the list it *)
(* has read with one asset more (upload_workspace_media_asset).                 *)
UploadsBounded == Cardinality(Listed(entry)) <= MaxUploads

===============================================================================
