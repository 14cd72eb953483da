-------------------------------- MODULE Media --------------------------------
(***************************************************************************)
(* The media service (services/media): a row per asset, PENDING until the  *)
(* uploaded object has been looked at.  The uploader talks to the object   *)
(* store directly, for as long as the presigned URL lasts; ConfirmUpload   *)
(* reads the row, then the object's head, then writes the row, and nothing *)
(* is locked in between.  Asset keys are fresh, so a key stands for its    *)
(* row; the bucket is part of the key.                                     *)
(***************************************************************************)
EXTENDS Naturals, Sequences, FiniteSets, Access

CONSTANTS Assets,           \* object keys
          ContentTypes,     \* allowedContentTypes
          OtherTypes,       \* content types an upload or a request may name besides
          MaxUploadBytes, Sizes,
          Confirmers,       \* ConfirmUpload requests in flight together
          MaxReady,         \* bound on asset_ready events per asset
          MaxPuts           \* bound on uploads per asset

VARIABLES asset, object, presigned, confirm, assetEvents,
          uploaded          \* history: sizes and types ever put under a key, oldest first

mediaVars == <<asset, object, presigned, confirm, assetEvents, uploaded>>

NoAsset == [status |-> "NONE", type |-> "", size |-> 0]
NoObject == [size |-> 0, type |-> "", found |-> FALSE]
Idle == [pc |-> "idle", key |-> "", row |-> NoAsset, head |-> NoObject]

AssetStatus == {"NONE", "PENDING", "READY"}

MediaTypeOK ==
    /\ \A k \in Assets : asset[k].status \in AssetStatus /\ Len(assetEvents[k]) <= MaxReady
    /\ presigned \subseteq Assets
    /\ \A c \in Confirmers : confirm[c].pc \in {"idle", "read", "headed"}

MediaInit ==
    /\ asset = [k \in Assets |-> NoAsset] /\ object = [k \in Assets |-> NoObject]
    /\ presigned = {} /\ confirm = [c \in Confirmers |-> Idle]
    /\ assetEvents = [k \in Assets |-> <<>>] /\ uploaded = [k \in Assets |-> <<>>]

(* NewUpload: what a request may declare.                                  *)
NewUpload(type, size) == type \in ContentTypes /\ size > 0 /\ size <= MaxUploadBytes

(* CreateUploadURL: the row, then the URL, which may not be signed.        *)
CreateUploadURL(p, k, type, size) ==
    /\ RequireRole(p, "catalog_manager") /\ NewUpload(type, size)
    /\ asset[k] = NoAsset
    /\ asset' = [asset EXCEPT ![k] = [status |-> "PENDING", type |-> type, size |-> size]]
    /\ presigned' \in {presigned, presigned \cup {k}}
    /\ UNCHANGED <<object, confirm, assetEvents, uploaded>>

(* The object store: anything is put under the key while the URL lasts,    *)
(* again if need be, and then the URL expires.                             *)
PutObject(k, type, size) ==
    /\ k \in presigned /\ Len(uploaded[k]) < MaxPuts
    /\ object' = [object EXCEPT ![k] = [size |-> size, type |-> type, found |-> TRUE]]
    /\ uploaded' = [uploaded EXCEPT ![k] = Append(@, [size |-> size, type |-> type])]
    /\ UNCHANGED <<asset, presigned, confirm, assetEvents>>
URLExpires(k) ==
    k \in presigned /\ presigned' = presigned \ {k} /\ UNCHANGED <<asset, object, confirm, assetEvents, uploaded>>

(* ConfirmUpload: Store.Get ...                                            *)
ConfirmUpload(c, p, k) ==
    /\ RequireRole(p, "catalog_manager") /\ confirm[c].pc = "idle" /\ asset[k] # NoAsset
    /\ confirm' = [confirm EXCEPT ![c] = [pc |-> "read", key |-> k, row |-> asset[k], head |-> NoObject]]
    /\ UNCHANGED <<asset, object, presigned, assetEvents, uploaded>>

(* ... Head, where a missing object ends the request ...                   *)
Head_(c) ==
    LET k == confirm[c].key IN
    /\ confirm[c].pc = "read"
    /\ confirm' = [confirm EXCEPT ![c] =
          IF object[k].found THEN [@ EXCEPT !.pc = "headed", !.head = object[k]] ELSE Idle]
    /\ UNCHANGED <<asset, object, presigned, assetEvents, uploaded>>

(* Mutant: the head is believed whatever its type.                         *)
MarkReadyAnyType(row, head) ==
    IF row.status = "READY" THEN {row}
    ELSE IF head.size \in 1..MaxUploadBytes THEN {[row EXCEPT !.status = "READY", !.size = head.size]} ELSE {}

(* Asset.MarkReady on the row that was read: a READY one passes, with the  *)
(* size it has; {} is an error.                                            *)
MarkReady(row, head) ==
    IF row.status = "READY" THEN {row}
    ELSE IF head.size \in 1..MaxUploadBytes /\ head.type \in {"", row.type}
    THEN {[row EXCEPT !.status = "READY", !.size = head.size]}
    ELSE {}

(* ... and Store.MarkReady: the row and its asset_ready event, whatever    *)
(* the row has become meanwhile.                                           *)
StoreMarkReady(c) ==
    LET req == confirm[c]  ready == MarkReady(req.row, req.head) IN
    /\ req.pc = "headed" /\ confirm' = [confirm EXCEPT ![c] = Idle]
    /\ IF ready = {} THEN UNCHANGED <<asset, assetEvents>>
       ELSE \E a \in ready :
              /\ Len(assetEvents[req.key]) < MaxReady
              /\ asset' = [asset EXCEPT ![req.key].status = "READY", ![req.key].size = a.size]
              /\ assetEvents' = [assetEvents EXCEPT ![req.key] = Append(@, a.size)]
    /\ UNCHANGED <<object, presigned, uploaded>>

-----------------------------------------------------------------------------
(* An asset that is READY was really uploaded: at some time an object of   *)
(* the declared type (or of none) and of the recorded, legal size lay      *)
(* under its key, although the uploader may overwrite it while it is being *)
(* confirmed, twice at once (ConfirmUpload).                               *)
ReadyWasSeen ==
    \A k \in Assets : asset[k].status = "READY" =>
        \E i \in 1..Len(uploaded[k]) :
            /\ uploaded[k][i].size = asset[k].size /\ asset[k].size \in 1..MaxUploadBytes
            /\ uploaded[k][i].type \in {"", asset[k].type}

(* The last asset_ready event tells the size the row has, and there is one *)
(* exactly for a READY asset (Store.MarkReady).                            *)
EventsTellAsset ==
    \A k \in Assets :
        /\ (asset[k].status = "READY") <=> (assetEvents[k] # <<>>)
        /\ assetEvents[k] # <<>> => assetEvents[k][Len(assetEvents[k])] = asset[k].size
=============================================================================
