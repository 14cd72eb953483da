--------------------------- MODULE StorefrontProofs ---------------------------
(***************************************************************************)
(* Proofs about media assets, the seller service, the catalog and what is  *)
(* derived from it, the rights graph, and the calls of the edge, for any   *)
(* deployment, any number of shops, products, assets and callers, and any  *)
(* bounds.  Each part has an inductive invariant over its own variables,   *)
(* and is left alone by the steps of the others.                           *)
(***************************************************************************)
EXTENDS Storefront, FiniteSetTheorems, SequenceTheorems, WellFoundedInduction, NaturalsInduction, TLAPS

-----------------------------------------------------------------------------
(* A smallest number and a largest index.                                  *)
LEMMA SmallestOf ==
    ASSUME NEW S \in SUBSET Nat, S # {}
    PROVE  \E x \in S : \A y \in S : x <= y
<1> DEFINE R == {ss \in Nat \X Nat : ss[1] < ss[2]}
<1>1. IsWellFoundedOn(R, Nat)
  BY NatLessThanWellFounded DEF OpToRel
<1>2. PICK x \in S : \A y \in S : <<y, x>> \notin R
  <2> HIDE DEF R
  <2> QED
    BY <1>1, WFMin
<1>3. ASSUME NEW y \in S PROVE x <= y
  <2>1. y \in Nat /\ x \in Nat /\ <<y, x>> \notin R
    BY <1>2
  <2>2. <<y, x>> \in R <=> y < x
    BY <2>1
  <2> QED
    BY <2>1, <2>2
<1> QED
  BY <1>3

(* And the other way round, below a bound.                                 *)
LEMMA LargestOf ==
    ASSUME NEW n \in Nat, NEW S \in SUBSET (0..n), S # {}
    PROVE  \E x \in S : \A y \in S : y <= x
<1> DEFINE T == {n - i : i \in S}
<1>1. T \in SUBSET Nat /\ T # {}
  <2>1. \A i \in S : n - i \in Nat
    OBVIOUS
  <2> QED
    BY <2>1
<1>2. PICK t \in T : \A u \in T : t <= u
  <2> HIDE DEF T
  <2> QED
    BY <1>1, SmallestOf
<1>3. PICK x \in S : t = n - x
  OBVIOUS
<1>4. ASSUME NEW y \in S PROVE y <= x
  <2>1. n - y \in T
    OBVIOUS
  <2>2. t <= n - y
    BY <1>2, <2>1
  <2> QED
    BY <1>3, <2>2
<1> QED
  BY <1>4

-----------------------------------------------------------------------------
(* Media.                                                                  *)

MediaTypes == ContentTypes \cup OtherTypes \cup {""}
MediaSizes == Sizes \cup {0} \cup 1..MaxUploadBytes
AssetRow == [status : Med!AssetStatus, type : MediaTypes, size : MediaSizes]
ObjectHead == [size : MediaSizes, type : MediaTypes, found : BOOLEAN]
MediaRequest == [pc : {"idle", "read", "headed"}, key : Assets \cup {""}, row : AssetRow, head : ObjectHead]

MediaTypeInv ==
    /\ asset \in [Assets -> AssetRow] /\ object \in [Assets -> ObjectHead]
    /\ presigned \subseteq Assets /\ confirm \in [Confirmers -> MediaRequest]
    /\ \A c \in Confirmers : confirm[c].pc # "idle" => confirm[c].key \in Assets
    /\ assetEvents \in [Assets -> Seq(MediaSizes)] /\ \A k \in Assets : Len(assetEvents[k]) <= MaxReady
    /\ uploaded \in [Assets -> Seq([size : MediaSizes, type : MediaTypes])]

(* An object of this size and one of these types lay under k at some time. *)
Uploaded(k, size, types) ==
    \E i \in 1..Len(uploaded[k]) : uploaded[k][i].size = size /\ uploaded[k][i].type \in types

(* What was found under a key, or in a head that was read, was uploaded;   *)
(* a request in flight works on an asset with a row, whose declared type   *)
(* it has read for good, and a READY row it has read was uploaded so.      *)
ObjectsUploaded ==
    \A k \in Assets : /\ object[k].found => Uploaded(k, object[k].size, {object[k].type})
                      /\ asset[k].status = "NONE" => asset[k] = Med!NoAsset
ConfirmsUploaded ==
    \A c \in Confirmers : confirm[c].pc # "idle" =>
        LET k == confirm[c].key  row == confirm[c].row IN
        /\ asset[k].status # "NONE" /\ row.type = asset[k].type
        /\ row.status = "READY" => row.size \in 1..MaxUploadBytes /\ Uploaded(k, row.size, {"", row.type})
        /\ confirm[c].pc = "headed" => Uploaded(k, confirm[c].head.size, {confirm[c].head.type})

(* ReadyWasSeen, in these words.                                           *)
ReadyUploaded ==
    \A k \in Assets : asset[k].status = "READY" =>
        asset[k].size \in 1..MaxUploadBytes /\ Uploaded(k, asset[k].size, {"", asset[k].type})

MediaInv == MediaTypeInv /\ ObjectsUploaded /\ ConfirmsUploaded /\ ReadyUploaded /\ Med!EventsTellAsset

(* What was uploaded stays uploaded.                                       *)
LEMMA UploadsStay ==
    ASSUME MediaTypeInv, NEW k \in Assets, NEW size, NEW types, Uploaded(k, size, types),
           \/ UNCHANGED uploaded
           \/ \E q \in Assets, t \in MediaTypes, n \in MediaSizes :
                uploaded' = [uploaded EXCEPT ![q] = Append(@, [size |-> n, type |-> t])]
    PROVE  Uploaded(k, size, types)'
<1>1. CASE UNCHANGED uploaded
  BY <1>1 DEF Uploaded
<1>2. ASSUME NEW q \in Assets, NEW t \in MediaTypes, NEW n \in MediaSizes,
             uploaded' = [uploaded EXCEPT ![q] = Append(@, [size |-> n, type |-> t])]
      PROVE Uploaded(k, size, types)'
  <2>1. uploaded[k] \in Seq([size : MediaSizes, type : MediaTypes])
    BY DEF MediaTypeInv
  <2>2. \A i \in 1..Len(uploaded[k]) : i \in 1..Len(uploaded'[k]) /\ uploaded'[k][i] = uploaded[k][i]
    BY <1>2, <2>1 DEF MediaTypeInv
  <2> QED
    BY <2>2 DEF Uploaded
<1> QED
  BY <1>1, <1>2

(* Only media touches what media keeps.                                    *)
LEMMA MediaFrame == [Next]_vars => MediaStep \/ UNCHANGED mediaVars
BY DEF Next, vars, frontVars, FgaStep, SellerStep, CatalogStep, IndexStep, StockStep, SearchStep, SharingStep,
       CartStep, CartExpires, PageStep, ListStep, EdgeStep, AnalyticsStep, AnalyticsKeep

(* The rows and requests of media keep their types.                        *)
LEMMA MediaTypeStep == MediaTypeInv /\ [Next]_vars => MediaTypeInv'
<1> SUFFICES ASSUME MediaTypeInv, [Next]_vars PROVE MediaTypeInv'
  OBVIOUS
<1> USE StorefrontBounds DEF MediaTypeInv
<1> DEFINE Types == ContentTypes \cup OtherTypes
<1>1. Types \subseteq MediaTypes /\ Sizes \subseteq MediaSizes /\ 1..MaxUploadBytes \subseteq MediaSizes
      /\ "" \in MediaTypes /\ 0 \in MediaSizes
  BY DEF MediaTypes, MediaSizes
<1>2. ASSUME NEW p \in Principals, NEW k \in Assets, NEW n \in Sizes, NEW t \in Types, Med!CreateUploadURL(p, k, t, n)
      PROVE MediaTypeInv'
  BY <1>1, <1>2 DEF Med!CreateUploadURL, AssetRow, Med!AssetStatus
<1>3. ASSUME NEW k \in Assets, NEW n \in Sizes, NEW t \in Types, Med!PutObject(k, t, n) PROVE MediaTypeInv'
  <2>1. object' \in [Assets -> ObjectHead]
    BY <1>1, <1>3 DEF Med!PutObject, ObjectHead
  <2>2. [size |-> n, type |-> t] \in [size : MediaSizes, type : MediaTypes]
    BY <1>1
  <2>3. uploaded' \in [Assets -> Seq([size : MediaSizes, type : MediaTypes])]
    <3>1. uploaded[k] \in Seq([size : MediaSizes, type : MediaTypes])
      OBVIOUS
    <3>2. Append(uploaded[k], [size |-> n, type |-> t]) \in Seq([size : MediaSizes, type : MediaTypes])
      BY <2>2, <3>1
    <3> QED
      BY <1>3, <3>2 DEF Med!PutObject
  <2> QED
    BY <1>3, <2>1, <2>3 DEF Med!PutObject
<1>4. ASSUME NEW k \in Assets, Med!URLExpires(k) PROVE MediaTypeInv'
  BY <1>4 DEF Med!URLExpires
<1>5. ASSUME NEW c \in Confirmers, Med!Head_(c) PROVE MediaTypeInv'
  <2>1. Med!Idle \in MediaRequest /\ Med!Idle.pc = "idle"
    BY <1>1 DEF Med!Idle, MediaRequest, Med!NoAsset, Med!NoObject, AssetRow, ObjectHead, Med!AssetStatus
  <2>2. PICK r \in MediaRequest : confirm' = [confirm EXCEPT ![c] = r] /\ (r.pc # "idle" => r.key \in Assets)
    <3>1. confirm[c].key \in Assets /\ confirm[c] \in MediaRequest
      BY <1>5 DEF Med!Head_
    <3>2. object[confirm[c].key] \in ObjectHead
      BY <3>1
    <3>3. [confirm[c] EXCEPT !.pc = "headed", !.head = object[confirm[c].key]] \in MediaRequest
      BY <3>1, <3>2 DEF MediaRequest
    <3> QED
      BY <1>5, <2>1, <3>1, <3>3 DEF Med!Head_, MediaRequest
  <2> QED
    BY <1>5, <2>2 DEF Med!Head_
<1>6. ASSUME NEW c \in Confirmers, Med!StoreMarkReady(c) PROVE MediaTypeInv'
  <2> DEFINE req == confirm[c]
  <2>1. confirm' \in [Confirmers -> MediaRequest] /\ \A d \in Confirmers : confirm'[d].pc # "idle" => confirm'[d].key \in Assets
    BY <1>1, <1>6 DEF Med!StoreMarkReady, Med!Idle, MediaRequest, Med!NoAsset, Med!NoObject, AssetRow, ObjectHead, Med!AssetStatus
  <2>2. req.key \in Assets /\ req \in MediaRequest /\ req.row \in AssetRow /\ req.head \in ObjectHead
    BY <1>6 DEF Med!StoreMarkReady, MediaRequest
  <2>3. ASSUME NEW a \in Med!MarkReady(req.row, req.head) PROVE a.size \in MediaSizes
    BY <1>1, <2>2, <2>3 DEF Med!MarkReady, AssetRow
  <2>4. CASE UNCHANGED <<asset, assetEvents>>
    BY <1>6, <2>1, <2>4 DEF Med!StoreMarkReady
  <2>5. ASSUME NEW a \in Med!MarkReady(req.row, req.head), Len(assetEvents[req.key]) < MaxReady,
               asset' = [asset EXCEPT ![req.key].status = "READY", ![req.key].size = a.size],
               assetEvents' = [assetEvents EXCEPT ![req.key] = Append(@, a.size)]
        PROVE MediaTypeInv'
    <3>1. asset' \in [Assets -> AssetRow]
      BY <2>2, <2>3, <2>5 DEF AssetRow, Med!AssetStatus
    <3>2. assetEvents[req.key] \in Seq(MediaSizes)
      BY <2>2
    <3>3. Append(assetEvents[req.key], a.size) \in Seq(MediaSizes)
          /\ Len(Append(assetEvents[req.key], a.size)) = Len(assetEvents[req.key]) + 1
      BY <2>3, <3>2
    <3>4. assetEvents' \in [Assets -> Seq(MediaSizes)] /\ \A k \in Assets : Len(assetEvents'[k]) <= MaxReady
      BY <2>2, <2>5, <3>2, <3>3
    <3> QED
      BY <1>6, <2>1, <3>1, <3>4 DEF Med!StoreMarkReady
  <2> QED
    BY <1>6, <2>4, <2>5 DEF Med!StoreMarkReady
<1>7. ASSUME NEW c \in Confirmers, NEW p \in Principals, NEW k \in Assets, Med!ConfirmUpload(c, p, k)
      PROVE MediaTypeInv'
  BY <1>1, <1>7 DEF Med!ConfirmUpload, MediaRequest, Med!NoObject, ObjectHead
<1>8. CASE UNCHANGED mediaVars
  BY <1>8 DEF mediaVars
<1> QED
  BY <1>2, <1>3, <1>4, <1>5, <1>6, <1>7, <1>8, MediaFrame DEF MediaStep

(* The rows start out empty.                                               *)
LEMMA MediaStart == Init => MediaInv
<1> SUFFICES ASSUME Init PROVE MediaInv
  OBVIOUS
<1>1. Med!MediaInit
  BY DEF Init
<1>2. MediaTypeInv
  <2>1. "" \in MediaTypes /\ 0 \in MediaSizes
    BY DEF MediaTypes, MediaSizes
  <2>2. Med!NoAsset \in AssetRow /\ Med!NoObject \in ObjectHead
    BY <2>1 DEF Med!NoAsset, Med!NoObject, AssetRow, ObjectHead, Med!AssetStatus
  <2>3. Med!Idle \in MediaRequest
    BY <2>1, <2>2 DEF Med!Idle, MediaRequest
  <2>4. confirm \in [Confirmers -> MediaRequest] /\ \A c \in Confirmers : confirm[c].pc = "idle"
    BY <1>1, <2>3 DEF Med!MediaInit, Med!Idle
  <2>5. asset \in [Assets -> AssetRow] /\ object \in [Assets -> ObjectHead] /\ presigned \subseteq Assets
    BY <1>1, <2>2 DEF Med!MediaInit
  <2>6. /\ assetEvents \in [Assets -> Seq(MediaSizes)] /\ uploaded \in [Assets -> Seq([size : MediaSizes, type : MediaTypes])]
        /\ \A k \in Assets : Len(assetEvents[k]) <= MaxReady
    BY <1>1, StorefrontBounds DEF Med!MediaInit
  <2> QED
    BY <2>4, <2>5, <2>6 DEF MediaTypeInv
<1> QED
  BY <1>1, <1>2 DEF Med!MediaInit, MediaInv, ObjectsUploaded, ConfirmsUploaded, ReadyUploaded, Med!EventsTellAsset,
     Med!NoAsset, Med!NoObject, Med!Idle

(* What was found and read was uploaded, through every step.               *)
LEMMA MediaSeenStep ==
    MediaInv /\ MediaTypeInv' /\ [Next]_vars => (ObjectsUploaded /\ ConfirmsUploaded /\ ReadyUploaded /\ Med!EventsTellAsset)'
<1> SUFFICES ASSUME MediaInv, MediaTypeInv', [Next]_vars
             PROVE (ObjectsUploaded /\ ConfirmsUploaded /\ ReadyUploaded /\ Med!EventsTellAsset)'
  OBVIOUS
<1> USE DEF MediaInv
<1> DEFINE Types == ContentTypes \cup OtherTypes
           Goal == ObjectsUploaded /\ ConfirmsUploaded /\ ReadyUploaded /\ Med!EventsTellAsset
<1>1. ASSUME UNCHANGED uploaded, NEW k \in Assets, NEW size, NEW types, Uploaded(k, size, types)
      PROVE Uploaded(k, size, types)'
  BY <1>1, UploadsStay
<1>2. ASSUME NEW p \in Principals, NEW k \in Assets, NEW n \in Sizes, NEW t \in Types, Med!CreateUploadURL(p, k, t, n)
      PROVE Goal'
  <2>1. /\ asset[k].status = "NONE" /\ UNCHANGED <<object, confirm, assetEvents, uploaded>>
        /\ asset'[k].status = "PENDING" /\ \A q \in Assets \ {k} : asset'[q] = asset[q]
    <3>1. /\ asset[k] = Med!NoAsset /\ UNCHANGED <<object, confirm, assetEvents, uploaded>>
          /\ asset' = [asset EXCEPT ![k] = [status |-> "PENDING", type |-> t, size |-> n]]
      BY <1>2 DEF Med!CreateUploadURL
    <3>2. asset[k].status = "NONE"
      <4>1. Med!NoAsset.status = "NONE"
        BY DEF Med!NoAsset
      <4>2. asset[k] = Med!NoAsset
        BY <3>1
      <4> QED
        BY <4>1, <4>2
    <3>3. DOMAIN asset = Assets /\ k \in Assets
      BY DEF MediaTypeInv
    <3>4. asset'[k] = [status |-> "PENDING", type |-> t, size |-> n] /\ \A q \in Assets \ {k} : asset'[q] = asset[q]
      BY <3>1, <3>3
    <3> QED
      BY <3>1, <3>2, <3>4
  <2>2. ObjectsUploaded' /\ ReadyUploaded' /\ Med!EventsTellAsset'
    BY <2>1 DEF ObjectsUploaded, ReadyUploaded, Med!EventsTellAsset, Uploaded
  <2>3. ConfirmsUploaded'
    BY <2>1 DEF ConfirmsUploaded, Uploaded, MediaTypeInv
  <2> QED
    BY <2>2, <2>3
<1>3. ASSUME NEW k \in Assets, NEW n \in Sizes, NEW t \in Types, Med!PutObject(k, t, n) PROVE Goal'
  <2>1. n \in MediaSizes /\ t \in MediaTypes
    BY DEF MediaSizes, MediaTypes
  <2>2. /\ UNCHANGED <<asset, presigned, confirm, assetEvents>>
        /\ object' = [object EXCEPT ![k] = [size |-> n, type |-> t, found |-> TRUE]]
        /\ uploaded' = [uploaded EXCEPT ![k] = Append(@, [size |-> n, type |-> t])]
    BY <1>3 DEF Med!PutObject
  <2>3. ASSUME NEW q \in Assets, NEW size, NEW types, Uploaded(q, size, types) PROVE Uploaded(q, size, types)'
    BY <2>1, <2>2, <2>3, UploadsStay
  <2>4. Uploaded(k, n, {t})'
    <3>1. uploaded[k] \in Seq([size : MediaSizes, type : MediaTypes])
      BY DEF MediaTypeInv
    <3>2. uploaded'[k] = Append(uploaded[k], [size |-> n, type |-> t])
      BY <2>2 DEF MediaTypeInv
    <3>3. Len(uploaded'[k]) \in 1..Len(uploaded'[k]) /\ uploaded'[k][Len(uploaded'[k])] = [size |-> n, type |-> t]
      BY <3>1, <3>2
    <3> QED
      BY <3>3 DEF Uploaded
  <2>5. ObjectsUploaded'
    <3> SUFFICES ASSUME NEW q \in Assets
                 PROVE /\ object'[q].found => Uploaded(q, object[q].size, {object[q].type})'
                       /\ asset'[q].status = "NONE" => asset'[q] = Med!NoAsset
      BY DEF ObjectsUploaded
    <3>1. CASE q = k
      BY <2>2, <2>4, <3>1 DEF MediaTypeInv, ObjectsUploaded
    <3>2. CASE q # k
      <4>1. object'[q] = object[q]
        BY <2>2, <3>2 DEF MediaTypeInv
      <4>2. object[q].found => Uploaded(q, object[q].size, {object[q].type})
        BY DEF ObjectsUploaded
      <4>3. object[q].found => Uploaded(q, object[q].size, {object[q].type})'
        <5> DEFINE sz == object[q].size  ty == {object[q].type}
        <5>1. Uploaded(q, sz, ty) => \E i \in 1..Len(uploaded'[q]) : uploaded'[q][i].size = sz /\ uploaded'[q][i].type \in ty
          <6> HIDE DEF sz, ty
          <6> QED BY <2>3 DEF Uploaded
        <5> QED
          BY <4>1, <4>2, <5>1 DEF Uploaded
      <4> QED
        BY <2>2, <4>1, <4>3 DEF ObjectsUploaded
    <3> QED
      BY <3>1, <3>2
  <2>6. ReadyUploaded'
    BY <2>2, <2>3 DEF ReadyUploaded
  <2>7. ConfirmsUploaded'
    BY <2>2, <2>3 DEF ConfirmsUploaded, MediaTypeInv
  <2> QED
    BY <2>2, <2>5, <2>6, <2>7 DEF Med!EventsTellAsset
<1>4. ASSUME NEW k \in Assets, Med!URLExpires(k) PROVE Goal'
  BY <1>4 DEF Med!URLExpires, ObjectsUploaded, ConfirmsUploaded, ReadyUploaded, Med!EventsTellAsset, Uploaded
<1>5. ASSUME NEW c \in Confirmers, Med!Head_(c) PROVE Goal'
  <2> DEFINE k == confirm[c].key
  <2>1. /\ confirm[c].pc = "read" /\ UNCHANGED <<asset, object, presigned, assetEvents, uploaded>>
        /\ confirm' = [confirm EXCEPT ![c] =
              IF object[k].found THEN [confirm[c] EXCEPT !.pc = "headed", !.head = object[k]] ELSE Med!Idle]
    BY <1>5 DEF Med!Head_
  <2>2. k \in Assets /\ confirm[c] \in MediaRequest
    BY <2>1 DEF MediaTypeInv
  <2>3. object[k].found => Uploaded(k, object[k].size, {object[k].type})
    BY <2>2 DEF ObjectsUploaded
  <2>4. ConfirmsUploaded'
    <3> SUFFICES ASSUME NEW d \in Confirmers, confirm'[d].pc # "idle"
                 PROVE  /\ asset[confirm'[d].key].status # "NONE" /\ confirm'[d].row.type = asset[confirm'[d].key].type
                        /\ confirm'[d].row.status = "READY" =>
                             confirm'[d].row.size \in 1..MaxUploadBytes
                             /\ Uploaded(confirm'[d].key, confirm'[d].row.size, {"", confirm'[d].row.type})
                        /\ confirm'[d].pc = "headed" => Uploaded(confirm'[d].key, confirm'[d].head.size, {confirm'[d].head.type})
      BY <2>1 DEF ConfirmsUploaded, Uploaded
    <3>1. CASE d # c
      BY <2>1, <3>1 DEF ConfirmsUploaded, MediaTypeInv
    <3>2. CASE d = c
      <4>1. object[k].found /\ confirm'[c] = [confirm[c] EXCEPT !.pc = "headed", !.head = object[k]]
        BY <2>1, <3>2 DEF MediaTypeInv, Med!Idle
      <4>2. confirm'[c].key = k /\ confirm'[c].row = confirm[c].row /\ confirm'[c].head = object[k]
        BY <2>2, <4>1 DEF MediaRequest
      <4> QED
        <5>1. confirm'[d].key = k /\ confirm'[d].row = confirm[c].row /\ confirm'[d].head = object[k]
          BY <3>2, <4>2
        <5>2. /\ asset[k].status # "NONE" /\ confirm[c].row.type = asset[k].type
              /\ confirm[c].row.status = "READY" =>
                   confirm[c].row.size \in 1..MaxUploadBytes /\ Uploaded(k, confirm[c].row.size, {"", confirm[c].row.type})
          BY <2>1 DEF ConfirmsUploaded
        <5> QED
          BY <2>3, <4>1, <5>1, <5>2
    <3> QED
      BY <3>1, <3>2
  <2> QED
    BY <2>1, <2>4 DEF ObjectsUploaded, ReadyUploaded, Med!EventsTellAsset, Uploaded
<1>6. ASSUME NEW c \in Confirmers, Med!StoreMarkReady(c) PROVE Goal'
  <2> DEFINE k == confirm[c].key  row == confirm[c].row  head == confirm[c].head
  <2>1. /\ confirm[c].pc = "headed" /\ confirm' = [confirm EXCEPT ![c] = Med!Idle] /\ UNCHANGED <<object, presigned, uploaded>>
        /\ \/ UNCHANGED <<asset, assetEvents>>
           \/ \E a \in Med!MarkReady(row, head) :
                /\ asset' = [asset EXCEPT ![k].status = "READY", ![k].size = a.size]
                /\ assetEvents' = [assetEvents EXCEPT ![k] = Append(@, a.size)]
    BY <1>6 DEF Med!StoreMarkReady
  <2>2. /\ k \in Assets /\ asset[k].status # "NONE" /\ row.type = asset[k].type /\ row \in AssetRow
        /\ row.status = "READY" => row.size \in 1..MaxUploadBytes /\ Uploaded(k, row.size, {"", row.type})
        /\ Uploaded(k, head.size, {head.type})
    BY <2>1 DEF MediaTypeInv, ConfirmsUploaded, MediaRequest
  <2>3. \A d \in Confirmers : confirm'[d].pc # "idle" => confirm'[d] = confirm[d]
    BY <2>1 DEF MediaTypeInv, Med!Idle
  <2>4. CASE UNCHANGED <<asset, assetEvents>>
    <3>1. ConfirmsUploaded'
      <4>1. \A d \in Confirmers : confirm'[d].pc # "idle" => confirm'[d] = confirm[d] /\ asset'[confirm[d].key] = asset[confirm[d].key]
        BY <2>3, <2>4
      <4> QED
        <5> SUFFICES ASSUME NEW d \in Confirmers, confirm'[d].pc # "idle"
                     PROVE  /\ asset'[confirm'[d].key].status # "NONE" /\ confirm'[d].row.type = asset'[confirm'[d].key].type
                            /\ confirm'[d].row.status = "READY" =>
                                 confirm'[d].row.size \in 1..MaxUploadBytes
                                 /\ Uploaded(confirm'[d].key, confirm'[d].row.size, {"", confirm'[d].row.type})
                            /\ confirm'[d].pc = "headed" => Uploaded(confirm'[d].key, confirm'[d].head.size, {confirm'[d].head.type})
          BY <2>1 DEF ConfirmsUploaded, Uploaded
        <5> QED
          BY <4>1 DEF ConfirmsUploaded
    <3> QED
      BY <2>1, <2>4, <3>1 DEF ObjectsUploaded, ReadyUploaded, Med!EventsTellAsset, Uploaded
  <2>5. ASSUME NEW a \in Med!MarkReady(row, head),
               asset' = [asset EXCEPT ![k].status = "READY", ![k].size = a.size],
               assetEvents' = [assetEvents EXCEPT ![k] = Append(@, a.size)]
        PROVE Goal'
    <3>1. a.size \in 1..MaxUploadBytes /\ Uploaded(k, a.size, {"", asset[k].type})
      <4>1. CASE row.status = "READY"
        BY <2>2, <4>1 DEF Med!MarkReady
      <4>2. CASE row.status # "READY"
        <5>1. head.size \in 1..MaxUploadBytes /\ head.type \in {"", row.type} /\ a = [row EXCEPT !.status = "READY", !.size = head.size]
          BY <4>2 DEF Med!MarkReady
        <5>2. a.size = head.size
          BY <2>2, <5>1 DEF AssetRow
        <5> QED
          BY <2>2, <5>1, <5>2 DEF Uploaded
      <4> QED
        BY <4>1, <4>2
    <3>2. /\ asset'[k].status = "READY" /\ asset'[k].size = a.size /\ asset'[k].type = asset[k].type
          /\ \A q \in Assets \ {k} : asset'[q] = asset[q]
      BY <2>2, <2>5 DEF MediaTypeInv, AssetRow
    <3>3. ReadyUploaded'
      <4> SUFFICES ASSUME NEW q \in Assets, asset'[q].status = "READY"
                   PROVE asset'[q].size \in 1..MaxUploadBytes /\ Uploaded(q, asset'[q].size, {"", asset'[q].type})
        BY <2>1 DEF ReadyUploaded, Uploaded
      <4> QED
        BY <3>1, <3>2 DEF ReadyUploaded
    <3>4. ObjectsUploaded'
      BY <2>1, <3>2 DEF ObjectsUploaded, Uploaded
    <3>5. ConfirmsUploaded'
      <4> SUFFICES ASSUME NEW d \in Confirmers, confirm'[d].pc # "idle"
                   PROVE  /\ asset'[confirm'[d].key].status # "NONE" /\ confirm'[d].row.type = asset'[confirm'[d].key].type
                          /\ confirm'[d].row.status = "READY" =>
                               confirm'[d].row.size \in 1..MaxUploadBytes
                               /\ Uploaded(confirm'[d].key, confirm'[d].row.size, {"", confirm'[d].row.type})
                          /\ confirm'[d].pc = "headed" => Uploaded(confirm'[d].key, confirm'[d].head.size, {confirm'[d].head.type})
        BY <2>1 DEF ConfirmsUploaded, Uploaded
      <4>1. confirm'[d] = confirm[d] /\ confirm[d].key \in Assets
        BY <2>3 DEF MediaTypeInv
      <4>2. asset'[confirm[d].key].status # "NONE" /\ asset'[confirm[d].key].type = asset[confirm[d].key].type
        BY <3>2, <4>1 DEF ConfirmsUploaded
      <4> QED
        BY <4>1, <4>2 DEF ConfirmsUploaded
    <3>6. Med!EventsTellAsset'
      <4>1. assetEvents[k] \in Seq(MediaSizes)
        BY <2>2 DEF MediaTypeInv
      <4>2. assetEvents'[k] = Append(assetEvents[k], a.size) /\ \A q \in Assets \ {k} : assetEvents'[q] = assetEvents[q]
        BY <2>2, <2>5 DEF MediaTypeInv
      <4>3. assetEvents'[k] # <<>> /\ assetEvents'[k][Len(assetEvents'[k])] = a.size
        BY <4>1, <4>2
      <4> QED
        BY <3>2, <4>2, <4>3 DEF Med!EventsTellAsset
    <3> QED
      BY <3>3, <3>4, <3>5, <3>6
  <2> QED
    BY <2>1, <2>4, <2>5
<1>7. ASSUME NEW c \in Confirmers, NEW p \in Principals, NEW k \in Assets, Med!ConfirmUpload(c, p, k)
      PROVE Goal'
  <2>1. /\ UNCHANGED <<asset, object, presigned, assetEvents, uploaded>> /\ asset[k] # Med!NoAsset
        /\ confirm' = [confirm EXCEPT ![c] = [pc |-> "read", key |-> k, row |-> asset[k], head |-> Med!NoObject]]
    BY <1>7 DEF Med!ConfirmUpload
  <2>2. ConfirmsUploaded'
    <3> SUFFICES ASSUME NEW d \in Confirmers, confirm'[d].pc # "idle"
                 PROVE  /\ asset[confirm'[d].key].status # "NONE" /\ confirm'[d].row.type = asset[confirm'[d].key].type
                        /\ confirm'[d].row.status = "READY" =>
                             confirm'[d].row.size \in 1..MaxUploadBytes
                             /\ Uploaded(confirm'[d].key, confirm'[d].row.size, {"", confirm'[d].row.type})
                        /\ confirm'[d].pc = "headed" => Uploaded(confirm'[d].key, confirm'[d].head.size, {confirm'[d].head.type})
      BY <2>1 DEF ConfirmsUploaded, Uploaded
    <3>1. CASE d # c
      BY <2>1, <3>1 DEF ConfirmsUploaded, MediaTypeInv
    <3>2. CASE d = c
      <4>1. confirm'[d] = [pc |-> "read", key |-> k, row |-> asset[k], head |-> Med!NoObject]
        BY <2>1, <3>2 DEF MediaTypeInv
      <4> QED
        <5>1. confirm'[d].pc = "read" /\ confirm'[d].key = k /\ confirm'[d].row = asset[k]
          BY <4>1
        <5> QED
          BY <2>1, <5>1 DEF ObjectsUploaded, ReadyUploaded
    <3> QED
      BY <3>1, <3>2
  <2> QED
    BY <2>1, <2>2 DEF ObjectsUploaded, ReadyUploaded, Med!EventsTellAsset, Uploaded
<1>8. CASE UNCHANGED mediaVars
  BY <1>8 DEF mediaVars, ObjectsUploaded, ConfirmsUploaded, ReadyUploaded, Med!EventsTellAsset, Uploaded
<1> QED
  BY <1>2, <1>3, <1>4, <1>5, <1>6, <1>7, <1>8, MediaFrame DEF MediaStep

(* The invariant of media.                                                 *)
LEMMA MediaInvariant == Spec => []MediaInv
<1>1. MediaInv /\ [Next]_vars => MediaInv'
  BY MediaTypeStep, MediaSeenStep DEF MediaInv
<1> QED
  BY <1>1, MediaStart, PTL DEF Spec

(* A READY asset was uploaded as its row says, for any number of uploads   *)
(* and confirmations at once (MarkReady, ConfirmUpload).                   *)
THEOREM ReadyAssetsWereSeen == Spec => []ReadyWasSeen
<1>1. MediaInv => ReadyWasSeen
  <2> SUFFICES ASSUME MediaInv PROVE ReadyWasSeen
    OBVIOUS
  <2>1. Med!MediaTypeOK
    <3>1. \A k \in Assets : asset[k].status \in Med!AssetStatus /\ Len(assetEvents[k]) <= MaxReady
      BY DEF MediaInv, MediaTypeInv, AssetRow
    <3>2. \A c \in Confirmers : confirm[c].pc \in {"idle", "read", "headed"}
      BY DEF MediaInv, MediaTypeInv, MediaRequest
    <3> QED
      BY <3>1, <3>2 DEF MediaInv, MediaTypeInv, Med!MediaTypeOK
  <2>2. Med!ReadyWasSeen
    BY DEF MediaInv, ReadyUploaded, Uploaded, Med!ReadyWasSeen
  <2> QED
    BY <2>1, <2>2 DEF ReadyWasSeen
<1> QED
  BY <1>1, MediaInvariant, PTL

-----------------------------------------------------------------------------
(* Shops.                                                                  *)

ShopTopics == {"created", "activated", "suspended"}
ShopRow == [status : Sel!ShopStatus, name : ShopNames \cup {""}, slug : {Slugify[n] : n \in ShopNames} \cup {""}]

SellerTypeInv ==
    /\ shop \in [Owners -> ShopRow] /\ ownerTuple \subseteq Owners
    /\ shopEvents \in [Owners -> Seq(ShopTopics)] /\ \A o \in Owners : Len(shopEvents[o]) <= MaxShopEvents

SlugsUnique ==
    \A o, q \in Owners : o # q /\ shop[o].status # "NONE" /\ shop[q].status # "NONE" => shop[o].slug # shop[q].slug

(* What a shop's events say: it was created, then moved between two        *)
(* states, each time to the other one, and it is where the last one says.  *)
LogTells(log, status) ==
    /\ Len(log) = 0 <=> status = "NONE"
    /\ Len(log) = 1 <=> status = "PENDING_REVIEW"
    /\ Len(log) > 0 => log[1] = "created"
    /\ \A i \in 2..Len(log) : log[i] \in {"activated", "suspended"} /\ log[i] # log[i - 1]
    /\ Len(log) > 1 => log[Len(log)] = (IF status = "ACTIVE" THEN "activated" ELSE "suspended")

ShopsTell == \A o \in Owners : LogTells(shopEvents[o], shop[o].status)

SellerInv == SellerTypeInv /\ SlugsUnique /\ ShopsTell

(* A length is 0, 1 or more.                                               *)
LEMMA ZeroOneMore == \A n \in Nat : n = 0 \/ n = 1 \/ n > 1
OBVIOUS

(* A decision that changes a shop's state is told after the one before.    *)
LEMMA LogGrows ==
    ASSUME NEW log \in Seq(ShopTopics), NEW status \in Sel!ShopStatus \ {"NONE"}, LogTells(log, status),
           NEW to, NEW topic, <<to, topic>> \in {<<"ACTIVE", "activated">>, <<"SUSPENDED", "suspended">>}, status # to
    PROVE  LogTells(Append(log, topic), to)
<1> DEFINE new == Append(log, topic)
<1>1. topic \in ShopTopics /\ topic \in {"activated", "suspended"} /\ to \in {"ACTIVE", "SUSPENDED"}
      /\ (topic = "activated" <=> to = "ACTIVE")
  BY DEF ShopTopics
<1>2. /\ new \in Seq(ShopTopics) /\ Len(new) = Len(log) + 1 /\ new[Len(log) + 1] = topic
      /\ \A i \in 1..Len(log) : new[i] = log[i]
  BY <1>1
<1>3. Len(log) \in Nat /\ Len(log) > 0 /\ Len(log) # 0
  BY DEF LogTells
<1>4. log[Len(log)] # topic
  <2>1. CASE Len(log) = 1
    BY <1>1, <2>1 DEF LogTells
  <2>2. CASE Len(log) > 1
    <3>1. status \in {"ACTIVE", "SUSPENDED"}
      BY <2>2 DEF LogTells, Sel!ShopStatus
    <3> QED
      BY <1>1, <2>2, <3>1 DEF LogTells
  <2>3. Len(log) = 1 \/ Len(log) > 1
    BY <1>3, ZeroOneMore
  <2> QED
    BY <2>1, <2>2, <2>3
<1>5. ASSUME NEW i \in 2..Len(new) PROVE new[i] \in {"activated", "suspended"} /\ new[i] # new[i - 1]
  <2>1. CASE i = Len(log) + 1
    <3>1. i - 1 = Len(log) /\ i - 1 \in 1..Len(log)
      BY <1>3, <2>1
    <3> QED
      BY <1>1, <1>2, <1>4, <2>1, <3>1
  <2>2. CASE i \in 2..Len(log)
    <3>1. i - 1 \in 1..Len(log) /\ i \in 1..Len(log)
      BY <1>3, <2>2
    <3> QED
      BY <1>2, <2>2, <3>1 DEF LogTells
  <2> QED
    BY <1>2, <1>3, <2>1, <2>2
<1>6. new[1] = "created"
  BY <1>2, <1>3 DEF LogTells
<1> QED
  BY <1>1, <1>2, <1>3, <1>5, <1>6 DEF LogTells

(* Only seller touches its own tables.                                     *)
LEMMA SellerFrame == [Next]_vars => SellerStep \/ UNCHANGED sellerVars
BY DEF Next, vars, shopVars, FgaStep, CatalogStep, IndexStep, StockStep, SearchStep, SharingStep, MediaStep,
       CartStep, CartExpires, PageStep, ListStep, EdgeStep, AnalyticsStep, AnalyticsKeep

(* The tables start out empty.                                             *)
LEMMA SellerStart == Init => SellerInv
<1> SUFFICES ASSUME Init PROVE SellerInv
  OBVIOUS
<1>1. Sel!SellerInit
  BY DEF Init
<1>2. Sel!NoShop \in ShopRow /\ Sel!NoShop.status = "NONE"
  BY DEF Sel!NoShop, ShopRow, Sel!ShopStatus
<1>3. SellerTypeInv
  BY <1>1, <1>2, StorefrontBounds DEF Sel!SellerInit, SellerTypeInv
<1>4. SlugsUnique
  BY <1>1, <1>2 DEF Sel!SellerInit, SlugsUnique
<1>5. LogTells(<<>>, "NONE")
  BY DEF LogTells
<1>6. ShopsTell
  BY <1>1, <1>2, <1>5 DEF Sel!SellerInit, ShopsTell
<1> QED
  BY <1>3, <1>4, <1>6 DEF SellerInv

(* A decision by an operator.                                              *)
LEMMA TransitionStep ==
    ASSUME SellerInv, NEW o \in Owners, NEW to, NEW topic, Sel!ShopTransition(o, to, topic),
           <<to, topic>> \in {<<"ACTIVE", "activated">>, <<"SUSPENDED", "suspended">>}
    PROVE  SellerInv'
<1>1. /\ shop[o].status \notin {"NONE", to} /\ UNCHANGED ownerTuple
      /\ shop' = [shop EXCEPT ![o].status = to]
      /\ Len(shopEvents[o]) < MaxShopEvents /\ shopEvents' = [shopEvents EXCEPT ![o] = Append(@, topic)]
  BY DEF Sel!ShopTransition, Sel!Emit
<1>2. to \in Sel!ShopStatus \ {"NONE"} /\ topic \in ShopTopics
  BY DEF Sel!ShopStatus, ShopTopics
<1>3. /\ shop \in [Owners -> ShopRow] /\ shop[o] \in ShopRow /\ shopEvents \in [Owners -> Seq(ShopTopics)]
      /\ shopEvents[o] \in Seq(ShopTopics)
  BY DEF SellerInv, SellerTypeInv
<1>4. /\ shop'[o] = [shop[o] EXCEPT !.status = to] /\ \A q \in Owners \ {o} : shop'[q] = shop[q]
      /\ shopEvents'[o] = Append(shopEvents[o], topic) /\ \A q \in Owners \ {o} : shopEvents'[q] = shopEvents[q]
  BY <1>1, <1>3
<1>5. shop'[o] \in ShopRow /\ shop'[o].status = to /\ shop'[o].slug = shop[o].slug
  BY <1>2, <1>3, <1>4 DEF ShopRow
<1>6. SellerTypeInv'
  <2>1. Append(shopEvents[o], topic) \in Seq(ShopTopics) /\ Len(Append(shopEvents[o], topic)) = Len(shopEvents[o]) + 1
    BY <1>2, <1>3
  <2>2. shop' \in [Owners -> ShopRow] /\ shopEvents' \in [Owners -> Seq(ShopTopics)]
    BY <1>1, <1>3, <1>4, <1>5, <2>1
  <2>3. Len(shopEvents[o]) + 1 <= MaxShopEvents
    BY <1>1, <1>3, StorefrontBounds
  <2>4. \A q \in Owners : Len(shopEvents'[q]) <= MaxShopEvents
    BY <1>4, <2>1, <2>3 DEF SellerInv, SellerTypeInv
  <2> QED
    BY <1>1, <2>2, <2>4 DEF SellerInv, SellerTypeInv
<1>7. SlugsUnique'
  BY <1>1, <1>2, <1>4, <1>5 DEF SellerInv, SlugsUnique
<1>8. LogTells(Append(shopEvents[o], topic), to)
  <2>1. shop[o].status \in Sel!ShopStatus \ {"NONE"} /\ shop[o].status # to
    BY <1>1, <1>3 DEF ShopRow
  <2>2. LogTells(shopEvents[o], shop[o].status)
    BY DEF SellerInv, ShopsTell
  <2> QED
    BY <1>3, <2>1, <2>2, LogGrows
<1>9. ShopsTell'
  <2> SUFFICES ASSUME NEW q \in Owners PROVE LogTells(shopEvents'[q], shop'[q].status)
    BY DEF ShopsTell, LogTells
  <2> QED
    BY <1>4, <1>5, <1>8 DEF SellerInv, ShopsTell
<1> QED
  BY <1>6, <1>7, <1>9 DEF SellerInv

(* A new shop, with a slug no other shop has.                              *)
LEMMA CreateShopStep ==
    ASSUME SellerInv, NEW o \in Owners, NEW n \in ShopNames, Sel!CreateShop(o, n)
    PROVE  SellerInv'
<1>1. /\ shop[o].status = "NONE" /\ ownerTuple' = ownerTuple \cup {o}
      /\ \A q \in Owners : shop[q].status # "NONE" => shop[q].slug # Slugify[n]
      /\ shop' = [shop EXCEPT ![o] = Sel!NewShop(n)]
      /\ Len(shopEvents[o]) < MaxShopEvents /\ shopEvents' = [shopEvents EXCEPT ![o] = Append(@, "created")]
  BY DEF Sel!CreateShop, Sel!Emit
<1>2. /\ Sel!NewShop(n) \in ShopRow /\ Sel!NewShop(n).status = "PENDING_REVIEW" /\ Sel!NewShop(n).slug = Slugify[n]
      /\ "created" \in ShopTopics
  BY DEF Sel!NewShop, ShopRow, Sel!ShopStatus, ShopTopics
<1>3. /\ shop \in [Owners -> ShopRow] /\ shopEvents \in [Owners -> Seq(ShopTopics)] /\ shopEvents[o] \in Seq(ShopTopics)
  BY DEF SellerInv, SellerTypeInv
<1>4. /\ shop'[o] = Sel!NewShop(n) /\ \A q \in Owners \ {o} : shop'[q] = shop[q]
      /\ shopEvents'[o] = Append(shopEvents[o], "created") /\ \A q \in Owners \ {o} : shopEvents'[q] = shopEvents[q]
  BY <1>1, <1>3
<1>5. Len(shopEvents[o]) = 0
  BY <1>1 DEF SellerInv, ShopsTell, LogTells
<1>6. shopEvents'[o] \in Seq(ShopTopics) /\ Len(shopEvents'[o]) = 1 /\ shopEvents'[o][1] = "created"
  BY <1>2, <1>3, <1>4, <1>5
<1>7. SellerTypeInv'
  <2>1. shop' \in [Owners -> ShopRow] /\ shopEvents' \in [Owners -> Seq(ShopTopics)]
    BY <1>1, <1>2, <1>3, <1>4, <1>6
  <2>2. \A q \in Owners : Len(shopEvents'[q]) <= MaxShopEvents
    BY <1>1, <1>4, <1>5, <1>6, StorefrontBounds DEF SellerInv, SellerTypeInv
  <2> QED
    BY <1>1, <2>1, <2>2 DEF SellerInv, SellerTypeInv
<1>8. SlugsUnique'
  BY <1>1, <1>2, <1>4 DEF SellerInv, SlugsUnique
<1>9. ShopsTell'
  <2> SUFFICES ASSUME NEW q \in Owners PROVE LogTells(shopEvents'[q], shop'[q].status)
    BY DEF ShopsTell, LogTells
  <2>1. LogTells(shopEvents'[o], shop'[o].status)
    BY <1>2, <1>4, <1>6 DEF LogTells
  <2> QED
    BY <1>4, <2>1 DEF SellerInv, ShopsTell
<1> QED
  BY <1>7, <1>8, <1>9 DEF SellerInv

(* The invariant of shops.                                                 *)
LEMMA SellerInvariant == Spec => []SellerInv
<1>1. ASSUME SellerInv, [Next]_vars PROVE SellerInv'
  <2>1. ASSUME NEW o \in Owners, NEW n \in ShopNames, Sel!UpdateShop(o, n) PROVE SellerInv'
    <3>1. /\ UNCHANGED <<shopEvents, ownerTuple>> /\ shop' = [shop EXCEPT ![o].name = n] /\ shop \in [Owners -> ShopRow]
      BY <1>1, <2>1 DEF Sel!UpdateShop, SellerInv, SellerTypeInv
    <3>2. \A q \in Owners : shop'[q] \in ShopRow /\ shop'[q].status = shop[q].status /\ shop'[q].slug = shop[q].slug
      BY <3>1 DEF ShopRow
    <3>3. SellerTypeInv'
      BY <1>1, <3>1, <3>2 DEF SellerInv, SellerTypeInv
    <3>4. SlugsUnique'
      BY <1>1, <3>2 DEF SellerInv, SlugsUnique
    <3>5. ShopsTell'
      BY <1>1, <3>1, <3>2 DEF SellerInv, ShopsTell, LogTells
    <3> QED
      BY <3>3, <3>4, <3>5 DEF SellerInv
  <2>2. ASSUME NEW o \in Owners, Sel!WriteOwnerTuple(o) PROVE SellerInv'
    BY <1>1, <2>2 DEF Sel!WriteOwnerTuple, SellerInv, SellerTypeInv, SlugsUnique, ShopsTell, LogTells
  <2>3. CASE UNCHANGED sellerVars
    BY <1>1, <2>3 DEF sellerVars, SellerInv, SellerTypeInv, SlugsUnique, ShopsTell, LogTells
  <2>4. ASSUME NEW o \in Owners, NEW p \in Principals, Sel!ActivateShop(p, o) \/ Sel!SuspendShop(p, o) PROVE SellerInv'
    BY <1>1, <2>4, TransitionStep DEF Sel!ActivateShop, Sel!SuspendShop
  <2>5. ASSUME NEW o \in Owners, NEW p \in Principals, Sel!AddShopStaff(o, p) \/ Sel!RemoveShopStaff(o, p) PROVE SellerInv'
    BY <2>3, <2>5 DEF Sel!AddShopStaff, Sel!RemoveShopStaff, Sel!sellerVars, sellerVars
  <2> QED
    BY <1>1, <2>1, <2>2, <2>3, <2>4, <2>5, CreateShopStep, SellerFrame DEF SellerStep
<1> QED
  BY <1>1, SellerStart, PTL DEF Spec

(* What the invariant of shops says of a shop's announcements.             *)
LEMMA ShopsAnnounced == SellerInv => Sel!SellerTypeOK /\ Sel!ShopHistory
<1> SUFFICES ASSUME SellerInv PROVE Sel!SellerTypeOK /\ Sel!ShopHistory
  OBVIOUS
<1> USE DEF SellerInv
<1>1. Sel!SellerTypeOK
  BY DEF Sel!SellerTypeOK, SellerTypeInv, SlugsUnique, ShopRow
<1>2. ASSUME NEW o \in Owners
      PROVE  LET log == shopEvents[o] IN
             /\ Len(log) = 0 <=> shop[o].status = "NONE"
             /\ \A i \in 1..Len(log) : (log[i] = "created") = (i = 1) /\ (i > 1 => log[i] # log[i - 1])
             /\ Len(log) > 1 => log[Len(log)] = (IF shop[o].status = "ACTIVE" THEN "activated" ELSE "suspended")
             /\ \A p \in Principals : p # o /\ ~HasRole(p, "shop_admin") =>
                  (Sel!GetShop(p, o) # Sel!NoShop <=> log # <<>> /\ log[Len(log)] = "activated")
  <2> DEFINE log == shopEvents[o]
  <2>1. LogTells(log, shop[o].status) /\ log \in Seq(ShopTopics) /\ Len(log) \in Nat /\ shop[o].status \in Sel!ShopStatus
    <3>1. shop[o] \in ShopRow /\ shopEvents[o] \in Seq(ShopTopics) /\ LogTells(shopEvents[o], shop[o].status)
      BY DEF ShopsTell, SellerTypeInv
    <3>2. Len(shopEvents[o]) \in Nat
      BY <3>1
    <3>3. shop[o].status \in Sel!ShopStatus
      BY <3>1 DEF ShopRow
    <3> QED
      BY <3>1, <3>2, <3>3
  <2>2. ASSUME NEW i \in 1..Len(log) PROVE (log[i] = "created") = (i = 1) /\ (i > 1 => log[i] # log[i - 1])
    <3>1. CASE i = 1
      BY <2>1, <3>1 DEF LogTells
    <3>2. CASE i \in 2..Len(log)
      BY <2>1, <3>2 DEF LogTells
    <3> QED
      BY <2>1, <3>1, <3>2
  <2>3. shop[o].status = "ACTIVE" <=> log # <<>> /\ log[Len(log)] = "activated"
    <3>1. CASE Len(log) = 0
      BY <2>1, <3>1 DEF LogTells
    <3>2. CASE Len(log) = 1
      BY <2>1, <3>2 DEF LogTells
    <3>3. CASE Len(log) > 1
      BY <2>1, <3>3 DEF LogTells
    <3>4. Len(log) = 0 \/ Len(log) = 1 \/ Len(log) > 1
      BY <2>1, ZeroOneMore
    <3> QED
      BY <3>1, <3>2, <3>3, <3>4
  <2>4. ASSUME NEW p \in Principals, p # o, ~HasRole(p, "shop_admin")
        PROVE  Sel!GetShop(p, o) # Sel!NoShop <=> shop[o].status = "ACTIVE"
    <3>1. Sel!NoShop.status = "NONE"
      BY DEF Sel!NoShop
    <3>2. ~Sel!MaySeePrivate(p, o)
      BY <2>4 DEF Sel!MaySeePrivate, Sel!HasRole, HasRole
    <3> QED
      BY <3>1, <3>2 DEF Sel!GetShop
  <2>5. Len(log) = 0 <=> shop[o].status = "NONE"
    BY <2>1 DEF LogTells
  <2>6. Len(log) > 1 => log[Len(log)] = (IF shop[o].status = "ACTIVE" THEN "activated" ELSE "suspended")
    BY <2>1 DEF LogTells
  <2> QED
    BY <2>2, <2>3, <2>4, <2>5, <2>6
<1>3. Sel!ShopHistory
  BY ONLY <1>2 DEF Sel!ShopHistory, Sel!HasRole, HasRole
<1> QED
  BY <1>1, <1>3

-----------------------------------------------------------------------------
(* The catalog, and the consumers of product_changed.                      *)

ProductStatus == {"NONE", "DRAFT", "ACTIVE", "ARCHIVED"}
ProductRow == [status : ProductStatus, shop : Owners \cup {FirstParty}, version : Nat]
ProductEvent == [slug : Listed, told : [status : ProductStatus, version : Nat]]
Edit == [op : {"none", "create", "update", "archive"}, slug : Listed \cup {""}, row : ProductRow]

CatalogTypeInv ==
    /\ product \in [Listed -> ProductRow] /\ edit \in [Editors -> Edit]
    /\ productEvents \in Seq(ProductEvent) /\ Len(productEvents) <= MaxProductEvents

(* A request works on a slug; what it will write is a product, and a row   *)
(* it has read is still there.                                             *)
EditsKnown ==
    \A e \in Editors :
        /\ edit[e].op # "none" => edit[e].slug \in Listed
        /\ edit[e].op \in {"update", "archive"} => product[edit[e].slug].status # "NONE"
        /\ edit[e].op \in {"create", "update"} => edit[e].row.status # "NONE"

(* The newest event of a slug, if it has any, tells its row.               *)
NewestTells ==
    /\ \A s \in Listed : product[s].status = "NONE" <=> \A i \in 1..Len(productEvents) : productEvents[i].slug # s
    /\ \A i \in 1..Len(productEvents) :
         (\A k \in 1..Len(productEvents) : k > i => productEvents[k].slug # productEvents[i].slug)
            => productEvents[i].told = Cat!ToProto(product[productEvents[i].slug])

(* What the index says of a product none of whose events is still to come, *)
(* and what became of the records inventory has handled.                   *)
Doc(row) == IF row.status = "ACTIVE" THEN row.version ELSE NoDoc
IndexFollows ==
    \A s \in Listed :
        (\A i \in 1..Len(productEvents) : i > searchAt => productEvents[i].slug # s) => index[s] = Doc(product[s])
StockFollows ==
    /\ stockRows \subseteq {productEvents[i].slug : i \in 1..Len(productEvents)}
    /\ \A i \in 1..stockAt : productEvents[i].slug \in stockRows \/ i \in stockParked

FollowersTypeInv ==
    /\ searchAt \in Nat /\ searchStored \in Nat /\ stockAt \in Nat
    /\ searchStored <= searchAt /\ searchAt <= Len(productEvents) /\ stockAt <= Len(productEvents)
    /\ stockTries \in 0..(StockAttempts - 1) /\ stockParked \subseteq 1..Len(productEvents)
    /\ DOMAIN index = Listed /\ index = [s \in Listed |-> index[s]]

CatalogInv == CatalogTypeInv /\ EditsKnown /\ NewestTells /\ FollowersTypeInv /\ IndexFollows /\ StockFollows

(* Only catalog touches products, only its consumers what they keep.       *)
LEMMA CatalogFrame ==
    [Next]_vars => \/ CatalogStep \/ IndexStep \/ StockStep \/ SearchStep \/ UNCHANGED <<catalogVars, searchVars>>
BY DEF Next, vars, shopVars, FgaStep, SellerStep, SharingStep, MediaStep, CartStep, CartExpires, PageStep, ListStep, EdgeStep,
       AnalyticsStep, AnalyticsKeep

(* The numbers of the inventory consumer, as arithmetic wants them.        *)
LEMMA StockNumbers ==
    ASSUME CatalogInv
    PROVE  /\ stockAt \in Nat /\ Len(productEvents) \in Nat /\ stockAt <= Len(productEvents)
           /\ StockAttempts \in Nat /\ StockAttempts >= 1
           /\ stockTries \in Nat /\ stockTries < StockAttempts /\ stockParked \subseteq 1..Len(productEvents)
           /\ \A n \in Nat : n < StockAttempts => n \in 0..(StockAttempts - 1)
<1>1. StockAttempts \in Nat /\ StockAttempts >= 1
  <2>1. StockAttempts \in Nat \ {0}
    BY StorefrontNames
  <2> QED
    BY <2>1
<1>2. Len(productEvents) \in Nat
  BY DEF CatalogInv, CatalogTypeInv
<1>3. stockAt \in Nat /\ stockAt <= Len(productEvents) /\ stockTries \in 0..(StockAttempts - 1) /\ stockParked \subseteq 1..Len(productEvents)
  BY DEF CatalogInv, FollowersTypeInv
<1> QED
  BY <1>1, <1>2, <1>3

(* The catalog starts out empty.                                           *)
LEMMA CatalogStart == Init => CatalogInv
<1> SUFFICES ASSUME Init PROVE CatalogInv
  OBVIOUS
<1>1. Cat!CatalogInit /\ Sea!SearchInit
  BY DEF Init
<1>2. Cat!NoProduct \in ProductRow /\ Cat!NoProduct.status = "NONE" /\ Cat!NoEdit \in Edit /\ Cat!NoEdit.op = "none"
  BY DEF Cat!NoProduct, Cat!NoEdit, ProductRow, ProductStatus, Edit
<1>3. productEvents = <<>> /\ Len(productEvents) = 0
  BY <1>1 DEF Cat!CatalogInit
<1>4. CatalogTypeInv
  BY <1>1, <1>2, <1>3, StorefrontBounds DEF Cat!CatalogInit, CatalogTypeInv
<1>5. EditsKnown
  BY <1>1, <1>2 DEF Cat!CatalogInit, EditsKnown
<1>6. NewestTells
  BY <1>1, <1>2, <1>3 DEF Cat!CatalogInit, NewestTells
<1>7. 0 \in 0..(StockAttempts - 1)
  <2>1. StockAttempts \in Nat \ {0}
    BY StorefrontNames
  <2> QED
    BY <2>1
<1>8. /\ searchAt = 0 /\ searchStored = 0 /\ index = [s \in Listed |-> NoDoc]
      /\ stockAt = 0 /\ stockTries = 0 /\ stockParked = {} /\ stockRows = {}
  BY <1>1 DEF Sea!SearchInit
<1>9. FollowersTypeInv
  BY <1>3, <1>7, <1>8 DEF FollowersTypeInv
<1>10. IndexFollows /\ StockFollows
  BY <1>1, <1>2, <1>3, <1>8 DEF Cat!CatalogInit, IndexFollows, StockFollows, Doc
<1> QED
  BY <1>4, <1>5, <1>6, <1>9, <1>10 DEF CatalogInv

(* A row and its event, written together.                                  *)
LEMMA ProductWritten ==
    ASSUME CatalogInv, NEW s \in Listed, NEW row \in ProductRow, row.status # "NONE",
           Len(productEvents) < MaxProductEvents,
           product' = [product EXCEPT ![s] = row],
           productEvents' = Append(productEvents, [slug |-> s, told |-> Cat!ToProto(row)]),
           UNCHANGED searchVars
    PROVE  /\ product' \in [Listed -> ProductRow] /\ productEvents' \in Seq(ProductEvent)
           /\ Len(productEvents') <= MaxProductEvents
           /\ \A q \in Listed : product[q].status # "NONE" => product'[q].status # "NONE"
           /\ NewestTells' /\ FollowersTypeInv' /\ IndexFollows' /\ StockFollows'
<1> DEFINE n == Len(productEvents)
<1>1. productEvents \in Seq(ProductEvent) /\ n \in Nat /\ [slug |-> s, told |-> Cat!ToProto(row)] \in ProductEvent /\ product \in [Listed -> ProductRow]
  BY DEF CatalogInv, CatalogTypeInv, ProductEvent, ProductRow, Cat!ToProto
<1>2. /\ productEvents' \in Seq(ProductEvent) /\ Len(productEvents') = n + 1
      /\ \A i \in 1..n : productEvents'[i] = productEvents[i]
      /\ productEvents'[n + 1].slug = s /\ productEvents'[n + 1].told = Cat!ToProto(row)
  BY <1>1
<1>3. product'[s] = row /\ \A q \in Listed \ {s} : product'[q] = product[q]
  BY <1>1
<1>4. \A i \in 1..n : productEvents[i] \in ProductEvent /\ productEvents[i].slug \in Listed
  <2>1. \A i \in 1..n : productEvents[i] \in ProductEvent
    BY <1>1
  <2> QED
    BY <2>1 DEF ProductEvent
<1> HIDE DEF n
<1>5. ASSUME NEW q \in Listed
      PROVE  product'[q].status = "NONE" <=> \A i \in 1..(n + 1) : productEvents'[i].slug # q
  <2>1. CASE q = s
    BY <1>1, <1>2, <1>3, <2>1
  <2>2. CASE q # s
    <3>1. product[q].status = "NONE" <=> \A i \in 1..n : productEvents[i].slug # q
      BY DEF CatalogInv, NewestTells, n
    <3>2. (\A i \in 1..n : productEvents[i].slug # q) <=> \A i \in 1..(n + 1) : productEvents'[i].slug # q
      BY <1>1, <1>2, <2>2
    <3> QED
      BY <1>3, <2>2, <3>1, <3>2
  <2> QED
    BY <2>1, <2>2
<1>6. ASSUME NEW i \in 1..(n + 1), \A k \in 1..(n + 1) : k > i => productEvents'[k].slug # productEvents'[i].slug
      PROVE  productEvents'[i].told = Cat!ToProto(product'[productEvents'[i].slug])
  <2>1. CASE i = n + 1
    BY <1>2, <1>3, <2>1
  <2>2. CASE i \in 1..n
    <3>1. n + 1 \in 1..(n + 1) /\ n + 1 > i
      BY <1>1, <2>2
    <3>2. productEvents[i].slug # s /\ productEvents[i].slug \in Listed
      BY <1>2, <1>4, <1>6, <2>2, <3>1
    <3>3. \A k \in 1..n : k > i => productEvents[k].slug # productEvents[i].slug
      BY <1>1, <1>2, <1>6, <2>2
    <3>4. productEvents[i].told = Cat!ToProto(product[productEvents[i].slug])
      BY <2>2, <3>3 DEF CatalogInv, NewestTells, n
    <3> QED
      BY <1>2, <1>3, <2>2, <3>2, <3>4
  <2>3. i = n + 1 \/ i \in 1..n
    BY <1>1
  <2> QED
    BY <2>1, <2>2, <2>3
<1>7. NewestTells'
  BY <1>2, <1>5, <1>6 DEF NewestTells
<1>8. FollowersTypeInv'
  <2>1. 1..n \subseteq 1..(n + 1)
    BY <1>1
  <2> QED
    BY <1>1, <1>2, <2>1 DEF CatalogInv, FollowersTypeInv, searchVars, n
<1>9. IndexFollows'
  <2> SUFFICES ASSUME NEW q \in Listed, \A i \in 1..(n + 1) : i > searchAt => productEvents'[i].slug # q
               PROVE  index[q] = Doc(product'[q])
    BY <1>2 DEF IndexFollows, Doc, searchVars
  <2>1. searchAt \in Nat /\ searchAt <= n
    BY DEF CatalogInv, FollowersTypeInv, n
  <2>2. q # s
    BY <1>1, <1>2, <2>1
  <2>3. \A i \in 1..n : i > searchAt => productEvents[i].slug # q
    BY <1>1, <1>2
  <2> QED
    BY <1>3, <2>2, <2>3 DEF CatalogInv, IndexFollows, n
<1>10. StockFollows'
  <2>1. stockAt \in Nat /\ stockAt <= n
    BY DEF CatalogInv, FollowersTypeInv, n
  <2>2. \A i \in 1..stockAt : productEvents'[i] = productEvents[i]
    BY <1>1, <1>2, <2>1
  <2>3. stockRows \subseteq {productEvents'[i].slug : i \in 1..(n + 1)}
    <3>1. stockRows \subseteq {productEvents[i].slug : i \in 1..n}
      BY DEF CatalogInv, StockFollows, n
    <3>2. \A i \in 1..n : i \in 1..(n + 1) /\ productEvents'[i].slug = productEvents[i].slug
      BY <1>1, <1>2
    <3> QED
      BY <3>1, <3>2
  <2> QED
    BY <1>2, <2>2, <2>3 DEF CatalogInv, StockFollows, searchVars
<1>11. product' \in [Listed -> ProductRow] /\ \A q \in Listed : product[q].status # "NONE" => product'[q].status # "NONE"
  BY <1>1, <1>3
<1>12. Len(productEvents') <= MaxProductEvents
  BY <1>1, <1>2, StorefrontBounds DEF n
<1> QED
  BY <1>2, <1>7, <1>8, <1>9, <1>10, <1>11, <1>12

(* The transaction of a request.                                           *)
LEMMA WriteTxStep ==
    ASSUME CatalogInv, NEW e \in Editors, Cat!WriteTx(e), UNCHANGED searchVars
    PROVE  CatalogInv'
<1> DEFINE req == edit[e]  s == req.slug  row == Cat!Written(req, product[s])
<1>1. /\ req.op # "none" /\ Len(productEvents) < MaxProductEvents
      /\ edit' = [edit EXCEPT ![e] = Cat!NoEdit]
      /\ \/ UNCHANGED <<product, productEvents>>
         \/ /\ req.op # "create" \/ product[s].status = "NONE"
            /\ product' = [product EXCEPT ![s] = row]
            /\ productEvents' = Append(productEvents, [slug |-> s, told |-> Cat!ToProto(row)])
  BY DEF Cat!WriteTx
<1>2. s \in Listed /\ req \in Edit /\ product[s] \in ProductRow /\ edit \in [Editors -> Edit]
  BY <1>1 DEF CatalogInv, CatalogTypeInv, EditsKnown
<1>3. Cat!NoEdit \in Edit /\ Cat!NoEdit.op = "none"
  BY DEF Cat!NoEdit, Cat!NoProduct, ProductRow, ProductStatus, Edit
<1>4. row \in ProductRow /\ row.status # "NONE"
  <2>1. req.row \in ProductRow /\ req.op \in {"create", "update", "archive"}
    BY <1>1, <1>2 DEF Edit
  <2>2. CASE req.op = "archive"
    BY <1>2, <2>2 DEF Cat!Written, ProductRow, ProductStatus
  <2>3. CASE req.op = "create"
    <3>1. row = [req.row EXCEPT !.shop = req.row.shop]
      BY <2>3 DEF Cat!Written
    <3>2. req.row.status # "NONE"
      BY <2>3 DEF CatalogInv, EditsKnown
    <3> QED
      BY <2>1, <3>1, <3>2 DEF ProductRow
  <2>4. CASE req.op = "update"
    <3>1. row = [req.row EXCEPT !.shop = product[s].shop]
      BY <2>4 DEF Cat!Written
    <3>2. req.row.status # "NONE"
      BY <2>4 DEF CatalogInv, EditsKnown
    <3> QED
      BY <1>2, <2>1, <3>1, <3>2 DEF ProductRow
  <2> QED
    BY <2>1, <2>2, <2>3, <2>4
<1> HIDE DEF s, row
<1>5. edit' \in [Editors -> Edit] /\ \A f \in Editors : edit'[f].op # "none" => edit'[f] = edit[f]
  BY <1>1, <1>2, <1>3
<1>6. CASE UNCHANGED <<product, productEvents>>
  <2>1. CatalogTypeInv' /\ EditsKnown'
    BY <1>5, <1>6 DEF CatalogInv, CatalogTypeInv, EditsKnown
  <2>2. NewestTells' /\ FollowersTypeInv' /\ IndexFollows' /\ StockFollows'
    BY <1>6 DEF CatalogInv, NewestTells, FollowersTypeInv, IndexFollows, StockFollows, Doc, searchVars
  <2> QED
    BY <2>1, <2>2 DEF CatalogInv
<1>7. CASE /\ product' = [product EXCEPT ![s] = row]
           /\ productEvents' = Append(productEvents, [slug |-> s, told |-> Cat!ToProto(row)])
  <2>1. /\ product' \in [Listed -> ProductRow] /\ productEvents' \in Seq(ProductEvent)
        /\ Len(productEvents') <= MaxProductEvents
        /\ \A q \in Listed : product[q].status # "NONE" => product'[q].status # "NONE"
        /\ NewestTells' /\ FollowersTypeInv' /\ IndexFollows' /\ StockFollows'
    BY <1>1, <1>2, <1>4, <1>7, ProductWritten
  <2>2. EditsKnown'
    BY <1>5, <2>1 DEF CatalogInv, EditsKnown
  <2> QED
    BY <1>5, <2>1, <2>2 DEF CatalogInv, CatalogTypeInv
<1> QED
  BY <1>1, <1>6, <1>7

(* A request that has read what it will write.                             *)
LEMMA EditStep ==
    ASSUME CatalogInv, NEW e \in Editors, NEW r \in Edit, edit' = [edit EXCEPT ![e] = r], r.slug \in Listed,
           r.op \in {"update", "archive"} => product[r.slug].status # "NONE",
           r.op \in {"create", "update"} => r.row.status # "NONE",
           UNCHANGED <<product, productEvents, searchVars>>
    PROVE  CatalogInv'
<1>1. edit' \in [Editors -> Edit] /\ edit'[e] = r /\ \A f \in Editors \ {e} : edit'[f] = edit[f]
  BY DEF CatalogInv, CatalogTypeInv
<1>2. CatalogTypeInv' /\ EditsKnown'
  BY <1>1 DEF CatalogInv, CatalogTypeInv, EditsKnown
<1>3. NewestTells' /\ FollowersTypeInv' /\ IndexFollows' /\ StockFollows'
  BY DEF CatalogInv, NewestTells, FollowersTypeInv, IndexFollows, StockFollows, Doc, searchVars
<1> QED
  BY <1>2, <1>3 DEF CatalogInv

(* A record is applied to the index, whether the call is then answered or  *)
(* not.                                                                    *)
LEMMA IndexApplied ==
    ASSUME CatalogInv, searchAt < Len(productEvents), index' = Sea!UpsertFromEvent(productEvents[searchAt + 1]),
           searchAt' \in {searchAt, searchAt + 1}, UNCHANGED <<searchStored, Sea!stockVars, catalogVars>>
    PROVE  CatalogInv'
<1> DEFINE n == Len(productEvents)  j == searchAt + 1  evt == productEvents[j]
<1>1. searchAt \in Nat /\ searchStored \in Nat /\ searchStored <= searchAt /\ productEvents \in Seq(ProductEvent) /\ n \in Nat
      /\ DOMAIN index = Listed
  BY DEF CatalogInv, FollowersTypeInv, CatalogTypeInv
<1>2. j \in 1..n /\ evt \in ProductEvent /\ evt.slug \in Listed
  <2>1. j \in 1..n
    BY <1>1
  <2>2. evt \in ProductEvent
    BY <1>1, <2>1
  <2> QED
    BY <2>1, <2>2 DEF ProductEvent
<1>3. index' = [index EXCEPT ![evt.slug] = IF evt.told.status = "ACTIVE" THEN evt.told.version ELSE NoDoc]
  BY DEF Sea!UpsertFromEvent
<1>4. UNCHANGED <<product, productEvents, edit, stockAt, stockTries, stockParked, stockRows>>
  BY DEF catalogVars, Sea!stockVars
<1>5. CatalogTypeInv' /\ EditsKnown' /\ NewestTells' /\ StockFollows'
  BY <1>4 DEF CatalogInv, CatalogTypeInv, EditsKnown, NewestTells, StockFollows
<1>6. FollowersTypeInv'
  <2>1. DOMAIN index' = Listed /\ index' = [s \in Listed |-> index'[s]]
    BY <1>1, <1>3 DEF CatalogInv, FollowersTypeInv
  <2> QED
    BY <1>1, <1>4, <2>1 DEF CatalogInv, FollowersTypeInv
<1>7. IndexFollows'
  <2> SUFFICES ASSUME NEW q \in Listed, \A i \in 1..n : i > searchAt' => productEvents[i].slug # q
               PROVE  index'[q] = Doc(product[q])
    BY <1>4 DEF IndexFollows, Doc
  <2>1. CASE q # evt.slug
    <3>1. \A i \in 1..n : i > searchAt => productEvents[i].slug # q
      BY <1>1, <2>1
    <3>2. index[q] = Doc(product[q])
      BY <3>1 DEF CatalogInv, IndexFollows
    <3> QED
      BY <1>1, <1>3, <2>1, <3>2
  <2>2. CASE q = evt.slug
    <3>1. searchAt' = j
      BY <1>1, <1>2, <2>2
    <3>2. \A k \in 1..n : k > j => productEvents[k].slug # productEvents[j].slug
      BY <2>2, <3>1
    <3>3. evt.told.status = product[evt.slug].status /\ evt.told.version = product[evt.slug].version
      <4>1. evt.told = Cat!ToProto(product[evt.slug])
        BY <1>2, <3>2 DEF CatalogInv, NewestTells
      <4> QED
        BY <4>1 DEF Cat!ToProto
    <3> QED
      BY <1>1, <1>2, <1>3, <2>2, <3>3 DEF Doc
  <2> QED
    BY <2>1, <2>2
<1> QED
  BY <1>5, <1>6, <1>7 DEF CatalogInv

(* The inventory consumer moves on, or back, and nothing else does.        *)
LEMMA StockMoved ==
    ASSUME CatalogInv, UNCHANGED <<searchAt, searchStored, index, catalogVars>>, StockFollows',
           stockAt' \in Nat, stockAt' <= Len(productEvents), stockTries' \in 0..(StockAttempts - 1),
           stockParked' \subseteq 1..Len(productEvents)
    PROVE  CatalogInv'
<1>1. UNCHANGED <<product, productEvents, edit>>
  BY DEF catalogVars
<1>2. CatalogTypeInv' /\ EditsKnown' /\ NewestTells' /\ IndexFollows'
  BY <1>1 DEF CatalogInv, CatalogTypeInv, EditsKnown, NewestTells, IndexFollows, Doc
<1>3. FollowersTypeInv'
  BY <1>1 DEF CatalogInv, FollowersTypeInv
<1> QED
  BY <1>2, <1>3 DEF CatalogInv

(* The invariant of the catalog and its followers.                         *)
LEMMA CatalogInvariant == Spec => []CatalogInv
<1>1. ASSUME CatalogInv, [Next]_vars PROVE CatalogInv'
  <2> USE DEF CatalogInv
  <2>1. CASE CatalogStep
    <3>0. UNCHANGED searchVars
      BY <2>1 DEF CatalogStep
    <3>1. ASSUME NEW e \in Editors, NEW p \in Principals, NEW s \in Listed, NEW o \in {FirstParty} \cup Owners, Cat!CreateProduct(e, p, s, o)
          PROVE CatalogInv'
      <4> DEFINE r == [op |-> "create", slug |-> s, row |-> Cat!NewProduct(o)]
      <4>1. r \in Edit /\ r.row.status # "NONE" /\ r.op = "create" /\ r.slug = s
        BY DEF Edit, Cat!NewProduct, ProductRow, ProductStatus
      <4>2. edit' = [edit EXCEPT ![e] = r] /\ UNCHANGED <<product, productEvents>>
        BY <3>1 DEF Cat!CreateProduct
      <4> HIDE DEF r
      <4> QED
        BY <1>1, <3>0, <4>1, <4>2, EditStep
    <3>2. ASSUME NEW e \in Editors, NEW p \in Principals, NEW s \in Listed, NEW to, Cat!UpdateProduct(e, p, s, to)
          PROVE CatalogInv'
      <4> DEFINE r == [op |-> "update", slug |-> s, row |-> Cat!ApplyUpdate(product[s], to)]
      <4>1. product[s] \in ProductRow /\ to \in {"DRAFT", "ACTIVE"} /\ product[s].status # "NONE"
        BY <1>1, <3>2 DEF Cat!UpdateProduct, CatalogTypeInv
      <4>2. Cat!ApplyUpdate(product[s], to) \in ProductRow /\ Cat!ApplyUpdate(product[s], to).status = to
        <5>1. product[s].version + 1 \in Nat /\ to \in ProductStatus
          BY <4>1 DEF ProductRow, ProductStatus
        <5>2. Cat!ApplyUpdate(product[s], to) = [product[s] EXCEPT !.status = to, !.version = product[s].version + 1]
          BY DEF Cat!ApplyUpdate
        <5> QED
          BY <4>1, <5>1, <5>2 DEF ProductRow
      <4>3. r \in Edit /\ r.row.status # "NONE" /\ r.op = "update" /\ r.slug = s
        BY <4>1, <4>2 DEF Edit
      <4>4. edit' = [edit EXCEPT ![e] = r] /\ UNCHANGED <<product, productEvents>>
        BY <3>2 DEF Cat!UpdateProduct
      <4> HIDE DEF r
      <4> QED
        BY <1>1, <3>0, <4>1, <4>3, <4>4, EditStep
    <3>3. ASSUME NEW e \in Editors, NEW p \in Principals, NEW s \in Listed, Cat!ArchiveProduct(e, p, s)
          PROVE CatalogInv'
      <4> DEFINE r == [op |-> "archive", slug |-> s, row |-> product[s]]
      <4>1. product[s] \in ProductRow /\ product[s].status # "NONE"
        BY <1>1, <3>3 DEF Cat!ArchiveProduct, CatalogTypeInv
      <4>2. r \in Edit /\ r.op = "archive" /\ r.slug = s
        BY <4>1 DEF Edit
      <4>3. edit' = [edit EXCEPT ![e] = r] /\ UNCHANGED <<product, productEvents>>
        BY <3>3 DEF Cat!ArchiveProduct
      <4> HIDE DEF r
      <4> QED
        BY <1>1, <3>0, <4>1, <4>2, <4>3, EditStep
    <3>4. ASSUME NEW e \in Editors, Cat!WriteTx(e) PROVE CatalogInv'
      BY <1>1, <3>0, <3>4, WriteTxStep
    <3> QED
      BY <2>1, <3>1, <3>2, <3>3, <3>4 DEF CatalogStep
  <2>2. CASE IndexStep
    BY <1>1, <2>2, IndexApplied DEF IndexStep, Sea!IndexNext
  <2>3. CASE StockStep
    <3>1. /\ stockAt < Len(productEvents) /\ stockRows' = stockRows \cup {productEvents[stockAt + 1].slug}
          /\ stockAt' = stockAt + 1 /\ stockTries' = 0 /\ stockParked' = stockParked
          /\ UNCHANGED <<searchAt, searchStored, index, catalogVars>>
      BY <2>3 DEF StockStep, Sea!EnsureStockRow
    <3>2. stockAt + 1 \in 1..Len(productEvents) /\ stockAt' \in Nat /\ stockTries' \in 0..(StockAttempts - 1)
      BY <1>1, <3>1, StockNumbers
    <3>3. \A i \in 1..stockAt' : i \in 1..stockAt \/ i = stockAt + 1
      BY <1>1, <3>1 DEF FollowersTypeInv
    <3>4. StockFollows'
      BY <1>1, <3>1, <3>2, <3>3 DEF StockFollows, catalogVars
    <3>5. stockAt' <= Len(productEvents)
      BY <3>1, <3>2
    <3>6. stockParked' \subseteq 1..Len(productEvents)
      BY <1>1, <3>1 DEF FollowersTypeInv
    <3>7. UNCHANGED <<searchAt, searchStored, index, catalogVars>>
      BY <3>1
    <3> QED
      BY <1>1, <3>2, <3>4, <3>5, <3>6, <3>7, StockMoved
  <2>4. CASE SearchStep
    <3>0. UNCHANGED catalogVars
      BY <2>4 DEF SearchStep
    <3>1. CASE Sea!IndexFails
      BY <1>1, <3>0, <3>1, IndexApplied DEF Sea!IndexFails
    <3>2. CASE Sea!SearchCommit \/ Sea!SearchRestart
      <4>0. UNCHANGED <<stockAt, stockTries, stockParked, stockRows>>
        BY <3>2 DEF Sea!SearchCommit, Sea!SearchRestart, Sea!stockVars
      <4>1. /\ searchStored' \in {searchStored, searchAt} /\ searchAt' \in {searchStored, searchAt} /\ searchStored' <= searchAt' /\ searchAt' <= searchAt
            /\ UNCHANGED index /\ searchAt' \in Nat /\ searchStored' \in Nat
        BY <1>1, <3>2 DEF Sea!SearchCommit, Sea!SearchRestart, FollowersTypeInv
      <4>2. FollowersTypeInv'
        BY <1>1, <3>0, <4>0, <4>1 DEF FollowersTypeInv, CatalogTypeInv, catalogVars
      <4>3. CatalogTypeInv' /\ EditsKnown' /\ NewestTells' /\ StockFollows'
        BY <1>1, <3>0, <4>0 DEF catalogVars, CatalogTypeInv, EditsKnown, NewestTells, StockFollows
      <4>4. IndexFollows'
        <5> SUFFICES ASSUME NEW q \in Listed, \A i \in 1..Len(productEvents) : i > searchAt' => productEvents[i].slug # q
                     PROVE  index[q] = Doc(product[q])
          BY <3>0, <4>1 DEF IndexFollows, Doc, catalogVars
        <5>1. \A i \in 1..Len(productEvents) : i > searchAt => productEvents[i].slug # q
          BY <1>1, <4>1 DEF FollowersTypeInv
        <5> QED
          BY <1>1, <5>1 DEF IndexFollows
      <4> QED
        BY <4>2, <4>3, <4>4
    <3>3. CASE Sea!EnsureStockRowFails
      <4>1. /\ stockAt < Len(productEvents) /\ UNCHANGED <<stockRows, searchAt, searchStored, index>>
            /\ \/ stockTries' = stockTries + 1 /\ stockTries + 1 < StockAttempts /\ stockAt' = stockAt /\ stockParked' = stockParked
               \/ stockTries' = 0 /\ stockAt' = stockAt + 1 /\ stockParked' = stockParked \cup {stockAt + 1}
        BY <3>3 DEF Sea!EnsureStockRowFails
      <4>2. /\ stockAt' \in Nat /\ stockAt' <= Len(productEvents) /\ stockTries' \in 0..(StockAttempts - 1)
            /\ stockParked' \subseteq 1..Len(productEvents)
        BY <1>1, <4>1, StockNumbers
      <4>3. \A i \in 1..stockAt' : i \in 1..stockAt \/ i \in stockParked'
        BY <1>1, <4>1 DEF FollowersTypeInv
      <4>4. StockFollows'
        BY <1>1, <3>0, <4>1, <4>3 DEF StockFollows, catalogVars
      <4> QED
        BY <1>1, <3>0, <4>1, <4>2, <4>4, StockMoved
    <3>4. CASE Sea!StockRestart
      <4>1. stockAt' \in 0..stockAt /\ stockTries' = 0 /\ UNCHANGED <<stockParked, stockRows, searchAt, searchStored, index>>
        BY <3>4 DEF Sea!StockRestart
      <4>2. stockAt' \in Nat /\ stockAt' <= Len(productEvents) /\ stockTries' \in 0..(StockAttempts - 1)
        BY <1>1, <4>1, StockNumbers
      <4>3. \A i \in 1..stockAt' : i \in 1..stockAt
        BY <1>1, <4>1 DEF FollowersTypeInv
      <4>4. StockFollows'
        BY <1>1, <3>0, <4>1, <4>3 DEF StockFollows, catalogVars
      <4>5. stockParked' \subseteq 1..Len(productEvents)
        BY <1>1, <4>1 DEF FollowersTypeInv
      <4> QED
        BY <1>1, <3>0, <4>1, <4>2, <4>4, <4>5, StockMoved
    <3> QED
      BY <2>4, <3>1, <3>2, <3>3, <3>4 DEF SearchStep
  <2>5. CASE UNCHANGED <<catalogVars, searchVars>>
    BY <1>1, <2>5 DEF catalogVars, searchVars, CatalogTypeInv, EditsKnown, NewestTells, FollowersTypeInv, IndexFollows,
       StockFollows, Doc
  <2> QED
    BY <1>1, <2>1, <2>2, <2>3, <2>4, <2>5, CatalogFrame
<1> QED
  BY <1>1, CatalogStart, PTL DEF Spec

(* What the invariant of the catalog says of its events and its readers.   *)
LEMMA ProductsAnnounced ==
    ASSUME CatalogInv
    PROVE  /\ Cat!CatalogTypeOK /\ Sea!SearchTypeOK /\ Cat!EventsTellRow
           /\ searchAt = Len(productEvents) =>
                /\ \A s \in Listed : s \in Sea!Hits <=> s \in Cat!ListProducts(product[s].shop)
                /\ \A s \in Sea!Hits, p \in Principals : Cat!GetProduct(p, s) = product[s] /\ product[s].version = index[s]
           /\ \A s \in stockRows : product[s].status # "NONE"
           /\ stockAt = Len(productEvents) =>
                \A s \in Listed : \/ product[s].status = "NONE" \/ s \in stockRows
                                  \/ \A i \in 1..Len(productEvents) : productEvents[i].slug = s => i \in stockParked
<1> USE DEF CatalogInv
<1>1. /\ product \in [Listed -> ProductRow] /\ edit \in [Editors -> Edit] /\ productEvents \in Seq(ProductEvent)
      /\ Len(productEvents) \in Nat /\ \A i \in 1..Len(productEvents) : productEvents[i].slug \in Listed
  <2>1. /\ product \in [Listed -> ProductRow] /\ edit \in [Editors -> Edit] /\ productEvents \in Seq(ProductEvent)
    BY DEF CatalogTypeInv
  <2>2. Len(productEvents) \in Nat /\ \A i \in 1..Len(productEvents) : productEvents[i] \in ProductEvent
    BY <2>1
  <2> QED
    BY <2>1, <2>2 DEF ProductEvent
<1>2. Cat!CatalogTypeOK
  BY <1>1 DEF Cat!CatalogTypeOK, CatalogTypeInv, ProductRow, ProductStatus, Edit
<1>3. Sea!SearchTypeOK
  <2>1. searchStored \in 0..searchAt /\ searchAt \in 0..Len(productEvents) /\ stockAt \in 0..Len(productEvents)
    BY <1>1 DEF FollowersTypeInv
  <2>2. stockRows \subseteq Listed
    BY <1>1 DEF StockFollows
  <2> QED
    BY <2>1, <2>2 DEF FollowersTypeInv, Sea!SearchTypeOK
<1>4. Cat!EventsTellRow
  <2> SUFFICES ASSUME NEW s \in Listed
               PROVE  LET told == {i \in 1..Len(productEvents) : productEvents[i].slug = s} IN
                      /\ told = {} <=> product[s].status = "NONE"
                      /\ told # {} => productEvents[CHOOSE i \in told : \A k \in told : k <= i].told = Cat!ToProto(product[s])
    BY DEF Cat!EventsTellRow
  <2> DEFINE told == {i \in 1..Len(productEvents) : productEvents[i].slug = s}
             last == CHOOSE i \in told : \A k \in told : k <= i
  <2>1. told = {} <=> product[s].status = "NONE"
    BY DEF NewestTells
  <2>2. ASSUME told # {} PROVE productEvents[last].told = Cat!ToProto(product[s])
    <3>1. told \in SUBSET (0..Len(productEvents))
      BY <1>1
    <3>2. \E x \in told : \A y \in told : y <= x
      <4> HIDE DEF told
      <4> QED
        BY <1>1, <2>2, <3>1, LargestOf
    <3>3. last \in told /\ \A y \in told : y <= last
      <4> HIDE DEF told
      <4> QED
        BY <3>2
    <3> HIDE DEF last
    <3>4. last \in 1..Len(productEvents) /\ productEvents[last].slug = s
      BY <3>3
    <3>5. \A k \in 1..Len(productEvents) : k > last => productEvents[k].slug # productEvents[last].slug
      BY <1>1, <3>3, <3>4
    <3> QED
      BY <3>4, <3>5 DEF NewestTells
  <2> QED
    BY <2>1, <2>2
<1>5. ASSUME searchAt = Len(productEvents)
      PROVE  /\ \A s \in Listed : s \in Sea!Hits <=> s \in Cat!ListProducts(product[s].shop)
             /\ \A s \in Sea!Hits, p \in Principals : Cat!GetProduct(p, s) = product[s] /\ product[s].version = index[s]
  <2>1. ASSUME NEW s \in Listed PROVE index[s] = Doc(product[s]) /\ product[s].version # NoDoc
    <3>1. \A i \in 1..Len(productEvents) : i > searchAt => productEvents[i].slug # s
      BY <1>1, <1>5
    <3>2. product[s].version \in Nat /\ NoDoc \notin Nat
      BY <1>1, StorefrontNames DEF ProductRow
    <3> QED
      BY <3>1, <3>2 DEF IndexFollows
  <2>2. \A s \in Listed : s \in Sea!Hits <=> product[s].status = "ACTIVE"
    BY <2>1 DEF Sea!Hits, Doc
  <2>3. Sea!Hits \subseteq Listed
    BY DEF Sea!Hits
  <2> QED
    BY <2>1, <2>2, <2>3 DEF Cat!ListProducts, Cat!GetProduct, Doc
<1>6. ASSUME NEW s \in stockRows PROVE product[s].status # "NONE"
  <2>1. PICK i \in 1..Len(productEvents) : productEvents[i].slug = s
    BY DEF StockFollows
  <2> QED
    BY <1>1, <2>1 DEF NewestTells
<1>7. ASSUME stockAt = Len(productEvents), NEW s \in Listed, s \notin stockRows,
             NEW i \in 1..Len(productEvents), productEvents[i].slug = s
      PROVE  i \in stockParked
  BY <1>7 DEF StockFollows
<1> QED
  BY <1>2, <1>3, <1>4, <1>5, <1>6, <1>7

(* What shops, products and assets announce is what became of their rows,  *)
(* and the followers of product_changed agree with the catalog once they   *)
(* have read all of it, for any number of operators, editors and           *)
(* confirmations and through failing calls and restarts (Transition,       *)
(* writeTx, MarkReady, UpsertFromEvent, EnsureStockRow).                   *)
THEOREM AnnouncementsAreTrue == Spec => []AnnouncedTruthfully
<1>1. SellerInv /\ CatalogInv /\ MediaInv => AnnouncedTruthfully
  BY ShopsAnnounced, ProductsAnnounced DEF AnnouncedTruthfully, MediaInv
<1> QED
  BY <1>1, SellerInvariant, CatalogInvariant, MediaInvariant, PTL

-----------------------------------------------------------------------------
(* OpenFGA, and the rights kept in it.                                     *)

FgaTuples == [user : Principals, relation : {"owner", "staff", "viewer"}, object : Owners \cup SharedOrders]

FgaTypeInv ==
    /\ stores \in Nat
    /\ fgaClient \in [FgaClients -> [pc : {"down", "creating", "pinning", "up"}, store : Nat]]
    /\ \A c \in FgaClients : /\ fgaClient[c].store <= stores
                             /\ fgaClient[c].pc \in {"pinning", "up"} => fgaClient[c].store > 0
    /\ tuples \in [1..F!MaxStores -> SUBSET FgaTuples] /\ granted \subseteq asked

(* There are no more stores than clients that found none.                  *)
Creating == {c \in FgaClients : fgaClient[c].pc = "creating"}
StoresCounted == stores + Cardinality(Creating) <= Cardinality(FgaClients)

(* Nothing is in a store before it exists; while there is one store, what  *)
(* was granted is in it; and whom it names as an owner is one.             *)
StoresTell ==
    /\ \A i \in 1..F!MaxStores : i > stores => tuples[i] = {}
    /\ stores = 0 => granted = {}
    /\ stores = 1 => granted \subseteq tuples[1]
    /\ \A i \in 1..F!MaxStores : \A t \in tuples[i] : t.relation = "owner" => t.user = t.object

(* Only one service writes a relation.  What it finds of it in the store   *)
(* it has, or will have after a restart, was asked for: in a store it has  *)
(* created beside another one it has written everything itself, and        *)
(* nothing in the first one.                                               *)
Writers == {<<"seller", "staff">>, <<"order", "viewer">>}
Related(i, r) == {t \in tuples[i] : t.relation = r}
AskedFor(c, r) ==
    /\ fgaClient[c].pc = "creating" => \A i \in 1..F!MaxStores : Related(i, r) = {}
    /\ fgaClient[c].store > 0 => Related(fgaClient[c].store, r) \subseteq asked
    /\ fgaClient[c].store > 1 => Related(1, r) = {}
    /\ Related(1, r) \subseteq asked

FgaInv == FgaTypeInv /\ StoresCounted /\ StoresTell /\ \A w \in Writers : AskedFor(w[1], w[2])

(* There is at least one client, and room for its store.                   *)
LEMMA SomeStores == F!MaxStores \in Nat /\ F!MaxStores >= 1 /\ F!MaxStores = Cardinality(FgaClients)
<1>1. Cardinality(FgaClients) \in Nat /\ F!MaxStores = Cardinality(FgaClients)
  BY StorefrontConstants, StorefrontNames, FS_CardinalityType DEF F!MaxStores, F!Cardinality, Cardinality
<1>2. Cardinality(FgaClients) # 0
  BY StorefrontConstants, StorefrontNames, FS_EmptySet
<1> QED
  BY <1>1, <1>2

(* The writers hold clients.                                               *)
LEMMA WritersAreClients == \A w \in Writers : w[1] \in FgaClients
<1>1. \A w \in Writers : w[1] = "seller" \/ w[1] = "order"
  BY DEF Writers
<1>2. "seller" \in FgaClients /\ "order" \in FgaClients
  BY StorefrontConstants, StorefrontNames
<1> QED
  BY <1>1, <1>2

(* What may happen in OpenFGA: a client starts or restarts, seller writes  *)
(* owners and staff, order writes viewers.                                 *)
SellerWrites(o, p) ==
    LET owner == F!Tuple(o, "owner", o)  staff == F!Tuple(p, "staff", o) IN
    F!FgaWrite("seller", {}, owner) \/ F!FgaWrite("seller", {owner}, staff) \/ F!FgaDelete("seller", staff)
OrderWrites(o, q) ==
    LET viewer == F!Tuple(q, "viewer", o) IN F!FgaWrite("order", {}, viewer) \/ F!FgaDelete("order", viewer)

(* Tuples and stores change in the sharing steps only, by their writes.    *)
LEMMA FgaFrame ==
    [Next]_vars =>
        \/ \E c \in FgaClients : F!Bootstrap(c) \/ F!RestartClient(c)
        \/ F!Ready("seller") /\ \E o \in Owners, p \in Principals : SellerWrites(o, p)
        \/ F!Ready("order") /\ \E o \in SharedOrders, q \in Principals : OrderWrites(o, q)
        \/ UNCHANGED fgaVars
<1> SUFFICES ASSUME [Next]_vars
             PROVE  \/ \E c \in FgaClients : F!Bootstrap(c) \/ F!RestartClient(c)
                    \/ F!Ready("seller") /\ \E o \in Owners, p \in Principals : SellerWrites(o, p)
                    \/ F!Ready("order") /\ \E o \in SharedOrders, q \in Principals : OrderWrites(o, q)
                    \/ UNCHANGED fgaVars
  OBVIOUS
<1>1. CASE FgaStep
  BY <1>1 DEF FgaStep, ClientsUp
<1>2. CASE SellerStep
  <2> USE DEF Sel!fgaVars, fgaVars, SellerWrites, F!Tuple, Sel!Tuple, Sel!FgaWrite, F!FgaWrite, Sel!FgaDelete, F!FgaDelete, Sel!Ready, F!Ready
  <2>1. ASSUME NEW o \in Owners, Sel!WriteOwnerTuple(o)
        PROVE  UNCHANGED fgaVars \/ (F!Ready("seller") /\ F!FgaWrite("seller", {}, F!Tuple(o, "owner", o)))
    BY <2>1 DEF Sel!WriteOwnerTuple
  <2>2. ASSUME NEW o \in Owners, NEW p \in Principals, Sel!AddShopStaff(o, p) \/ Sel!RemoveShopStaff(o, p)
        PROVE  F!Ready("seller") /\ SellerWrites(o, p)
    BY <2>2 DEF Sel!AddShopStaff, Sel!RemoveShopStaff, Sel!CallerShop
  <2>3. ASSUME NEW o \in Owners, NEW n \in ShopNames, Sel!CreateShop(o, n) \/ Sel!UpdateShop(o, n) PROVE UNCHANGED fgaVars
    BY <2>3 DEF Sel!CreateShop, Sel!UpdateShop
  <2>4. ASSUME NEW o \in Owners, NEW p \in Principals, Sel!ActivateShop(p, o) \/ Sel!SuspendShop(p, o) PROVE UNCHANGED fgaVars
    BY <2>4 DEF Sel!ActivateShop, Sel!SuspendShop, Sel!ShopTransition
  <2>5. \A o \in Owners : o \in Principals
    BY StorefrontConstants, StorefrontNames
  <2>6. ASSUME NEW o \in Owners, Sel!WriteOwnerTuple(o)
        PROVE  UNCHANGED fgaVars \/ (F!Ready("seller") /\ \E p \in Principals : SellerWrites(o, p))
    <3> HIDE DEF F!FgaWrite, F!FgaDelete, F!Ready, F!Tuple, fgaVars
    <3> QED
      BY <2>1, <2>5, <2>6 DEF SellerWrites
  <2> HIDE DEF F!FgaWrite, F!FgaDelete, F!Ready, F!Tuple, fgaVars, SellerWrites
  <2> QED
    BY <1>2, <2>2, <2>3, <2>4, <2>6 DEF SellerStep
<1>3. CASE CatalogStep
  BY <1>3 DEF CatalogStep, Cat!CreateProduct, Cat!UpdateProduct, Cat!ArchiveProduct, Cat!WriteTx, Cat!fgaVars, fgaVars
<1>4. CASE SharingStep
  <2> USE DEF F!Tuple, Sha!Tuple, Sha!FgaWrite, F!FgaWrite, Sha!FgaDelete, F!FgaDelete, Sha!Ready, F!Ready
  <2>1. ASSUME NEW p \in Principals, NEW q \in Principals, NEW o \in SharedOrders, Sha!ShareOrder(p, o, q) \/ Sha!RevokeOrderShare(p, o, q)
        PROVE  F!Ready("order") /\ OrderWrites(o, q)
    BY <2>1 DEF Sha!ShareOrder, Sha!RevokeOrderShare, Sha!OwnedOrder, OrderWrites
  <2> HIDE DEF F!FgaWrite, F!FgaDelete, F!Ready, F!Tuple
  <2> QED
    BY <1>4, <2>1 DEF SharingStep
<1>5. CASE UNCHANGED fgaVars
  BY <1>5
<1> QED
  BY <1>1, <1>2, <1>3, <1>4, <1>5 DEF Next, vars, shopVars, IndexStep, StockStep, SearchStep, MediaStep, CartStep, CartExpires,
     PageStep, ListStep, EdgeStep, AnalyticsStep, AnalyticsKeep

(* No client has started, no store was created.                            *)
LEMMA FgaStart == Init => FgaInv
<1> SUFFICES ASSUME Init PROVE FgaInv
  OBVIOUS
<1>1. F!FgaInit
  BY DEF Init
<1>2. F!Down \in [pc : {"down", "creating", "pinning", "up"}, store : Nat] /\ F!Down.pc = "down" /\ F!Down.store = 0
  BY DEF F!Down
<1>3. FgaTypeInv
  BY <1>1, <1>2 DEF F!FgaInit, FgaTypeInv
<1>4. StoresCounted
  <2>1. Creating = {}
    BY <1>1, <1>2 DEF F!FgaInit, Creating
  <2> QED
    BY <1>1, <2>1, FS_EmptySet, SomeStores DEF F!FgaInit, StoresCounted
<1>5. StoresTell
  BY <1>1 DEF F!FgaInit, StoresTell
<1>6. ASSUME NEW w \in Writers PROVE AskedFor(w[1], w[2])
  <2>1. w[1] \in FgaClients
    BY WritersAreClients
  <2>2. fgaClient[w[1]].pc = "down" /\ fgaClient[w[1]].store = 0 /\ \A i \in 1..F!MaxStores : tuples[i] = {}
    BY <1>1, <1>2, <2>1 DEF F!FgaInit
  <2>3. \A i \in 1..F!MaxStores : Related(i, w[2]) = {}
    BY <2>2 DEF Related
  <2>4. 1 \in 1..F!MaxStores
    BY SomeStores
  <2> QED
    BY <2>2, <2>3, <2>4 DEF AskedFor
<1> QED
  BY <1>3, <1>4, <1>5, <1>6 DEF FgaInv

(* A client looks the store up, creates one, or starts again.              *)
LEMMA FgaClientStep ==
    ASSUME FgaInv, NEW c \in FgaClients, F!Bootstrap(c) \/ F!RestartClient(c)
    PROVE  FgaInv'
<1> USE DEF FgaInv
<1>0. UNCHANGED <<tuples, granted, asked>>
  BY DEF F!Bootstrap, F!FindStore, F!CreateStore, F!PinModel, F!RestartClient
<1>1. /\ stores \in Nat /\ fgaClient \in [FgaClients -> [pc : {"down", "creating", "pinning", "up"}, store : Nat]]
      /\ F!MaxStores \in Nat /\ F!MaxStores >= 1 /\ F!MaxStores = Cardinality(FgaClients) /\ IsFiniteSet(FgaClients)
  BY SomeStores, StorefrontConstants, StorefrontNames DEF FgaTypeInv
<1>2. \A d \in FgaClients \ {c} : fgaClient'[d] = fgaClient[d]
  BY <1>1 DEF F!Bootstrap, F!FindStore, F!CreateStore, F!PinModel, F!RestartClient
<1>3. IsFiniteSet(Creating) /\ Cardinality(Creating) \in Nat
  <2>1. Creating \subseteq FgaClients
    BY DEF Creating
  <2> QED
    BY <1>1, <2>1, FS_Subset, FS_CardinalityType
<1>4. \A w \in Writers : w[1] \in FgaClients
  BY WritersAreClients
<1>5. ASSUME UNCHANGED stores, fgaClient'[c] \in [pc : {"down", "pinning", "up"}, store : Nat], fgaClient[c].pc # "creating",
             fgaClient' \in [FgaClients -> [pc : {"down", "creating", "pinning", "up"}, store : Nat]],
             fgaClient'[c].store \in {0, 1, fgaClient[c].store}, fgaClient'[c].store <= stores,
             fgaClient'[c].pc \in {"pinning", "up"} => fgaClient'[c].store > 0
      PROVE  FgaInv'
  <2>1. FgaTypeInv'
    BY <1>0, <1>1, <1>2, <1>5 DEF FgaTypeInv
  <2>2. Creating' = Creating
    BY <1>2, <1>5 DEF Creating
  <2>3. StoresCounted'
    BY <1>5, <2>2 DEF StoresCounted
  <2>4. StoresTell'
    BY <1>0, <1>5 DEF StoresTell
  <2>5. ASSUME NEW w \in Writers PROVE AskedFor(w[1], w[2])'
    <3>1. w[1] \in FgaClients /\ AskedFor(w[1], w[2])
      BY <1>4
    <3>2. CASE w[1] # c
      BY <1>0, <1>2, <3>1, <3>2 DEF AskedFor, Related
    <3>3. CASE w[1] = c
      <4>1. fgaClient[c].store \in Nat
        BY <1>1
      <4> QED
        BY <1>0, <1>5, <3>1, <3>3, <4>1 DEF AskedFor, Related
    <3> QED
      BY <3>2, <3>3
  <2> QED
    BY <2>1, <2>3, <2>4, <2>5
<1>6. CASE F!FindStore(c) /\ stores > 0
  <2>1. /\ fgaClient[c].pc = "down" /\ UNCHANGED stores /\ fgaClient' = [fgaClient EXCEPT ![c] = [pc |-> "pinning", store |-> 1]]
    BY <1>6 DEF F!FindStore
  <2> QED
    BY <1>1, <1>5, <1>6, <2>1
<1>7. CASE F!FindStore(c) /\ stores = 0
  <2>1. /\ fgaClient[c].pc = "down" /\ UNCHANGED stores /\ fgaClient' = [fgaClient EXCEPT ![c] = [pc |-> "creating", store |-> 0]]
    BY <1>7 DEF F!FindStore
  <2>2. FgaTypeInv'
    BY <1>0, <1>1, <2>1 DEF FgaTypeInv
  <2>3. StoresCounted'
    <3>1. Creating' \subseteq FgaClients
      BY DEF Creating
    <3>2. Cardinality(Creating') <= Cardinality(FgaClients) /\ Cardinality(Creating') \in Nat
      BY <1>1, <3>1, FS_Subset, FS_CardinalityType
    <3>3. (Cardinality(Creating))' = Cardinality(Creating')
      OBVIOUS
    <3> QED
      BY <1>1, <1>7, <2>1, <3>2, <3>3 DEF StoresCounted
  <2>4. StoresTell'
    BY <1>0, <2>1 DEF StoresTell
  <2>5. ASSUME NEW w \in Writers PROVE AskedFor(w[1], w[2])'
    <3>1. w[1] \in FgaClients /\ AskedFor(w[1], w[2])
      BY <1>4
    <3>2. CASE w[1] # c
      BY <1>0, <1>2, <3>1, <3>2 DEF AskedFor, Related
    <3>3. CASE w[1] = c
      <4>1. \A i \in 1..F!MaxStores : tuples'[i] = {}
        BY <1>0, <1>7 DEF StoresTell
      <4>2. fgaClient'[c].store = 0
        BY <1>1, <2>1
      <4> QED
        BY <1>1, <3>3, <4>1, <4>2 DEF AskedFor, Related
    <3> QED
      BY <3>2, <3>3
  <2> QED
    BY <2>2, <2>3, <2>4, <2>5
<1>8. CASE F!CreateStore(c)
  <2>1. /\ fgaClient[c].pc = "creating" /\ stores' = stores + 1
        /\ fgaClient' = [fgaClient EXCEPT ![c] = [pc |-> "pinning", store |-> stores + 1]]
    BY <1>8 DEF F!CreateStore
  <2>2. c \in Creating /\ Creating' = Creating \ {c}
    BY <1>1, <1>2, <2>1 DEF Creating
  <2>3. Cardinality(Creating') = Cardinality(Creating) - 1 /\ Cardinality(Creating) > 0
    <3>1. Cardinality(Creating \ {c}) = Cardinality(Creating) - 1
      BY <1>3, <2>2, FS_RemoveElement
    <3>2. Cardinality(Creating) # 0
      BY <1>3, <2>2, FS_EmptySet
    <3> QED
      BY <1>3, <2>2, <3>1, <3>2
  <2>4. StoresCounted'
    BY <1>1, <1>3, <2>1, <2>3 DEF StoresCounted
  <2>5. FgaTypeInv'
    BY <1>0, <1>1, <2>1 DEF FgaTypeInv
  <2>6. StoresTell'
    <3>1. stores + 1 \in 1..F!MaxStores
      BY <1>1, <1>3, <2>1, <2>3 DEF StoresCounted
    <3>2. stores + 1 = 1 => granted = {}
      BY <1>1 DEF StoresTell
    <3> QED
      BY <1>0, <1>1, <2>1, <3>1, <3>2 DEF StoresTell
  <2>7. ASSUME NEW w \in Writers PROVE AskedFor(w[1], w[2])'
    <3>1. w[1] \in FgaClients /\ AskedFor(w[1], w[2])
      BY <1>4
    <3>2. CASE w[1] # c
      BY <1>0, <1>2, <3>1, <3>2 DEF AskedFor, Related
    <3>3. CASE w[1] = c
      <4>1. \A i \in 1..F!MaxStores : Related(i, w[2]) = {}
        BY <2>1, <3>1, <3>3 DEF AskedFor
      <4>2. fgaClient'[c].pc = "pinning" /\ fgaClient'[c].store = stores + 1 /\ stores + 1 \in 1..F!MaxStores
        BY <1>1, <1>3, <2>1, <2>3 DEF StoresCounted
      <4>3. Related(stores + 1, w[2]) = {} /\ Related(1, w[2]) = {}
        BY <1>1, <4>1, <4>2
      <4> QED
        BY <1>0, <3>3, <4>2, <4>3 DEF AskedFor, Related
    <3> QED
      BY <3>2, <3>3
  <2> QED
    BY <2>4, <2>5, <2>6, <2>7
<1>9. CASE F!PinModel(c)
  <2>1. /\ fgaClient[c].pc = "pinning" /\ UNCHANGED stores /\ fgaClient' = [fgaClient EXCEPT ![c].pc = "up"]
    BY <1>9 DEF F!PinModel
  <2>2. fgaClient[c].store \in Nat /\ fgaClient[c].store > 0 /\ fgaClient[c].store <= stores
    BY <1>1, <2>1 DEF FgaTypeInv
  <2>3. fgaClient'[c] = [pc |-> "up", store |-> fgaClient[c].store]
    BY <1>1, <2>1
  <2>4. fgaClient' \in [FgaClients -> [pc : {"down", "creating", "pinning", "up"}, store : Nat]]
    BY <1>1, <2>1
  <2> QED
    BY <1>5, <2>1, <2>2, <2>3, <2>4
<1>10. CASE F!RestartClient(c)
  <2>1. /\ fgaClient[c].pc = "up" /\ UNCHANGED stores /\ fgaClient' = [fgaClient EXCEPT ![c] = [pc |-> "down", store |-> 0]]
    BY <1>10 DEF F!RestartClient, F!Down
  <2> QED
    BY <1>1, <1>5, <2>1
<1> QED
  BY <1>1, <1>6, <1>7, <1>8, <1>9, <1>10 DEF F!Bootstrap

(* A tuple is written by the one service that writes its relation.         *)
LEMMA FgaWritten ==
    ASSUME FgaInv, NEW w \in Writers, F!Ready(w[1]), NEW t \in FgaTuples, NEW also \in SUBSET FgaTuples,
           \A x \in also \cup {t} : \/ x.relation = w[2]
                                    \/ x.relation = "owner" /\ x.user = x.object,
           F!FgaWrite(w[1], also, t)
    PROVE  FgaInv'
<1> USE DEF FgaInv
<1> DEFINE c == w[1]  r == w[2]
<1>0. PICK k : k = fgaClient[c].store
  OBVIOUS
<1>1. PICK new \in SUBSET (also \cup {t}) :
         /\ tuples' = [tuples EXCEPT ![k] = @ \cup new]
         /\ granted' \in {granted} \cup (IF t \in new THEN {granted \cup {t}} ELSE {})
  BY <1>0 DEF F!FgaWrite
<1>2. asked' = asked \cup also \cup {t} /\ UNCHANGED <<stores, fgaClient>>
  BY DEF F!FgaWrite
<1>3. /\ c \in FgaClients /\ stores \in Nat /\ k \in Nat /\ k > 0 /\ k <= stores /\ fgaClient[c].pc = "up"
      /\ tuples \in [1..F!MaxStores -> SUBSET FgaTuples] /\ F!MaxStores \in Nat /\ F!MaxStores >= 1
  <2>1. c \in FgaClients
    BY WritersAreClients
  <2> QED
    BY <1>0, <2>1, SomeStores DEF FgaTypeInv, F!Ready
<1>4. stores <= F!MaxStores /\ k \in 1..F!MaxStores
  <2>1. Cardinality(Creating) \in Nat
    <3>1. Creating \subseteq FgaClients
      BY DEF Creating
    <3> QED
      BY <3>1, StorefrontConstants, StorefrontNames, FS_Subset, FS_CardinalityType
  <2>2. stores + Cardinality(Creating) <= F!MaxStores
    BY SomeStores DEF StoresCounted
  <2> QED
    BY <1>3, <2>1, <2>2
<1>5. tuples'[k] = tuples[k] \cup new /\ \A i \in (1..F!MaxStores) \ {k} : tuples'[i] = tuples[i]
  BY <1>1, <1>3, <1>4
<1>6. new \subseteq FgaTuples /\ new \subseteq asked' /\ asked \subseteq asked'
  BY <1>1, <1>2
<1>7. granted' \subseteq asked' /\ (granted' = granted \/ (t \in new /\ granted' = granted \cup {t}))
  BY <1>1, <1>2 DEF FgaTypeInv
<1>8. FgaTypeInv'
  <2>1. tuples' \in [1..F!MaxStores -> SUBSET FgaTuples]
    BY <1>1, <1>3, <1>4, <1>5, <1>6
  <2> QED
    BY <1>2, <1>7, <2>1 DEF FgaTypeInv
<1>9. StoresCounted'
  BY <1>2 DEF StoresCounted, Creating
<1>10. StoresTell'
  <2>1. \A i \in 1..F!MaxStores : i > stores => tuples'[i] = {}
    BY <1>3, <1>5 DEF StoresTell
  <2>2. stores = 1 => granted' \subseteq tuples'[1]
    <3> SUFFICES ASSUME stores = 1 PROVE granted' \subseteq tuples'[1]
      OBVIOUS
    <3>1. k = 1
      BY <1>3
    <3> QED
      BY <1>5, <1>7, <3>1 DEF StoresTell
  <2>3. ASSUME NEW i \in 1..F!MaxStores, NEW x \in tuples'[i], x.relation = "owner" PROVE x.user = x.object
    <3>1. CASE x \in tuples[i]
      BY <2>3, <3>1 DEF StoresTell
    <3>2. CASE x \notin tuples[i]
      <4>1. x \in new
        BY <1>5, <2>3, <3>2
      <4>2. w[2] # "owner"
        BY DEF Writers
      <4> QED
        BY <1>1, <2>3, <4>1, <4>2
    <3> QED
      BY <3>1, <3>2
  <2> QED
    BY <1>2, <1>3, <2>1, <2>2, <2>3 DEF StoresTell
<1>11. ASSUME NEW v \in Writers PROVE AskedFor(v[1], v[2])'
  <2>0. PICK h : h = fgaClient[v[1]].store
    OBVIOUS
  <2>1. AskedFor(v[1], v[2]) /\ v[1] \in FgaClients /\ h \in Nat /\ h <= stores
    <3>1. v[1] \in FgaClients
      BY WritersAreClients
    <3> QED
      BY <2>0, <3>1 DEF FgaTypeInv
  <2>2. CASE v = w
    <3>1. h = k /\ fgaClient'[v[1]] = fgaClient[v[1]]
      BY <1>0, <1>2, <2>0, <2>2
    <3>2. Related(k, r)' \subseteq asked'
      <4>1. Related(k, r) \subseteq asked
        BY <1>3, <2>0, <2>1, <2>2, <3>1 DEF AskedFor
      <4> QED
        BY <1>5, <1>6, <4>1 DEF Related
    <3>3. k > 1 => Related(1, r)' = {}
      <4> SUFFICES ASSUME k > 1 PROVE Related(1, r)' = {}
        OBVIOUS
      <4>1. tuples'[1] = tuples[1]
        BY <1>3, <1>5
      <4>2. Related(1, r) = {}
        BY <2>0, <2>1, <2>2, <3>1 DEF AskedFor
      <4> QED
        BY <4>1, <4>2 DEF Related
    <3>4. Related(1, r)' \subseteq asked'
      <4>1. CASE k = 1
        BY <3>2, <4>1
      <4>2. CASE k > 1
        BY <3>3, <4>2
      <4> QED
        BY <1>3, <4>1, <4>2
    <3> QED
      BY <1>0, <1>2, <1>3, <2>0, <2>2, <3>1, <3>2, <3>3, <3>4 DEF AskedFor
  <2>3. CASE v # w
    <3>1. \A x \in new : x.relation # v[2]
      <4>1. v[2] # "owner" /\ v[2] # w[2]
        BY <2>3 DEF Writers
      <4> QED
        BY <1>1, <4>1
    <3>2. \A i \in 1..F!MaxStores : Related(i, v[2])' = Related(i, v[2])
      BY <1>5, <3>1 DEF Related
    <3>3. h > 0 => h \in 1..F!MaxStores
      BY <1>3, <1>4, <2>1
    <3>4. 1 \in 1..F!MaxStores
      BY <1>3
    <3>5. UNCHANGED fgaClient
      BY <1>2
    <3>6. h > 0 => Related(h, v[2])' \subseteq asked'
      <4>1. h > 0 => Related(h, v[2]) \subseteq asked
        BY <2>0, <2>1 DEF AskedFor
      <4> QED
        BY <1>6, <3>2, <3>3, <4>1
    <3>7. /\ h > 1 => Related(1, v[2])' = {}
          /\ Related(1, v[2])' \subseteq asked'
      BY <1>6, <2>0, <2>1, <3>2, <3>4 DEF AskedFor
    <3>8. fgaClient[v[1]].pc = "creating" => \A i \in 1..F!MaxStores : Related(i, v[2])' = {}
      BY <2>1, <3>2 DEF AskedFor
    <3> QED
      BY <2>0, <3>5, <3>6, <3>7, <3>8 DEF AskedFor
  <2> QED
    BY <2>2, <2>3
<1> QED
  BY <1>8, <1>9, <1>10, <1>11

(* A tuple is deleted by the service that writes its relation; it is       *)
(* forgotten only if it is gone.                                           *)
LEMMA FgaDeleted ==
    ASSUME FgaInv, NEW w \in Writers, F!Ready(w[1]), NEW t \in FgaTuples, t.relation = w[2], F!FgaDelete(w[1], t)
    PROVE  FgaInv'
<1> USE DEF FgaInv
<1> DEFINE c == w[1]  r == w[2]
<1>0. PICK k : k = fgaClient[c].store
  OBVIOUS
<1>1. PICK gone \in SUBSET {t} :
         /\ tuples' = [tuples EXCEPT ![k] = @ \ gone]
         /\ asked' \in {asked} \cup (IF gone = {t} THEN {asked \ {t}} ELSE {})
  BY <1>0 DEF F!FgaDelete
<1>2. granted' = granted \ {t} /\ UNCHANGED <<stores, fgaClient>>
  BY DEF F!FgaDelete
<1>3. /\ c \in FgaClients /\ stores \in Nat /\ k \in Nat /\ k > 0 /\ k <= stores /\ fgaClient[c].pc = "up"
      /\ tuples \in [1..F!MaxStores -> SUBSET FgaTuples] /\ F!MaxStores \in Nat /\ F!MaxStores >= 1
  <2>1. c \in FgaClients
    BY WritersAreClients
  <2> QED
    BY <1>0, <2>1, SomeStores DEF FgaTypeInv, F!Ready
<1>4. stores <= F!MaxStores /\ k \in 1..F!MaxStores
  <2>1. Cardinality(Creating) \in Nat
    <3>1. Creating \subseteq FgaClients
      BY DEF Creating
    <3> QED
      BY <3>1, StorefrontConstants, StorefrontNames, FS_Subset, FS_CardinalityType
  <2>2. stores + Cardinality(Creating) <= F!MaxStores
    BY SomeStores DEF StoresCounted
  <2> QED
    BY <1>3, <2>1, <2>2
<1>5. tuples'[k] = tuples[k] \ gone /\ \A i \in (1..F!MaxStores) \ {k} : tuples'[i] = tuples[i]
  BY <1>1, <1>3, <1>4
<1>6. \A i \in 1..F!MaxStores : tuples'[i] \subseteq tuples[i]
  BY <1>5
<1>7. asked \ {t} \subseteq asked' /\ (asked' = asked \/ (gone = {t} /\ asked' = asked \ {t}))
  BY <1>1
<1>8. FgaTypeInv'
  <2>1. tuples' \in [1..F!MaxStores -> SUBSET FgaTuples]
    BY <1>1, <1>3, <1>4, <1>5
  <2>2. granted' \subseteq asked'
    BY <1>2, <1>7 DEF FgaTypeInv
  <2> QED
    BY <1>2, <2>1, <2>2 DEF FgaTypeInv
<1>9. StoresCounted'
  BY <1>2 DEF StoresCounted, Creating
<1>10. StoresTell'
  <2>1. \A i \in 1..F!MaxStores : i > stores => tuples'[i] = {}
    BY <1>6 DEF StoresTell
  <2>2. stores = 1 => granted' \subseteq tuples'[1]
    <3>1. 1 \in 1..F!MaxStores /\ tuples[1] \ {t} \subseteq tuples'[1]
      BY <1>1, <1>3, <1>5
    <3> QED
      BY <1>2, <3>1 DEF StoresTell
  <2>3. \A i \in 1..F!MaxStores : \A x \in tuples'[i] : x.relation = "owner" => x.user = x.object
    BY <1>6 DEF StoresTell
  <2>4. stores = 0 => granted' = {}
    BY <1>2 DEF StoresTell
  <2> QED
    BY <1>2, <2>1, <2>2, <2>3, <2>4 DEF StoresTell
<1>11. ASSUME NEW v \in Writers PROVE AskedFor(v[1], v[2])'
  <2>0. PICK h : h = fgaClient[v[1]].store
    OBVIOUS
  <2>1. AskedFor(v[1], v[2]) /\ v[1] \in FgaClients /\ h \in Nat /\ h <= stores
    <3>1. v[1] \in FgaClients
      BY WritersAreClients
    <3> QED
      BY <2>0, <3>1 DEF FgaTypeInv
  <2>2. \A i \in 1..F!MaxStores : Related(i, v[2])' \subseteq Related(i, v[2])
    BY <1>6 DEF Related
  <2>3. 1 \in 1..F!MaxStores /\ (h > 0 => h \in 1..F!MaxStores)
    BY <1>3, <1>4, <2>1
  <2>4. fgaClient[v[1]].pc = "creating" => \A i \in 1..F!MaxStores : Related(i, v[2])' = {}
    BY <2>1, <2>2 DEF AskedFor
  <2>5. h > 1 => Related(1, v[2])' = {}
    BY <2>0, <2>1, <2>2, <2>3 DEF AskedFor
  <2>6. CASE v = w
    <3>1. h = k
      BY <1>0, <2>0, <2>6
    <3>2. Related(k, v[2])' \subseteq asked'
      <4>1. Related(k, v[2]) \subseteq asked
        BY <1>3, <2>0, <2>1, <3>1 DEF AskedFor
      <4> QED
        BY <1>5, <1>7, <4>1 DEF Related
    <3>3. Related(1, v[2])' \subseteq asked'
      <4>1. CASE k = 1
        BY <3>2, <4>1
      <4>2. CASE k > 1
        BY <2>5, <3>1, <4>2
      <4> QED
        BY <1>3, <4>1, <4>2
    <3> QED
      BY <1>2, <2>0, <2>4, <2>5, <3>1, <3>2, <3>3 DEF AskedFor
  <2>7. CASE v # w
    <3>1. v[2] # w[2]
      BY <2>7 DEF Writers
    <3>2. \A i \in 1..F!MaxStores : t \notin Related(i, v[2])'
      BY <3>1 DEF Related
    <3>3. \A i \in 1..F!MaxStores : Related(i, v[2]) \subseteq asked => Related(i, v[2])' \subseteq asked'
      BY <1>7, <2>2, <3>2
    <3>4. h > 0 => Related(h, v[2])' \subseteq asked'
      <4>1. h > 0 => Related(h, v[2]) \subseteq asked
        BY <2>0, <2>1 DEF AskedFor
      <4> QED
        BY <2>3, <3>3, <4>1
    <3>5. Related(1, v[2])' \subseteq asked'
      BY <2>1, <2>3, <3>3 DEF AskedFor
    <3> QED
      BY <1>2, <2>0, <2>4, <2>5, <3>4, <3>5 DEF AskedFor
  <2> QED
    BY <2>6, <2>7
<1> QED
  BY <1>8, <1>9, <1>10, <1>11

(* The invariant of OpenFGA.                                               *)
LEMMA FgaInvariant == Spec => []FgaInv
<1>1. ASSUME FgaInv, [Next]_vars PROVE FgaInv'
  <2>1. <<"seller", "staff">> \in Writers /\ <<"order", "viewer">> \in Writers
    BY DEF Writers
  <2>2. ASSUME F!Ready("seller"), NEW o \in Owners, NEW p \in Principals, SellerWrites(o, p) PROVE FgaInv'
    <3> DEFINE owner == F!Tuple(o, "owner", o)  staff == F!Tuple(p, "staff", o)
    <3>1. /\ owner \in FgaTuples /\ owner.relation = "owner" /\ owner.user = owner.object
          /\ staff \in FgaTuples /\ staff.relation = "staff"
      BY StorefrontConstants, StorefrontNames DEF FgaTuples, F!Tuple
    <3>2. \/ F!FgaWrite("seller", {}, owner) \/ F!FgaWrite("seller", {owner}, staff) \/ F!FgaDelete("seller", staff)
      BY <2>2 DEF SellerWrites
    <3> HIDE DEF owner, staff
    <3> DEFINE w == <<"seller", "staff">>
    <3>3. w \in Writers /\ w[1] = "seller" /\ w[2] = "staff"
      BY <2>1
    <3> HIDE DEF w
    <3>4. CASE F!FgaWrite("seller", {}, owner)
      <4>1. {} \in SUBSET FgaTuples /\ \A x \in {} \cup {owner} : x.relation = w[2] \/ (x.relation = "owner" /\ x.user = x.object)
        BY <3>1
      <4> QED
        BY <1>1, <2>2, <3>1, <3>3, <3>4, <4>1, FgaWritten
    <3>5. CASE F!FgaWrite("seller", {owner}, staff)
      <4>1. {owner} \in SUBSET FgaTuples
            /\ \A x \in {owner} \cup {staff} : x.relation = w[2] \/ (x.relation = "owner" /\ x.user = x.object)
        BY <3>1, <3>3
      <4> QED
        BY <1>1, <2>2, <3>1, <3>3, <3>5, <4>1, FgaWritten
    <3>6. CASE F!FgaDelete("seller", staff)
      BY <1>1, <2>2, <3>1, <3>3, <3>6, FgaDeleted
    <3> QED
      BY <3>2, <3>4, <3>5, <3>6
  <2>3. ASSUME F!Ready("order"), NEW o \in SharedOrders, NEW q \in Principals, OrderWrites(o, q) PROVE FgaInv'
    <3> DEFINE viewer == F!Tuple(q, "viewer", o)
    <3>1. viewer \in FgaTuples /\ viewer.relation = "viewer"
      BY DEF FgaTuples, F!Tuple
    <3>2. F!FgaWrite("order", {}, viewer) \/ F!FgaDelete("order", viewer)
      BY <2>3 DEF OrderWrites
    <3> HIDE DEF viewer
    <3> DEFINE w == <<"order", "viewer">>
    <3>3. w \in Writers /\ w[1] = "order" /\ w[2] = "viewer"
      BY <2>1
    <3> HIDE DEF w
    <3>4. CASE F!FgaWrite("order", {}, viewer)
      <4>1. {} \in SUBSET FgaTuples /\ \A x \in {} \cup {viewer} : x.relation = w[2] \/ (x.relation = "owner" /\ x.user = x.object)
        BY <3>1, <3>3
      <4> QED
        BY <1>1, <2>3, <3>1, <3>3, <3>4, <4>1, FgaWritten
    <3>5. CASE F!FgaDelete("order", viewer)
      BY <1>1, <2>3, <3>1, <3>3, <3>5, FgaDeleted
    <3> QED
      BY <3>2, <3>4, <3>5
  <2>4. CASE UNCHANGED fgaVars
    <3>1. UNCHANGED <<stores, fgaClient, tuples, granted, asked>>
      BY <2>4 DEF fgaVars
    <3> QED
      BY <1>1, <3>1 DEF FgaInv, FgaTypeInv, StoresCounted, Creating, StoresTell, AskedFor, Related
  <2> QED
    BY <1>1, <2>2, <2>3, <2>4, FgaFrame, FgaClientStep
<1> QED
  BY <1>1, FgaStart, PTL DEF Spec

DeploymentInv == up \in Deployments /\ restarts \in 0..MaxFaults

(* The deployment stays, and restarts are counted.                         *)
LEMMA DeploymentStays == Spec => []DeploymentInv
<1>0. MaxFaults \in Nat
  BY StorefrontBounds
<1>1. Init => DeploymentInv
  BY <1>0 DEF Init, DeploymentInv
<1>2. ASSUME DeploymentInv, [Next]_vars PROVE DeploymentInv'
  <2>1. UNCHANGED up /\ (UNCHANGED restarts \/ Restart)
    BY <1>2 DEF Next, vars, FgaStep, SellerStep, CatalogStep, IndexStep, StockStep, SearchStep, SharingStep, MediaStep,
       CartStep, CartExpires, PageStep, ListStep, EdgeStep, AnalyticsStep, AnalyticsKeep, Staying
  <2> QED
    BY <1>0, <1>2, <2>1 DEF Restart, DeploymentInv
<1> QED
  BY <1>1, <1>2, PTL DEF Spec

(* What the invariant of OpenFGA says of the rights services grant.        *)
LEMMA RightsGiven ==
    ASSUME FgaInv
    PROVE  /\ F!FgaTypeOK /\ F!GrantsInForce("seller", "catalog", "staff") /\ Sha!OrdersSeenByRight
           /\ F!SameStore("seller", "catalog") =>
                \A o \in Owners : \A p \in Principals :
                   /\ p \in Sel!ListShopStaff(o) => Cat!MayWriteProduct(p, o)
                   /\ Cat!MayWriteProduct(p, o) => p \in Sel!ListShopStaff(o) \cup {o} \/ HasRole(p, "catalog_manager")
<1> USE DEF FgaInv
<1>1. /\ stores \in Nat /\ stores <= F!MaxStores /\ F!MaxStores \in Nat /\ 1 \in 1..F!MaxStores
      /\ {"seller", "catalog", "order"} \subseteq FgaClients
  <2>1. Cardinality(Creating) \in Nat
    <3>1. Creating \subseteq FgaClients
      BY DEF Creating
    <3> QED
      BY <3>1, StorefrontConstants, StorefrontNames, FS_Subset, FS_CardinalityType
  <2>2. stores + Cardinality(Creating) <= F!MaxStores
    BY SomeStores DEF StoresCounted
  <2>3. stores \in Nat /\ F!MaxStores \in Nat /\ F!MaxStores >= 1
    BY SomeStores DEF FgaTypeInv
  <2>4. {"seller", "catalog", "order"} \subseteq FgaClients
    BY StorefrontConstants, StorefrontNames
  <2> QED
    BY <2>1, <2>2, <2>3, <2>4
<1>2. ASSUME NEW c \in FgaClients, F!Ready(c)
      PROVE  fgaClient[c].store \in 1..stores /\ fgaClient[c].store \in 1..F!MaxStores /\ tuples[fgaClient[c].store] \subseteq FgaTuples
  <2>1. fgaClient[c].store \in 1..stores
    BY <1>1, <1>2 DEF FgaTypeInv, F!Ready
  <2> QED
    BY <1>1, <2>1 DEF FgaTypeInv
<1>3. F!FgaTypeOK
  <2>1. stores \in 0..F!MaxStores /\ DOMAIN tuples = 1..F!MaxStores /\ granted \subseteq asked
    BY <1>1 DEF FgaTypeInv
  <2>2. ASSUME NEW c \in FgaClients
        PROVE  /\ fgaClient[c].pc \in {"down", "creating", "pinning", "up"} /\ fgaClient[c].store \in 0..stores
               /\ fgaClient[c].pc \in {"pinning", "up"} => fgaClient[c].store > 0
    BY <1>1 DEF FgaTypeInv
  <2> QED
    BY <2>1, <2>2 DEF F!FgaTypeOK
<1>4. ASSUME NEW t \in FgaTuples, NEW user, NEW relation, NEW what, t.user = user, t.relation = relation, t.object = what
      PROVE  t = F!Tuple(user, relation, what)
  BY <1>4 DEF FgaTuples, F!Tuple
<1>5. ASSUME stores = 1, NEW c \in FgaClients, F!Ready(c) PROVE granted \subseteq tuples[fgaClient[c].store]
  <2>1. fgaClient[c].store = 1
    BY <1>2, <1>5
  <2> QED
    BY <1>5, <2>1 DEF StoresTell
<1>6. /\ F!Ready("seller") => Related(fgaClient["seller"].store, "staff") \subseteq asked
      /\ F!Ready("order") => Related(fgaClient["order"].store, "viewer") \subseteq asked
  <2>1. <<"seller", "staff">> \in Writers /\ <<"order", "viewer">> \in Writers
    BY DEF Writers
  <2>2. AskedFor("seller", "staff") /\ AskedFor("order", "viewer")
    BY <2>1
  <2> QED
    BY <1>1, <1>2, <2>2 DEF AskedFor
<1>7. F!GrantsInForce("seller", "catalog", "staff")
  <2>1. ASSUME stores = 1, F!Ready("catalog"), NEW t \in granted, t.relation \in {"staff", F!Above("staff")}
        PROVE  F!FgaCheck("catalog", t.user, "staff", t.object)
    BY <1>1, <1>5, <2>1 DEF F!FgaCheck, F!FgaRead
  <2>2. ASSUME F!SameStore("seller", "catalog"), NEW t \in tuples[fgaClient["catalog"].store], t.relation = "staff" PROVE t \in asked
    BY <1>6, <2>2 DEF F!SameStore, Related
  <2> QED
    BY <2>1, <2>2 DEF F!GrantsInForce
<1>8. ASSUME NEW p \in Principals, NEW o \in SharedOrders
      PROVE  LET share == Sha!Tuple(p, "viewer", o) IN
             /\ Sha!GetOrder(p, o) => OrderOwner[o] = p \/ HasRole(p, "order_manager") \/ share \in asked
             /\ share \in granted /\ Sha!Ready("order") /\ stores = 1 => Sha!GetOrder(p, o)
             /\ Sha!Ready("order") /\ OrderOwner[o] # p /\ ~HasRole(p, "order_manager") =>
                  (Sha!GetOrder(p, o) <=> p \in Sha!ListOrderShares(o))
  <2> DEFINE share == F!Tuple(p, "viewer", o)  here == tuples[fgaClient["order"].store]
  <2>1. Sha!Tuple(p, "viewer", o) = share /\ Sha!Ready("order") = F!Ready("order") /\ share.user = p /\ share.relation = "viewer" /\ share.object = o
    BY DEF Sha!Tuple, F!Tuple, Sha!Ready, F!Ready
  <2>2. Sha!GetOrder(p, o) <=> \/ HasRole(p, "order_manager") \/ OrderOwner[o] = p
                               \/ F!Ready("order") /\ Sha!FgaCheck("order", p, "viewer", o)
    <3>1. p # "" /\ Sha!HasRole(p, "order_manager") = HasRole(p, "order_manager")
      BY StorefrontConstants, StorefrontNames DEF Sha!HasRole, HasRole
    <3> QED
      BY <2>1, <3>1 DEF Sha!GetOrder, Sha!StoreGet
  <2>3. F!Ready("order") => (Sha!FgaCheck("order", p, "viewer", o) <=> share \in here)
    <3> SUFFICES ASSUME F!Ready("order") PROVE Sha!FgaCheck("order", p, "viewer", o) <=> share \in here
      OBVIOUS
    <3>1. here \subseteq FgaTuples
      BY <1>1, <1>2
    <3> HIDE DEF here, share
    <3>2. ASSUME NEW t \in here, t.user = p, t.relation = "viewer", t.object = o PROVE t = share
      BY <1>4, <3>1, <3>2 DEF share
    <3> QED
      BY <2>1, <3>2 DEF Sha!FgaCheck, Sha!FgaRead, Sha!Above, here
  <2>4. F!Ready("order") => (p \in Sha!ListOrderShares(o) <=> share \in here)
    <3> SUFFICES ASSUME F!Ready("order") PROVE p \in Sha!ListOrderShares(o) <=> share \in here
      OBVIOUS
    <3>1. here \subseteq FgaTuples
      BY <1>1, <1>2
    <3> HIDE DEF here, share
    <3>2. ASSUME NEW t \in here, t.user = p, t.relation = "viewer", t.object = o PROVE t = share
      BY <1>4, <3>1, <3>2 DEF share
    <3> QED
      BY <2>1, <3>2 DEF Sha!ListOrderShares, Sha!FgaRead, here
  <2>5. F!Ready("order") /\ share \in here => share \in asked
    BY <1>6, <2>1 DEF Related
  <2>6. F!Ready("order") /\ share \in granted /\ stores = 1 => share \in here
    BY <1>1, <1>5
  <2> HIDE DEF share, here
  <2> QED
    BY <2>1, <2>2, <2>3, <2>4, <2>5, <2>6
<1>9. Sha!OrdersSeenByRight
  BY <1>8 DEF Sha!OrdersSeenByRight, Sha!HasRole, HasRole
<1>10. ASSUME F!SameStore("seller", "catalog"), NEW o \in Owners, NEW p \in Principals
       PROVE  /\ p \in Sel!ListShopStaff(o) => Cat!MayWriteProduct(p, o)
              /\ Cat!MayWriteProduct(p, o) => p \in Sel!ListShopStaff(o) \cup {o} \/ HasRole(p, "catalog_manager")
  <2> DEFINE here == tuples[fgaClient["catalog"].store]
             named == \E t \in here : t.user = p /\ t.relation = "staff" /\ t.object = o
             owns == \E t \in here : t.user = p /\ t.relation = "owner" /\ t.object = o
  <2>1. F!Ready("catalog") /\ fgaClient["seller"].store = fgaClient["catalog"].store /\ o # FirstParty
    BY <1>10, StorefrontConstants, StorefrontNames DEF F!SameStore
  <2>2. p \in Sel!ListShopStaff(o) <=> named
    BY <2>1 DEF Sel!ListShopStaff, Sel!FgaRead
  <2>3. Cat!MayWriteProduct(p, o) <=> HasRole(p, "catalog_manager") \/ named \/ owns
    BY <2>1 DEF Cat!MayWriteProduct, Cat!FgaCheck, Cat!FgaRead, Cat!Above, Cat!Ready, F!Ready, Cat!HasRole, HasRole
  <2>4. owns => p = o
    <3>1. fgaClient["catalog"].store \in 1..F!MaxStores
      BY <1>1, <1>2, <2>1
    <3> QED
      BY <3>1 DEF StoresTell
  <2> HIDE DEF named, owns
  <2> QED
    BY <2>2, <2>3, <2>4
<1> QED
  BY <1>3, <1>7, <1>9, <1>10

(* A right that was granted in OpenFGA is in force and one that was        *)
(* withdrawn is not, for any number of services, shops, orders and         *)
(* principals, through failing calls, restarts and clients that create a   *)
(* store each (FgaWrite, FgaDelete, mayWriteProduct, GetOrder).            *)
THEOREM RightsAreDelegated == Spec => []DelegationRight
<1>1. FgaInv /\ DeploymentInv => DelegationRight
  BY RightsGiven DEF DelegationRight, DeploymentInv
<1> QED
  BY <1>1, FgaInvariant, DeploymentStays, PTL

-----------------------------------------------------------------------------
(* The way of a request through ingress, BFF and interceptor.              *)

EdgeTokens == [sub : Principals \cup {""}, exp : Nat, key : Nat]
EdgeRoles == {"shop_admin", "order_manager", "catalog_manager", "inventory_manager", "finance"}
EdgeRPCs == [auth : {"skip", "optional", "required"}, role : SUBSET EdgeRoles, soft : BOOLEAN]
EdgeRoutes == Edg!Router \cup {Edg!Direct(b) : b \in Edg!AllRPCs}
EdgeRequests ==
    [pc : {"idle", "edge", "bff", "service"}, route : EdgeRoutes, token : EdgeTokens, next : 1..3, bad : BOOLEAN,
     written : BOOLEAN, served : SUBSET [rpc : EdgeRPCs, at : Nat], refused : BOOLEAN, kind : Edg!Kinds \cup {""}]
EdgeAnswers == [status : Nat, at : {"edge", "bff", "handler"}, call : EdgeRequests, verified : BOOLEAN]
CookieNames == {<<"access_token", "/">>, <<"refresh_token", "/api/v1/auth">>}

EdgeTypeInv ==
    /\ now \in 0..MaxNow /\ key \in 1..MaxKeys /\ jwks \subseteq 1..MaxKeys /\ signedOut \in BOOLEAN
    /\ DOMAIN cookies \subseteq CookieNames /\ \A k \in DOMAIN cookies : cookies[k] \in EdgeTokens
    /\ call \in [Calls -> EdgeRequests]
    /\ answers \in Seq(EdgeAnswers) /\ Len(answers) <= MaxCalls

(* Whom a handler that was reached acts for, as in ActsForVerified.        *)
ActsFor(x, t) ==
    /\ x.rpc.auth = "required" \/ (x.rpc.auth = "optional" /\ t # Edg!NoToken) =>
         t # Edg!NoToken /\ t.key # 0 /\ x.at - Edg!ServiceLeeway < t.exp
    /\ x.rpc.role # {} => HasAnyRole(t.sub, x.rpc.role)
OpenTo(q) == q.token = Edg!NoToken /\ (q.route.edge = "public" \/ \E b \in Edg!BackgroundCalls : q.route = Edg!Direct(b))

(* A request on its way has not failed, has a call of its route before it, *)
(* the first until it is at a service, and was served as it may be.        *)
RequestFits(q) ==
    /\ q.kind = "" /\ q.refused = FALSE
    /\ IF q.pc = "service" THEN q.next <= Len(q.route.calls) ELSE q.next = 1
    /\ \A x \in q.served : ActsFor(x, q.token)
StatusFits(q, status) == q.kind # "" => q.written \/ status = Edg!HTTPStatus(q.kind)

(* What is true of an answer when it is given, and so ever after.          *)
AnswerFits(a) ==
    /\ \A x \in a.call.served : ActsFor(x, a.call.token)
    /\ OpenTo(a.call) => ~a.call.refused
    /\ a.at = "edge" /\ a.status = 401 => ~a.verified
    /\ StatusFits(a.call, a.status)

RequestsFit == \A c \in Calls : RequestFits(call[c])
AnswersFit == \A i \in 1..Len(answers) : AnswerFits(answers[i])
EdgeInv == EdgeTypeInv /\ RequestsFit /\ AnswersFit /\ Edg!LogoutForgets

(* A route of at most three calls, the public ones open but for calls the  *)
(* BFF goes on without.                                                    *)
OpenRPC(b) == b.soft \/ b.auth \in {"skip", "optional"}
RouteFits(r) ==
    /\ r.calls \in Seq(EdgeRPCs) /\ Len(r.calls) <= 3
    /\ r.edge = "public" => \A i \in 1..Len(r.calls) : OpenRPC(r.calls[i])

(* An RPC is one of the three kinds and asks for a role that is known.     *)
LEMMA RPCsTyped ==
    ASSUME NEW s, NEW m
    PROVE  Edg!RPC(s, m) \in EdgeRPCs /\ Edg!BestEffort(Edg!RPC(s, m)) \in EdgeRPCs /\ Edg!BestEffort(Edg!RPC(s, m)).soft
<1>1. Edg!RoleAsked(m) \in SUBSET EdgeRoles
  BY DEF Edg!RoleAsked, EdgeRoles
<1>2. Edg!RPC(s, m).auth \in {"skip", "optional", "required"} /\ Edg!RPC(s, m).role = Edg!RoleAsked(m)
  BY DEF Edg!RPC
<1>3. Edg!RPC(s, m) \in EdgeRPCs
  BY <1>1, <1>2 DEF Edg!RPC, EdgeRPCs
<1> QED
  BY <1>3 DEF Edg!BestEffort, EdgeRPCs

(* The methods that are open to everybody.                                 *)
LEMMA OpenMethods ==
    ASSUME NEW s, NEW m,
           s = Edg!SearchService
             \/ m \in Edg!CartOptionalMethods \cup Edg!CatalogOptionalMethods \cup Edg!InventoryOptionalMethods
                   \cup Edg!MediaOptionalMethods \cup Edg!PaymentOptionalMethods \cup Edg!PricingOptionalMethods
                   \cup Edg!ReviewOptionalMethods \cup Edg!SellerOptionalMethods
    PROVE  OpenRPC(Edg!RPC(s, m))
BY DEF Edg!RPC, OpenRPC

(* A route fits if its calls do.                                           *)
LEMMA RoutesOfCalls ==
    ASSUME NEW path, NEW signIn, NEW body, NEW a \in EdgeRPCs, NEW b \in EdgeRPCs, NEW c \in EdgeRPCs,
           path \in Edg!PublicPrefixes => OpenRPC(a) /\ OpenRPC(b) /\ OpenRPC(c)
    PROVE  /\ RouteFits(Edg!Route(path, signIn, body, <<>>)) /\ RouteFits(Edg!Route(path, signIn, body, <<a>>))
           /\ RouteFits(Edg!Route(path, signIn, body, <<a, b>>)) /\ RouteFits(Edg!Route(path, signIn, body, <<a, b, c>>))
<1>1. ASSUME NEW calls \in Seq(EdgeRPCs), Len(calls) <= 3,
             path \in Edg!PublicPrefixes => \A i \in 1..Len(calls) : OpenRPC(calls[i])
      PROVE  RouteFits(Edg!Route(path, signIn, body, calls))
  BY <1>1 DEF Edg!Route, RouteFits, Edg!PublicPrefixes
<1>2. RouteFits(Edg!Route(path, signIn, body, <<>>))
  <2>1. <<>> \in Seq(EdgeRPCs) /\ Len(<<>>) <= 3 /\ \A i \in 1..Len(<<>>) : <<>>[i] \in {a}
    OBVIOUS
  <2>2. path \in Edg!PublicPrefixes => \A i \in 1..Len(<<>>) : OpenRPC(<<>>[i])
    BY <2>1
  <2> QED
    BY <1>1, <2>1, <2>2, Zenon
<1>3. RouteFits(Edg!Route(path, signIn, body, <<a>>))
  <2>1. <<a>> \in Seq(EdgeRPCs) /\ Len(<<a>>) <= 3 /\ \A i \in 1..Len(<<a>>) : <<a>>[i] \in {a}
    OBVIOUS
  <2>2. path \in Edg!PublicPrefixes => \A i \in 1..Len(<<a>>) : OpenRPC(<<a>>[i])
    BY <2>1
  <2> QED
    BY <1>1, <2>1, <2>2, Zenon
<1>4. RouteFits(Edg!Route(path, signIn, body, <<a, b>>))
  <2>1. <<a, b>> \in Seq(EdgeRPCs) /\ Len(<<a, b>>) <= 3 /\ \A i \in 1..Len(<<a, b>>) : <<a, b>>[i] \in {a, b}
    OBVIOUS
  <2>2. path \in Edg!PublicPrefixes => \A i \in 1..Len(<<a, b>>) : OpenRPC(<<a, b>>[i])
    BY <2>1
  <2> QED
    BY <1>1, <2>1, <2>2, Zenon
<1>5. RouteFits(Edg!Route(path, signIn, body, <<a, b, c>>))
  <2>1. <<a, b, c>> \in Seq(EdgeRPCs) /\ Len(<<a, b, c>>) <= 3 /\ \A i \in 1..Len(<<a, b, c>>) : <<a, b, c>>[i] \in {a, b, c}
    OBVIOUS
  <2>2. path \in Edg!PublicPrefixes => \A i \in 1..Len(<<a, b, c>>) : OpenRPC(<<a, b, c>>[i])
    BY <2>1
  <2> QED
    BY <1>1, <2>1, <2>2, Zenon
<1> QED
  BY <1>2, <1>3, <1>4, <1>5

(* A route that needs a token may call anything.                           *)
LEMMA ClosedRoutes ==
    ASSUME NEW path, path \notin Edg!PublicPrefixes, NEW signIn, NEW body, NEW s, NEW m, NEW t, NEW n
    PROVE  /\ RouteFits(Edg!Route(path, signIn, body, <<>>))
           /\ RouteFits(Edg!Route(path, signIn, body, <<Edg!RPC(s, m)>>))
           /\ RouteFits(Edg!Route(path, signIn, body, <<Edg!RPC(s, m), Edg!RPC(t, n)>>))
<1> DEFINE a == Edg!RPC(s, m)  b == Edg!RPC(t, n)
<1>1. a \in EdgeRPCs /\ b \in EdgeRPCs
  BY RPCsTyped
<1> HIDE DEF a, b
<1>2. /\ RouteFits(Edg!Route(path, signIn, body, <<>>))
      /\ RouteFits(Edg!Route(path, signIn, body, <<a>>))
      /\ RouteFits(Edg!Route(path, signIn, body, <<a, b>>))
  BY <1>1, RoutesOfCalls
<1> QED
  BY <1>2 DEF a, b

(* The routes anybody may call, each of open calls.                        *)
LEMMA PublicRoutesFit ==
    /\ \A h \in DOMAIN Edg!BrowseRoutes : RouteFits(Edg!BrowseRoutes[h])
    /\ \A h \in DOMAIN Edg!ShopPageRoutes : RouteFits(Edg!ShopPageRoutes[h])
    /\ \A h \in DOMAIN Edg!IngestRoutes : RouteFits(Edg!IngestRoutes[h])
    /\ \A h \in DOMAIN Edg!CartRoutes : RouteFits(Edg!CartRoutes[h])
<1>1. ASSUME NEW path, NEW signIn, NEW body, NEW a \in EdgeRPCs, NEW b \in EdgeRPCs, NEW c \in EdgeRPCs,
             OpenRPC(a), OpenRPC(b), OpenRPC(c)
      PROVE  /\ RouteFits(Edg!Route(path, signIn, body, <<>>)) /\ RouteFits(Edg!Route(path, signIn, body, <<a>>))
             /\ RouteFits(Edg!Route(path, signIn, body, <<a, b>>)) /\ RouteFits(Edg!Route(path, signIn, body, <<a, b, c>>))
  BY <1>1, RoutesOfCalls
<1>2. ASSUME NEW s, NEW m PROVE /\ Edg!RPC(s, m) \in EdgeRPCs
                                /\ Edg!BestEffort(Edg!RPC(s, m)) \in EdgeRPCs /\ OpenRPC(Edg!BestEffort(Edg!RPC(s, m)))
  BY RPCsTyped DEF OpenRPC
<1>3. \A h \in DOMAIN Edg!BrowseRoutes : RouteFits(Edg!BrowseRoutes[h])
  <2> DEFINE search == Edg!RPC(Edg!SearchService, "Search")
             product_ == Edg!RPC(Edg!CatalogService, "GetProduct")
             shop_ == Edg!BestEffort(Edg!RPC(Edg!SellerService, "GetShop"))
             complete == Edg!RPC(Edg!SearchService, "Autocomplete")
  <2>1. search \in EdgeRPCs /\ product_ \in EdgeRPCs /\ shop_ \in EdgeRPCs /\ complete \in EdgeRPCs
    BY <1>2
  <2>2. OpenRPC(search) /\ OpenRPC(shop_) /\ OpenRPC(complete)
    BY <1>2, OpenMethods
  <2>3. OpenRPC(product_)
    BY OpenMethods DEF Edg!CatalogOptionalMethods
  <2> HIDE DEF search, product_, shop_, complete
  <2> DEFINE r1 == Edg!Route("catalog", FALSE, "none", <<search>>)
             r2 == Edg!Route("catalog", FALSE, "none", <<product_, shop_>>)
             r3 == Edg!Route("search", FALSE, "none", <<complete>>)
  <2>4. RouteFits(r1) /\ RouteFits(r2) /\ RouteFits(r3)
    BY <1>1, <2>1, <2>2, <2>3, Zenon
  <2>5. Edg!BrowseRoutes = [listProducts |-> r1, getProduct |-> r2, autocomplete |-> r3]
    BY DEF Edg!BrowseRoutes, search, product_, shop_, complete
  <2> HIDE DEF r1, r2, r3
  <2> QED
    BY <2>4, <2>5
<1>4. \A h \in DOMAIN Edg!ShopPageRoutes : RouteFits(Edg!ShopPageRoutes[h])
  <2> DEFINE shop_ == Edg!RPC(Edg!SellerService, "GetShop")
             products == Edg!RPC(Edg!CatalogService, "ListProducts")
  <2>1. shop_ \in EdgeRPCs /\ products \in EdgeRPCs
    BY <1>2
  <2>2. OpenRPC(shop_) /\ OpenRPC(products)
    BY OpenMethods DEF Edg!CatalogOptionalMethods, Edg!SellerOptionalMethods
  <2> HIDE DEF shop_, products
  <2> DEFINE r1 == Edg!Route("shops", FALSE, "none", <<shop_>>)
             r2 == Edg!Route("shops", FALSE, "none", <<shop_, products>>)
  <2>3. RouteFits(r1) /\ RouteFits(r2)
    BY <1>1, <2>1, <2>2, Zenon
  <2>4. Edg!ShopPageRoutes = [getShop |-> r1, listShopPublicProducts |-> r2]
    BY DEF Edg!ShopPageRoutes, shop_, products
  <2> HIDE DEF r1, r2
  <2> QED
    BY <2>3, <2>4
<1>5. \A h \in DOMAIN Edg!IngestRoutes : RouteFits(Edg!IngestRoutes[h])
  <2> DEFINE any == Edg!BestEffort(Edg!RPC(Edg!SearchService, "Search"))
  <2>1. any \in EdgeRPCs /\ OpenRPC(any)
    BY <1>2
  <2> HIDE DEF any
  <2> DEFINE r1 == Edg!Route("events", FALSE, "bind", <<>>)
  <2>2. RouteFits(r1)
    BY <1>1, <2>1, Zenon
  <2>3. Edg!IngestRoutes = [ingestEvents |-> r1]
    BY DEF Edg!IngestRoutes
  <2> HIDE DEF r1
  <2> QED
    BY <2>2, <2>3
<1>6. \A h \in DOMAIN Edg!CartRoutes : RouteFits(Edg!CartRoutes[h])
  <2>1. ASSUME NEW m \in Edg!CartService, NEW body PROVE RouteFits(Edg!CartRoute(m, body))
    <3> DEFINE own == Edg!RPC(Edg!CartService, m)
               products == Edg!BestEffort(Edg!RPC(Edg!CatalogService, "BatchGetProducts"))
               quote == Edg!BestEffort(Edg!RPC(Edg!PricingService, "QuotePrice"))
    <3>1. own \in EdgeRPCs /\ products \in EdgeRPCs /\ quote \in EdgeRPCs /\ OpenRPC(products) /\ OpenRPC(quote)
      BY <1>2
    <3>2. OpenRPC(own)
      BY OpenMethods DEF Edg!CartOptionalMethods
    <3> HIDE DEF own, products, quote
    <3>3. RouteFits(Edg!Route("cart", FALSE, body, <<own, products, quote>>))
      BY <1>1, <3>1, <3>2
    <3> QED
      BY <3>3 DEF Edg!CartRoute, own, products, quote
  <2> QED
    BY <2>1 DEF Edg!CartRoutes, Edg!CartService
<1> QED
  BY <1>3, <1>4, <1>5, <1>6

(* The routes that ask for a token: a call, or a call after that for the   *)
(* caller's shop.                                                          *)
OneCall(path, signIn, body, s, m) == Edg!Route(path, signIn, body, <<Edg!RPC(s, m)>>)
AfterMyShop(path, signIn, body, s, m) ==
    Edg!Route(path, signIn, body, <<Edg!RPC(Edg!SellerService, "GetMyShop"), Edg!RPC(s, m)>>)

(* Such a route fits whatever it calls.                                    *)
LEMMA ClosedCalls ==
    ASSUME NEW path \in {"checkout", "orders", "seller", "admin"}, NEW signIn, NEW body, NEW s, NEW m
    PROVE  RouteFits(OneCall(path, signIn, body, s, m)) /\ RouteFits(AfterMyShop(path, signIn, body, s, m))
<1>1. path \notin Edg!PublicPrefixes
  BY DEF Edg!PublicPrefixes
<1> QED
  BY <1>1, ClosedRoutes DEF OneCall, AfterMyShop

(* The routes of customers and sellers fit.                                *)
LEMMA ClosedRoutesFit ==
    /\ \A h \in DOMAIN Edg!CheckoutRoutes : RouteFits(Edg!CheckoutRoutes[h])
    /\ \A h \in DOMAIN Edg!SharingRoutes : RouteFits(Edg!SharingRoutes[h])
    /\ \A h \in DOMAIN Edg!ShopRoutes : RouteFits(Edg!ShopRoutes[h])
    /\ \A h \in DOMAIN Edg!StaffRoutes : RouteFits(Edg!StaffRoutes[h])
    /\ \A h \in DOMAIN Edg!ShopProductRoutes : RouteFits(Edg!ShopProductRoutes[h])
<1>1. ASSUME NEW path \in {"checkout", "orders", "seller", "admin"}, NEW signIn, NEW body, NEW s, NEW m
      PROVE  RouteFits(OneCall(path, signIn, body, s, m)) /\ RouteFits(AfterMyShop(path, signIn, body, s, m))
  BY ClosedCalls
<1>2. \A h \in DOMAIN Edg!CheckoutRoutes : RouteFits(Edg!CheckoutRoutes[h])
  <2> DEFINE r1 == OneCall("checkout", TRUE, "bind", Edg!OrderService, "CreateOrder")
             r2 == OneCall("checkout", TRUE, "bind", Edg!PaymentService, "ConfirmPayment")
             r3 == OneCall("orders", TRUE, "none", Edg!OrderService, "ListOrders")
             r4 == OneCall("orders", TRUE, "none", Edg!OrderService, "GetOrder")
  <2>1. RouteFits(r1) /\ RouteFits(r2) /\ RouteFits(r3) /\ RouteFits(r4)
    BY <1>1, Zenon
  <2>2. Edg!CheckoutRoutes = [checkout |-> r1, confirmCheckout |-> r2, listOrders |-> r3, getOrder |-> r4]
    BY DEF Edg!CheckoutRoutes, OneCall
  <2> HIDE DEF r1, r2, r3, r4
  <2> QED
    BY <2>1, <2>2
<1>3. \A h \in DOMAIN Edg!SharingRoutes : RouteFits(Edg!SharingRoutes[h])
  <2> DEFINE r1 == OneCall("orders", TRUE, "goOn", Edg!OrderService, "ShareOrder")
             r2 == OneCall("orders", TRUE, "none", Edg!OrderService, "RevokeOrderShare")
             r3 == OneCall("orders", TRUE, "none", Edg!OrderService, "ListOrderShares")
  <2>1. RouteFits(r1) /\ RouteFits(r2) /\ RouteFits(r3)
    BY <1>1, Zenon
  <2>2. Edg!SharingRoutes = [shareOrder |-> r1, revokeOrderShare |-> r2, listOrderShares |-> r3]
    BY DEF Edg!SharingRoutes, OneCall
  <2> HIDE DEF r1, r2, r3
  <2> QED
    BY <2>1, <2>2
<1>4. \A h \in DOMAIN Edg!ShopRoutes : RouteFits(Edg!ShopRoutes[h])
  <2> DEFINE r1 == OneCall("seller", TRUE, "goOn", Edg!SellerService, "CreateShop")
             r2 == OneCall("seller", TRUE, "none", Edg!SellerService, "GetMyShop")
             r3 == OneCall("seller", TRUE, "goOn", Edg!SellerService, "UpdateShop")
  <2>1. RouteFits(r1) /\ RouteFits(r2) /\ RouteFits(r3)
    BY <1>1, Zenon
  <2>2. Edg!ShopRoutes = [createShop |-> r1, getMyShop |-> r2, updateShop |-> r3]
    BY DEF Edg!ShopRoutes, OneCall
  <2> HIDE DEF r1, r2, r3
  <2> QED
    BY <2>1, <2>2
<1>5. \A h \in DOMAIN Edg!StaffRoutes : RouteFits(Edg!StaffRoutes[h])
  <2> DEFINE r1 == OneCall("seller", TRUE, "goOn", Edg!SellerService, "AddShopStaff")
             r2 == OneCall("seller", TRUE, "none", Edg!SellerService, "RemoveShopStaff")
             r3 == OneCall("seller", TRUE, "none", Edg!SellerService, "ListShopStaff")
  <2>1. RouteFits(r1) /\ RouteFits(r2) /\ RouteFits(r3)
    BY <1>1, Zenon
  <2>2. Edg!StaffRoutes = [addShopStaff |-> r1, removeShopStaff |-> r2, listShopStaff |-> r3]
    BY DEF Edg!StaffRoutes, OneCall
  <2> HIDE DEF r1, r2, r3
  <2> QED
    BY <2>1, <2>2
<1>6. \A h \in DOMAIN Edg!ShopProductRoutes : RouteFits(Edg!ShopProductRoutes[h])
  <2> DEFINE r1 == AfterMyShop("seller", TRUE, "goOn", Edg!CatalogService, "CreateProduct")
             r2 == AfterMyShop("seller", TRUE, "none", Edg!CatalogService, "ListShopProducts")
             r3 == AfterMyShop("seller", TRUE, "none", Edg!PayoutService, "ListPayouts")
             r4 == OneCall("seller", TRUE, "goOn", Edg!CatalogService, "UpdateProduct")
             r5 == OneCall("seller", TRUE, "none", Edg!CatalogService, "ArchiveProduct")
  <2>1. RouteFits(r1) /\ RouteFits(r2) /\ RouteFits(r3) /\ RouteFits(r4) /\ RouteFits(r5)
    BY <1>1, Zenon
  <2>2. Edg!ShopProductRoutes =
          [createShopProduct |-> r1, listShopProducts |-> r2, listShopPayouts |-> r3,
           updateShopProduct |-> r4, archiveShopProduct |-> r5]
    BY DEF Edg!ShopProductRoutes, OneCall, AfterMyShop, Edg!OfMyShop
  <2> HIDE DEF r1, r2, r3, r4, r5
  <2> QED
    BY <2>1, <2>2
<1> QED
  BY <1>2, <1>3, <1>4, <1>5, <1>6

(* Those of operators do.                                                  *)
LEMMA AdminRoutesFit ==
    /\ \A h \in DOMAIN Edg!AdminShopRoutes : RouteFits(Edg!AdminShopRoutes[h])
    /\ \A h \in DOMAIN Edg!AdminCatalogRoutes : RouteFits(Edg!AdminCatalogRoutes[h])
    /\ \A h \in DOMAIN Edg!AdminOrderRoutes : RouteFits(Edg!AdminOrderRoutes[h])
    /\ \A h \in DOMAIN Edg!AdminShipmentRoutes : RouteFits(Edg!AdminShipmentRoutes[h])
    /\ \A h \in DOMAIN Edg!AdminPayoutRoutes : RouteFits(Edg!AdminPayoutRoutes[h])
<1>1. ASSUME NEW path \in {"checkout", "orders", "seller", "admin"}, NEW signIn, NEW body, NEW s, NEW m
      PROVE  RouteFits(OneCall(path, signIn, body, s, m)) /\ RouteFits(AfterMyShop(path, signIn, body, s, m))
  BY ClosedCalls
<1>2. \A h \in DOMAIN Edg!AdminShopRoutes : RouteFits(Edg!AdminShopRoutes[h])
  <2> DEFINE r1 == OneCall("admin", FALSE, "none", Edg!SellerService, "ListShops")
             r2 == OneCall("admin", FALSE, "none", Edg!SellerService, "ActivateShop")
             r3 == OneCall("admin", FALSE, "goOn", Edg!SellerService, "SuspendShop")
  <2>1. RouteFits(r1) /\ RouteFits(r2) /\ RouteFits(r3)
    BY <1>1, Zenon
  <2>2. Edg!AdminShopRoutes = [adminListShops |-> r1, adminActivateShop |-> r2, adminSuspendShop |-> r3]
    BY DEF Edg!AdminShopRoutes, OneCall
  <2> HIDE DEF r1, r2, r3
  <2> QED
    BY <2>1, <2>2
<1>3. \A h \in DOMAIN Edg!AdminCatalogRoutes : RouteFits(Edg!AdminCatalogRoutes[h])
  <2> DEFINE r1 == OneCall("admin", FALSE, "goOn", Edg!CatalogService, "CreateProduct")
             r2 == OneCall("admin", FALSE, "goOn", Edg!CatalogService, "UpdateProduct")
             r3 == OneCall("admin", FALSE, "none", Edg!CatalogService, "ArchiveProduct")
             r4 == OneCall("admin", FALSE, "goOn", Edg!MediaService, "CreateUploadURL")
             r5 == OneCall("admin", FALSE, "goOn", Edg!MediaService, "ConfirmUpload")
  <2>1. RouteFits(r1) /\ RouteFits(r2) /\ RouteFits(r3) /\ RouteFits(r4) /\ RouteFits(r5)
    BY <1>1, Zenon
  <2>2. Edg!AdminCatalogRoutes =
          [createProduct |-> r1, updateProduct |-> r2, archiveProduct |-> r3,
           createUpload |-> r4, confirmUpload |-> r5]
    BY DEF Edg!AdminCatalogRoutes, OneCall
  <2> HIDE DEF r1, r2, r3, r4, r5
  <2> QED
    BY <2>1, <2>2
<1>4. \A h \in DOMAIN Edg!AdminOrderRoutes : RouteFits(Edg!AdminOrderRoutes[h])
  <2> DEFINE r1 == OneCall("admin", TRUE, "none", Edg!OrderService, "ListOrders")
             r2 == OneCall("admin", TRUE, "none", Edg!OrderService, "GetOrder")
             r3 == OneCall("admin", TRUE, "none", Edg!OrderService, "ListReturns")
             r4 == OneCall("admin", TRUE, "bind", Edg!OrderService, "DecideReturn")
  <2>1. RouteFits(r1) /\ RouteFits(r2) /\ RouteFits(r3) /\ RouteFits(r4)
    BY <1>1, Zenon
  <2>2. Edg!AdminOrderRoutes =
          [adminListOrders |-> r1, adminGetOrder |-> r2,
           adminListReturns |-> r3, adminDecideReturn |-> r4]
    BY DEF Edg!AdminOrderRoutes, OneCall
  <2> HIDE DEF r1, r2, r3, r4
  <2> QED
    BY <2>1, <2>2
<1>5. \A h \in DOMAIN Edg!AdminShipmentRoutes : RouteFits(Edg!AdminShipmentRoutes[h])
  <2> DEFINE r1 == OneCall("admin", TRUE, "none", Edg!FulfillmentService, "ListShipments")
             r2 == OneCall("admin", TRUE, "none", Edg!FulfillmentService, "MarkShipped")
             r3 == OneCall("admin", TRUE, "none", Edg!FulfillmentService, "MarkDelivered")
             r4 == OneCall("admin", TRUE, "none", Edg!FulfillmentService, "CancelShipment")
  <2>1. RouteFits(r1) /\ RouteFits(r2) /\ RouteFits(r3) /\ RouteFits(r4)
    BY <1>1, Zenon
  <2>2. Edg!AdminShipmentRoutes =
          [adminListShipments |-> r1, adminShipShipment |-> r2,
           adminDeliverShipment |-> r3, adminCancelShipment |-> r4]
    BY DEF Edg!AdminShipmentRoutes, OneCall
  <2> HIDE DEF r1, r2, r3, r4
  <2> QED
    BY <2>1, <2>2
<1>6. \A h \in DOMAIN Edg!AdminPayoutRoutes : RouteFits(Edg!AdminPayoutRoutes[h])
  <2> DEFINE r1 == OneCall("admin", TRUE, "none", Edg!PayoutService, "ListPayouts")
             r2 == OneCall("admin", TRUE, "none", Edg!PayoutService, "MarkPaid")
  <2>1. RouteFits(r1) /\ RouteFits(r2)
    BY <1>1, Zenon
  <2>2. Edg!AdminPayoutRoutes = [adminListPayouts |-> r1, adminMarkPayoutPaid |-> r2]
    BY DEF Edg!AdminPayoutRoutes, OneCall
  <2> HIDE DEF r1, r2
  <2> QED
    BY <2>1, <2>2
<1> QED
  BY <1>2, <1>3, <1>4, <1>5, <1>6

(* Every route of the BFF fits, and a service that is dialled is one call, *)
(* which is open if the saga makes it on its own.                          *)
LEMMA RoutesFit ==
    /\ (\A r \in EdgeRoutes : RouteFits(r)) /\ Edg!LogoutRoute \in EdgeRoutes
    /\ \A b : Edg!Direct(b).calls = <<b>> /\ Edg!Direct(b).edge = "none"
    /\ \A b \in Edg!BackgroundCalls : OpenRPC(b)
<1>1. RouteFits(Edg!LogoutRoute)
  <2>1. RouteFits(Edg!Route("auth/logout", FALSE, "none", <<>>))
    <3>1. "auth/logout" \notin Edg!PublicPrefixes
      BY DEF Edg!PublicPrefixes
    <3> QED
      BY <3>1, ClosedRoutes
  <2> QED
    BY <2>1 DEF Edg!LogoutRoute
<1>2. (\A r \in Edg!Router : RouteFits(r)) /\ Edg!LogoutRoute \in Edg!Router
  <2> DEFINE groups == {Edg!BrowseRoutes, Edg!ShopPageRoutes, Edg!IngestRoutes, Edg!CartRoutes, Edg!CheckoutRoutes,
                        Edg!SharingRoutes, Edg!ShopRoutes, Edg!StaffRoutes, Edg!ShopProductRoutes, Edg!AdminShopRoutes,
                        Edg!AdminCatalogRoutes, Edg!AdminOrderRoutes, Edg!AdminShipmentRoutes, Edg!AdminPayoutRoutes}
             sets == {{g[h] : h \in DOMAIN g} : g \in groups}
  <2>1. \A g \in groups : \A h \in DOMAIN g : RouteFits(g[h])
    BY PublicRoutesFit, ClosedRoutesFit, AdminRoutesFit
  <2>2. Edg!Router = (UNION sets) \cup {Edg!LogoutRoute}
    BY DEF Edg!Router
  <2> HIDE DEF groups, sets
  <2>3. ASSUME NEW r \in Edg!Router, r # Edg!LogoutRoute PROVE RouteFits(r)
    <3>1. PICK R \in sets : r \in R
      BY <2>2, <2>3
    <3>2. PICK g \in groups : R = {g[h] : h \in DOMAIN g}
      BY <3>1 DEF sets
    <3>3. PICK h \in DOMAIN g : r = g[h]
      BY <3>1, <3>2
    <3> QED
      BY <2>1, <3>3
  <2>4. Edg!LogoutRoute \in Edg!Router
    BY <2>2
  <2> QED
    BY <1>1, <2>3, <2>4
<1>3. \A b \in Edg!AllRPCs : b \in EdgeRPCs
  BY RPCsTyped DEF Edg!AllRPCs
<1>4. ASSUME NEW b \in Edg!AllRPCs PROVE RouteFits(Edg!Direct(b))
  <2>1. <<b>> \in Seq(EdgeRPCs) /\ Len(<<b>>) = 1
    BY <1>3
  <2> QED
    BY <2>1 DEF Edg!Direct, RouteFits
<1>5. \A b : Edg!Direct(b).calls = <<b>> /\ Edg!Direct(b).edge = "none"
  BY DEF Edg!Direct
<1>6. ASSUME NEW b \in Edg!BackgroundCalls PROVE OpenRPC(b)
  <2>1. \A m \in {"Commit", "Release"} : OpenRPC(Edg!RPC(Edg!InventoryService, m))
    BY OpenMethods DEF Edg!InventoryOptionalMethods
  <2>2. \A m \in {"Void", "Refund"} : OpenRPC(Edg!RPC(Edg!PaymentService, m))
    BY OpenMethods DEF Edg!PaymentOptionalMethods
  <2>3. OpenRPC(Edg!RPC(Edg!CatalogService, "BatchGetProducts"))
    BY OpenMethods DEF Edg!CatalogOptionalMethods
  <2> QED
    BY <2>1, <2>2, <2>3 DEF Edg!BackgroundCalls
<1> QED
  BY <1>2, <1>4, <1>5, <1>6 DEF EdgeRoutes

(* Only the edge touches what the edge keeps.                              *)
LEMMA EdgeFrame == [Next]_vars => EdgeStep \/ UNCHANGED edgeVars
BY DEF Next, vars, frontVars, FgaStep, SellerStep, CatalogStep, IndexStep, StockStep, SearchStep, SharingStep, MediaStep,
       CartStep, CartExpires, PageStep, ListStep, AnalyticsStep, AnalyticsKeep

(* A request that has not started.                                         *)
LEMMA NoCallFits == Edg!NoCall \in EdgeRequests /\ RequestFits(Edg!NoCall) /\ Edg!NoToken \in EdgeTokens
<1>1. Edg!LogoutRoute \in EdgeRoutes
  BY RoutesFit
<1>2. Edg!NoToken \in EdgeTokens
  BY DEF Edg!NoToken, EdgeTokens
<1>3. Edg!NoCall \in EdgeRequests
  BY <1>1, <1>2 DEF Edg!NoCall, EdgeRequests
<1>4. RequestFits(Edg!NoCall)
  BY DEF Edg!NoCall, RequestFits
<1> QED
  BY <1>2, <1>3, <1>4

(* Nothing is on its way at first.                                         *)
LEMMA EdgeStart == Init => EdgeInv
<1> SUFFICES ASSUME Init PROVE EdgeInv
  OBVIOUS
<1>1. Edg!EdgeInit
  BY DEF Init
<1>2. /\ now \in 0..MaxNow /\ key \in 1..MaxKeys /\ jwks \subseteq 1..MaxKeys /\ signedOut = FALSE
      /\ answers = <<>> /\ cookies = <<>> /\ call = [c \in Calls |-> Edg!NoCall]
  BY <1>1, StorefrontBounds DEF Edg!EdgeInit
<1>3. DOMAIN cookies = {} /\ answers \in Seq(EdgeAnswers) /\ Len(answers) = 0 /\ 0 <= MaxCalls
  BY <1>2, StorefrontBounds
<1>4. call \in [Calls -> EdgeRequests] /\ RequestsFit
  BY <1>2, NoCallFits DEF RequestsFit
<1>5. EdgeTypeInv
  BY <1>2, <1>3, <1>4 DEF EdgeTypeInv
<1> QED
  BY <1>2, <1>3, <1>4, <1>5 DEF EdgeInv, AnswersFit, Edg!LogoutForgets

(* A request on its way to its next handler, or one that is answered and   *)
(* forgotten, keep the invariant.                                          *)
LEMMA RequestGoesOn ==
    ASSUME EdgeTypeInv, RequestsFit, AnswersFit, NEW c \in Calls, NEW q \in EdgeRequests, RequestFits(q),
           call' = [call EXCEPT ![c] = q], answers' = answers
    PROVE  /\ call' \in [Calls -> EdgeRequests] /\ RequestsFit'
           /\ answers' \in Seq(EdgeAnswers) /\ Len(answers') <= MaxCalls /\ AnswersFit'
BY DEF EdgeTypeInv, RequestsFit, AnswersFit

(* A call in flight that is answered leaves the others as they are.        *)
LEMMA RequestAnswered ==
    ASSUME EdgeTypeInv, RequestsFit, AnswersFit, Len(answers) < MaxCalls,
           NEW c \in Calls, NEW q \in EdgeRequests, NEW status \in Nat, NEW at \in {"edge", "bff", "handler"},
           Edg!Answer(c, q, status, at),
           \A x \in q.served : ActsFor(x, q.token),
           OpenTo(q) => ~q.refused,
           at = "edge" /\ status = 401 => ~Edg!Verify(q.token),
           StatusFits(q, status)
    PROVE  /\ call' \in [Calls -> EdgeRequests] /\ RequestsFit'
           /\ answers' \in Seq(EdgeAnswers) /\ Len(answers') <= MaxCalls /\ AnswersFit'
<1>1. PICK v \in BOOLEAN : v = Edg!Verify(q.token)
  BY DEF Edg!Verify
<1>2. PICK st \in Nat : st = IF q.written THEN 400 ELSE status
  OBVIOUS
<1>3. PICK a : a = [status |-> st, at |-> at, call |-> q, verified |-> v]
  OBVIOUS
<1>4. answers' = Append(answers, a) /\ call' = [call EXCEPT ![c] = Edg!NoCall]
  BY <1>1, <1>2, <1>3 DEF Edg!Answer
<1>5. a \in EdgeAnswers /\ AnswerFits(a)
  <2>1. a \in EdgeAnswers
    BY <1>3 DEF EdgeAnswers
  <2>2. st = 401 => status = 401
    BY <1>2
  <2>3. StatusFits(q, st)
    <3>1. q.written \/ st = status
      BY <1>2
    <3> QED
      BY <3>1, Zenon DEF StatusFits
  <2> QED
    BY <1>1, <1>3, <2>1, <2>2, <2>3 DEF AnswerFits
<1>6. answers \in Seq(EdgeAnswers) /\ Len(answers) < MaxCalls /\ MaxCalls \in Nat /\ call \in [Calls -> EdgeRequests]
  BY StorefrontBounds DEF EdgeTypeInv
<1>7. answers' \in Seq(EdgeAnswers) /\ Len(answers') = Len(answers) + 1
  BY <1>4, <1>5, <1>6
<1>8. \A i \in 1..Len(answers') : answers'[i] = IF i <= Len(answers) THEN answers[i] ELSE a
  BY <1>4, <1>5, <1>6
<1>9. AnswersFit'
  <2> SUFFICES ASSUME NEW i \in 1..Len(answers') PROVE AnswerFits(answers'[i])
    BY DEF AnswersFit
  <2>1. CASE i <= Len(answers)
    BY <1>6, <1>7, <1>8, <2>1 DEF AnswersFit
  <2>2. CASE ~(i <= Len(answers))
    BY <1>5, <1>8, <2>2
  <2> QED
    BY <2>1, <2>2
<1>10. call' \in [Calls -> EdgeRequests] /\ RequestsFit'
  BY <1>4, <1>6, NoCallFits DEF RequestsFit
<1> QED
  BY <1>6, <1>7, <1>9, <1>10

(* What a request's step may do to it.                                     *)
RequestStep ==
    /\ call' \in [Calls -> EdgeRequests] /\ RequestsFit'
    /\ answers' \in Seq(EdgeAnswers) /\ Len(answers') <= MaxCalls /\ AnswersFit'

(* A request starts, whoever makes it.                                     *)
LEMMA StartStep ==
    ASSUME EdgeInv, NEW c \in Calls, NEW r \in EdgeRoutes, NEW t \in EdgeTokens, NEW bad \in BOOLEAN, NEW pc \in {"edge", "service"},
           pc = "service" => Len(r.calls) = 1, Edg!Start(c, r, t, bad, pc)
    PROVE  RequestStep /\ UNCHANGED <<now, key, jwks, cookies, signedOut>>
<1>1. PICK q : q = [Edg!NoCall EXCEPT !.pc = pc, !.route = r, !.token = t, !.bad = bad]
  OBVIOUS
<1>2. q \in EdgeRequests
  BY <1>1, NoCallFits DEF EdgeRequests
<1>3. RequestFits(q)
  <2>1. /\ q.kind = "" /\ q.refused = FALSE /\ q.next = 1 /\ q.served = {} /\ q.pc = pc /\ q.route = r
    BY <1>1, NoCallFits DEF EdgeRequests, Edg!NoCall
  <2>2. q.pc = "service" => q.next <= Len(q.route.calls)
    <3>1. ASSUME pc = "service" PROVE q.next <= Len(q.route.calls)
      <4>1. Len(q.route.calls) = 1 /\ q.next = 1
        BY <2>1, <3>1
      <4> QED
        BY <4>1
    <3> QED
      BY <2>1, <3>1
  <2> QED
    BY <2>1, <2>2 DEF RequestFits
<1>4. call' = [call EXCEPT ![c] = q] /\ answers' = answers
  BY <1>1 DEF Edg!Start
<1> QED
  BY <1>2, <1>3, <1>4, RequestGoesOn DEF EdgeInv, RequestStep, Edg!Start

(* The check at the ingress: a token it turns away with 401 is none or so  *)
(* long out of date that no service would take it.                         *)
LEMMA EdgeCheckStep ==
    ASSUME EdgeInv, Len(answers) < MaxCalls, NEW c \in Calls, Edg!EdgeCheck(c)
    PROVE  RequestStep /\ UNCHANGED <<now, key, jwks, cookies, signedOut>>
<1>1. PICK q : q = call[c]
  OBVIOUS
<1>2. q \in EdgeRequests /\ RequestFits(q) /\ jwks \subseteq 1..MaxKeys
  BY <1>1 DEF EdgeInv, EdgeTypeInv, RequestsFit
<1>8. now \in Nat /\ q.token \in EdgeTokens
  <2>1. now \in Nat
    BY StorefrontBounds DEF EdgeInv, EdgeTypeInv
  <2> QED
    BY <1>2, <2>1 DEF EdgeRequests
<1>3. PICK status : status = Edg!Check(q.route, q.token)
  OBVIOUS
<1>4. status \in Nat
  BY <1>3 DEF Edg!Check
<1>5. status = 401 => ~Edg!Verify(q.token)
  <2>1. status = 401 => q.token = Edg!NoToken \/ ~Edg!ParseInsecure(q.token)
    BY <1>3 DEF Edg!Check
  <2>2. q.token = Edg!NoToken => q.token.key \notin jwks
    <3>1. Edg!NoToken.key = 0 /\ 0 \notin jwks
      BY <1>2, StorefrontBounds DEF Edg!NoToken
    <3> QED
      BY <3>1
  <2>3. q.token.exp \in Nat
    BY <1>8 DEF EdgeTokens
  <2> QED
    BY <1>8, <2>1, <2>2, <2>3 DEF Edg!ParseInsecure, Edg!Verify, Edg!EdgeLeeway, Edg!ServiceLeeway
<1>6. CASE status = 200
  <2>1. PICK p : p = [q EXCEPT !.pc = "bff"]
    OBVIOUS
  <2>4. q.pc = "edge"
    BY <1>1 DEF Edg!EdgeCheck
  <2>5. p \in EdgeRequests
    BY <1>2, <2>1 DEF EdgeRequests
  <2>6. /\ p.pc = "bff" /\ p.next = q.next /\ p.kind = q.kind /\ p.refused = q.refused
        /\ p.served = q.served /\ p.token = q.token
    BY <1>2, <2>1 DEF EdgeRequests
  <2>2. p \in EdgeRequests /\ RequestFits(p)
    BY <1>2, <2>4, <2>5, <2>6 DEF RequestFits
  <2>3. call' = [call EXCEPT ![c] = p] /\ answers' = answers
    BY <1>1, <1>3, <1>6, <2>1 DEF Edg!EdgeCheck
  <2> QED
    BY <2>2, <2>3, RequestGoesOn DEF EdgeInv, RequestStep, Edg!EdgeCheck
<1>7. CASE status # 200
  <2>1. Edg!Answer(c, q, status, "edge")
    BY <1>1, <1>3, <1>7 DEF Edg!EdgeCheck
  <2>2. q.kind = "" /\ q.refused = FALSE /\ \A x \in q.served : ActsFor(x, q.token)
    BY <1>2 DEF RequestFits
  <2>3. StatusFits(q, status)
    BY <2>2, Zenon DEF StatusFits
  <2> QED
    BY <1>2, <1>4, <1>5, <2>1, <2>2, <2>3, RequestAnswered DEF EdgeInv, RequestStep, Edg!EdgeCheck
<1> QED
  BY <1>6, <1>7

(* The BFF answers a request whose error is not a handler's.               *)
LEMMA AnsweredAtBff ==
    ASSUME EdgeInv, Len(answers) < MaxCalls, NEW c \in Calls, NEW status \in Nat, Edg!Answer(c, call[c], status, "bff")
    PROVE  RequestStep
<1>1. PICK q : q = call[c]
  OBVIOUS
<1>2. q \in EdgeRequests /\ RequestFits(q) /\ Edg!Answer(c, q, status, "bff")
  BY <1>1 DEF EdgeInv, EdgeTypeInv, RequestsFit
<1>3. q.kind = "" /\ q.refused = FALSE /\ \A x \in q.served : ActsFor(x, q.token)
  BY <1>2 DEF RequestFits
<1>4. StatusFits(q, status)
  BY <1>3, Zenon DEF StatusFits
<1> QED
  BY <1>2, <1>3, <1>4, RequestAnswered DEF EdgeInv, RequestStep

(* The BFF answers a request or passes it on to its first call.            *)
LEMMA ForwardStep ==
    ASSUME EdgeInv, Len(answers) < MaxCalls, NEW c \in Calls, Edg!Forward(c)
    PROVE  RequestStep /\ UNCHANGED <<now, key, jwks, cookies, signedOut>>
<1>1. PICK q : q = call[c]
  OBVIOUS
<1>2. q \in EdgeRequests /\ RequestFits(q) /\ q.route \in EdgeRoutes
  BY <1>1 DEF EdgeInv, EdgeTypeInv, RequestsFit, EdgeRequests
<1>3. \/ \E status \in {400, 401, 202, 503} : Edg!Answer(c, q, status, "bff")
      \/ /\ q.pc = "bff" /\ q.route.calls # <<>> /\ answers' = answers
         /\ call' = [call EXCEPT ![c].pc = "service", ![c].written = q.bad]
  BY <1>1 DEF Edg!Forward
<1>4. CASE \E status \in {400, 401, 202, 503} : Edg!Answer(c, q, status, "bff")
  <2>1. PICK status \in {400, 401, 202, 503} : Edg!Answer(c, call[c], status, "bff")
    BY <1>1, <1>4
  <2>2. RequestStep
    BY <2>1, AnsweredAtBff
  <2> QED
    BY <2>2 DEF Edg!Forward
<1>5. CASE /\ q.pc = "bff" /\ q.route.calls # <<>> /\ answers' = answers
           /\ call' = [call EXCEPT ![c].pc = "service", ![c].written = q.bad]
  <2>1. PICK p : p = [q EXCEPT !.pc = "service", !.written = q.bad]
    OBVIOUS
  <2>2. p \in EdgeRequests
    BY <1>2, <2>1 DEF EdgeRequests
  <2>3. 1 <= Len(q.route.calls)
    <3>1. q.route.calls \in Seq(EdgeRPCs)
      BY <1>2, RoutesFit DEF RouteFits
    <3> QED
      BY <1>5, <3>1
  <2>4. p.next = 1 /\ p.route = q.route /\ p.served = q.served /\ p.token = q.token /\ p.kind = "" /\ p.refused = FALSE
    BY <1>2, <1>5, <2>1 DEF RequestFits, EdgeRequests
  <2>5. RequestFits(p)
    BY <1>2, <2>3, <2>4 DEF RequestFits
  <2>6. call' = [call EXCEPT ![c] = p]
    BY <1>1, <1>5, <2>1 DEF EdgeInv, EdgeTypeInv
  <2>7. RequestStep
    BY <1>5, <2>2, <2>5, <2>6, RequestGoesOn DEF EdgeInv, RequestStep
  <2> QED
    BY <2>7 DEF Edg!Forward
<1> QED
  BY <1>3, <1>4, <1>5

(* The two translations of a kind, to a gRPC code and on to HTTP, and to   *)
(* HTTP directly, agree.                                                   *)
LEMMA StatusesAgree ==
    ASSUME NEW k \in Edg!Kinds PROVE Edg!HttpForCode(Edg!GRPCCode(k)) = Edg!HTTPStatus(k) /\ Edg!HTTPStatus(k) \in Nat
<1>1. k # "Conflict" => Edg!GRPCCode(k) = k
  BY DEF Edg!GRPCCode
<1>2. Edg!GRPCCode("Conflict") = "Aborted"
  BY DEF Edg!GRPCCode
<1>3. Edg!HttpForCode("Aborted") = 409 /\ Edg!HTTPStatus("Conflict") = 409
  BY DEF Edg!HttpForCode, Edg!HTTPStatus
<1>4. k # "Conflict" => Edg!HttpForCode(k) = Edg!HTTPStatus(k)
  BY DEF Edg!HttpForCode, Edg!HTTPStatus, Edg!Kinds
<1>5. Edg!HTTPStatus(k) \in Nat
  BY DEF Edg!HTTPStatus
<1> QED
  BY <1>1, <1>2, <1>3, <1>4, <1>5

(* The request goes on to its next call, or is answered after the last.    *)
LEMMA GoOnStep ==
    ASSUME EdgeInv, Len(answers) < MaxCalls, NEW c \in Calls, NEW q \in EdgeRequests, RequestFits(q), q.pc = "service",
           Edg!GoOn(c, q)
    PROVE  RequestStep
<1>1. q.next <= Len(q.route.calls) /\ q.kind = "" /\ q.refused = FALSE /\ \A x \in q.served : ActsFor(x, q.token)
  BY DEF RequestFits
<1>2. Len(q.route.calls) <= 3 /\ Len(q.route.calls) \in Nat
  <2>1. q.route \in EdgeRoutes
    BY DEF EdgeRequests
  <2>2. q.route.calls \in Seq(EdgeRPCs) /\ Len(q.route.calls) <= 3
    BY <2>1, RoutesFit DEF RouteFits
  <2> QED
    BY <2>2
<1>3. CASE q.next = Len(q.route.calls)
  <2>1. Edg!Answer(c, q, 200, "handler")
    BY <1>3 DEF Edg!GoOn
  <2>2. StatusFits(q, 200)
    BY <1>1, Zenon DEF StatusFits
  <2> QED
    BY <1>1, <2>1, <2>2, RequestAnswered DEF EdgeInv, RequestStep
<1>4. CASE q.next # Len(q.route.calls)
  <2>1. q.next \in 1..3
    BY DEF EdgeRequests
  <2>2. PICK p : p = [q EXCEPT !.next = q.next + 1]
    OBVIOUS
  <2>3. q.next + 1 \in 1..3 /\ q.next + 1 <= Len(q.route.calls)
    <3>1. ASSUME NEW l \in Nat, l <= 3, NEW n \in 1..3, n <= l, n # l PROVE n + 1 \in 1..3 /\ n + 1 <= l
      BY <3>1
    <3> QED
      BY <1>1, <1>2, <1>4, <2>1, <3>1
  <2>4. p \in EdgeRequests
    BY <2>2, <2>3 DEF EdgeRequests
  <2>5. /\ p.pc = q.pc /\ p.next = q.next + 1 /\ p.kind = q.kind /\ p.refused = q.refused
        /\ p.served = q.served /\ p.token = q.token /\ p.route = q.route
    BY <2>2 DEF EdgeRequests
  <2>6. RequestFits(p)
    BY <1>1, <2>3, <2>5 DEF RequestFits
  <2>7. call' = [call EXCEPT ![c] = p] /\ answers' = answers
    BY <1>4, <2>2 DEF Edg!GoOn
  <2> QED
    BY <2>4, <2>6, <2>7, RequestGoesOn DEF EdgeInv, RequestStep
<1> QED
  BY <1>3, <1>4

(* A service turns the request away, its handler fails, or the request     *)
(* goes on.                                                                *)
LEMMA ServeStep ==
    ASSUME EdgeInv, Len(answers) < MaxCalls, NEW c \in Calls, Edg!Serve(c)
    PROVE  RequestStep /\ UNCHANGED <<now, key, jwks, cookies, signedOut>>
<1>1. PICK q : q = call[c]
  OBVIOUS
<1>2. q \in EdgeRequests /\ RequestFits(q) /\ q.pc = "service"
  BY <1>1 DEF EdgeInv, EdgeTypeInv, RequestsFit, Edg!Serve
<1>3. PICK rpc : rpc = q.route.calls[q.next]
  OBVIOUS
<1>4. PICK who : who = Edg!AuthUnary(rpc, q.token)
  OBVIOUS
<1>5. q.next <= Len(q.route.calls) /\ q.kind = "" /\ q.refused = FALSE /\ \A x \in q.served : ActsFor(x, q.token)
  BY <1>2 DEF RequestFits
<1>6. /\ q.next \in 1..Len(q.route.calls) /\ q.route \in EdgeRoutes /\ q.token \in EdgeTokens /\ rpc \in EdgeRPCs
      /\ RouteFits(q.route)
  <2>1. q.route \in EdgeRoutes /\ q.next \in 1..3 /\ q.token \in EdgeTokens
    BY <1>2 DEF EdgeRequests
  <2>2. RouteFits(q.route) /\ q.route.calls \in Seq(EdgeRPCs)
    BY <2>1, RoutesFit DEF RouteFits
  <2>3. q.next \in 1..Len(q.route.calls)
    <3>1. Len(q.route.calls) \in Nat
      BY <2>2
    <3>2. ASSUME NEW l \in Nat, NEW n \in 1..3, n <= l PROVE n \in 1..l
      BY <3>2
    <3> QED
      BY <1>5, <2>1, <3>1, <3>2
  <2> QED
    BY <1>3, <2>1, <2>2, <2>3
<1>7. \/ ~who.ok /\ ~rpc.soft /\ Edg!Fail(c, "Unauthenticated", TRUE)
      \/ \E k \in Edg!HandlerKinds(rpc, who) : Edg!Fail(c, k, FALSE)
      \/ Edg!GoOn(c, q)
      \/ /\ who.ok /\ (rpc.role # {} => Edg!RequireAnyRole(who.p, rpc.role))
         /\ Edg!GoOn(c, [q EXCEPT !.served = q.served \cup {[rpc |-> rpc, at |-> now]}])
  BY <1>1, <1>3, <1>4 DEF Edg!Serve
<1>8. ASSUME NEW k \in Edg!Kinds, NEW refused \in BOOLEAN, Edg!Fail(c, k, refused), OpenTo(q) => ~refused PROVE RequestStep
  <2>1. PICK p : p = [q EXCEPT !.kind = k, !.refused = refused]
    OBVIOUS
  <2>2. p \in EdgeRequests
    BY <1>2, <1>8, <2>1 DEF EdgeRequests
  <2>3. /\ p.kind = k /\ p.refused = refused /\ p.served = q.served /\ p.token = q.token /\ p.route = q.route
    BY <1>2, <2>1 DEF EdgeRequests
  <2>4. PICK status \in Nat : status = Edg!HTTPStatus(k) /\ Edg!HttpForCode(Edg!GRPCCode(k)) = status
    BY StatusesAgree, Zenon
  <2>5. Edg!Answer(c, p, status, "handler")
    BY <1>1, <1>8, <2>1, <2>4 DEF Edg!Fail
  <2>6. StatusFits(p, status)
    BY <2>3, <2>4, Zenon DEF StatusFits
  <2>7. OpenTo(p) => ~p.refused
    BY <1>8, <2>3 DEF OpenTo
  <2> QED
    BY <1>5, <2>2, <2>3, <2>5, <2>6, <2>7, RequestAnswered DEF EdgeInv, RequestStep
<1>9. ASSUME ~who.ok, ~rpc.soft, Edg!Fail(c, "Unauthenticated", TRUE) PROVE RequestStep
  <2>1. "Unauthenticated" \in Edg!Kinds
    BY DEF Edg!Kinds
  <2>2. OpenTo(q) => rpc.auth \in {"skip", "optional"}
    <3>1. ASSUME q.route.edge = "public" PROVE OpenRPC(rpc)
      BY <1>3, <1>6, <3>1 DEF RouteFits
    <3>2. ASSUME NEW b \in Edg!BackgroundCalls, q.route = Edg!Direct(b) PROVE OpenRPC(rpc)
      <4>1. q.route.calls = <<b>> /\ OpenRPC(b)
        BY <3>2, RoutesFit
      <4>2. q.next = 1
        BY <1>6, <4>1
      <4>3. rpc = b
        BY <1>3, <4>1, <4>2
      <4> QED
        BY <4>1, <4>3
    <3> QED
      BY <1>9, <3>1, <3>2 DEF OpenTo, OpenRPC
  <2>3. q.token = Edg!NoToken /\ rpc.auth \in {"skip", "optional"} => who.ok
    BY <1>4 DEF Edg!AuthUnary
  <2>4. ~OpenTo(q)
    BY <1>9, <2>2, <2>3 DEF OpenTo
  <2> QED
    BY <1>8, <1>9, <2>1, <2>4
<1>10. ASSUME NEW k \in Edg!HandlerKinds(rpc, who), Edg!Fail(c, k, FALSE) PROVE RequestStep
  <2>1. k \in Edg!Kinds
    BY <1>10 DEF Edg!HandlerKinds, Edg!Kinds
  <2> QED
    BY <1>8, <1>10, <2>1
<1>11. ASSUME who.ok, rpc.role # {} => Edg!RequireAnyRole(who.p, rpc.role),
              Edg!GoOn(c, [q EXCEPT !.served = q.served \cup {[rpc |-> rpc, at |-> now]}])
       PROVE RequestStep
  <2>1. PICK x : x = [rpc |-> rpc, at |-> now]
    OBVIOUS
  <2>2. PICK p : p = [q EXCEPT !.served = q.served \cup {x}]
    OBVIOUS
  <2>3. now \in Nat /\ MaxKeys \in Nat /\ jwks \subseteq 1..MaxKeys
    BY StorefrontBounds DEF EdgeInv, EdgeTypeInv
  <2>4. x \in [rpc : EdgeRPCs, at : Nat] /\ x.rpc = rpc /\ x.at = now
    BY <1>6, <2>1, <2>3
  <2>5. p \in EdgeRequests
    BY <1>2, <2>2, <2>4 DEF EdgeRequests
  <2>6. /\ p.pc = q.pc /\ p.next = q.next /\ p.kind = q.kind /\ p.refused = q.refused
        /\ p.served = q.served \cup {x} /\ p.token = q.token /\ p.route = q.route
    BY <1>2, <2>2 DEF EdgeRequests
  <2>7. ActsFor(x, q.token)
    <3>1. rpc.auth = "required" \/ (rpc.auth = "optional" /\ q.token # Edg!NoToken) =>
            q.token # Edg!NoToken /\ Edg!Verify(q.token)
      BY <1>4, <1>11 DEF Edg!AuthUnary
    <3>2. Edg!Verify(q.token) => q.token.key # 0 /\ now - Edg!ServiceLeeway < q.token.exp
      BY <2>3 DEF Edg!Verify
    <3>3. rpc.role # {} => HasAnyRole(q.token.sub, rpc.role)
      <4>1. who.p = "" \/ who.p = q.token.sub
        BY <1>4 DEF Edg!AuthUnary
      <4>2. rpc.role # {} => who.p \in Principals /\ HasAnyRole(who.p, rpc.role)
        BY <1>11 DEF Edg!RequireAnyRole, Edg!HasAnyRole, HasAnyRole
      <4> QED
        BY <4>1, <4>2, StorefrontNames
    <3> QED
      BY <2>4, <3>1, <3>2, <3>3 DEF ActsFor
  <2>8. RequestFits(p)
    BY <1>2, <1>5, <2>6, <2>7 DEF RequestFits
  <2>9. Edg!GoOn(c, p)
    BY <1>11, <2>1, <2>2
  <2> QED
    BY <1>2, <2>5, <2>6, <2>8, <2>9, GoOnStep
<1>12. Edg!GoOn(c, q) => RequestStep
  BY <1>2, GoOnStep
<1> QED
  BY <1>7, <1>9, <1>10, <1>11, <1>12 DEF Edg!Serve

(* What the client keeps, through time, logins and logouts.                *)
LEMMA LogoutStep ==
    ASSUME EdgeInv, Len(answers) < MaxCalls, NEW c \in Calls, Edg!Logout(c)
    PROVE  EdgeInv'
<1>1. RequestStep
  BY AnsweredAtBff DEF Edg!Logout
<1>2. /\ UNCHANGED <<now, key, jwks>> /\ signedOut' = TRUE
      /\ cookies' = [k \in Edg!ClearCookies(DOMAIN cookies) |-> cookies[k]]
  BY DEF Edg!Logout
<1>3. Edg!ClearCookies(DOMAIN cookies) = {}
  BY DEF EdgeInv, EdgeTypeInv, CookieNames, Edg!ClearCookies
<1>4. DOMAIN cookies' = {}
  BY <1>2, <1>3
<1>5. EdgeTypeInv'
  BY <1>1, <1>2, <1>4 DEF EdgeInv, EdgeTypeInv, RequestStep
<1> QED
  BY <1>1, <1>4, <1>5 DEF EdgeInv, RequestStep, Edg!LogoutForgets

(* A token is one of those a client may present.                           *)
LEMMA TokensTyped ==
    ASSUME EdgeInv
    PROVE  Edg!Bearer \in EdgeTokens /\ \A t \in OtherTokens \cup {Edg!NoToken} : t \in EdgeTokens
<1>1. Edg!Bearer \in EdgeTokens
  BY NoCallFits DEF EdgeInv, EdgeTypeInv, Edg!Bearer
<1>2. ASSUME NEW t \in OtherTokens PROVE t \in EdgeTokens
  <2>1. PICK p \in Principals, k \in {0, 1} : t = [sub |-> p, exp |-> 0, key |-> k]
    BY DEF OtherTokens
  <2>2. k \in Nat /\ p \in Principals \cup {""}
    <3>1. k = 0 \/ k = 1
      OBVIOUS
    <3>2. k \in Nat
      BY <3>1
    <3> QED
      BY <3>2, Zenon
  <2>3. ASSUME NEW u \in Principals \cup {""}, NEW n \in Nat PROVE [sub |-> u, exp |-> 0, key |-> n] \in EdgeTokens
    BY DEF EdgeTokens
  <2> QED
    BY <2>1, <2>2, <2>3
<1> QED
  BY <1>1, <1>2, NoCallFits

(* Every step of the edge keeps the invariant.                             *)
LEMMA EdgeInvStep == EdgeInv /\ [Next]_vars => EdgeInv'
<1> SUFFICES ASSUME EdgeInv, [Next]_vars PROVE EdgeInv'
  OBVIOUS
<1>1. ASSUME RequestStep, UNCHANGED <<now, key, jwks, cookies, signedOut>> PROVE EdgeInv'
  BY <1>1 DEF EdgeInv, EdgeTypeInv, RequestStep, Edg!LogoutForgets
<1>2. ASSUME UNCHANGED <<call, answers>>, now' \in 0..MaxNow, key' \in 1..MaxKeys, jwks' \subseteq 1..MaxKeys, signedOut' \in BOOLEAN,
             DOMAIN cookies' \subseteq CookieNames, \A k \in DOMAIN cookies' : cookies'[k] \in EdgeTokens,
             signedOut' => DOMAIN cookies' = {}
      PROVE EdgeInv'
  BY <1>2 DEF EdgeInv, EdgeTypeInv, RequestsFit, AnswersFit, Edg!LogoutForgets
<1>3. CASE Edg!TimeGoesOn
  <2>1. now' \in 0..MaxNow
    BY <1>3, StorefrontBounds DEF EdgeInv, EdgeTypeInv, Edg!TimeGoesOn
  <2>2. PICK ks \in SUBSET DOMAIN cookies : cookies' = [k \in ks |-> cookies[k]]
    BY <1>3 DEF Edg!TimeGoesOn
  <2>3. DOMAIN cookies' = ks /\ \A k \in ks : cookies'[k] = cookies[k]
    BY <2>2
  <2>4. UNCHANGED <<key, jwks, call, answers, signedOut>>
    BY <1>3 DEF Edg!TimeGoesOn
  <2> QED
    BY <1>2, <2>1, <2>3, <2>4 DEF EdgeInv, EdgeTypeInv, Edg!LogoutForgets
<1>4. CASE Edg!RotateKey
  BY <1>2, <1>4, StorefrontBounds DEF EdgeInv, EdgeTypeInv, Edg!RotateKey, Edg!LogoutForgets
<1>5. CASE Edg!RefreshJWKS
  <2>1. 1..key \subseteq 1..MaxKeys
    BY StorefrontBounds DEF EdgeInv, EdgeTypeInv
  <2> QED
    BY <1>2, <1>5, <2>1 DEF EdgeInv, EdgeTypeInv, Edg!RefreshJWKS, Edg!LogoutForgets
<1>6. ASSUME NEW p \in Principals, Edg!Login(p) PROVE EdgeInv'
  <2>1. PICK t : t = [sub |-> p, exp |-> now + Life, key |-> key]
    OBVIOUS
  <2>2. t \in EdgeTokens
    <3>1. now + Life \in Nat /\ key \in Nat
      BY StorefrontBounds DEF EdgeInv, EdgeTypeInv
    <3> QED
      BY <2>1, <3>1 DEF EdgeTokens
  <2>3. cookies' = [k \in CookieNames |-> t] /\ signedOut' = FALSE /\ UNCHANGED <<now, key, jwks, call, answers>>
    BY <1>6, <2>1 DEF Edg!Login, CookieNames
  <2>4. DOMAIN cookies' = CookieNames /\ \A k \in CookieNames : cookies'[k] = t
    BY <2>3
  <2> QED
    BY <1>2, <2>2, <2>3, <2>4 DEF EdgeInv, EdgeTypeInv
<1>7. ASSUME NEW c \in Calls, NEW r \in Edg!Router, NEW t \in EdgeTokens, NEW bad \in BOOLEAN, Edg!Send(c, r, t, bad) PROVE EdgeInv'
  <2>1. r \in EdgeRoutes /\ Edg!Start(c, r, t, bad, "edge")
    BY <1>7 DEF EdgeRoutes, Edg!Send
  <2> QED
    BY <1>1, <2>1, StartStep
<1>8. ASSUME NEW c \in Calls, NEW rpc \in Edg!AllRPCs, NEW t \in EdgeTokens, Edg!DialService(c, rpc, t) PROVE EdgeInv'
  <2>1. Edg!Direct(rpc) \in EdgeRoutes /\ Edg!Start(c, Edg!Direct(rpc), t, FALSE, "service")
    BY <1>8 DEF EdgeRoutes, Edg!DialService
  <2>2. Edg!Direct(rpc).calls = <<rpc>>
    BY RoutesFit
  <2>3. Len(Edg!Direct(rpc).calls) = 1
    BY <2>2
  <2> QED
    BY <1>1, <2>1, <2>3, StartStep
<1>9. ASSUME EdgeStep PROVE EdgeInv'
  <2>1. Len(answers) < MaxCalls
    BY <1>9 DEF EdgeStep
  <2>2. /\ Edg!Bearer \in EdgeTokens /\ \A t \in OtherTokens : t \in EdgeTokens
        /\ \A t \in OtherTokens \cup {Edg!NoToken} : t \in EdgeTokens
    BY TokensTyped
  <2>3. \A p \in {x \in Visitors : RolesOf[x] = {}} : p \in Principals
    BY StorefrontConstants
  <2>4. \/ Edg!TimeGoesOn \/ Edg!RotateKey \/ Edg!RefreshJWKS
        \/ \E p \in Principals : Edg!Login(p)
        \/ \E c \in Calls, r \in Edg!Router, t \in EdgeTokens, bad \in BOOLEAN : Edg!Send(c, r, t, bad)
        \/ \E c \in Calls, rpc \in Edg!AllRPCs, t \in EdgeTokens : Edg!DialService(c, rpc, t)
        \/ \E c \in Calls : Edg!EdgeCheck(c) \/ Edg!Forward(c) \/ Edg!Logout(c) \/ Edg!Serve(c)
    BY <1>9, <2>2, <2>3, Zenon DEF EdgeStep
  <2>5. ASSUME NEW c \in Calls, Edg!EdgeCheck(c) \/ Edg!Forward(c) \/ Edg!Serve(c) PROVE EdgeInv'
    BY <1>1, <2>1, <2>5, EdgeCheckStep, ForwardStep, ServeStep
  <2>6. ASSUME NEW c \in Calls, Edg!Logout(c) PROVE EdgeInv'
    BY <2>1, <2>6, LogoutStep
  <2> QED
    BY <1>3, <1>4, <1>5, <1>6, <1>7, <1>8, <2>4, <2>5, <2>6
<1>10. CASE UNCHANGED edgeVars
  BY <1>10 DEF edgeVars, EdgeInv, EdgeTypeInv, RequestsFit, AnswersFit, Edg!LogoutForgets
<1> QED
  BY <1>9, <1>10, EdgeFrame

(* A call is answered by whoever may answer it, with the status its error  *)
(* has, for any number of requests, keys and tokens (ext-authz, authUnary, *)
(* ClearCookies, FromGRPC).                                                *)
THEOREM CallsAnsweredRight == Spec => []CallsRight
<1>1. EdgeInv => CallsRight
  <2> SUFFICES ASSUME EdgeInv PROVE CallsRight
    OBVIOUS
  <2>1. Edg!EdgeTypeOK
    <3>1. \A c \in Calls : call[c].pc \in {"idle", "edge", "bff", "service"} /\ call[c].kind \in Edg!Kinds \cup {""}
                           /\ call[c].next \in 1..3
      BY DEF EdgeInv, EdgeTypeInv, EdgeRequests
    <3> QED
      BY <3>1 DEF EdgeInv, EdgeTypeInv, CookieNames, Edg!EdgeTypeOK
  <2>2. ASSUME NEW i \in 1..Len(answers) PROVE AnswerFits(answers[i])
    BY DEF EdgeInv, AnswersFit
  <2>3. Edg!ActsForVerified
    BY <2>2 DEF AnswerFits, ActsFor, Edg!ActsForVerified, HasAnyRole, Edg!HasAnyRole
  <2>4. Edg!PublicIsOpen
    BY <2>2 DEF AnswerFits, OpenTo, Edg!PublicIsOpen
  <2>5. Edg!EdgeNotStricter
    BY <2>2 DEF AnswerFits, Edg!EdgeNotStricter
  <2>6. Edg!StatusTellsKind
    BY <2>2, Zenon DEF AnswerFits, StatusFits, Edg!StatusTellsKind
  <2> QED
    BY <2>1, <2>3, <2>4, <2>5, <2>6 DEF EdgeInv, CallsRight
<1> QED
  BY <1>1, EdgeStart, EdgeInvStep, PTL DEF Spec

-----------------------------------------------------------------------------
(* The paged listings.                                                     *)

ListRows == [id : RowIDs, at : 0..MaxClock, owner : Subjects, status : Lis!RowStatus]
WalkFields == {"pc", "list", "by", "owner", "status", "limit", "cursor", "seen", "must", "cuts", "calm"}

(* Times and ids are numbers.                                              *)
LEMMA RowIs == ASSUME NEW r \in ListRows PROVE r.id \in RowIDs /\ r.id \in Nat /\ r.at \in Nat
<1>1. RowIDs \subseteq Nat
  BY StorefrontLists
<1>2. MaxClock \in Nat
  BY StorefrontLists
<1>3. r.id \in RowIDs /\ r.at \in 0..MaxClock
  BY DEF ListRows
<1>4. r.at \in Nat
  BY <1>2, <1>3
<1> QED
  BY <1>1, <1>3, <1>4

(* A sequence without repetitions of the elements of a finite set.         *)
LEMMA SeqOfSet ==
    ASSUME NEW S, IsFiniteSet(S)
    PROVE  /\ Lis!SetToSeq(S) \in Seq(S) /\ Lis!IsInjective(Lis!SetToSeq(S))
           /\ \A x : x \in S <=> \E i \in 1..Len(Lis!SetToSeq(S)) : Lis!SetToSeq(S)[i] = x
<1> DEFINE n == Cardinality(S)
<1>1. n \in Nat /\ ExistsBijection(1..n, S)
  BY FS_CardinalityType
<1>2. PICK f \in Bijection(1..n, S) : TRUE
  BY <1>1 DEF ExistsBijection
<1>3. f \in [1..n -> S] /\ Lis!IsInjective(f)
  BY <1>2 DEF Bijection, Injection, Lis!IsInjective, IsInjective
<1>4. Lis!SetToSeq(S) = CHOOSE g \in [1..n -> S] : Lis!IsInjective(g)
  BY DEF Lis!SetToSeq, Lis!Cardinality, Cardinality
<1> DEFINE g == Lis!SetToSeq(S)
<1>5. g \in [1..n -> S] /\ Lis!IsInjective(g)
  <2> HIDE DEF n
  <2> QED
    BY <1>3, <1>4
<1>6. g \in Injection(1..n, S)
  BY <1>5 DEF Injection, Lis!IsInjective, IsInjective
<1>7. IsFiniteSet(1..n) /\ Cardinality(1..n) = n
  BY <1>1, FS_Interval
<1>8. g \in Surjection(1..n, S)
  <2> HIDE DEF n, g
  <2> QED
    BY <1>6, <1>7, FS_Injection DEF n
<1>9. \A x \in S : \E i \in 1..n : g[i] = x
  BY <1>8 DEF Surjection
<1> HIDE DEF n
<1>10. Len(g) = n /\ g \in Seq(S)
  BY <1>1, <1>5
<1> QED
  BY <1>5, <1>9, <1>10

(* A walk that showed rows with these ids in a sequence has seen one more  *)
(* page.                                                                   *)
LEMMA SeenGrows ==
    ASSUME NEW s \in Seq(RowIDs), NEW S \in SUBSET RowIDs, IsFiniteSet(S), NEW t, t = s \o Lis!SetToSeq(S)
    PROVE  /\ t \in Seq(RowIDs)
           /\ \A x : (\E i \in 1..Len(t) : t[i] = x) <=> x \in S \/ \E i \in 1..Len(s) : s[i] = x
           /\ Lis!IsInjective(s) /\ (\A i \in 1..Len(s) : s[i] \notin S) => Lis!IsInjective(t)
<1> DEFINE q == Lis!SetToSeq(S)
<1>0. t = s \o q
  OBVIOUS
<1>1. /\ q \in Seq(S) /\ Lis!IsInjective(q)
      /\ \A x : x \in S <=> \E i \in 1..Len(q) : q[i] = x
  BY SeqOfSet
<1> HIDE DEF q
<1>2. /\ t \in Seq(RowIDs) /\ Len(t) = Len(s) + Len(q) /\ Len(s) \in Nat /\ Len(q) \in Nat
      /\ \A i \in 1..Len(s) : t[i] = s[i]
      /\ \A i \in 1..Len(t) : i > Len(s) => t[i] = q[i - Len(s)]
  BY <1>0, <1>1
<1>3. ASSUME NEW x PROVE (\E i \in 1..Len(t) : t[i] = x) <=> x \in S \/ \E i \in 1..Len(s) : s[i] = x
  <2>1. ASSUME NEW i \in 1..Len(t), t[i] = x PROVE x \in S \/ \E j \in 1..Len(s) : s[j] = x
    <3>1. CASE i <= Len(s)
      BY <1>2, <2>1, <3>1
    <3>2. CASE i > Len(s)
      <4>1. i - Len(s) \in 1..Len(q) /\ q[i - Len(s)] = x
        BY <1>2, <2>1, <3>2
      <4> QED
        BY <1>1, <4>1
    <3> QED
      BY <1>2, <3>1, <3>2
  <2>2. ASSUME x \in S PROVE \E i \in 1..Len(t) : t[i] = x
    <3>1. PICK j \in 1..Len(q) : q[j] = x
      BY <1>1, <2>2
    <3>2. j + Len(s) \in 1..Len(t) /\ t[j + Len(s)] = x
      BY <1>2, <3>1
    <3> QED
      BY <3>2
  <2>3. ASSUME NEW j \in 1..Len(s), s[j] = x PROVE \E i \in 1..Len(t) : t[i] = x
    BY <1>2, <2>3
  <2> QED
    BY <2>1, <2>2, <2>3
<1>4. ASSUME Lis!IsInjective(s), \A i \in 1..Len(s) : s[i] \notin S PROVE Lis!IsInjective(t)
  <2>1. \A i, j \in 1..Len(s) : s[i] = s[j] => i = j
    BY <1>4 DEF Lis!IsInjective
  <2>2. \A i, j \in 1..Len(q) : q[i] = q[j] => i = j
    BY <1>1 DEF Lis!IsInjective
  <2>3. \A j \in 1..Len(q) : q[j] \in S
    BY <1>1
  <2>4. ASSUME NEW i \in 1..Len(t), NEW j \in 1..Len(t), t[i] = t[j] PROVE i = j
    <3>1. CASE i <= Len(s) /\ j <= Len(s)
      BY <1>2, <2>1, <2>4, <3>1
    <3>2. CASE i > Len(s) /\ j > Len(s)
      <4>1. i - Len(s) \in 1..Len(q) /\ j - Len(s) \in 1..Len(q) /\ q[i - Len(s)] = q[j - Len(s)]
        BY <1>2, <2>4, <3>2
      <4> QED
        BY <1>2, <2>2, <4>1
    <3>3. CASE i <= Len(s) /\ j > Len(s)
      <4>1. i \in 1..Len(s) /\ t[i] = s[i] /\ j - Len(s) \in 1..Len(q) /\ t[j] = q[j - Len(s)]
        BY <1>2, <3>3
      <4> QED
        BY <1>4, <2>3, <2>4, <4>1
    <3>4. CASE i > Len(s) /\ j <= Len(s)
      <4>1. j \in 1..Len(s) /\ t[j] = s[j] /\ i - Len(s) \in 1..Len(q) /\ t[i] = q[i - Len(s)]
        BY <1>2, <3>4
      <4> QED
        BY <1>4, <2>3, <2>4, <4>1
    <3> QED
      BY <1>2, <3>1, <3>2, <3>3, <3>4
  <2>5. DOMAIN t = 1..Len(t)
    BY <1>2
  <2> QED
    BY <2>4, <2>5 DEF Lis!IsInjective
<1> QED
  BY <1>2, <1>3, <1>4 DEF q

(* A page: no row after the cursor was left out that comes before one that *)
(* is on it, and it is not empty if it is not the last one (FirstRows).    *)
LEMMA PageIs ==
    ASSUME NEW from, IsFiniteSet(from), NEW limit \in Nat, limit > 0, NEW byID \in BOOLEAN, NEW s \in Lis!FirstRows(from, limit, byID)
    PROVE  /\ s \subseteq from /\ \A r \in s, q \in from \ s : ~Lis!Before(q, r, byID)
           /\ s = {} => from = {}
<1> DEFINE k == IF Cardinality(from) < limit THEN Cardinality(from) ELSE limit
<1>1. s \in SUBSET from /\ Cardinality(s) = k /\ \A r \in s, q \in from \ s : ~Lis!Before(q, r, byID)
  BY DEF Lis!FirstRows, Lis!kSubset, Lis!Cardinality, Cardinality
<1>2. ASSUME s = {} PROVE from = {}
  <2>1. Cardinality(s) = 0 /\ Cardinality(from) \in Nat
    BY <1>2, FS_EmptySet, FS_CardinalityType
  <2>2. Cardinality(from) = 0
    BY <1>1, <2>1
  <2> QED
    BY <2>2, FS_EmptySet
<1> QED
  BY <1>1, <1>2

(* The last row of a page, by time or by time and id (LastRow).            *)
LEMMA LastRowIs ==
    ASSUME NEW s \in SUBSET ListRows, s # {}, NEW byID \in BOOLEAN
    PROVE  Lis!LastRow(s, byID) \in s /\ \A q \in s \ {Lis!LastRow(s, byID)} : ~Lis!Before(Lis!LastRow(s, byID), q, byID)
<1> DEFINE Times == {r.at : r \in s}
<1>1. \A r \in s : r.at \in Nat /\ r.id \in Nat
  BY RowIs
<1>2. PICK t \in Times : \A u \in Times : t <= u
  <2>1. Times \in SUBSET Nat /\ Times # {}
    BY <1>1
  <2> HIDE DEF Times
  <2> QED
    BY <2>1, SmallestOf
<1> DEFINE IDs == {r.id : r \in {q \in s : q.at = t}}
<1>3. PICK i \in IDs : \A j \in IDs : i <= j
  <2>1. IDs \in SUBSET Nat
    BY <1>1
  <2>2. IDs # {}
    BY <1>2
  <2> HIDE DEF IDs, Times
  <2> QED
    BY <2>1, <2>2, SmallestOf
<1>4. PICK r \in s : r.at = t /\ r.id = i
  BY <1>3
<1>5. ASSUME NEW q \in s PROVE r.at <= q.at /\ (r.at = q.at => r.id <= q.id)
  <2>1. q.at \in Times /\ (q.at = t => q.id \in IDs)
    OBVIOUS
  <2> HIDE DEF Times, IDs
  <2> QED
    BY <1>2, <1>3, <1>4, <2>1
<1>6. \A q \in s \ {r} : ~Lis!Before(r, q, byID)
  BY <1>1, <1>5 DEF Lis!Before
<1> QED
  BY <1>6 DEF Lis!LastRow

(* Fewer hits are before a hit than there are.                             *)
LEMMA RankIsBelow ==
    ASSUME NEW w, IsFiniteSet(rows), rows \subseteq ListRows, NEW r \in Lis!Filters(w.owner, w.status)
    PROVE  /\ Lis!Rank(r, w) \in Nat
           /\ Cardinality(Lis!Filters(w.owner, w.status)) \in Nat
           /\ Lis!Rank(r, w) < Cardinality(Lis!Filters(w.owner, w.status))
<1> DEFINE A == Lis!Filters(w.owner, w.status)
           B == {q \in A : Lis!Before(q, r, TRUE)}
<1>1. A \subseteq rows
  BY DEF Lis!Filters
<1>2. IsFiniteSet(A)
  <2> HIDE DEF A
  <2> QED
    BY <1>1, FS_Subset
<1>3. r \notin B
  <2>1. r.at \in Nat /\ r.id \in Nat
    BY <1>1, RowIs
  <2> QED
    BY <2>1 DEF Lis!Before
<1>4. Lis!Rank(r, w) = Cardinality(B)
  BY DEF Lis!Rank, Lis!Cardinality, Cardinality
<1>5. B \in SUBSET A /\ B # A
  BY <1>3
<1> HIDE DEF A, B
<1>6. Cardinality(A) \in Nat /\ IsFiniteSet(B) /\ Cardinality(B) <= Cardinality(A) /\ Cardinality(B) # Cardinality(A)
  BY <1>2, <1>5, FS_Subset, FS_CardinalityType
<1>7. Cardinality(B) \in Nat
  BY <1>6, FS_CardinalityType
<1> QED
  BY <1>4, <1>6, <1>7 DEF A

(* The rows a walk asks for, the ids it has seen, and the rows its cursor  *)
(* has gone past.                                                          *)
Wanted(r, w) == (w.owner # "" => r.owner = w.owner) /\ (w.status # "" => r.status = w.status)
Seen(w) == {w.seen[i] : i \in 1..Len(w.seen)}
Past(r, w) ==
    /\ w.cursor # <<>>
    /\ IF w.list = "products" THEN ~(r.at < w.cursor[1] \/ (r.at = w.cursor[1] /\ r.id < w.cursor[2]))
       ELSE r.at >= w.cursor[1]
OwnLists == {"orders", "returns", "shipments", "payouts", "notifications"}

WalkTyped(w) ==
    /\ DOMAIN w = WalkFields /\ w.pc \in {"idle", "paging", "done", "refused"} /\ w.list \in Lis!Lists \cup {""}
    /\ w.seen \in Seq(RowIDs) /\ w.limit \in Nat /\ w.calm \in BOOLEAN
    /\ w.cursor = <<>> \/ w.cursor \in Nat \X Nat \/ (w.list # "products" /\ \E n \in Nat : w.cursor = <<n>>)
    /\ w.pc = "paging" => w.limit > 0
ListTypeInv ==
    /\ rows \subseteq ListRows /\ \A r, q \in rows : r.id = q.id => r = q
    /\ clock \in 0..MaxClock /\ changes \in 0..MaxChanges /\ WalkTyped(walk)

(* What is to be seen, and what was, is in the table; a row to be seen is  *)
(* one the walk asks for, and one that was seen is of its owner, in a      *)
(* customer's own listings the customer.                                   *)
WalkKnown(w) ==
    /\ w.must \subseteq {r.id : r \in rows} /\ Seen(w) \subseteq {r.id : r \in rows}
    /\ \A r \in rows : r.id \in w.must => Wanted(r, w)
    /\ \A r \in rows : r.id \in Seen(w) => (w.owner # "" => r.owner = w.owner)
    /\ w.list \in OwnLists /\ RolesOf[w.by] = {} => w.owner = w.by /\ w.owner # ""

(* While it pages, a walk has seen only rows its cursor has gone past, and *)
(* of those it must see all but the ones a page has cut off; a search      *)
(* those before its offset, as long as nothing changes.                    *)
WalkPages(w) ==
    IF w.list = "search" THEN w.calm => \A r \in rows : Wanted(r, w) => (r.id \in Seen(w) <=> Lis!Rank(r, w) < Lis!From(w))
    ELSE \A r \in rows :
            /\ r.id \in Seen(w) => Past(r, w)
            /\ r.id \in w.must /\ Past(r, w) => r.id \in Seen(w) \/ (w.list \in Lis!TimeLists /\ r.at \in w.cuts)
(* One that has ended has seen all it must.                                *)
WalkEnded(w) ==
    \A r \in rows : r.id \in w.must => \/ r.id \in Seen(w) \/ (w.list \in Lis!TimeLists /\ r.at \in w.cuts)
                                       \/ (w.list = "search" /\ ~w.calm)

WalkFits(w) ==
    /\ WalkTyped(w) /\ WalkKnown(w)
    /\ (w.list = "search" /\ ~w.calm) \/ Lis!IsInjective(w.seen)
    /\ w.pc = "paging" => WalkPages(w)
    /\ w.pc = "done" => WalkEnded(w)
WalkInv == ListTypeInv /\ WalkFits(walk)

(* Only the listings touch rows and the walk.                              *)
LEMMA ListFrame == [Next]_vars => ListStep \/ UNCHANGED listVars
BY DEF Next, vars, frontVars, FgaStep, SellerStep, CatalogStep, IndexStep, StockStep, SearchStep, SharingStep,
       MediaStep, CartStep, CartExpires, PageStep, EdgeStep, AnalyticsStep, AnalyticsKeep

(* The table holds finitely many rows.                                     *)
LEMMA FinitelyManyRows == ASSUME ListTypeInv PROVE IsFiniteSet(rows)
<1> DEFINE f == [r \in rows |-> r.id]
<1>1. f \in Injection(rows, RowIDs)
  <2>1. \A r \in rows : r.id \in RowIDs
    BY RowIs DEF ListTypeInv
  <2>2. f \in [rows -> RowIDs]
    BY <2>1
  <2>3. \A r, q \in rows : f[r] = f[q] => r = q
    BY DEF ListTypeInv
  <2> HIDE DEF f
  <2> QED
    BY <2>2, <2>3 DEF Injection, IsInjective
<1>2. IsFiniteSet(RowIDs)
  BY StorefrontLists
<1> HIDE DEF f
<1> QED
  BY <1>1, <1>2, FS_Injection

(* The rows of a listing.                                                  *)
LEMMA FiltersAre == ASSUME NEW w PROVE Lis!Filters(w.owner, w.status) = {r \in rows : Wanted(r, w)}
BY DEF Lis!Filters, Wanted

(* A row comes or changes: the others stay, and the walk is not calm.      *)
LEMMA WalkSurvives ==
    ASSUME WalkInv, rows' \subseteq ListRows,
           \A r \in rows : \E q \in rows' : q.id = r.id,
           \A q \in rows' : \/ \A r \in rows : r.id # q.id
                            \/ \E r \in rows : /\ q.id = r.id /\ q.at = r.at /\ q.owner = r.owner
                                               /\ q.id \in walk'.must => q = r,
           NEW m \in SUBSET walk.must, walk' = [walk EXCEPT !.calm = FALSE, !.must = m]
    PROVE  WalkFits(walk)'
<1> DEFINE w == walk'
<1>1. /\ DOMAIN w = WalkFields /\ w.pc = walk.pc /\ w.list = walk.list /\ w.by = walk.by /\ w.owner = walk.owner
      /\ w.status = walk.status /\ w.limit = walk.limit /\ w.cursor = walk.cursor /\ w.seen = walk.seen
      /\ w.cuts = walk.cuts /\ w.calm = FALSE /\ w.must = m
  BY DEF WalkInv, ListTypeInv, WalkTyped, WalkFields
<1> HIDE DEF w
<1>2. WalkTyped(walk)'
  <2>1. WalkTyped(w)
    BY <1>1 DEF WalkInv, ListTypeInv, WalkTyped
  <2> QED
    BY <2>1 DEF w, WalkTyped
<1>3. Seen(w) = Seen(walk)
  BY <1>1 DEF Seen
<1>0. (\A x \in m : \E r \in rows : r.id = x) /\ (\A x \in Seen(w) : \E r \in rows : r.id = x)
  <2>1. walk.must \subseteq {r.id : r \in rows} /\ Seen(walk) \subseteq {r.id : r \in rows}
    BY DEF WalkInv, WalkFits, WalkKnown
  <2> QED
    BY <1>3, <2>1
<1>4. \A q \in rows' : q.id \in m => \E r \in rows : q = r /\ r.id \in walk.must
  <2>1. \A q \in rows' : q.id \in m => \E r \in rows : r.id = q.id
    BY <1>0
  <2> QED
    BY <1>1, <2>1 DEF w
<1>5. \A q \in rows' : q.id \in Seen(w) => \E r \in rows : q.id = r.id /\ q.at = r.at /\ q.owner = r.owner
  <2>1. \A q \in rows' : q.id \in Seen(w) => \E r \in rows : r.id = q.id
    BY <1>0
  <2> QED
    BY <2>1
<1>6. WalkKnown(walk)'
  <2>1. m \subseteq {q.id : q \in rows'} /\ Seen(w) \subseteq {q.id : q \in rows'}
    <3>1. \A x \in m \cup Seen(w) : \E q \in rows' : q.id = x
      BY <1>0
    <3> QED
      BY <3>1
  <2>2. \A q \in rows' : q.id \in m => Wanted(q, w)
    BY <1>1, <1>4 DEF WalkInv, WalkFits, WalkKnown, Wanted
  <2>3. \A q \in rows' : q.id \in Seen(w) => (w.owner # "" => q.owner = w.owner)
    BY <1>1, <1>3, <1>5 DEF WalkInv, WalkFits, WalkKnown
  <2>4. w.list \in OwnLists /\ RolesOf[w.by] = {} => w.owner = w.by /\ w.owner # ""
    BY <1>1 DEF WalkInv, WalkFits, WalkKnown
  <2> QED
    BY <1>1, <2>1, <2>2, <2>3, <2>4 DEF WalkKnown, w, Seen, Wanted
<1>7. (w.list = "search" /\ ~w.calm) \/ Lis!IsInjective(w.seen)
  BY <1>1 DEF WalkInv, WalkFits
<1>8. ASSUME w.pc = "paging" PROVE WalkPages(walk)'
  <2>1. CASE w.list = "search"
    BY <1>1, <2>1 DEF WalkPages, w
  <2>2. ASSUME w.list # "search", NEW q \in rows'
        PROVE  /\ q.id \in Seen(w) => Past(q, w)
               /\ q.id \in m /\ Past(q, w) => q.id \in Seen(w) \/ (w.list \in Lis!TimeLists /\ q.at \in w.cuts)
    <3>1. ASSUME NEW r \in rows, q.id = r.id, q.at = r.at PROVE Past(q, w) <=> Past(r, walk)
      BY <1>1, <3>1 DEF Past
    <3>2. WalkPages(walk)
      BY <1>1, <1>8 DEF WalkInv, WalkFits
    <3>3. ASSUME q.id \in Seen(w) PROVE Past(q, w)
      BY <1>1, <1>3, <1>5, <2>2, <3>1, <3>2, <3>3 DEF WalkPages
    <3>4. ASSUME q.id \in m, Past(q, w) PROVE q.id \in Seen(w) \/ (w.list \in Lis!TimeLists /\ q.at \in w.cuts)
      BY <1>1, <1>3, <1>4, <2>2, <3>1, <3>2, <3>4 DEF WalkPages
    <3> QED
      BY <3>3, <3>4
  <2> QED
    BY <1>1, <2>1, <2>2 DEF WalkPages, w, Seen, Past
<1>9. ASSUME w.pc = "done" PROVE WalkEnded(walk)'
  <2>1. WalkEnded(walk)
    BY <1>1, <1>9 DEF WalkInv, WalkFits
  <2>2. \A q \in rows' : q.id \in m =>
          \/ q.id \in Seen(w) \/ (w.list \in Lis!TimeLists /\ q.at \in w.cuts) \/ (w.list = "search" /\ ~w.calm)
    BY <1>1, <1>3, <1>4, <2>1 DEF WalkEnded
  <2> QED
    BY <1>1, <2>2 DEF WalkEnded, w, Seen
<1> QED
  BY <1>2, <1>6, <1>7, <1>8, <1>9 DEF WalkFits, w, Lis!IsInjective

(* A transaction inserts rows (InsertRows).                                *)
LEMMA InsertKeeps ==
    ASSUME WalkInv, NEW ids \in SUBSET RowIDs, NEW o \in Subjects, Lis!InsertRows(ids, o)
    PROVE  WalkInv'
<1> DEFINE New == {[id |-> i, at |-> clock, owner |-> o, status |-> "PUBLISHED"] : i \in ids}
<1>1. rows' = rows \cup New /\ clock' = clock /\ changes' = changes + 1 /\ changes < MaxChanges
      /\ (\A r \in rows : r.id \notin ids) /\ walk' = [walk EXCEPT !.calm = FALSE]
  BY DEF Lis!InsertRows
<1>2. New \subseteq ListRows
  BY DEF WalkInv, ListTypeInv, ListRows, Lis!RowStatus
<1>3. \A q \in New : q.id \in ids
  OBVIOUS
<1>4. \A r, q \in New : r.id = q.id => r = q
  OBVIOUS
<1> HIDE DEF New
<1>5. rows' \subseteq ListRows /\ \A r, q \in rows' : r.id = q.id => r = q
  BY <1>1, <1>2, <1>3, <1>4 DEF WalkInv, ListTypeInv
<1>6. changes' \in 0..MaxChanges
  <2>1. MaxChanges \in Nat
    BY StorefrontLists
  <2>2. changes \in 0..MaxChanges
    BY DEF WalkInv, ListTypeInv
  <2> QED
    BY <1>1, <2>1, <2>2
<1>7. walk' = [walk EXCEPT !.calm = FALSE, !.must = walk.must]
  BY <1>1 DEF WalkInv, ListTypeInv, WalkTyped, WalkFields
<1>8. WalkFits(walk)'
  <2>1. \A q \in rows' : \/ \A r \in rows : r.id # q.id
                         \/ \E r \in rows : q.id = r.id /\ q.at = r.at /\ q.owner = r.owner /\ (q.id \in walk'.must => q = r)
    BY <1>1, <1>3
  <2>2. \A r \in rows : \E q \in rows' : q.id = r.id
    BY <1>1
  <2> QED
    BY <1>5, <1>7, <2>1, <2>2, WalkSurvives
<1> QED
  BY <1>1, <1>5, <1>6, <1>8 DEF WalkInv, ListTypeInv, WalkFits

(* A row's status changes (ChangeRow).                                     *)
LEMMA ChangeKeeps ==
    ASSUME WalkInv, NEW r \in rows, NEW to \in Lis!RowStatus, Lis!ChangeRow(r, to)
    PROVE  WalkInv'
<1> DEFINE n == [r EXCEPT !.status = to]
           m == walk.must \ {r.id}
<1>1. rows' = (rows \ {r}) \cup {n} /\ clock' = clock /\ changes' = changes + 1 /\ changes < MaxChanges
      /\ walk' = [walk EXCEPT !.calm = FALSE, !.must = m]
  <2>1. rows' = (rows \ {r}) \cup {n} /\ clock' = clock /\ changes' = changes + 1 /\ changes < MaxChanges
        /\ walk' = [walk EXCEPT !.calm = FALSE, !.must = @ \ {r.id}]
    BY DEF Lis!ChangeRow
  <2> QED
    BY <2>1 DEF WalkInv, ListTypeInv, WalkTyped, WalkFields
<1>2. r \in ListRows
  BY DEF WalkInv, ListTypeInv
<1>3. n \in ListRows /\ n.id = r.id /\ n.at = r.at /\ n.owner = r.owner
  BY <1>2 DEF ListRows
<1> HIDE DEF n
<1>4. rows' \subseteq ListRows /\ \A x, y \in rows' : x.id = y.id => x = y
  BY <1>1, <1>3 DEF WalkInv, ListTypeInv
<1>5. changes' \in 0..MaxChanges
  <2>1. MaxChanges \in Nat
    BY StorefrontLists
  <2>2. changes \in 0..MaxChanges
    BY DEF WalkInv, ListTypeInv
  <2> QED
    BY <1>1, <2>1, <2>2
<1>6. WalkFits(walk)'
  <2>1. walk'.must = m
    BY <1>1 DEF WalkInv, ListTypeInv, WalkTyped, WalkFields
  <2>2. ASSUME NEW q \in rows'
        PROVE  \E x \in rows : q.id = x.id /\ q.at = x.at /\ q.owner = x.owner /\ (q.id \in walk'.must => q = x)
    BY <1>1, <1>3, <2>1
  <2>3. \A x \in rows : \E q \in rows' : q.id = x.id
    BY <1>1, <1>3
  <2>4. m \in SUBSET walk.must
    OBVIOUS
  <2>5. \A q \in rows' : \/ \A x \in rows : x.id # q.id
                         \/ \E x \in rows : q.id = x.id /\ q.at = x.at /\ q.owner = x.owner /\ (q.id \in walk'.must => q = x)
    BY <2>2
  <2> HIDE DEF m
  <2> QED
    BY <1>1, <1>4, <2>3, <2>4, <2>5, WalkSurvives
<1> QED
  BY <1>1, <1>4, <1>5, <1>6 DEF WalkInv, ListTypeInv, WalkFits

(* A caller without roles gets its own rows in its own listings (Scope).   *)
LEMMA ScopeIs ==
    ASSUME NEW p \in Visitors, NEW l, NEW o, NEW s, NEW f \in Lis!Scope(l, p, o, s), l \in OwnLists, RolesOf[p] = {}
    PROVE  f[1] = p
<1>1. ~Lis!HasRole(p, "order_manager") /\ ~Lis!HasRole(p, "finance")
  BY DEF Lis!HasRole
<1>2. CASE l = "orders"
  <2>1. Lis!Scope(l, p, o, s) = {<<p, "">>}
    BY <1>1, <1>2 DEF Lis!Scope, Lis!ListOrders, Lis!Scoped
  <2>2. f = <<p, "">>
    BY <2>1
  <2> QED
    BY <2>2
<1>3. CASE l \in {"returns", "shipments"}
  <2>1. Lis!Scope(l, p, o, s) = {<<p, "">>}
    BY <1>1, <1>3 DEF Lis!Scope, Lis!ListReturns, Lis!ListShipments, Lis!Scoped
  <2>2. f = <<p, "">>
    BY <2>1
  <2> QED
    BY <2>2
<1>4. CASE l = "payouts"
  <2>1. Lis!Scope(l, p, o, s) = Lis!ListPayouts(p, o, s)
    BY <1>4 DEF Lis!Scope
  <2>2. p = o /\ f = <<o, s>>
    BY <1>1, <2>1 DEF Lis!ListPayouts, Lis!MayReadShop
  <2> QED
    BY <2>2
<1>5. CASE l = "notifications"
  <2>1. Lis!Scope(l, p, o, s) = {<<p, "">>}
    BY <1>5 DEF Lis!Scope, Lis!ListNotifications
  <2>2. f = <<p, "">>
    BY <2>1
  <2> QED
    BY <2>2
<1> QED
  BY <1>2, <1>3, <1>4, <1>5 DEF OwnLists

(* A listing is opened for what the caller may see (OpenList).             *)
LEMMA OpenKeeps ==
    ASSUME WalkInv, NEW p \in Visitors, NEW l \in Lis!Lists, NEW o, NEW s, NEW n \in PageSizes, Lis!OpenList(p, l, o, s, n)
    PROVE  WalkInv'
<1>1. UNCHANGED <<rows, clock, changes>>
  BY DEF Lis!OpenList
<1>2. PICK f \in Lis!Scope(l, p, o, s) :
        walk' = [Lis!NoWalk EXCEPT !.pc = "paging", !.list = l, !.by = p, !.owner = f[1], !.status = f[2],
                                   !.limit = Lis!PageSize(n), !.must = {r.id : r \in Lis!Filters(f[1], f[2])}]
  BY DEF Lis!OpenList
<1> DEFINE w == walk'
<1>3. /\ DOMAIN w = WalkFields /\ w.pc = "paging" /\ w.list = l /\ w.by = p /\ w.owner = f[1]
      /\ w.status = f[2] /\ w.limit = Lis!PageSize(n) /\ w.cursor = <<>> /\ w.seen = <<>>
      /\ w.calm = TRUE /\ w.must = {r.id : r \in Lis!Filters(f[1], f[2])}
  BY <1>2 DEF Lis!NoWalk, WalkFields
<1> HIDE DEF w
<1>4. Lis!PageSize(n) \in Nat /\ Lis!PageSize(n) > 0
  <2>1. n \in Int
    BY StorefrontLists
  <2>2. DefaultPage \in Nat \ {0}
    BY StorefrontLists
  <2> QED
    BY <2>1, <2>2 DEF Lis!PageSize
<1>5. WalkTyped(w)
  <2>1. w.seen \in Seq(RowIDs)
    <3>1. <<>> \in Seq(RowIDs)
      OBVIOUS
    <3> QED
      BY <1>3, <3>1
  <2>3. w.list \in Lis!Lists \cup {""}
    BY <1>3
  <2>4. w.calm \in BOOLEAN
    BY <1>3
  <2>2. w.limit \in Nat /\ w.limit > 0
    BY <1>3, <1>4
  <2> QED
    BY <1>3, <2>1, <2>2, <2>3, <2>4 DEF WalkTyped
<1>6. Seen(w) = {}
  BY <1>3 DEF Seen
<1>7. Lis!IsInjective(w.seen)
  BY <1>3 DEF Lis!IsInjective
<1>8. WalkKnown(w)
  <2>1. w.must = {r.id : r \in {q \in rows : Wanted(q, w)}}
    <3>1. Lis!Filters(f[1], f[2]) = {q \in rows : Wanted(q, w)}
      BY <1>3 DEF Lis!Filters, Wanted
    <3> QED
      BY <1>3, <3>1
  <2>2. \A r \in rows : r.id \in w.must => Wanted(r, w)
    BY <2>1 DEF WalkInv, ListTypeInv
  <2>3. w.must \subseteq {r.id : r \in rows}
    BY <2>1
  <2>4. w.list \in OwnLists /\ RolesOf[w.by] = {} => w.owner = w.by /\ w.owner # ""
    <3>1. p \in Principals
      BY StorefrontConstants
    <3>2. "" \notin Principals
      BY StorefrontNames
    <3>3. ASSUME l \in OwnLists, RolesOf[p] = {} PROVE f[1] = p
      BY <3>3, ScopeIs
    <3> QED
      BY <1>3, <3>1, <3>2, <3>3
  <2> QED
    BY <1>6, <2>2, <2>3, <2>4 DEF WalkKnown
<1>9. WalkPages(w)
  <2>1. \A r \in rows : r.id \notin Seen(w)
    BY <1>6
  <2>2. \A r \in rows : ~Past(r, w)
    BY <1>3 DEF Past
  <2>3. ASSUME NEW r \in rows, Wanted(r, w) PROVE ~(Lis!Rank(r, w) < Lis!From(w))
    <3>1. r \in Lis!Filters(w.owner, w.status)
      BY <2>3, FiltersAre
    <3>2. Lis!Rank(r, w) \in Nat
      BY <3>1, FinitelyManyRows, RankIsBelow DEF WalkInv, ListTypeInv
    <3>3. Lis!From(w) = 0
      BY <1>3 DEF Lis!From
    <3> QED
      BY <3>2, <3>3
  <2> QED
    BY <2>1, <2>2, <2>3 DEF WalkPages
<1>10. WalkFits(w)
  BY <1>3, <1>5, <1>7, <1>8, <1>9 DEF WalkFits
<1>11. WalkFits(walk)'
  BY <1>1, <1>10 DEF WalkFits, WalkTyped, WalkKnown, WalkPages, WalkEnded, w, Seen, Past, Wanted, Lis!From, Lis!Rank,
                     Lis!Filters, Lis!IsInjective
<1>12. ListTypeInv'
  BY <1>1, <1>5 DEF WalkInv, ListTypeInv, WalkTyped, w
<1> QED
  BY <1>11, <1>12 DEF WalkInv

(* A page is shown: what was seen grows by its rows.                       *)
Page(w, s) ==
    /\ DOMAIN w = WalkFields /\ w.pc \in {"paging", "done"} /\ w.list = walk.list /\ w.by = walk.by
    /\ w.owner = walk.owner /\ w.status = walk.status /\ w.limit = walk.limit /\ w.calm = walk.calm /\ w.must = walk.must
    /\ w.seen = walk.seen \o Lis!SetToSeq({r.id : r \in s})
    /\ w.cursor = <<>> \/ w.cursor \in Nat \X Nat \/ (w.list # "products" /\ \E n \in Nat : w.cursor = <<n>>)

(* Showing it keeps what a walk knows, and no row is shown twice, but in a *)
(* search that is not calm.                                                *)
LEMMA PageShown ==
    ASSUME WalkInv, walk.pc = "paging", NEW s, s \subseteq {r \in rows : Wanted(r, walk)},
           (walk.list = "search" /\ ~walk.calm) \/ \A r \in s : r.id \notin Seen(walk),
           NEW w, Page(w, s)
    PROVE  /\ WalkTyped(w) /\ WalkKnown(w) /\ ((w.list = "search" /\ ~w.calm) \/ Lis!IsInjective(w.seen))
           /\ \A r \in rows : r.id \in Seen(w) <=> r.id \in Seen(walk) \/ r \in s
<1> DEFINE S == {r.id : r \in s}
<1>1. s \subseteq rows /\ s \subseteq ListRows /\ \A r \in s : Wanted(r, walk)
  BY DEF WalkInv, ListTypeInv
<1>2. \A r \in s : r.id \in RowIDs
  BY <1>1, RowIs
<1>3. S \in SUBSET RowIDs /\ IsFiniteSet(S)
  <2>1. S \in SUBSET RowIDs
    BY <1>2
  <2>2. IsFiniteSet(RowIDs)
    BY StorefrontLists
  <2> HIDE DEF S
  <2> QED
    BY <2>1, <2>2, FS_Subset
<1>4. \A r \in rows : r.id \in S <=> r \in s
  BY <1>1 DEF WalkInv, ListTypeInv
<1>5. walk.seen \in Seq(RowIDs)
  BY DEF WalkInv, WalkFits, WalkTyped
<1>6. w.seen = walk.seen \o Lis!SetToSeq(S)
  BY DEF Page
<1>7. S \subseteq {r.id : r \in rows}
  BY <1>1
<1> HIDE DEF S
<1>8. /\ w.seen \in Seq(RowIDs)
      /\ \A x : (\E i \in 1..Len(w.seen) : w.seen[i] = x) <=> x \in S \/ \E i \in 1..Len(walk.seen) : walk.seen[i] = x
      /\ Lis!IsInjective(walk.seen) /\ (\A i \in 1..Len(walk.seen) : walk.seen[i] \notin S) => Lis!IsInjective(w.seen)
  BY <1>3, <1>5, <1>6, SeenGrows
<1>9. \A x : x \in Seen(w) <=> x \in S \/ x \in Seen(walk)
  BY <1>8 DEF Seen
<1>10. WalkTyped(w)
  BY <1>8 DEF WalkInv, WalkFits, WalkTyped, Page
<1>11. WalkKnown(w)
  <2>1. w.must \subseteq {r.id : r \in rows}
    BY DEF WalkInv, WalkFits, WalkKnown, Page
  <2>2. Seen(w) \subseteq {r.id : r \in rows}
    <3>1. Seen(walk) \subseteq {r.id : r \in rows}
      BY DEF WalkInv, WalkFits, WalkKnown
    <3> QED
      BY <1>7, <1>9, <3>1
  <2>3. \A r \in rows : r.id \in w.must => Wanted(r, w)
    BY DEF WalkInv, WalkFits, WalkKnown, Page, Wanted
  <2>4. ASSUME NEW r \in rows, r.id \in Seen(w), w.owner # "" PROVE r.owner = w.owner
    <3>1. CASE r.id \in Seen(walk)
      BY <2>4, <3>1 DEF WalkInv, WalkFits, WalkKnown, Page
    <3>2. CASE r \in s
      BY <1>1, <2>4, <3>2 DEF Wanted, Page
    <3> QED
      BY <1>4, <1>9, <2>4, <3>1, <3>2
  <2>5. w.list \in OwnLists /\ RolesOf[w.by] = {} => w.owner = w.by /\ w.owner # ""
    BY DEF WalkInv, WalkFits, WalkKnown, Page
  <2> QED
    BY <2>1, <2>2, <2>3, <2>4, <2>5 DEF WalkKnown
<1>12. (w.list = "search" /\ ~w.calm) \/ Lis!IsInjective(w.seen)
  <2>1. CASE walk.list = "search" /\ ~walk.calm
    BY <2>1 DEF Page
  <2>2. CASE ~(walk.list = "search" /\ ~walk.calm)
    <3>1. Lis!IsInjective(walk.seen)
      BY <2>2 DEF WalkInv, WalkFits
    <3>2. ASSUME NEW i \in 1..Len(walk.seen), walk.seen[i] \in S PROVE FALSE
      <4>1. PICK r \in s : r.id = walk.seen[i]
        BY <3>2 DEF S
      <4>2. r.id \in Seen(walk)
        BY <4>1 DEF Seen
      <4> QED
        BY <2>2, <4>2
    <3> QED
      BY <1>8, <3>1, <3>2
  <2> QED
    BY <2>1, <2>2
<1> QED
  BY <1>4, <1>9, <1>10, <1>11, <1>12

(* How it ends: with the listing, or with a cursor at its last row, and    *)
(* with the time that row shares with rows of the next page.               *)
PageEnds(w, from, s, byID) ==
    LET last == Lis!LastRow(s, byID) IN
    /\ walk.cuts \subseteq w.cuts
    /\ w.pc = "done" => from \subseteq s
    /\ w.pc = "paging" =>
         /\ from # {} /\ w.cursor # <<>> /\ w.cursor[1] = last.at
         /\ byID => w.cursor[2] = last.id
         /\ ~byID => \A r \in from \ s : r.at = last.at => r.at \in w.cuts

(* The next page by time, or by time and id, starts where this one ended.  *)
LEMMA PageKeeps ==
    ASSUME WalkInv, walk.pc = "paging", NEW byID \in BOOLEAN, byID <=> walk.list = "products",
           walk.list = "products" \/ walk.list \in Lis!TimeLists,
           NEW from, from = {r \in rows : Wanted(r, walk) /\ ~Past(r, walk)},
           NEW s \in Lis!FirstRows(from, walk.limit, byID), NEW w, Page(w, s), PageEnds(w, from, s, byID)
    PROVE  WalkFits(w)
<1>1. from \subseteq rows /\ rows \subseteq ListRows /\ walk.limit \in Nat /\ walk.limit > 0
  BY DEF WalkInv, ListTypeInv, WalkTyped
<1>2. IsFiniteSet(from)
  <2>1. IsFiniteSet(rows)
    BY FinitelyManyRows DEF WalkInv
  <2> QED
    BY <1>1, <2>1, FS_Subset
<1>3. s \subseteq from /\ (\A r \in s, q \in from \ s : ~Lis!Before(q, r, byID)) /\ (s = {} => from = {})
  BY <1>1, <1>2, PageIs
<1>4. WalkPages(walk) /\ walk.list # "search"
  BY DEF WalkInv, WalkFits, Lis!TimeLists
<1>5. \A r \in rows : /\ r.id \in Seen(walk) => Past(r, walk)
                      /\ r.id \in walk.must /\ Past(r, walk) => r.id \in Seen(walk) \/ (walk.list \in Lis!TimeLists /\ r.at \in walk.cuts)
  BY <1>4 DEF WalkPages
<1>6. \A r \in s : r.id \notin Seen(walk)
  BY <1>1, <1>3, <1>5
<1>7. s \subseteq {r \in rows : Wanted(r, walk)}
  BY <1>3
<1>8. /\ WalkTyped(w) /\ WalkKnown(w) /\ ((w.list = "search" /\ ~w.calm) \/ Lis!IsInjective(w.seen))
      /\ \A r \in rows : r.id \in Seen(w) <=> r.id \in Seen(walk) \/ r \in s
  BY <1>6, <1>7, PageShown
<1>9. w.list = walk.list /\ w.must = walk.must
  BY DEF Page
<1>10. \A r \in rows : r.id \in walk.must => Wanted(r, walk)
  BY DEF WalkInv, WalkFits, WalkKnown
<1>11. walk.cuts \subseteq w.cuts
  BY DEF PageEnds
<1>12. CASE w.pc = "done"
  <2>0. from \subseteq s
    BY <1>12 DEF PageEnds
  <2>1. ASSUME NEW r \in rows, r.id \in w.must PROVE r.id \in Seen(w) \/ (w.list \in Lis!TimeLists /\ r.at \in w.cuts)
    <3>1. CASE Past(r, walk)
      BY <1>5, <1>8, <1>9, <1>11, <2>1, <3>1
    <3>2. CASE ~Past(r, walk)
      <4>1. r \in s
        BY <1>9, <1>10, <2>0, <2>1, <3>2
      <4> QED
        BY <1>8, <4>1
    <3> QED
      BY <3>1, <3>2
  <2>2. WalkEnded(w) /\ w.pc = "done"
    BY <1>12, <2>1 DEF WalkEnded
  <2>3. w.pc # "paging"
    BY <2>2
  <2> QED
    BY <1>8, <2>2, <2>3 DEF WalkFits
<1>13. CASE w.pc = "paging"
  <2> DEFINE last == Lis!LastRow(s, byID)
  <2>0. /\ from # {} /\ w.cursor # <<>> /\ w.cursor[1] = last.at
        /\ byID => w.cursor[2] = last.id
        /\ ~byID => \A r \in from \ s : r.at = last.at => r.at \in w.cuts
    BY <1>13 DEF PageEnds
  <2>1. s # {} /\ s \in SUBSET ListRows
    BY <1>1, <1>3, <2>0
  <2>2. last \in s /\ \A q \in s \ {last} : ~Lis!Before(last, q, byID)
    BY <2>1, LastRowIs
  <2> HIDE DEF last
  <2>3. \A r \in rows : r.at \in Nat /\ r.id \in Nat
    BY <1>1, RowIs
  <2>4. last \in rows /\ last \in from
    BY <1>1, <1>3, <2>2
  <2> DEFINE Late(r) == IF byID THEN ~(r.at < last.at \/ (r.at = last.at /\ r.id < last.id)) ELSE r.at >= last.at
  <2>5. \A r \in rows : Past(r, w) <=> Late(r)
    <3>1. CASE byID
      <4>1. w.cursor # <<>> /\ w.cursor[1] = last.at /\ w.cursor[2] = last.id /\ w.list = "products"
        BY <1>9, <2>0, <3>1
      <4> QED
        BY <3>1, <4>1 DEF Past
    <3>2. CASE ~byID
      <4>1. w.cursor # <<>> /\ w.cursor[1] = last.at /\ w.list # "products"
        BY <1>9, <2>0, <3>2
      <4> QED
        BY <3>2, <4>1 DEF Past
    <3> QED
      BY <3>1, <3>2
  <2>6. ASSUME NEW r \in rows, Past(r, walk) PROVE Late(r)
    <3>1. ~Past(last, walk)
      BY <2>4
    <3>2. WalkTyped(walk) /\ walk.cursor # <<>>
      BY <2>6 DEF WalkInv, WalkFits, Past
    <3>3. r.at \in Nat /\ r.id \in Nat /\ last.at \in Nat /\ last.id \in Nat
      BY <2>3, <2>4
    <3>4. CASE byID
      <4>1. walk.list = "products" /\ walk.cursor \in Nat \X Nat
        BY <3>2, <3>4 DEF WalkTyped
      <4>2. PICK a \in Nat, b \in Nat : walk.cursor[1] = a /\ walk.cursor[2] = b
        BY <4>1
      <4>3. ~(r.at < a \/ (r.at = a /\ r.id < b))
        BY <2>6, <4>1, <4>2 DEF Past
      <4>4. last.at < a \/ (last.at = a /\ last.id < b)
        BY <3>1, <3>2, <4>1, <4>2 DEF Past
      <4>5. ~(r.at < last.at \/ (r.at = last.at /\ r.id < last.id))
        BY <3>3, <4>2, <4>3, <4>4
      <4> QED
        BY <3>4, <4>5
    <3>5. CASE ~byID
      <4>1. walk.cursor[1] \in Nat
        <5>1. CASE walk.cursor \in Nat \X Nat
          BY <5>1
        <5>2. ASSUME NEW n \in Nat, walk.cursor = <<n>> PROVE walk.cursor[1] \in Nat
          BY <5>2
        <5> QED
          BY <3>2, <5>1, <5>2 DEF WalkTyped
      <4>2. r.at >= walk.cursor[1] /\ ~(last.at >= walk.cursor[1])
        BY <2>6, <3>1, <3>2, <3>5 DEF Past
      <4> QED
        BY <3>3, <3>5, <4>1, <4>2
    <3> QED
      BY <3>4, <3>5
  <2>7. ASSUME NEW r \in s PROVE Late(r)
    <3>1. r \in rows /\ r.at \in Nat /\ r.id \in Nat /\ last.at \in Nat /\ last.id \in Nat
      BY <1>1, <1>3, <2>3, <2>4
    <3>2. CASE r = last
      BY <3>1, <3>2
    <3>3. CASE r # last
      BY <2>2, <3>1, <3>3 DEF Lis!Before
    <3> QED
      BY <3>2, <3>3
  <2>8. ASSUME NEW r \in from \ s, Late(r) PROVE ~byID /\ r.at = last.at
    <3>1. r \in rows /\ r.at \in Nat /\ r.id \in Nat /\ last.at \in Nat /\ last.id \in Nat
      BY <1>1, <2>3, <2>4
    <3>2. ~Lis!Before(r, last, byID)
      BY <1>3, <2>2
    <3>3. byID => r.id # last.id
      BY <2>2, <2>4, <3>1 DEF WalkInv, ListTypeInv
    <3> QED
      BY <2>8, <3>1, <3>2, <3>3 DEF Lis!Before
  <2> HIDE DEF Late
  <2>9. ASSUME NEW r \in rows, r.id \in Seen(w) PROVE Past(r, w)
    BY <1>5, <1>8, <2>5, <2>6, <2>7, <2>9
  <2>10. ASSUME NEW r \in rows, r.id \in w.must, Past(r, w)
         PROVE  r.id \in Seen(w) \/ (w.list \in Lis!TimeLists /\ r.at \in w.cuts)
    <3>1. CASE Past(r, walk)
      BY <1>5, <1>8, <1>9, <1>11, <2>10, <3>1
    <3>2. CASE ~Past(r, walk) /\ r \in s
      BY <1>8, <3>2
    <3>3. CASE ~Past(r, walk) /\ r \notin s
      <4>1. r \in from \ s
        BY <1>9, <1>10, <2>10, <3>3
      <4>2. ~byID /\ r.at = last.at
        BY <2>5, <2>8, <2>10, <4>1
      <4>3. r.at \in w.cuts
        BY <2>0, <4>1, <4>2
      <4> QED
        BY <1>9, <4>2, <4>3
    <3> QED
      BY <3>1, <3>2, <3>3
  <2>11. WalkPages(w) /\ w.pc = "paging"
    BY <1>4, <1>9, <1>13, <2>9, <2>10 DEF WalkPages
  <2>12. w.pc # "done"
    BY <2>11
  <2> QED
    BY <1>8, <2>11, <2>12 DEF WalkFits
<1> QED
  BY <1>12, <1>13 DEF Page

(* A step that leaves the rows alone.                                      *)
LEMMA RowsStay == ASSUME rows' = rows, WalkFits(walk') PROVE WalkFits(walk)'
BY DEF WalkFits, WalkTyped, WalkKnown, WalkPages, WalkEnded, Seen, Past, Wanted, Lis!From, Lis!Rank, Lis!Filters,
       Lis!IsInjective

(* A step of the walk alone.                                               *)
LEMMA WalkMoves == ASSUME WalkInv, UNCHANGED <<rows, clock, changes>>, WalkFits(walk') PROVE WalkInv'
<1>1. WalkFits(walk)'
  BY RowsStay
<1> QED
  BY <1>1 DEF WalkInv, ListTypeInv, WalkFits, WalkTyped

(* The cursor of a walk starts with a time or an offset.                   *)
LEMMA CursorIs == ASSUME WalkInv, walk.cursor # <<>> PROVE walk.cursor[1] \in Nat
<1>1. CASE walk.cursor \in Nat \X Nat
  BY <1>1
<1>2. ASSUME NEW n \in Nat, walk.cursor = <<n>> PROVE walk.cursor[1] \in Nat
  BY <1>2
<1> QED
  BY <1>1, <1>2 DEF WalkInv, WalkFits, WalkTyped

(* One page of a listing by time (TimePage).                               *)
LEMMA TimePageKeeps == ASSUME WalkInv, Lis!TimePage PROVE WalkInv'
<1>1. walk.pc = "paging" /\ walk.list \in Lis!TimeLists /\ UNCHANGED <<rows, clock, changes>>
  BY DEF Lis!TimePage
<1> DEFINE from == Lis!AfterTime(walk)
           w == walk'
<1>2. walk.list # "products" /\ walk.list # "search"
  BY <1>1 DEF Lis!TimeLists
<1>3. from = {r \in rows : Wanted(r, walk) /\ ~Past(r, walk)}
  <2>1. \A r \in rows : (walk.cursor # <<>> => r.at < walk.cursor[1]) <=> ~Past(r, walk)
    <3>1. \A r \in rows : r.at \in Nat
      BY RowIs DEF WalkInv, ListTypeInv
    <3> QED
      BY <1>2, <3>1, CursorIs DEF Past
  <2> QED
    BY <2>1, FiltersAre DEF Lis!AfterTime
<1>4. PICK s \in Lis!TimePages(walk) :
        w = IF from \ s = {} THEN [Lis!Show(s) EXCEPT !.pc = "done"]
            ELSE [Lis!Show(s) EXCEPT !.cursor = <<Lis!LastRow(s, FALSE).at>>,
                    !.cuts = @ \cup {t \in {Lis!LastRow(s, FALSE).at} : \E r \in from \ s : r.at = t}]
  BY DEF Lis!TimePage
<1> DEFINE byID == walk.list = "products"
<1>0. /\ s \in Lis!FirstRows(from, walk.limit, byID) /\ Lis!LastRow(s, byID) = Lis!LastRow(s, FALSE)
      /\ byID \in BOOLEAN /\ ~byID
  <2>1. ~byID /\ \A r, q : Lis!Before(r, q, byID) <=> Lis!Before(r, q, FALSE)
    BY <1>2 DEF Lis!Before
  <2>2. s \in Lis!FirstRows(from, walk.limit, FALSE)
    BY DEF Lis!TimePages
  <2> HIDE DEF byID, from
  <2>3. s \in Lis!FirstRows(from, walk.limit, byID)
    BY <2>1, <2>2 DEF Lis!FirstRows
  <2>4. Lis!LastRow(s, byID) = Lis!LastRow(s, FALSE)
    BY <2>1 DEF Lis!LastRow
  <2>5. byID \in BOOLEAN
    BY DEF byID
  <2> QED
    BY <2>1, <2>3, <2>4, <2>5
<1> HIDE DEF from, w, byID
<1> DEFINE last == Lis!LastRow(s, FALSE)
<1>5. DOMAIN walk = WalkFields /\ WalkTyped(walk)
  BY DEF WalkInv, WalkFits, WalkTyped
<1>6. from \ s # {} => last.at \in Nat
  <2>1. ASSUME from \ s # {} PROVE last.at \in Nat
    <3>1. from \subseteq ListRows /\ IsFiniteSet(from)
      <4>1. from \subseteq rows /\ rows \subseteq ListRows
        BY <1>3 DEF WalkInv, ListTypeInv
      <4>2. IsFiniteSet(rows)
        BY FinitelyManyRows DEF WalkInv
      <4> QED
        BY <4>1, <4>2, FS_Subset
    <3>2. s \subseteq from /\ s # {}
      <4>1. walk.limit \in Nat /\ walk.limit > 0
        BY <1>1, <1>5 DEF WalkTyped
      <4> QED
        BY <1>0, <2>1, <3>1, <4>1, PageIs
    <3>3. last \in s
      BY <1>0, <3>1, <3>2, LastRowIs
    <3> QED
      BY <3>1, <3>2, <3>3, RowIs
  <2> QED
    BY <2>1
<1> HIDE DEF last
<1>7. CASE from \ s = {}
  <2>1. w = [Lis!Show(s) EXCEPT !.pc = "done"]
    BY <1>4, <1>7
  <2>2. Page(w, s) /\ w.pc = "done" /\ w.cuts = walk.cuts
    BY <1>5, <2>1 DEF Page, Lis!Show, WalkTyped, WalkFields
  <2>3. WalkFits(w)
    <3>1. byID <=> walk.list = "products"
      BY DEF byID
    <3>2. w.pc # "paging" /\ from \subseteq s /\ walk.cuts \subseteq w.cuts
      BY <1>7, <2>2
    <3>3. PageEnds(w, from, s, byID)
      BY <3>2 DEF PageEnds
    <3> QED
      BY <1>0, <1>1, <1>3, <2>2, <3>1, <3>3, PageKeeps
  <2> QED
    BY <1>1, <2>3, WalkMoves DEF w
<1>8. CASE from \ s # {}
  <2>1. w = [Lis!Show(s) EXCEPT !.cursor = <<last.at>>, !.cuts = @ \cup {t \in {last.at} : \E r \in from \ s : r.at = t}]
    BY <1>4, <1>8 DEF last
  <2>2. /\ w.pc = "paging" /\ w.cursor = <<last.at>>
        /\ w.cuts = walk.cuts \cup {t \in {last.at} : \E r \in from \ s : r.at = t}
    BY <1>1, <1>5, <2>1 DEF Lis!Show, WalkFields
  <2>3. Page(w, s)
    BY <1>1, <1>2, <1>5, <1>6, <1>8, <2>1, <2>2 DEF Page, Lis!Show, WalkFields
  <2>4. WalkFits(w)
    <3>1. last = Lis!LastRow(s, byID) /\ (byID <=> walk.list = "products")
      BY <1>0 DEF last, byID
    <3>2. \A r \in from \ s : r.at = last.at => r.at \in w.cuts
      BY <2>2
    <3>3. ~byID /\ w.pc # "done" /\ from # {} /\ w.cursor # <<>> /\ w.cursor[1] = last.at /\ walk.cuts \subseteq w.cuts
      BY <1>0, <1>8, <2>2
    <3>4. PageEnds(w, from, s, byID)
      BY <3>1, <3>2, <3>3 DEF PageEnds
    <3> QED
      BY <1>0, <1>1, <1>3, <2>3, <3>1, <3>4, PageKeeps
  <2> QED
    BY <1>1, <2>4, WalkMoves DEF w
<1> QED
  BY <1>7, <1>8

(* One page of products (ProductPage).                                      *)
LEMMA ProductPageKeeps == ASSUME WalkInv, Lis!ProductPage PROVE WalkInv'
<1>1. walk.pc = "paging" /\ walk.list = "products" /\ UNCHANGED <<rows, clock, changes>>
  BY DEF Lis!ProductPage
<1> DEFINE from == Lis!AfterTimeAndID(walk)
           w == walk'
<1>2. walk.list # "search"
  BY <1>1
<1>3. from = {r \in rows : Wanted(r, walk) /\ ~Past(r, walk)}
  <2>1. \A r \in rows : Past(r, walk) <=> ~(walk.cursor # <<>> =>
                             r.at < walk.cursor[1] \/ (r.at = walk.cursor[1] /\ r.id < walk.cursor[2]))
    BY <1>1 DEF Past
  <2> QED
    BY <2>1, FiltersAre DEF Lis!AfterTimeAndID
<1>4. PICK s \in Lis!ProductPages(walk) :
        w = IF from = s THEN [Lis!Show(s) EXCEPT !.pc = "done"]
            ELSE [Lis!Show(s) EXCEPT !.cursor = <<Lis!LastRow(s, TRUE).at, Lis!LastRow(s, TRUE).id>>]
  BY DEF Lis!ProductPage
<1> DEFINE byID == walk.list = "products"
<1>0. /\ s \in Lis!FirstRows(from, walk.limit, byID) /\ Lis!LastRow(s, byID) = Lis!LastRow(s, TRUE)
      /\ byID \in BOOLEAN /\ byID
  <2>1. byID /\ \A r, q : Lis!Before(r, q, byID) <=> Lis!Before(r, q, TRUE)
    BY <1>1 DEF Lis!Before
  <2>2. s \in Lis!FirstRows(from, walk.limit, TRUE)
    BY DEF Lis!ProductPages
  <2> HIDE DEF byID, from
  <2>3. s \in Lis!FirstRows(from, walk.limit, byID)
    BY <2>1, <2>2 DEF Lis!FirstRows
  <2>4. Lis!LastRow(s, byID) = Lis!LastRow(s, TRUE)
    BY <2>1 DEF Lis!LastRow
  <2>5. byID \in BOOLEAN
    BY DEF byID
  <2> QED
    BY <2>1, <2>3, <2>4, <2>5
<1> HIDE DEF from, w, byID
<1> DEFINE last == Lis!LastRow(s, TRUE)
<1>5. DOMAIN walk = WalkFields /\ WalkTyped(walk)
  BY DEF WalkInv, WalkFits, WalkTyped
<1>6. s \subseteq from /\ (from # {} => last.at \in Nat /\ last.id \in Nat)
  <2>1. from \subseteq ListRows /\ IsFiniteSet(from)
    <3>1. from \subseteq rows /\ rows \subseteq ListRows
      BY <1>3 DEF WalkInv, ListTypeInv
    <3>2. IsFiniteSet(rows)
      BY FinitelyManyRows DEF WalkInv
    <3> QED
      BY <3>1, <3>2, FS_Subset
  <2>2. walk.limit \in Nat /\ walk.limit > 0
    BY <1>1, <1>5 DEF WalkTyped
  <2>3. s \subseteq from /\ (s = {} => from = {})
    BY <1>0, <2>1, <2>2, PageIs
  <2>4. ASSUME from # {} PROVE last.at \in Nat /\ last.id \in Nat
    <3>1. last \in s
      BY <1>0, <2>1, <2>3, <2>4, LastRowIs
    <3> QED
      BY <2>1, <2>3, <3>1, RowIs
  <2> QED
    BY <2>3, <2>4
<1> HIDE DEF last
<1>7. CASE from = s
  <2>1. w = [Lis!Show(s) EXCEPT !.pc = "done"]
    BY <1>4, <1>7
  <2>2. Page(w, s) /\ w.pc = "done" /\ w.cuts = walk.cuts
    BY <1>5, <2>1 DEF Page, Lis!Show, WalkTyped, WalkFields
  <2>3. WalkFits(w)
    <3>1. byID <=> walk.list = "products"
      BY DEF byID
    <3>2. w.pc # "paging" /\ from \subseteq s /\ walk.cuts \subseteq w.cuts
      BY <1>7, <2>2
    <3>3. PageEnds(w, from, s, byID)
      BY <3>2 DEF PageEnds
    <3> QED
      BY <1>0, <1>1, <1>3, <2>2, <3>1, <3>3, PageKeeps
  <2> QED
    BY <1>1, <2>3, WalkMoves DEF w
<1>8. CASE from # s
  <2>1. w = [Lis!Show(s) EXCEPT !.cursor = <<last.at, last.id>>]
    BY <1>4, <1>8 DEF last
  <2>2. w.pc = "paging" /\ w.cursor = <<last.at, last.id>> /\ w.cuts = walk.cuts /\ from # {}
    BY <1>1, <1>5, <1>6, <1>8, <2>1 DEF Lis!Show, WalkFields
  <2>3. Page(w, s)
    BY <1>1, <1>2, <1>5, <1>6, <1>8, <2>1, <2>2 DEF Page, Lis!Show, WalkFields
  <2>4. WalkFits(w)
    <3>1. last = Lis!LastRow(s, byID) /\ (byID <=> walk.list = "products")
      BY <1>0 DEF last, byID
    <3>2. byID /\ w.pc # "done" /\ from # {} /\ walk.cuts \subseteq w.cuts
      BY <1>0, <2>2
    <3>3. w.cursor # <<>> /\ w.cursor[1] = last.at /\ w.cursor[2] = last.id
      BY <2>2
    <3>4. PageEnds(w, from, s, byID)
      BY <3>1, <3>2, <3>3 DEF PageEnds
    <3> QED
      BY <1>0, <1>1, <1>3, <2>3, <3>1, <3>4, PageKeeps
  <2> QED
    BY <1>1, <2>4, WalkMoves DEF w
<1> QED
  BY <1>7, <1>8
(* One page of hits (SearchHits).                                          *)
LEMMA SearchHitsKeeps == ASSUME WalkInv, Lis!SearchHits PROVE WalkInv'
<1> DEFINE w == walk'
           next == Lis!From(walk) + walk.limit
           hits == {r \in rows : Wanted(r, walk)}
           s == Lis!SearchPage(walk)
<1>1. /\ walk.pc = "paging" /\ walk.list = "search" /\ UNCHANGED <<rows, clock, changes>>
      /\ w = IF next > MaxOffset THEN [walk EXCEPT !.pc = "refused"]
             ELSE IF next < Cardinality(hits) THEN [Lis!Show(s) EXCEPT !.cursor = <<next>>]
             ELSE [Lis!Show(s) EXCEPT !.pc = "done"]
  BY FiltersAre DEF Lis!SearchHits, Lis!Cardinality, Cardinality
<1>2. Lis!From(walk) \in Nat /\ walk.limit \in Nat /\ next \in Nat
  <2>1. walk.limit \in Nat
    BY DEF WalkInv, WalkFits, WalkTyped
  <2>2. Lis!From(walk) \in Nat
    BY CursorIs DEF Lis!From
  <2> QED
    BY <2>1, <2>2
<1>3. \A r \in hits : Lis!Rank(r, walk) \in Nat /\ Lis!Rank(r, walk) < Cardinality(hits) /\ Cardinality(hits) \in Nat
  <2>1. IsFiniteSet(rows) /\ rows \subseteq ListRows /\ hits = Lis!Filters(walk.owner, walk.status)
    BY FinitelyManyRows, FiltersAre DEF WalkInv, ListTypeInv
  <2> HIDE DEF hits
  <2> QED
    BY <2>1, RankIsBelow
<1>4. s = {r \in hits : Lis!Rank(r, walk) >= Lis!From(walk) /\ Lis!Rank(r, walk) < next}
  BY FiltersAre DEF Lis!SearchPage
<1>5. WalkPages(walk) /\ WalkTyped(walk) /\ DOMAIN walk = WalkFields
  BY <1>1 DEF WalkInv, WalkFits, WalkTyped
<1>6. walk.calm => \A r \in hits : r.id \in Seen(walk) <=> Lis!Rank(r, walk) < Lis!From(walk)
  BY <1>1, <1>5 DEF WalkPages
<1>7. \A r \in rows : r.id \in walk.must => r \in hits
  BY DEF WalkInv, WalkFits, WalkKnown
<1> HIDE DEF w, hits, s, next
<1>8. s \subseteq hits /\ ((walk.list = "search" /\ ~walk.calm) \/ \A r \in s : r.id \notin Seen(walk))
  BY <1>1, <1>2, <1>3, <1>4, <1>6
<1>9. ASSUME Page(w, s)
      PROVE  /\ WalkTyped(w) /\ WalkKnown(w) /\ ((w.list = "search" /\ ~w.calm) \/ Lis!IsInjective(w.seen))
             /\ \A r \in rows : r.id \in Seen(w) <=> r.id \in Seen(walk) \/ r \in s
             /\ w.calm => \A r \in hits : r.id \in Seen(w) <=> Lis!Rank(r, walk) < next
  <2>1. s \subseteq {r \in rows : Wanted(r, walk)}
    BY <1>8 DEF hits
  <2>2. /\ WalkTyped(w) /\ WalkKnown(w) /\ ((w.list = "search" /\ ~w.calm) \/ Lis!IsInjective(w.seen))
        /\ \A r \in rows : r.id \in Seen(w) <=> r.id \in Seen(walk) \/ r \in s
    <3>1. walk.pc = "paging"
      BY <1>1
    <3>2. (walk.list = "search" /\ ~walk.calm) \/ \A r \in s : r.id \notin Seen(walk)
      BY <1>8
    <3> QED
      BY <1>9, <2>1, <3>1, <3>2, PageShown
  <2>3. ASSUME w.calm, NEW r \in hits PROVE r.id \in Seen(w) <=> Lis!Rank(r, walk) < next
    <3>1. walk.calm /\ r \in rows
      BY <1>9, <2>3 DEF Page, hits
    <3>2. r \in s <=> Lis!Rank(r, walk) >= Lis!From(walk) /\ Lis!Rank(r, walk) < next
      BY <1>4
    <3>3. r.id \in Seen(walk) <=> Lis!Rank(r, walk) < Lis!From(walk)
      BY <1>6, <3>1
    <3>4. Lis!Rank(r, walk) \in Nat /\ Lis!From(walk) <= next
      BY <1>2, <1>3 DEF next
    <3> QED
      BY <1>2, <2>2, <3>1, <3>2, <3>3, <3>4
  <2> QED
    BY <2>2, <2>3
<1>10. CASE next > MaxOffset
  <2>1. w = [walk EXCEPT !.pc = "refused"]
    BY <1>1, <1>10
  <2>2. /\ DOMAIN w = WalkFields /\ w.pc = "refused" /\ w.list = walk.list /\ w.by = walk.by /\ w.owner = walk.owner
        /\ w.status = walk.status /\ w.limit = walk.limit /\ w.cursor = walk.cursor /\ w.seen = walk.seen
        /\ w.calm = walk.calm /\ w.must = walk.must
    BY <1>5, <2>1 DEF WalkFields
  <2>3. WalkTyped(w)
    BY <1>5, <2>2 DEF WalkTyped
  <2>4. WalkKnown(w)
    <3>1. Seen(w) = Seen(walk)
      BY <2>2 DEF Seen
    <3> QED
      BY <2>2, <3>1 DEF WalkInv, WalkFits, WalkKnown, Wanted
  <2>5. WalkFits(w)
    BY <2>2, <2>3, <2>4 DEF WalkInv, WalkFits
  <2> QED
    BY <1>1, <2>5, WalkMoves DEF w
<1>11. CASE ~(next > MaxOffset) /\ next < Cardinality(hits)
  <2>1. w = [Lis!Show(s) EXCEPT !.cursor = <<next>>]
    BY <1>1, <1>11
  <2>2. w.pc = "paging" /\ w.cursor = <<next>> /\ w.list = "search" /\ w.owner = walk.owner /\ w.status = walk.status
    BY <1>1, <1>5, <2>1 DEF Lis!Show, WalkFields
  <2>3. Page(w, s)
    BY <1>1, <1>2, <1>5, <2>1, <2>2 DEF Page, Lis!Show, WalkFields
  <2>4. Lis!From(w) = next /\ \A r : Lis!Rank(r, w) = Lis!Rank(r, walk)
    BY <2>2 DEF Lis!From, Lis!Rank
  <2>5. \A r \in rows : Wanted(r, w) => r \in hits
    BY <2>2 DEF Wanted, hits
  <2>6. WalkPages(w)
    BY <1>9, <2>2, <2>3, <2>4, <2>5 DEF WalkPages
  <2>7. w.pc # "done"
    BY <2>2
  <2>8. WalkFits(w)
    BY <1>9, <2>3, <2>6, <2>7 DEF WalkFits
  <2> QED
    BY <1>1, <2>8, WalkMoves DEF w
<1>12. CASE ~(next > MaxOffset) /\ ~(next < Cardinality(hits))
  <2>1. w = [Lis!Show(s) EXCEPT !.pc = "done"]
    BY <1>1, <1>12
  <2>2. w.pc = "done" /\ w.list = "search" /\ w.must = walk.must /\ w.pc # "paging"
    BY <1>1, <1>5, <2>1 DEF Lis!Show, WalkFields
  <2>3. Page(w, s)
    BY <1>5, <2>1 DEF Page, Lis!Show, WalkFields, WalkTyped
  <2>4. WalkEnded(w)
    <3>1. ASSUME NEW r \in rows, r.id \in w.must, w.calm PROVE r.id \in Seen(w)
      <4>1. r \in hits
        BY <1>7, <2>2, <3>1
      <4>2. Lis!Rank(r, walk) < next
        BY <1>2, <1>3, <1>12, <4>1
      <4> QED
        BY <1>9, <2>3, <3>1, <4>1, <4>2
    <3> QED
      BY <2>2, <3>1 DEF WalkEnded
  <2>5. WalkFits(w)
    BY <1>9, <2>2, <2>3, <2>4 DEF WalkFits
  <2> QED
    BY <1>1, <2>5, WalkMoves DEF w
<1> QED
  BY <1>10, <1>11, <1>12

(* A step of the listings.                                                 *)
LEMMA WalkStep == ASSUME WalkInv, [Next]_vars PROVE WalkInv'
<1>1. ASSUME UNCHANGED listVars PROVE WalkInv'
  <2>1. UNCHANGED <<rows, clock, changes, walk>>
    BY <1>1 DEF listVars
  <2>2. WalkFits(walk')
    BY <2>1 DEF WalkInv
  <2> QED
    BY <2>1, <2>2, WalkMoves
<1>2. ASSUME ListStep PROVE WalkInv'
  <2>1. ASSUME NEW ids \in SUBSET RowIDs, NEW o \in Subjects, Lis!InsertRows(ids, o) PROVE WalkInv'
    BY <2>1, InsertKeeps
  <2>2. ASSUME NEW r \in rows, NEW to \in Lis!RowStatus, Lis!ChangeRow(r, to) PROVE WalkInv'
    BY <2>2, ChangeKeeps
  <2>3. ASSUME Lis!TimePasses PROVE WalkInv'
    <3>1. clock < MaxClock /\ clock' = clock + 1 /\ UNCHANGED <<rows, changes, walk>>
      BY <2>3 DEF Lis!TimePasses
    <3>2. clock' \in 0..MaxClock
      <4>1. MaxClock \in Nat
        BY StorefrontLists
      <4>2. clock \in 0..MaxClock
        BY DEF WalkInv, ListTypeInv
      <4> QED
        BY <3>1, <4>1, <4>2
    <3>3. ListTypeInv'
      BY <3>1, <3>2 DEF WalkInv, ListTypeInv, WalkTyped
    <3>4. WalkFits(walk)'
      <4>1. WalkFits(walk')
        BY <3>1 DEF WalkInv
      <4> QED
        BY <3>1, <4>1, RowsStay
    <3> QED
      BY <3>3, <3>4 DEF WalkInv
  <2>4. ASSUME NEW p \in Visitors, NEW l \in Lis!Lists, NEW o, NEW s, NEW n \in PageSizes, Lis!OpenList(p, l, o, s, n)
        PROVE  WalkInv'
    BY <2>4, OpenKeeps
  <2> QED
    BY <1>2, <2>1, <2>2, <2>3, <2>4, TimePageKeeps, ProductPageKeeps, SearchHitsKeeps DEF ListStep
<1> QED
  BY <1>1, <1>2, ListFrame

(* No walk has begun.                                                      *)
LEMMA WalkBegins == Init => WalkInv
<1> SUFFICES ASSUME Init PROVE WalkInv
  OBVIOUS
<1>1. rows = {} /\ clock = 0 /\ changes = 0 /\ walk = Lis!NoWalk
  BY DEF Init, Lis!ListInit
<1>2. walk.seen = <<>> /\ walk.must = {} /\ walk.pc = "idle" /\ walk.list = "" /\ walk.cursor = <<>>
  BY <1>1 DEF Lis!NoWalk
<1>3. WalkTyped(walk)
  <2>1. <<>> \in Seq(RowIDs)
    OBVIOUS
  <2> QED
    BY <1>1, <2>1 DEF WalkTyped, Lis!NoWalk, WalkFields
<1>4. WalkKnown(walk)
  <2>1. Seen(walk) = {}
    <3> DEFINE q == walk.seen
    <3>1. q = <<>>
      BY <1>2
    <3> HIDE DEF q
    <3>2. \A i \in 1..Len(q) : FALSE
      BY <3>1
    <3> QED
      BY <3>2 DEF Seen, q
  <2>2. walk.list \notin OwnLists
    BY <1>2 DEF OwnLists
  <2> QED
    BY <1>1, <1>2, <2>1, <2>2 DEF WalkKnown
<1>5. Lis!IsInjective(walk.seen)
  <2>1. Lis!IsInjective(<<>>)
    BY DEF Lis!IsInjective
  <2> QED
    BY <1>2, <2>1
<1>6. ListTypeInv
  BY <1>1, <1>3, StorefrontLists DEF ListTypeInv
<1> QED
  BY <1>2, <1>3, <1>4, <1>5, <1>6 DEF WalkInv, WalkFits

(* A walk knows what it must see and has seen, at every step.              *)
THEOREM WalkInvariant == Spec => []WalkInv
<1>1. WalkInv /\ [Next]_vars => WalkInv'
  BY WalkStep
<1> QED
  BY <1>1, WalkBegins, PTL DEF Spec

(* Every listing, whatever its rows, owners and page sizes: a walk that    *)
(* ends has missed no row that was there and stayed, none is shown twice,  *)
(* and no customer sees another's (List, listPage, Search, Scope).         *)
THEOREM WalksAreRight == Spec => []WalksRight
<1>1. WalkInv => WalksRight
  <2> SUFFICES ASSUME WalkInv PROVE WalksRight
    OBVIOUS
  <2>1. Lis!ListTypeOK
    BY DEF WalkInv, ListTypeInv, ListRows, WalkTyped, Lis!ListTypeOK
  <2>2. walk.seen \in Seq(RowIDs) /\ Lis!ToSet(walk.seen) = Seen(walk)
    <3>1. walk.seen \in Seq(RowIDs)
      BY DEF WalkInv, WalkFits, WalkTyped
    <3>2. DOMAIN walk.seen = 1..Len(walk.seen)
      BY <3>1
    <3> QED
      BY <3>1, <3>2 DEF Lis!ToSet, Seen
  <2>3. Lis!WalkComplete
    BY <2>2 DEF WalkInv, WalkFits, WalkEnded, Lis!WalkComplete
  <2>4. Lis!WalkDisjoint
    BY <2>2 DEF WalkInv, WalkFits, WalkKnown, OwnLists, Lis!WalkDisjoint
  <2> QED
    BY <2>1, <2>3, <2>4 DEF WalksRight
<1> QED
  BY <1>1, WalkInvariant, PTL

=============================================================================
