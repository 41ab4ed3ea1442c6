------------------------------ MODULE NftPages ------------------------------
(***************************************************************************)
(* Two pages of one brand that write the same nft settings, each in a tab  *)
(* of its own: the assets page, which makes packs, fills them and says     *)
(* which is active, and the NFT page, which says what contract the brand   *)
(* has.  A save sends all of the settings, what the page did not change    *)
(* as it was when the page loaded them.                                    *)
(*                                                                         *)
(* On the assets page requests overlap, and none is cancelled: what shows  *)
(* the assets of a pack is whichever answer came last.                     *)
(*                                                                         *)
(* contract stands for address, chain and RPC url, which the form wants    *)
(* together.  An asset is named by its pack and by the upload that made    *)
(* it.  How pictures are found, shown and previewed changes nothing here.  *)
(***************************************************************************)
EXTENDS Naturals, Sequences, SequencesExt, FiniteSets

CONSTANTS
  PackIds,      \* asset packs that can be made
  Contracts,
  Requests,     \* requests of the assets page under way at the same time
  Null,         \* null
  MaxEvents     \* bound: uploads, saves of the NFT page, pages opened again and
                \* requests that fail, taken together

\* What the settings can be, where there are any.
Settings == [contract : Contracts, active : PackIds \cup {Null}]

ASSUME NftPagesAssumption ==
  /\ Null \notin PackIds \cup Contracts \cup Settings
  /\ MaxEvents \in Nat

VARIABLES
  config,     \* brandNftConfig: one of Settings, or Null
  packs,      \* nftAssetPack rows, the newest first
  stored,     \* nftAssetObject rows, as <<pack, upload>>
  page,       \* the assets page: [selected, shown, copy, making, activating, sending]
  request,    \* its requests: [kind, by, pack, copy, known, answer]
  form,       \* the NFT page: [copy, reading, read, sent]
  saving,     \* saves on their way to the server
  events,     \* number of what is bounded
  intended,   \* history: the contract and the pack that were set last
  putBack,    \* history: a save put back what the other tab had replaced
  crossed,    \* history: requests about assets overlapped
  missed      \* history: the last of them failed

nftPagesVars == <<config, packs, stored, page, request, form, saving, events, intended,
                  putBack, crossed, missed>>
settings == <<config, intended, putBack>>
tabA     == <<page, request, crossed, missed>>
tabB     == <<form, saving>>

\* by: what the request is made for; copy: the settings the page had when it was
\* begun; known: whether those of a load were answered.
NoCall == [kind |-> "idle", by |-> "none", pack |-> Null, copy |-> Null, known |-> FALSE,
           answer |-> Null]

\* A page just opened; its effect finds no pack selected.
NewPage == [selected |-> Null, shown |-> {}, copy |-> Null, making |-> FALSE,
            activating |-> FALSE, sending |-> {}]

NewForm == [copy |-> Null, reading |-> TRUE, read |-> Null, sent |-> Null]

Call(kind, by, pack) == [NoCall EXCEPT !.kind = kind, !.by = by, !.pack = pack]

Load == [NoCall EXCEPT !.kind = "load"]

NftPagesInit ==
  /\ config \in {Null} \cup [contract : Contracts, active : {Null}]
  /\ packs = <<>>
  /\ stored = {}
  /\ page = NewPage
  /\ \E q \in Requests : request = [r \in Requests |-> IF r = q THEN Load ELSE NoCall]
  /\ form = NewForm
  /\ saving = {}
  /\ events = 0
  /\ intended = IF config = Null THEN [contract |-> Null, active |-> Null] ELSE config
  /\ putBack = FALSE
  /\ crossed = FALSE
  /\ missed = FALSE

Asks(r, kind)  == request[r].kind = kind
Waits(r)       == request[r].answer = Null
Counted        == events < MaxEvents /\ events' = events + 1

AssetKinds == {"assets", "upload", "relist"}
-----------------------------------------------------------------------------
(* The assets page *)

\* Requests about assets overlap if there is one among calls when another is begun.
Crossing(calls) == crossed' = \E q \in Requests : calls[q].kind \in AssetKinds

\* Mutant: the effect does not look at the selection.
SelectQuietly(pack, rest, calls) ==
  /\ page' = [rest EXCEPT !.selected = pack]
  /\ request' = calls
  /\ UNCHANGED <<crossed, missed>>

\* Selecting another pack has the effect list its assets.  rest is the page and calls
\* its requests otherwise.
Select(pack, rest, calls) ==
  \/ /\ pack = page.selected
     /\ page' = rest /\ request' = calls
     /\ UNCHANGED <<crossed, missed>>
  \/ /\ pack # page.selected /\ pack # Null
     /\ page' = [rest EXCEPT !.selected = pack]
     /\ \E q \in Requests :
          /\ calls[q] = NoCall
          /\ request' = [calls EXCEPT ![q] = Call("assets", "effect", pack)]
     /\ Crossing(calls)
     /\ UNCHANGED missed

\* handleAuthError: nothing is left on the page.
Clear(rest, calls) ==
  /\ page' = [rest EXCEPT !.selected = Null, !.shown = {}]
  /\ request' = calls
  /\ missed' = FALSE
  /\ Crossing(calls)

\* A write that is not there yet goes on when its page is gone.
Left(r) == IF request[r].kind \in {"create", "upload", "activate"} /\ Waits(r)
           THEN [request[r] EXCEPT !.by = "gone"]
           ELSE NoCall

\* load asks for the packs and for the settings.
OpenAssets(r) ==
  /\ Counted
  /\ page' = NewPage
  /\ LET left == [q \in Requests |-> Left(q)]
     IN /\ left[r] = NoCall
        /\ request' = [left EXCEPT ![r] = Load]
  /\ crossed' = FALSE /\ missed' = FALSE
  /\ UNCHANGED <<settings, packs, stored, tabB>>

\* GET /brands/:brandId/nft/asset-packs
ServePacks(r) ==
  /\ Asks(r, "load") \/ Asks(r, "refresh")
  /\ Waits(r)
  /\ request' = [request EXCEPT ![r].answer = packs]
  /\ UNCHANGED <<settings, packs, stored, page, crossed, missed, tabB, events>>

\* GET /brands/:brandId/nft/contract; that it fails is taken for no settings.
ServeSettings(r) ==
  /\ Asks(r, "load") /\ ~request[r].known
  /\ \/ request' = [request EXCEPT ![r].known = TRUE, ![r].copy = config] /\ UNCHANGED events
     \/ request' = [request EXCEPT ![r].known = TRUE] /\ Counted
  /\ UNCHANGED <<settings, packs, stored, page, crossed, missed, tabB>>

\* The selection is kept while there is such a pack; otherwise the active pack is
\* selected, or the newest.
Selection(list, copy) ==
  IF page.selected \in ToSet(list) THEN page.selected
  ELSE IF copy # Null /\ copy.active \in ToSet(list) THEN copy.active
  ELSE IF list # <<>> THEN Head(list) ELSE Null

Ended(r) == [request EXCEPT ![r] = NoCall]

\* The end of load.  A pack that is not in the list is no longer selected.
ShowLoad(r) ==
  /\ Asks(r, "load") /\ ~Waits(r) /\ request[r].known
  /\ LET copy == request[r].copy
         pack == Selection(request[r].answer, copy)
     IN Select(pack, [page EXCEPT !.copy = copy], Ended(r))
  /\ UNCHANGED <<settings, packs, stored, tabB, events>>

SelectPack(pack) ==
  /\ pack \in ToSet(packs) \ {page.selected}
  /\ Select(pack, page, request)
  /\ UNCHANGED <<settings, packs, stored, tabB, events>>

AssetsOf(pack) == {a \in stored : a[1] = pack}

\* GET /brands/:brandId/nft/asset-packs/:packId/assets
ServeAssets(r) ==
  /\ Asks(r, "assets") \/ Asks(r, "relist")
  /\ Waits(r)
  /\ request' = [request EXCEPT ![r].answer = AssetsOf(request[r].pack)]
  /\ UNCHANGED <<settings, packs, stored, page, crossed, missed, tabB, events>>

\* The end of fetchAssets, whichever pack is selected by now.
ShowAssets(r) ==
  /\ Asks(r, "assets") /\ ~Waits(r)
  /\ page' = [page EXCEPT !.shown = request[r].answer]
  /\ request' = Ended(r)
  /\ missed' = FALSE
  /\ UNCHANGED <<settings, packs, stored, crossed, tabB, events>>
-----------------------------------------------------------------------------
(* Packs *)

CreatePack(r) ==
  /\ ~page.making
  /\ request[r] = NoCall
  /\ page' = [page EXCEPT !.making = TRUE]
  /\ request' = [request EXCEPT ![r] = Call("create", "form", Null)]
  /\ UNCHANGED <<settings, packs, stored, crossed, missed, tabB, events>>

\* What the page hears of; of a page that is gone nothing is left.
Answered(r, answer) == IF request[r].by = "gone" THEN Ended(r)
                                                 ELSE [request EXCEPT ![r].answer = answer]

\* POST /brands/:brandId/nft/asset-packs
ServeCreate(r) ==
  /\ Asks(r, "create") /\ Waits(r)
  /\ \E pack \in PackIds \ ToSet(packs) :
       packs' = <<pack>> \o packs /\ request' = Answered(r, pack)
  /\ UNCHANGED <<settings, stored, page, crossed, missed, tabB, events>>

\* The list is asked for again, and the pack that was made selected after it.
ShowCreate(r) ==
  /\ Asks(r, "create") /\ ~Waits(r)
  /\ request' = [request EXCEPT ![r].kind = "refresh", ![r].by = "create",
                                ![r].pack = request[r].answer, ![r].answer = Null]
  /\ UNCHANGED <<settings, packs, stored, page, crossed, missed, tabB, events>>

\* The page as the handler that waited for refreshAssetPacks leaves it.
Finished(r) ==
  IF request[r].by = "create" THEN [page EXCEPT !.making = FALSE]
                              ELSE [page EXCEPT !.sending = @ \ {request[r].by}]

ShowRefresh(r) ==
  /\ Asks(r, "refresh") /\ ~Waits(r)
  /\ Select(IF request[r].by = "create" THEN request[r].pack
                                        ELSE Selection(request[r].answer, request[r].copy),
            Finished(r), Ended(r))
  /\ UNCHANGED <<settings, packs, stored, tabB, events>>

\* The button of the selected pack.
CanActivate == /\ page.selected # Null /\ page.copy # Null
               /\ ~page.activating /\ page.copy.active # page.selected

\* handleSetActive sends the selected pack and what the page knows of the contract.
SetActivePack(r) ==
  /\ CanActivate
  /\ request[r] = NoCall
  /\ page' = [page EXCEPT !.activating = TRUE]
  /\ request' = [request EXCEPT ![r] = [Call("activate", "button", page.selected)
                                              EXCEPT !.copy = page.copy]]
  /\ UNCHANGED <<settings, packs, stored, crossed, missed, tabB, events>>

\* Mutant: settings that are not sent are cleared.
StoreAll(contract, active) == config' = [contract |-> contract, active |-> active]

\* The upsert of POST /brands/:brandId/nft/contract: a pack that is not sent stays.
Store(contract, active) ==
  config' = [contract |-> contract,
             active   |-> IF active = Null /\ config # Null THEN config.active ELSE active]

ServeActivate(r) ==
  /\ Asks(r, "activate") /\ Waits(r)
  /\ Store(request[r].copy.contract, request[r].pack)
  /\ intended' = [intended EXCEPT !.active = request[r].pack]
  /\ putBack' = (putBack \/ config.contract # request[r].copy.contract)
  /\ request' = Answered(r, "ok")
  /\ UNCHANGED <<packs, stored, page, crossed, missed, tabB, events>>

ShowActivate(r) ==
  /\ Asks(r, "activate") /\ ~Waits(r)
  /\ page' = [page EXCEPT !.copy = [request[r].copy EXCEPT !.active = request[r].pack],
                          !.activating = FALSE]
  /\ request' = Ended(r)
  /\ UNCHANGED <<settings, packs, stored, crossed, missed, tabB, events>>
-----------------------------------------------------------------------------
(* Uploads: of a base picture, and of the layer of a trait *)

Upload(r, kind) ==
  /\ page.selected # Null
  /\ kind \notin page.sending
  /\ request[r] = NoCall
  /\ page' = [page EXCEPT !.sending = @ \cup {kind}]
  /\ request' = [request EXCEPT ![r] = [Call("upload", kind, page.selected)
                                              EXCEPT !.copy = page.copy]]
  /\ Crossing(request)
  /\ Counted
  /\ UNCHANGED <<settings, packs, stored, missed, tabB>>

UploadBaseFile(r)  == Upload(r, "base")
UploadLayerFile(r) == Upload(r, "layer")

\* POST /brands/:brandId/nft/asset-packs/:packId/upload
ServeUpload(r) ==
  /\ Asks(r, "upload") /\ Waits(r)
  /\ LET asset == <<request[r].pack, Cardinality(stored) + 1>>
     IN stored' = stored \cup {asset} /\ request' = Answered(r, asset)
  /\ UNCHANGED <<settings, packs, page, crossed, missed, tabB, events>>

\* The asset is shown at once, and the assets of the pack are asked for.
ShowUpload(r) ==
  /\ Asks(r, "upload") /\ ~Waits(r)
  /\ page' = [page EXCEPT !.shown = @ \cup {request[r].answer}]
  /\ request' = [request EXCEPT ![r].kind = "relist", ![r].answer = Null]
  /\ UNCHANGED <<settings, packs, stored, crossed, missed, tabB, events>>

\* Then the packs.
ShowRelist(r) ==
  /\ Asks(r, "relist") /\ ~Waits(r)
  /\ page' = [page EXCEPT !.shown = request[r].answer]
  /\ request' = [request EXCEPT ![r].kind = "refresh", ![r].pack = Null, ![r].answer = Null]
  /\ missed' = FALSE
  /\ UNCHANGED <<settings, packs, stored, crossed, tabB, events>>
-----------------------------------------------------------------------------
(* Requests that fail, before they were answered or after *)

\* 401 and 403 clear the page where it only reads.
FailRead(r) ==
  /\ Asks(r, "load") \/ Asks(r, "assets")
  /\ Counted
  /\ \/ Clear(page, Ended(r))
     \/ request' = Ended(r) /\ missed' = (missed \/ Asks(r, "assets")) /\ UNCHANGED <<page, crossed>>
  /\ UNCHANGED <<settings, packs, stored, tabB>>

\* The handler goes on: a pack that was made is selected all the same.  If it was
\* selected before, a page that was cleared stays empty.
FailRefresh(r) ==
  /\ Asks(r, "refresh")
  /\ Counted
  /\ CASE request[r].by # "create" ->
            \/ Clear(Finished(r), Ended(r))
            \/ page' = Finished(r) /\ request' = Ended(r) /\ UNCHANGED <<crossed, missed>>
       [] request[r].by = "create" /\ request[r].pack = page.selected ->
            \E kept \in {page.shown, {}} :
              /\ page' = [Finished(r) EXCEPT !.shown = kept]
              /\ request' = Ended(r)
              /\ missed' = (missed \/ kept # page.shown)
              /\ UNCHANGED crossed
       [] OTHER ->
            \E kept \in {page.shown, {}} :
              Select(request[r].pack, [Finished(r) EXCEPT !.shown = kept], Ended(r))
  /\ UNCHANGED <<settings, packs, stored, tabB>>

FailWrite(r) ==
  /\ request[r].kind \in {"create", "activate", "upload", "relist"}
  /\ request[r].by # "gone"
  /\ Counted
  /\ page' = CASE Asks(r, "create")   -> [page EXCEPT !.making = FALSE]
               [] Asks(r, "activate") -> [page EXCEPT !.activating = FALSE]
               [] OTHER             -> Finished(r)
  /\ request' = Ended(r)
  /\ missed' = (missed \/ request[r].kind \in AssetKinds)
  /\ UNCHANGED <<settings, packs, stored, crossed, tabB>>
-----------------------------------------------------------------------------
(* The NFT page *)

OpenForm ==
  /\ Counted
  /\ form' = NewForm
  /\ UNCHANGED <<settings, packs, stored, tabA, saving>>

\* GET /brands/:brandId/nft/contract, for the form.
ServeForm ==
  /\ form.reading /\ form.read = Null
  /\ config # Null
  /\ form' = [form EXCEPT !.read = config]
  /\ UNCHANGED <<settings, packs, stored, tabA, saving, events>>

ShowForm ==
  /\ form.reading /\ form.read # Null
  /\ form' = [form EXCEPT !.copy = form.read, !.reading = FALSE, !.read = Null]
  /\ UNCHANGED <<settings, packs, stored, tabA, saving, events>>

\* Without settings, or when the request fails, there is an error and nothing to show.
FailForm ==
  /\ form.reading
  /\ form' = [form EXCEPT !.reading = FALSE, !.read = Null]
  /\ (config = Null /\ form.read = Null /\ UNCHANGED events) \/ Counted
  /\ UNCHANGED <<settings, packs, stored, tabA, saving>>

\* buildConfigPayload: the pack the page knows of is sent along.
Payload(contract) ==
  [contract |-> contract, active |-> IF form.copy = Null THEN Null ELSE form.copy.active,
   id |-> events]

Save(contract) ==
  /\ form.sent = Null
  /\ Counted
  /\ form' = [form EXCEPT !.sent = Payload(contract)]
  /\ saving' = saving \cup {Payload(contract)}
  /\ UNCHANGED <<settings, packs, stored, tabA>>

\* POST /brands/:brandId/nft/contract
ServeSave(save) ==
  /\ saving' = saving \ {save}
  /\ Store(save.contract, save.active)
  /\ intended' = [intended EXCEPT !.contract = save.contract]
  /\ putBack' = (putBack \/
       (save.active # Null /\ config # Null /\ save.active # config.active))
  /\ UNCHANGED <<packs, stored, tabA, form, events>>

\* The page knows what it saved.
ShowSave ==
  /\ form.sent # Null /\ form.sent \notin saving
  /\ form' = [form EXCEPT !.sent = Null,
       !.copy = [contract |-> form.sent.contract,
                 active   |-> IF form.sent.active # Null \/ form.copy = Null
                              THEN form.sent.active ELSE form.copy.active]]
  /\ UNCHANGED <<settings, packs, stored, tabA, saving, events>>

\* The page hears of an error; the save may have arrived, or not.
FailSave ==
  /\ form.sent # Null
  /\ Counted
  /\ form' = [form EXCEPT !.sent = Null]
  /\ saving' = saving \ {form.sent}
  /\ UNCHANGED <<settings, packs, stored, tabA>>
-----------------------------------------------------------------------------
AssetsStep(r) ==
  \/ OpenAssets(r) \/ ServePacks(r) \/ ServeSettings(r) \/ ShowLoad(r)
  \/ ServeAssets(r) \/ ShowAssets(r)
  \/ CreatePack(r) \/ ServeCreate(r) \/ ShowCreate(r) \/ ShowRefresh(r)
  \/ SetActivePack(r) \/ ServeActivate(r) \/ ShowActivate(r)
  \/ UploadBaseFile(r) \/ UploadLayerFile(r) \/ ServeUpload(r) \/ ShowUpload(r)
  \/ ShowRelist(r)
  \/ FailRead(r) \/ FailRefresh(r) \/ FailWrite(r)

FormStep ==
  \/ OpenForm \/ ServeForm \/ ShowForm \/ FailForm
  \/ \E contract \in Contracts : Save(contract)
  \/ \E save \in saving : ServeSave(save)
  \/ ShowSave \/ FailSave

NftPagesNext ==
  \/ \E r \in Requests : AssetsStep(r)
  \/ \E pack \in PackIds : SelectPack(pack)
  \/ FormStep

NftPagesSpec == NftPagesInit /\ [][NftPagesNext]_nftPagesVars
-----------------------------------------------------------------------------
(* Properties                                                              *)

MaybePack == PackIds \cup {Null}
Known     == Settings \cup {Null}
Assets    == PackIds \X Nat
Listed    == Seq(PackIds) \cup {Null}
Showable  == (SUBSET Assets) \cup {Null}
Uploads   == {"base", "layer"}

\* The calls of each kind, with what they are made for and what they are answered with.
CallsOf(kind, by, pack, copy, known, answer) ==
  [kind : {kind}, by : by, pack : pack, copy : copy, known : known, answer : answer]

LoadCalls     == CallsOf("load", {"none"}, {Null}, Known, BOOLEAN, Listed)
AssetCalls    == CallsOf("assets", {"effect"}, PackIds, {Null}, {FALSE}, Showable)
CreateCalls   == CallsOf("create", {"form", "gone"}, {Null}, {Null}, {FALSE}, MaybePack)
CreatedCalls  == CallsOf("refresh", {"create"}, PackIds, {Null}, {FALSE}, Listed)
UploadCalls   == CallsOf("upload", Uploads, PackIds, Known, {FALSE}, Assets \cup {Null})
GoneUploads   == CallsOf("upload", {"gone"}, PackIds, Known, {FALSE}, {Null})
RelistCalls   == CallsOf("relist", Uploads, PackIds, Known, {FALSE}, Showable)
UploadedCalls == CallsOf("refresh", Uploads, {Null}, Known, {FALSE}, Listed)
ActivateCalls == CallsOf("activate", {"button", "gone"}, PackIds, Settings, {FALSE},
                         {"ok", Null})

PageCalls ==
  {NoCall} \cup LoadCalls \cup AssetCalls \cup CreateCalls \cup CreatedCalls
    \cup UploadCalls \cup GoneUploads \cup RelistCalls \cup UploadedCalls \cup ActivateCalls

PageSet == [selected : MaybePack, shown : SUBSET Assets, copy : Known, making : BOOLEAN,
            activating : BOOLEAN, sending : SUBSET Uploads]
Saves   == [contract : Contracts, active : MaybePack, id : Nat]
FormSet == [copy : Known, reading : BOOLEAN, read : Known, sent : Saves \cup {Null}]

\* Every row, and everything the two pages hold, is of its type.
NftPagesTypeOK ==
  /\ config \in Known
  /\ packs \in Seq(PackIds)
  /\ stored \subseteq Assets /\ IsFiniteSet(stored)
  /\ page \in PageSet
  /\ request \in [Requests -> PageCalls]
  /\ form \in FormSet
  /\ saving \subseteq Saves
  /\ events \in 0..MaxEvents
  /\ intended \in [contract : Contracts \cup {Null}, active : MaybePack]
  /\ {putBack, crossed, missed} \subseteq BOOLEAN

\* Neither tab undoes what the other set, although each sends all of the settings
\* and knows some only as it loaded them, or not at all: the brand has the contract
\* and the pack that were set last, unless a page sent a value it still showed
\* after the other tab had replaced it (nft/page.tsx:149-177, assets/page.tsx:417-443,
\* brands.ts:1182-1206).
SettingsKept == (config # Null /\ ~putBack) => config = intended

\* When nothing is under way, what is shown is what the selected pack holds, after
\* whatever was made, selected, uploaded and refused: unless requests about assets
\* overlapped or the last of them failed (assets/page.tsx:327-379, 445-590).
ShownOfSelected ==
  (~crossed /\ ~missed /\ \A r \in Requests : request[r] = NoCall)
    => page.shown = AssetsOf(page.selected)
=============================================================================
