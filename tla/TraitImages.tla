---------------------------- MODULE TraitImages ----------------------------
(***************************************************************************)
(* From the layers a brand uploads to the picture of a token: asset packs, *)
(* the loot table that is checked against them, the traits a wallet        *)
(* unlocks and sets active, and the cache of rendered pictures.            *)
(*                                                                         *)
(* One brand and one wallet with one token.  A trait is a pair of a name   *)
(* and a value.  What a picture shows is which base and which rows were    *)
(* composed.                                                               *)
(***************************************************************************)
EXTENDS Naturals, Sequences, FiniteSets

CONSTANTS
  Packs,        \* the asset packs of the brand
  Traits,       \* pairs of a trait name and a value
  Files,        \* names of the files that are uploaded
  Uploads,      \* uploads under way at the same time
  Saves,        \* requests to POST /brands/:brandId/lootbox/config
  Opens,        \* requests to POST /me/open-lootbox
  Activations,  \* requests to POST /me/traits/activate, and their runs
  Renders,      \* requests to GET /render/:tokenId.png
  None,
  MaxBegun,     \* bound: requests begun, of all kinds
  MaxNamed      \* bound: traits that the node named and the wallet has not won

\* Of a base image; name and value of a trait are not empty.
NoTrait == <<"", "">>

ASSUME ImagesAssumption ==
  /\ \A t \in Traits : t = <<t[1], t[2]>>
  /\ NoTrait \notin Traits
  /\ None \notin Packs \cup Files
  /\ MaxBegun \in Nat
  /\ MaxNamed \in Nat

Kinds == {"base", "layer", "state"}

VARIABLES
  active,      \* brandNftConfig.activeAssetPackId
  objects,     \* keys in the object store: <<pack, kind, file>>
  rows,        \* nftAssetObject rows: <<pack, kind, trait, file>>
  based,       \* packs with a baseImageKey
  upload,      \* [pc, pack, kind, trait, file]
  table,       \* traits in the loot table of the enabled lootboxConfig
  save,        \* [pc, pack, table]
  open,        \* picks of each opening under way
  won,         \* brandUserUnlockedTrait rows of the wallet
  unlocked,    \* its unlockedTrait rows, which its page and activations go by
  on,          \* those with isActive
  activation,  \* [pc, chosen, at, off, set]
  demo,        \* DEMO_MODE
  overlapped,  \* history: two activations wrote in transactions at once
  render,      \* [pc, pack, traits, layers]
  cache,       \* rendered pictures: [key, pack, layers]
  begun        \* number of requests begun

assets   == <<active, objects, rows, based, upload>>
loot     == <<table, save, open, won, unlocked>>
chosen   == <<on, activation, demo, overlapped>>
pictures == <<render, cache>>
vars     == <<assets, loot, chosen, pictures, begun>>

IdleUpload     == [pc |-> "idle", pack |-> None, kind |-> "base", trait |-> NoTrait, file |-> None]
IdleSave       == [pc |-> "idle", pack |-> None, table |-> {}]
IdleActivation == [pc |-> "idle", chosen |-> <<>>, at |-> 1, off |-> {}, set |-> {}]
IdleRender     == [pc |-> "idle", pack |-> None, traits |-> {}, layers |-> {}]

Init ==
  /\ active = None
  /\ objects = {}
  /\ rows = {}
  /\ based = {}
  /\ upload = [u \in Uploads |-> IdleUpload]
  /\ table = {}
  /\ save = [s \in Saves |-> IdleSave]
  /\ open = [o \in Opens |-> {}]
  /\ won = {}
  /\ unlocked = {}
  /\ on = {}
  /\ activation = [a \in Activations |-> IdleActivation]
  /\ demo \in BOOLEAN
  /\ overlapped = FALSE
  /\ render = [q \in Renders |-> IdleRender]
  /\ cache = {}
  /\ begun = 0
-----------------------------------------------------------------------------
(* Asset packs *)

\* POST /brands/:brandId/nft/asset-packs/:packId/upload.
UploadBegin(u, pack, kind, trait, file) ==
  /\ upload[u].pc = "idle"
  /\ kind = "base" <=> trait = NoTrait
  /\ upload' = [upload EXCEPT ![u] = [pc |-> "put", pack |-> pack, kind |-> kind,
                                         trait |-> trait, file |-> file]]
  /\ UNCHANGED <<active, objects, rows, based, loot, chosen, pictures>>

Key(x) == <<x.pack, x.kind, x.file>>

\* An object of the same pack, kind and file name is replaced.
UploadObject(u) ==
  /\ upload[u].pc = "put"
  /\ objects' = objects \cup {Key(upload[u])}
  /\ upload' = [upload EXCEPT ![u].pc = "row"]
  /\ UNCHANGED <<active, rows, based, loot, chosen, pictures>>

UploadRow(u) ==
  /\ upload[u].pc = "row"
  /\ rows' = rows \cup {<<upload[u].pack, upload[u].kind, upload[u].trait, upload[u].file>>}
  /\ upload' = [upload EXCEPT ![u] = IF @.kind = "base" THEN [@ EXCEPT !.pc = "base"]
                                     ELSE IdleUpload]
  /\ UNCHANGED <<active, objects, based, loot, chosen, pictures>>

UploadBase(u) ==
  /\ upload[u].pc = "base"
  /\ based' = based \cup {upload[u].pack}
  /\ upload' = [upload EXCEPT ![u] = IdleUpload]
  /\ UNCHANGED <<active, objects, rows, loot, chosen, pictures>>

\* A step fails, and what was done before stays.
UploadFail(u) ==
  /\ upload[u].pc # "idle"
  /\ upload' = [upload EXCEPT ![u] = IdleUpload]
  /\ UNCHANGED <<active, objects, rows, based, loot, chosen, pictures>>

\* POST /brands/:brandId/nft/contract connects a pack of the brand, or none; what
\* the loot table needs is not looked at.
SetActive(pack) ==
  /\ pack # active
  /\ active' = pack
  /\ UNCHANGED <<objects, rows, based, upload, loot, chosen, pictures>>
-----------------------------------------------------------------------------
(* Loot table *)

\* Mutant: the layers are not looked for.
PicturedAny(pack) == Traits

\* Traits of a pack with a layer or state image.
Pictured(pack) ==
  {t \in Traits : \E kind \in {"layer", "state"}, file \in Files : <<pack, kind, t, file>> \in rows}

\* POST /brands/:brandId/lootbox/config with enabled = true: the active pack is
\* read, its layers are compared with the entries, and the table is stored.
SaveRead(s, entries) ==
  /\ save[s].pc = "idle"
  /\ active # None
  /\ entries # {}
  /\ save' = [save EXCEPT ![s] = [pc |-> "check", pack |-> active, table |-> entries]]
  /\ UNCHANGED <<table, open, won, unlocked, assets, chosen, pictures>>

SaveCheck(s) ==
  /\ save[s].pc = "check"
  /\ save' = [save EXCEPT ![s] = IF @.table \subseteq Pictured(@.pack)
                                 THEN [@ EXCEPT !.pc = "write"] ELSE IdleSave]
  /\ UNCHANGED <<table, open, won, unlocked, assets, chosen, pictures>>

SaveWrite(s) ==
  /\ save[s].pc = "write"
  /\ table' = save[s].table
  /\ save' = [save EXCEPT ![s] = IdleSave]
  /\ UNCHANGED <<open, won, unlocked, assets, chosen, pictures>>

\* POST /me/open-lootbox picks from the table what was not won (how many, and what
\* it costs, is the matter of LootEconomy) and then stores it.
OpenPick(o, picks) ==
  /\ open[o] = {}
  /\ active # None
  /\ picks # {}
  /\ picks \subseteq table \ won
  /\ open' = [open EXCEPT ![o] = picks]
  /\ UNCHANGED <<table, save, won, unlocked, assets, chosen, pictures>>

\* Both kinds of rows are stored, but for those that exist already.
OpenUnlock(o) ==
  /\ open[o] # {}
  /\ won' = won \cup open[o]
  /\ unlocked' = unlocked \cup open[o]
  /\ open' = [open EXCEPT ![o] = {}]
  /\ UNCHANGED <<table, save, assets, chosen, pictures>>

\* The poller sees an OPEN_LOOTBOX run succeed and stores the traits that the node's
\* answer names, whatever they are: they are compared neither with the traits that
\* were picked nor with the layers.  POST /brands/:brandId/lootbox/open creates such
\* runs without picking any, so that one may be under way at any time.
PollerUnlock(traits) ==
  /\ traits # {}
  /\ Cardinality((unlocked \cup traits) \ won) <= MaxNamed
  /\ unlocked' = unlocked \cup traits
  /\ UNCHANGED <<table, save, open, won, assets, chosen, pictures>>

OpenFail(o) ==
  /\ open[o] # {}
  /\ open' = [open EXCEPT ![o] = {}]
  /\ UNCHANGED <<table, save, won, unlocked, assets, chosen, pictures>>
-----------------------------------------------------------------------------
(* Active traits *)

\* Mutant: other values are left on.
NoOtherValues(t, set) == {}

OtherValues(t, set) == {other \in set : other[1] = t[1] /\ other[2] # t[2]}

\* One selection: other values off, this one on.
Selected(t, set) == (set \ OtherValues(t, set)) \cup ({t} \cap unlocked)

\* The loop over one or two selections.
AllSelected(seq, set) ==
  IF Len(seq) = 1 THEN Selected(seq[1], set) ELSE Selected(seq[2], Selected(seq[1], set))

Selections == {<<t>> : t \in Traits} \cup {<<p[1], p[2]>> : p \in {q \in Traits \X Traits : q[1] # q[2]}}

Writing(a) == activation[a].pc \in {"off", "on"}

\* POST /me/traits/activate submits a run; in DEMO_MODE it goes on to set the
\* columns itself, in a transaction.
Activate(a, seq) ==
  /\ activation[a].pc = "idle"
  /\ \A i \in 1..Len(seq) : seq[i] \in unlocked
  /\ activation' = [activation EXCEPT ![a] = [IdleActivation EXCEPT
                      !.pc = IF demo THEN "off" ELSE "sent", !.chosen = seq]]
  /\ overlapped' = (overlapped \/ (demo /\ \E other \in Activations : Writing(other)))
  /\ UNCHANGED <<on, demo, assets, loot, pictures>>

\* The poller sees the run succeed: one transaction, and no other at the time.
PollerApply(a) ==
  /\ activation[a].pc = "sent"
  /\ on' = AllSelected(activation[a].chosen, on)
  /\ activation' = [activation EXCEPT ![a] = IdleActivation]
  /\ UNCHANGED <<demo, overlapped, assets, loot, pictures>>

\* What a transaction sees: what is committed, and its own writes.
View(a) == (on \ activation[a].off) \cup activation[a].set

\* Rows another transaction has written wait for its end.
Locked(a, t) == \E other \in Activations \ {a} :
                  Writing(other) /\ t \in activation[other].off \cup activation[other].set

This(a) == activation[a].chosen[activation[a].at]

DemoOff(a) ==
  LET others == OtherValues(This(a), View(a))
  IN /\ activation[a].pc = "off"
     /\ \A t \in others : ~Locked(a, t)
     /\ activation' = [activation EXCEPT ![a].pc = "on",
                                         ![a].off = @ \cup others, ![a].set = @ \ others]
     /\ UNCHANGED <<on, demo, overlapped, assets, loot, pictures>>

DemoOn(a) ==
  /\ activation[a].pc = "on"
  /\ ~Locked(a, This(a))
  /\ LET last == activation[a].at = Len(activation[a].chosen)
         now  == View(a) \cup {This(a)}
     IN IF last
        THEN /\ on' = now
             /\ activation' = [activation EXCEPT ![a] = IdleActivation]
        ELSE /\ activation' = [activation EXCEPT ![a].pc = "off", ![a].at = @ + 1,
                                 ![a].off = @ \ {This(a)}, ![a].set = @ \cup {This(a)}]
             /\ UNCHANGED on
  /\ UNCHANGED <<demo, overlapped, assets, loot, pictures>>

\* The run fails, or the transaction is rolled back, by a deadlock for instance.
ActivateFail(a) ==
  /\ activation[a].pc # "idle"
  /\ activation' = [activation EXCEPT ![a] = IdleActivation]
  /\ UNCHANGED <<on, demo, overlapped, assets, loot, pictures>>
-----------------------------------------------------------------------------
(* Pictures *)

\* Mutant: the base image is not part of the key.
KeyOfTraits(pack, traits) == [base |-> None, traits |-> traits]

\* activeTraitsHash: the base image, which lies in its pack, and the active traits.
KeyOf(pack, traits) == [base |-> pack, traits |-> traits]

RenderPack(q) ==
  /\ render[q].pc = "idle"
  /\ active # None
  /\ render' = [render EXCEPT ![q] = [IdleRender EXCEPT !.pc = "look", !.pack = active]]
  /\ UNCHANGED <<cache, assets, loot, chosen>>

\* 404 without a base image; a cached picture is sent as it is.
RenderLook(q) ==
  /\ render[q].pc = "look"
  /\ render' = [render EXCEPT ![q] =
       IF \/ @.pack \notin based
          \/ \E c \in cache : c.key = KeyOf(@.pack, on)
       THEN IdleRender
       ELSE [@ EXCEPT !.pc = "draw", !.traits = on]]
  /\ UNCHANGED <<cache, assets, loot, chosen>>

\* Layers of the active traits; state images are not composed.
RenderDraw(q) ==
  /\ render[q].pc = "draw"
  /\ render' = [render EXCEPT ![q].pc = "store",
       ![q].layers = {t \in render[q].traits : \E file \in Files : <<render[q].pack, "layer", t, file>> \in rows}]
  /\ UNCHANGED <<cache, assets, loot, chosen>>

RenderStore(q) ==
  LET key == KeyOf(render[q].pack, render[q].traits)
  IN /\ render[q].pc = "store"
     /\ cache' = {c \in cache : c.key # key}
                   \cup {[key |-> key, pack |-> render[q].pack, layers |-> render[q].layers]}
     /\ render' = [render EXCEPT ![q] = IdleRender]
     /\ UNCHANGED <<assets, loot, chosen>>

RenderFail(q) ==
  /\ render[q].pc # "idle"
  /\ render' = [render EXCEPT ![q] = IdleRender]
  /\ UNCHANGED <<cache, assets, loot, chosen>>
-----------------------------------------------------------------------------
\* A request begins.
Begin ==
  \/ \E u \in Uploads, pack \in Packs, kind \in Kinds, t \in Traits \cup {NoTrait}, file \in Files :
       UploadBegin(u, pack, kind, t, file)
  \/ \E s \in Saves, entries \in SUBSET Traits : SaveRead(s, entries)
  \/ \E o \in Opens, picks \in SUBSET Traits : OpenPick(o, picks)
  \/ \E a \in Activations, seq \in Selections : Activate(a, seq)
  \/ \E q \in Renders : RenderPack(q)

\* A request goes on, a pack is connected, or the poller sees a run succeed.
Continue ==
  \/ \E u \in Uploads : UploadObject(u) \/ UploadRow(u) \/ UploadBase(u) \/ UploadFail(u)
  \/ \E pack \in Packs \cup {None} : SetActive(pack)
  \/ \E s \in Saves : SaveCheck(s) \/ SaveWrite(s)
  \/ \E o \in Opens : OpenUnlock(o) \/ OpenFail(o)
  \/ \E traits \in SUBSET Traits : PollerUnlock(traits)
  \/ \E a \in Activations : PollerApply(a) \/ DemoOff(a) \/ DemoOn(a) \/ ActivateFail(a)
  \/ \E q \in Renders : RenderLook(q) \/ RenderDraw(q) \/ RenderStore(q) \/ RenderFail(q)

Next ==
  \/ begun < MaxBegun /\ Begin /\ begun' = begun + 1
  \/ Continue /\ UNCHANGED begun

Spec == Init /\ [][Next]_vars
-----------------------------------------------------------------------------
TypeOK ==
  /\ active \in Packs \cup {None}
  /\ objects \subseteq Packs \X Kinds \X Files
  /\ rows \subseteq Packs \X Kinds \X (Traits \cup {NoTrait}) \X Files
  /\ based \subseteq Packs
  /\ upload \in [Uploads -> [pc : {"idle", "put", "row", "base"}, pack : Packs \cup {None},
                             kind : Kinds, trait : Traits \cup {NoTrait},
                             file : Files \cup {None}]]
  /\ table \subseteq Traits
  /\ save \in [Saves -> [pc : {"idle", "check", "write"}, pack : Packs \cup {None},
                         table : SUBSET Traits]]
  /\ open \in [Opens -> SUBSET Traits]
  /\ on \subseteq unlocked
  /\ won \subseteq unlocked
  /\ unlocked \subseteq Traits
  /\ activation \in [Activations -> [pc : {"idle", "sent", "off", "on"},
                                     chosen : Selections \cup {<<>>}, at : {1, 2},
                                     off : SUBSET Traits, set : SUBSET Traits]]
  /\ demo \in BOOLEAN
  /\ overlapped \in BOOLEAN
  /\ render \in [Renders -> [pc : {"idle", "look", "draw", "store"}, pack : Packs \cup {None},
                             traits : SUBSET Traits, layers : SUBSET Traits]]
  /\ cache \subseteq [key : [base : Packs, traits : SUBSET Traits], pack : Packs,
                      layers : SUBSET Traits]
  /\ begun \in 0..MaxBegun

\* GET /me/traits: the images of a trait, of which the newest is shown; those of other
\* packs are the last resort.
LayersOf(t) == {row \in rows : row[2] \in {"layer", "state"} /\ row[3] = t}
ImagesOf(t) == LET here == {row \in LayersOf(t) : row[1] = active}
               IN IF here # {} THEN here ELSE LayersOf(t)

\* The owner's page has an image for each trait a wallet won from a loot table,
\* although tables are checked against a pack that may be active no more, and no image
\* of a trait, won or named by the node, lacks its object, although uploads stop half way
\* (brands.ts:1002-1065, 1344-1462, me.ts:421-492).  A trait that only the node named
\* may well have no image.
PrizesPictured ==
  /\ \A t \in won : t \in unlocked /\ ImagesOf(t) # {}
  /\ \A t \in unlocked : \A row \in ImagesOf(t) : <<row[1], row[2], row[4]>> \in objects

\* Of one trait name at most one value is active, however a request lists its
\* selections, unless two transactions of DEMO_MODE overlapped (me.ts:821-847,
\* krnlRunPoller.ts:375-409).
OneValueActive ==
  ~overlapped => \A t, other \in on : t[1] = other[1] => t = other

\* Whatever is asked for, a picture found in the cache has the base of the pack that
\* was read and no layer but of the active traits that were read, also when pack and
\* traits changed while it was composed (metadata.ts:100-165).
CachedPictureFits ==
  \A c \in cache : \A pack \in Packs, traits \in SUBSET Traits :
    c.key = KeyOf(pack, traits) => (c.pack = pack /\ c.layers \subseteq traits)
=============================================================================
