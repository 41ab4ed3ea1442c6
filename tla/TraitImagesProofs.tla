------------------------- MODULE TraitImagesProofs -------------------------
(***************************************************************************)
(* What holds of layers, loot tables, active traits and pictures for any   *)
(* packs and traits and any number of overlapping requests.                *)
(***************************************************************************)
EXTENDS TraitImages, TLAPS

UploadRec     == [pc : {"idle", "put", "row", "base"}, pack : Packs \cup {None},
                  kind : Kinds, trait : Traits \cup {NoTrait}, file : Files \cup {None}]
SaveRec       == [pc : {"idle", "check", "write"}, pack : Packs \cup {None},
                  table : SUBSET Traits]
ActivationRec == [pc : {"idle", "sent", "off", "on"}, chosen : Selections \cup {<<>>},
                  at : {1, 2}, off : SUBSET Traits, set : SUBSET Traits]
RenderRec     == [pc : {"idle", "look", "draw", "store"}, pack : Packs \cup {None},
                  traits : SUBSET Traits, layers : SUBSET Traits]
CacheRec      == [key : [base : Packs, traits : SUBSET Traits], pack : Packs,
                  layers : SUBSET Traits]

(* The rows as they are reset.                                             *)
LEMMA ResetRecs ==
  /\ IdleUpload \in UploadRec
  /\ IdleSave \in SaveRec
  /\ IdleActivation \in ActivationRec
  /\ IdleRender \in RenderRec
BY DEF IdleUpload, UploadRec, Kinds, IdleSave, SaveRec, IdleActivation, ActivationRec,
       IdleRender, RenderRec

(* A request chooses one trait or two different ones.                      *)
LEMMA SelectionShape ==
  ASSUME NEW seq \in Selections
  PROVE  /\ Len(seq) \in {1, 2}
         /\ \A i \in 1..Len(seq) : seq[i] \in Traits
<1>1. CASE \E t \in Traits : seq = <<t>>
  BY <1>1
<1>2. CASE \E t, other \in Traits : seq = <<t, other>>
  BY <1>2
<1> QED
  BY <1>1, <1>2 DEF Selections

(* The assets, which uploads and POST /nft/contract write.                 *)
AssetsOK ==
  /\ active \in Packs \cup {None}
  /\ objects \subseteq Packs \X Kinds \X Files
  /\ rows \subseteq Packs \X Kinds \X (Traits \cup {NoTrait}) \X Files
  /\ based \subseteq Packs
  /\ upload \in [Uploads -> UploadRec]
  /\ \A u \in Uploads : upload[u].pc # "idle" => upload[u].pack \in Packs /\ upload[u].file \in Files

(* The loot table and what is won from it.                                 *)
LootOK ==
  /\ table \subseteq Traits
  /\ save \in [Saves -> SaveRec]
  /\ open \in [Opens -> SUBSET Traits]
  /\ won \subseteq unlocked
  /\ unlocked \subseteq Traits

(* Selections and their transactions write unlocked traits only.           *)
ChosenOK ==
  /\ on \subseteq unlocked
  /\ activation \in [Activations -> ActivationRec]
  /\ \A a \in Activations :
       activation[a].pc # "idle" =>
         /\ activation[a].chosen \in Selections
         /\ \A i \in 1..Len(activation[a].chosen) : activation[a].chosen[i] \in unlocked
         /\ activation[a].at <= Len(activation[a].chosen)
         /\ activation[a].set \subseteq unlocked
  /\ demo \in BOOLEAN
  /\ overlapped \in BOOLEAN

PicturesOK ==
  /\ render \in [Renders -> RenderRec]
  /\ \A q \in Renders : render[q].pc # "idle" => render[q].pack \in Packs
  /\ cache \subseteq CacheRec

ImagesOK == AssetsOK /\ LootOK /\ ChosenOK /\ PicturesOK /\ begun \in 0..MaxBegun

UploadStep(u) ==
  \/ \E pack \in Packs, kind \in Kinds, t \in Traits \cup {NoTrait}, file \in Files :
       UploadBegin(u, pack, kind, t, file)
  \/ UploadObject(u) \/ UploadRow(u) \/ UploadBase(u) \/ UploadFail(u)

LootStep ==
  \/ \E s \in Saves :
       \/ \E entries \in SUBSET Traits : SaveRead(s, entries)
       \/ SaveCheck(s) \/ SaveWrite(s)
  \/ \E o \in Opens :
       \/ \E picks \in SUBSET Traits : OpenPick(o, picks)
       \/ OpenUnlock(o) \/ OpenFail(o)
  \/ \E traits \in SUBSET Traits : PollerUnlock(traits)

ChosenStep(a) ==
  \/ \E seq \in Selections : Activate(a, seq)
  \/ PollerApply(a) \/ DemoOff(a) \/ DemoOn(a) \/ ActivateFail(a)

RenderStep(q) ==
  RenderPack(q) \/ RenderLook(q) \/ RenderDraw(q) \/ RenderStore(q) \/ RenderFail(q)

(* Next, by the part of the state that a step writes.                      *)
LEMMA ImagesCases ==
  ASSUME [Next]_vars
  PROVE  \/ (\E u \in Uploads : UploadStep(u)) /\ UNCHANGED <<loot, chosen, pictures>>
         \/ (\E pack \in Packs \cup {None} : SetActive(pack))
              /\ UNCHANGED <<loot, chosen, pictures>>
         \/ LootStep /\ UNCHANGED <<assets, chosen, pictures>>
         \/ (\E a \in Activations : ChosenStep(a)) /\ UNCHANGED <<assets, loot, pictures>>
         \/ (\E q \in Renders : RenderStep(q)) /\ UNCHANGED <<assets, loot, chosen>>
         \/ UNCHANGED vars
<1>1. ASSUME NEW u \in Uploads, UploadStep(u)
      PROVE  UNCHANGED <<loot, chosen, pictures>>
  BY <1>1 DEF UploadStep, UploadBegin, UploadObject, UploadRow, UploadBase, UploadFail
<1>2. ASSUME NEW pack \in Packs \cup {None}, SetActive(pack)
      PROVE  UNCHANGED <<loot, chosen, pictures>>
  BY <1>2 DEF SetActive
<1>3. ASSUME LootStep
      PROVE  UNCHANGED <<assets, chosen, pictures>>
  BY <1>3 DEF LootStep, SaveRead, SaveCheck, SaveWrite, OpenPick, OpenUnlock, OpenFail,
              PollerUnlock
<1>4. ASSUME NEW a \in Activations, ChosenStep(a)
      PROVE  UNCHANGED <<assets, loot, pictures>>
  BY <1>4 DEF ChosenStep, Activate, PollerApply, DemoOff, DemoOn, ActivateFail
<1>5. ASSUME NEW q \in Renders, RenderStep(q)
      PROVE  UNCHANGED <<assets, loot, chosen>>
  BY <1>5 DEF RenderStep, RenderPack, RenderLook, RenderDraw, RenderStore, RenderFail
<1> QED
  BY <1>1, <1>2, <1>3, <1>4, <1>5
  DEF Next, Begin, Continue, UploadStep, LootStep, ChosenStep, RenderStep

LEMMA UploadTypes ==
  ASSUME AssetsOK, NEW u \in Uploads, UploadStep(u)
  PROVE  AssetsOK'
<1> USE DEF AssetsOK
<1>0. upload[u] \in UploadRec
  OBVIOUS
<1>1. ASSUME NEW pack \in Packs, NEW kind \in Kinds, NEW t \in Traits \cup {NoTrait},
             NEW file \in Files, UploadBegin(u, pack, kind, t, file)
      PROVE  AssetsOK'
  <2>1. [pc |-> "put", pack |-> pack, kind |-> kind, trait |-> t, file |-> file] \in UploadRec
    BY DEF UploadRec
  <2> QED
    BY <1>1, <2>1 DEF UploadBegin
<1>2. CASE UploadObject(u)
  <2>1. upload[u].pack \in Packs /\ upload[u].kind \in Kinds /\ upload[u].file \in Files
    BY <1>0, <1>2 DEF UploadObject, UploadRec
  <2>2. [upload[u] EXCEPT !.pc = "row"] \in UploadRec
    BY <1>0 DEF UploadRec
  <2>3. /\ [upload[u] EXCEPT !.pc = "row"].pack = upload[u].pack
        /\ [upload[u] EXCEPT !.pc = "row"].file = upload[u].file
    BY <1>0 DEF UploadRec
  <2> QED
    BY <1>2, <2>1, <2>2, <2>3 DEF UploadObject, Key
<1>3. CASE UploadRow(u)
  <2>1. upload[u].pack \in Packs /\ upload[u].kind \in Kinds
        /\ upload[u].trait \in Traits \cup {NoTrait} /\ upload[u].file \in Files
    BY <1>0, <1>3 DEF UploadRow, UploadRec
  <2>2. /\ [upload[u] EXCEPT !.pc = "base"] \in UploadRec
        /\ [upload[u] EXCEPT !.pc = "base"].pack = upload[u].pack
        /\ [upload[u] EXCEPT !.pc = "base"].file = upload[u].file
    BY <1>0 DEF UploadRec
  <2>3. rows' \subseteq Packs \X Kinds \X (Traits \cup {NoTrait}) \X Files
    BY <1>3, <2>1 DEF UploadRow
  <2>4. /\ upload' \in [Uploads -> UploadRec]
        /\ upload'[u] = [upload[u] EXCEPT !.pc = "base"] \/ upload'[u] = IdleUpload
        /\ \A other \in Uploads \ {u} : upload'[other] = upload[other]
    BY <1>3, <2>2, ResetRecs DEF UploadRow
  <2>5. IdleUpload.pc = "idle"
    BY DEF IdleUpload
  <2> QED
    BY <1>3, <2>1, <2>2, <2>3, <2>4, <2>5 DEF UploadRow
<1>4. CASE UploadBase(u)
  <2>1. upload[u].pack \in Packs
    BY <1>4 DEF UploadBase
  <2> QED
    BY <1>4, <2>1, ResetRecs DEF UploadBase, IdleUpload
<1>5. CASE UploadFail(u)
  BY <1>5, ResetRecs DEF UploadFail, IdleUpload
<1> QED
  BY <1>1, <1>2, <1>3, <1>4, <1>5 DEF UploadStep

LEMMA LootTypes ==
  ASSUME LootOK, active \in Packs \cup {None}, LootStep
  PROVE  LootOK' /\ unlocked \subseteq unlocked'
<1> USE DEF LootOK
<1>1. ASSUME NEW s \in Saves, NEW entries \in SUBSET Traits, SaveRead(s, entries)
      PROVE  LootOK' /\ unlocked \subseteq unlocked'
  BY <1>1 DEF SaveRead, SaveRec
<1>2. ASSUME NEW s \in Saves, SaveCheck(s)
      PROVE  LootOK' /\ unlocked \subseteq unlocked'
  <2>1. [save[s] EXCEPT !.pc = "write"] \in SaveRec
    BY DEF SaveRec
  <2> QED
    BY <1>2, <2>1, ResetRecs DEF SaveCheck
<1>3. ASSUME NEW s \in Saves, SaveWrite(s)
      PROVE  LootOK' /\ unlocked \subseteq unlocked'
  <2>1. save[s].table \subseteq Traits
    BY DEF SaveRec
  <2> QED
    BY <1>3, <2>1, ResetRecs DEF SaveWrite
<1>4. ASSUME NEW o \in Opens, NEW picks \in SUBSET Traits, OpenPick(o, picks)
      PROVE  LootOK' /\ unlocked \subseteq unlocked'
  BY <1>4 DEF OpenPick
<1>5. ASSUME NEW o \in Opens, OpenUnlock(o) \/ OpenFail(o)
      PROVE  LootOK' /\ unlocked \subseteq unlocked'
  BY <1>5 DEF OpenUnlock, OpenFail
<1>6. ASSUME NEW traits \in SUBSET Traits, PollerUnlock(traits)
      PROVE  LootOK' /\ unlocked \subseteq unlocked'
  BY <1>6 DEF PollerUnlock
<1> QED
  BY <1>1, <1>2, <1>3, <1>4, <1>5, <1>6 DEF LootStep

(* One selection, and the loop, leave only unlocked traits on.             *)
LEMMA SelectedUnlocked ==
  ASSUME NEW set \in SUBSET unlocked, NEW seq
  PROVE  /\ \A t : Selected(t, set) \subseteq unlocked
         /\ AllSelected(seq, set) \subseteq unlocked
<1>1. \A t, s : s \subseteq unlocked => Selected(t, s) \subseteq unlocked
  BY DEF Selected
<1> QED
  BY <1>1 DEF AllSelected

LEMMA ChosenTypes ==
  ASSUME ChosenOK, unlocked \subseteq Traits, NEW a \in Activations, ChosenStep(a),
         UNCHANGED unlocked
  PROVE  ChosenOK'
<1> USE DEF ChosenOK
<1>0. activation[a] \in ActivationRec
  OBVIOUS
<1>1. ASSUME NEW seq \in Selections, Activate(a, seq)
      PROVE  ChosenOK'
  <2>1. PICK row : /\ activation' = [activation EXCEPT ![a] = row]
                   /\ row \in ActivationRec
                   /\ row.chosen = seq /\ row.at = 1 /\ row.set = {}
    <3>1. PICK pc \in {"off", "sent"} :
            activation' = [activation EXCEPT ![a] = [IdleActivation EXCEPT !.pc = pc,
                                                                           !.chosen = seq]]
      BY <1>1 DEF Activate
    <3>2. /\ [IdleActivation EXCEPT !.pc = pc, !.chosen = seq] \in ActivationRec
          /\ [IdleActivation EXCEPT !.pc = pc, !.chosen = seq].chosen = seq
          /\ [IdleActivation EXCEPT !.pc = pc, !.chosen = seq].at = 1
          /\ [IdleActivation EXCEPT !.pc = pc, !.chosen = seq].set = {}
      BY DEF IdleActivation, ActivationRec
    <3> QED
      BY <3>1, <3>2
  <2>2. \A i \in 1..Len(seq) : seq[i] \in unlocked
    BY <1>1 DEF Activate
  <2>3. 1 <= Len(seq)
    BY SelectionShape
  <2>4. overlapped' \in BOOLEAN
    BY <1>1 DEF Activate
  <2> QED
    BY <1>1, <2>1, <2>2, <2>3, <2>4 DEF Activate
<1>2. CASE PollerApply(a)
  <2>1. on' \subseteq unlocked
    BY <1>2, SelectedUnlocked DEF PollerApply
  <2> QED
    BY <1>2, <2>1, ResetRecs DEF PollerApply, IdleActivation
<1>3. CASE DemoOff(a)
  <2>1. PICK others \in SUBSET View(a) :
          activation' = [activation EXCEPT ![a].pc = "on", ![a].off = @ \cup others,
                                           ![a].set = @ \ others]
    BY <1>3 DEF DemoOff, OtherValues
  <2>2. View(a) \subseteq unlocked
    BY <1>3 DEF DemoOff, View
  <2>3. [activation[a] EXCEPT !.pc = "on", !.off = @ \cup others, !.set = @ \ others]
          \in ActivationRec
    BY <1>0, <2>2 DEF ActivationRec
  <2>4. /\ activation'[a].chosen = activation[a].chosen
        /\ activation'[a].at = activation[a].at
        /\ activation'[a].set = activation[a].set \ others
        /\ \A other \in Activations \ {a} : activation'[other] = activation[other]
    BY <1>0, <2>1 DEF ActivationRec
  <2>5. activation' \in [Activations -> ActivationRec]
    BY <2>1, <2>3
  <2>6. ASSUME NEW other \in Activations, activation'[other].pc # "idle"
        PROVE  /\ activation'[other].chosen \in Selections
               /\ \A i \in 1..Len(activation'[other].chosen) :
                    activation'[other].chosen[i] \in unlocked
               /\ activation'[other].at <= Len(activation'[other].chosen)
               /\ activation'[other].set \subseteq unlocked
    <3>1. activation[a].pc # "idle"
      BY <1>3 DEF DemoOff
    <3>2. CASE other = a
      BY <2>4, <3>1, <3>2
    <3>3. CASE other # a
      BY <2>4, <2>6, <3>3
    <3> QED
      BY <3>2, <3>3
  <2>7. UNCHANGED <<on, demo, overlapped>>
    BY <1>3 DEF DemoOff
  <2> QED
    BY <2>5, <2>6, <2>7
<1>4. CASE DemoOn(a)
  <2>1. /\ activation[a].at \in 1..Len(activation[a].chosen)
        /\ activation[a].set \subseteq unlocked
        /\ Len(activation[a].chosen) \in {1, 2}
    BY <1>0, <1>4, SelectionShape DEF DemoOn, ActivationRec
  <2>2. This(a) \in unlocked
    BY <1>4, <2>1 DEF DemoOn, This
  <2>3. View(a) \cup {This(a)} \subseteq unlocked
    BY <2>1, <2>2 DEF View
  <2>4. CASE activation[a].at = Len(activation[a].chosen)
    <3>1. /\ on' = View(a) \cup {This(a)}
          /\ activation' = [activation EXCEPT ![a] = IdleActivation]
          /\ UNCHANGED <<demo, overlapped>>
      BY <1>4, <2>4 DEF DemoOn
    <3> QED
      BY <2>3, <3>1, ResetRecs DEF IdleActivation
  <2>5. CASE activation[a].at # Len(activation[a].chosen)
    <3>1. /\ activation' = [activation EXCEPT ![a].pc = "off", ![a].at = @ + 1,
                               ![a].off = @ \ {This(a)}, ![a].set = @ \cup {This(a)}]
          /\ UNCHANGED <<on, demo, overlapped>>
      BY <1>4, <2>5 DEF DemoOn
    <3>2. /\ activation[a].at + 1 \in {1, 2}
          /\ activation[a].at + 1 <= Len(activation[a].chosen)
      <4>1. \A n \in {1, 2} : \A k \in 1..n : k # n => k + 1 \in {1, 2} /\ k + 1 <= n
        OBVIOUS
      <4> QED
        BY <2>1, <2>5, <4>1
    <3>3. [activation[a] EXCEPT !.pc = "off", !.at = @ + 1, !.off = @ \ {This(a)},
                                !.set = @ \cup {This(a)}] \in ActivationRec
      BY <1>0, <2>2, <3>2 DEF ActivationRec
    <3>4. /\ activation'[a].chosen = activation[a].chosen
          /\ activation'[a].at = activation[a].at + 1
          /\ activation'[a].set = activation[a].set \cup {This(a)}
          /\ \A other \in Activations \ {a} : activation'[other] = activation[other]
      BY <1>0, <3>1 DEF ActivationRec
    <3>5. activation[a].pc # "idle"
      BY <1>4 DEF DemoOn
    <3> QED
      BY <2>1, <2>2, <3>1, <3>2, <3>3, <3>4, <3>5
  <2> QED
    BY <2>4, <2>5
<1>5. CASE ActivateFail(a)
  BY <1>5, ResetRecs DEF ActivateFail, IdleActivation
<1> QED
  BY <1>1, <1>2, <1>3, <1>4, <1>5 DEF ChosenStep

LEMMA RenderTypes ==
  ASSUME PicturesOK, active \in Packs \cup {None}, on \subseteq Traits,
         NEW q \in Renders, RenderStep(q)
  PROVE  PicturesOK'
<1> USE DEF PicturesOK
<1>0. render[q] \in RenderRec
  OBVIOUS
<1>1. CASE RenderPack(q)
  <2>1. [IdleRender EXCEPT !.pc = "look", !.pack = active] \in RenderRec
    BY DEF IdleRender, RenderRec
  <2> QED
    BY <1>1, <2>1 DEF RenderPack, IdleRender
<1>2. CASE RenderLook(q)
  <2>1. [render[q] EXCEPT !.pc = "draw", !.traits = on] \in RenderRec
    BY <1>0 DEF RenderRec
  <2>2. [render[q] EXCEPT !.pc = "draw", !.traits = on].pack = render[q].pack
    BY <1>0 DEF RenderRec
  <2> QED
    BY <1>2, <2>1, <2>2, ResetRecs DEF RenderLook, IdleRender
<1>3. CASE RenderDraw(q)
  <2>1. PICK layers \in SUBSET Traits :
          render' = [render EXCEPT ![q].pc = "store", ![q].layers = layers]
    <3>1. render[q].traits \subseteq Traits
      BY <1>0 DEF RenderRec
    <3>2. {t \in render[q].traits :
             \E file \in Files : <<render[q].pack, "layer", t, file>> \in rows} \in SUBSET Traits
      BY <3>1
    <3> QED
      BY <1>3, <3>2 DEF RenderDraw
  <2>2. [render[q] EXCEPT !.pc = "store", !.layers = layers] \in RenderRec
    BY <1>0 DEF RenderRec
  <2>3. /\ render'[q].pack = render[q].pack
        /\ \A other \in Renders \ {q} : render'[other] = render[other]
    BY <1>0, <2>1 DEF RenderRec
  <2> QED
    BY <1>3, <2>1, <2>2, <2>3 DEF RenderDraw
<1>4. CASE RenderStore(q)
  <2>1. render[q].pack \in Packs /\ render[q].traits \subseteq Traits
        /\ render[q].layers \subseteq Traits
    BY <1>0, <1>4 DEF RenderStore, RenderRec
  <2>2. KeyOf(render[q].pack, render[q].traits) \in [base : Packs, traits : SUBSET Traits]
    BY <2>1 DEF KeyOf
  <2>3. [key |-> KeyOf(render[q].pack, render[q].traits), pack |-> render[q].pack,
         layers |-> render[q].layers] \in CacheRec
    BY <2>1, <2>2 DEF CacheRec
  <2> QED
    BY <1>4, <2>3, ResetRecs DEF RenderStore, IdleRender
<1>5. CASE RenderFail(q)
  BY <1>5, ResetRecs DEF RenderFail, IdleRender
<1> QED
  BY <1>1, <1>2, <1>3, <1>4, <1>5 DEF RenderStep

LEMMA ImagesInvariant == Spec => []ImagesOK
<1>1. Init => ImagesOK
  <2> SUFFICES ASSUME Init
               PROVE  ImagesOK
    OBVIOUS
  <2>1. AssetsOK
    BY ResetRecs, ImagesAssumption DEF Init, AssetsOK, IdleUpload
  <2>2. LootOK
    BY ResetRecs DEF Init, LootOK
  <2>3. ChosenOK
    BY ResetRecs DEF Init, ChosenOK, IdleActivation
  <2>4. PicturesOK
    BY ResetRecs, ImagesAssumption DEF Init, PicturesOK, IdleRender
  <2>5. begun \in 0..MaxBegun
    BY ImagesAssumption DEF Init
  <2> QED
    BY <2>1, <2>2, <2>3, <2>4, <2>5 DEF ImagesOK
<1>2. ImagesOK /\ [Next]_vars => ImagesOK'
  <2> SUFFICES ASSUME ImagesOK, [Next]_vars
               PROVE  ImagesOK'
    OBVIOUS
  <2> USE DEF ImagesOK
  <2>a. UNCHANGED assets => AssetsOK'
    BY DEF AssetsOK, assets
  <2>l. UNCHANGED loot => LootOK'
    BY DEF LootOK, loot
  <2>c. UNCHANGED chosen /\ unlocked \subseteq unlocked' => ChosenOK'
    BY DEF ChosenOK, chosen
  <2>p. UNCHANGED pictures => PicturesOK'
    BY DEF PicturesOK, pictures
  <2>u. UNCHANGED loot => unlocked' = unlocked
    BY DEF loot
  <2>b. begun' \in 0..MaxBegun
    BY ImagesAssumption DEF Next, vars
  <2>1. CASE (\E u \in Uploads : UploadStep(u)) /\ UNCHANGED <<loot, chosen, pictures>>
    BY <2>1, <2>b, <2>l, <2>c, <2>p, <2>u, UploadTypes
  <2>2. CASE (\E pack \in Packs \cup {None} : SetActive(pack))
               /\ UNCHANGED <<loot, chosen, pictures>>
    <3>1. AssetsOK'
      BY <2>2 DEF SetActive, AssetsOK
    <3> QED
      BY <2>2, <2>b, <2>l, <2>c, <2>p, <2>u, <3>1
  <2>3. CASE LootStep /\ UNCHANGED <<assets, chosen, pictures>>
    <3>1. LootOK' /\ unlocked \subseteq unlocked'
      BY <2>3, <2>b, LootTypes DEF AssetsOK
    <3> QED
      BY <2>3, <2>b, <2>a, <2>c, <2>p, <3>1
  <2>4. CASE (\E a \in Activations : ChosenStep(a)) /\ UNCHANGED <<assets, loot, pictures>>
    <3>1. ChosenOK'
      BY <2>4, <2>b, <2>u, ChosenTypes DEF LootOK
    <3> QED
      BY <2>4, <2>b, <2>a, <2>l, <2>p, <3>1
  <2>5. CASE (\E q \in Renders : RenderStep(q)) /\ UNCHANGED <<assets, loot, chosen>>
    <3>1. active \in Packs \cup {None} /\ on \subseteq Traits
      BY DEF AssetsOK, ChosenOK, LootOK
    <3>2. PicturesOK'
      BY <2>5, <2>b, <3>1, RenderTypes
    <3> QED
      BY <2>5, <2>b, <2>a, <2>l, <2>c, <2>u, <3>2
  <2>6. CASE UNCHANGED vars
    BY <2>6, <2>b, <2>a, <2>l, <2>c, <2>p, <2>u DEF vars
  <2> QED
    BY <2>1, <2>2, <2>3, <2>4, <2>5, <2>6, ImagesCases
<1> QED
  BY <1>1, <1>2, PTL DEF Spec

(* The types of the state, and that active traits are unlocked ones.       *)
THEOREM ImagesTypeCorrect == Spec => []TypeOK
<1>1. ImagesOK => TypeOK
  BY DEF ImagesOK, AssetsOK, LootOK, ChosenOK, PicturesOK, TypeOK, UploadRec, SaveRec,
         ActivationRec, RenderRec, CacheRec
<1> QED
  BY <1>1, ImagesInvariant, PTL

(* What the cache holds fits the key it is stored under.                   *)
PicturesFit ==
  /\ \A c \in cache : c.key.base = c.pack /\ c.layers \subseteq c.key.traits
  /\ \A q \in Renders : render[q].pc = "store" => render[q].layers \subseteq render[q].traits

(* Whatever pack and traits a request reads, a picture it finds in the     *)
(* cache has the base of that pack and layers of those traits only.        *)
THEOREM CachedPictureFitsAlways == Spec => []CachedPictureFits
<1>1. Init => PicturesFit
  BY DEF Init, PicturesFit, IdleRender
<1>2. ImagesOK /\ PicturesFit /\ [Next]_vars => PicturesFit'
  <2> SUFFICES ASSUME ImagesOK, PicturesFit, [Next]_vars
               PROVE  PicturesFit'
    OBVIOUS
  <2>r. render \in [Renders -> RenderRec]
    BY DEF ImagesOK, PicturesOK
  <2>0. ASSUME UNCHANGED pictures
        PROVE  PicturesFit'
    BY <2>0 DEF PicturesFit, pictures
  <2>1. ASSUME NEW q \in Renders, RenderPack(q) \/ RenderLook(q) \/ RenderFail(q)
        PROVE  PicturesFit'
    <3>1. /\ cache' = cache
          /\ render'[q].pc # "store"
          /\ \A other \in Renders \ {q} : render'[other] = render[other]
      <4>1. CASE RenderPack(q)
        BY <2>r, <4>1 DEF RenderPack, IdleRender
      <4>2. CASE RenderLook(q)
        BY <2>r, <4>2 DEF RenderLook, IdleRender, RenderRec
      <4>3. CASE RenderFail(q)
        BY <2>r, <4>3 DEF RenderFail, IdleRender
      <4> QED
        BY <2>1, <4>1, <4>2, <4>3
    <3> QED
      BY <3>1 DEF PicturesFit
  <2>2. ASSUME NEW q \in Renders, RenderDraw(q)
        PROVE  PicturesFit'
    <3>1. /\ cache' = cache
          /\ render'[q].traits = render[q].traits
          /\ render'[q].layers \subseteq render[q].traits
          /\ \A other \in Renders \ {q} : render'[other] = render[other]
      BY <2>2, <2>r DEF RenderDraw, RenderRec
    <3> QED
      BY <3>1 DEF PicturesFit
  <2>3. ASSUME NEW q \in Renders, RenderStore(q)
        PROVE  PicturesFit'
    <3> DEFINE picture == [key |-> KeyOf(render[q].pack, render[q].traits),
                           pack |-> render[q].pack, layers |-> render[q].layers]
    <3>1. /\ cache' \subseteq cache \cup {picture}
          /\ render'[q].pc # "store"
          /\ \A other \in Renders \ {q} : render'[other] = render[other]
      BY <2>3, <2>r DEF RenderStore, IdleRender
    <3>2. picture.key.base = picture.pack /\ picture.layers \subseteq picture.key.traits
      BY <2>3 DEF RenderStore, KeyOf, PicturesFit
    <3> QED
      BY <3>1, <3>2 DEF PicturesFit
  <2> QED
    BY <2>0, <2>1, <2>2, <2>3, ImagesCases DEF RenderStep, vars
<1>3. PicturesFit => CachedPictureFits
  BY DEF PicturesFit, CachedPictureFits, KeyOf
<1> QED
  BY <1>1, <1>2, <1>3, ImagesInvariant, PTL DEF Spec

(* Traits with an image in some pack.                                      *)
HasImage(t) ==
  \E pack \in Packs, kind \in {"layer", "state"}, file \in Files : <<pack, kind, t, file>> \in rows

(* A row is only stored after its object; a table is only stored after its *)
(* traits were found in a pack, and rows are never removed.                *)
ImagesStay ==
  /\ \A pack \in Packs, kind \in Kinds, t \in Traits \cup {NoTrait}, file \in Files :
       <<pack, kind, t, file>> \in rows => <<pack, kind, file>> \in objects
  /\ \A u \in Uploads : upload[u].pc = "row" => Key(upload[u]) \in objects
  /\ \A t \in table : HasImage(t)
  /\ \A s \in Saves : save[s].pc = "write" => \A t \in save[s].table : HasImage(t)
  /\ \A o \in Opens : \A t \in open[o] : HasImage(t)
  /\ \A t \in won : HasImage(t)

(* There is an image for each trait a wallet won from a loot table,        *)
(* although tables are checked against a pack that may be active no more,  *)
(* and every image of a listed trait has its object.                       *)
THEOREM PrizesPicturedAlways == Spec => []PrizesPictured
<1>1. Init => ImagesStay
  BY DEF Init, ImagesStay, IdleUpload, IdleSave
<1>2. ImagesOK /\ ImagesStay /\ [Next]_vars => ImagesStay'
  <2> SUFFICES ASSUME ImagesOK, ImagesStay, [Next]_vars
               PROVE  ImagesStay'
    OBVIOUS
  <2> USE DEF ImagesOK
  <2>s. save \in [Saves -> SaveRec] /\ open \in [Opens -> SUBSET Traits]
    BY DEF LootOK
  <2>1. ASSUME NEW u \in Uploads, UploadStep(u), UNCHANGED <<loot, chosen, pictures>>
        PROVE  ImagesStay'
    <3>t. /\ upload \in [Uploads -> UploadRec]
          /\ upload[u] \in UploadRec
          /\ upload[u].pc # "idle" => upload[u].pack \in Packs
      BY DEF AssetsOK
    <3>1. /\ rows \subseteq rows' /\ objects \subseteq objects'
          /\ \A other \in Uploads \ {u} : upload'[other] = upload[other]
      BY <2>1, <3>t
      DEF UploadStep, UploadBegin, UploadObject, UploadRow, UploadBase, UploadFail
    <3>2. \A t : HasImage(t) => HasImage(t)'
      BY <3>1 DEF HasImage
    <3>3. upload'[u].pc = "row" => Key(upload'[u]) \in objects'
      <4>1. CASE UploadObject(u)
        <5>1. upload'[u] = [upload[u] EXCEPT !.pc = "row"]
          BY <3>t, <4>1 DEF UploadObject
        <5>2. Key(upload'[u]) = Key(upload[u])
          BY <3>t, <5>1 DEF Key, UploadRec
        <5> QED
          BY <4>1, <5>2 DEF UploadObject
      <4>2. CASE ~UploadObject(u)
        <5>1. upload'[u].pc # "row"
          BY <2>1, <3>t, <4>2
          DEF UploadStep, UploadBegin, UploadRow, UploadBase, UploadFail, IdleUpload, UploadRec
        <5> QED
          BY <5>1
      <4> QED
        BY <4>1, <4>2
    <3>4. \A pack \in Packs, kind \in Kinds, t \in Traits \cup {NoTrait}, file \in Files :
            <<pack, kind, t, file>> \in rows' => <<pack, kind, file>> \in objects'
      <4>1. CASE UploadRow(u)
        <5>1. <<upload[u].pack, upload[u].kind, upload[u].file>> \in objects
          BY <4>1 DEF UploadRow, ImagesStay, Key
        <5>2. /\ rows' = rows \cup {<<upload[u].pack, upload[u].kind, upload[u].trait, upload[u].file>>}
              /\ objects' = objects
          BY <4>1 DEF UploadRow
        <5> QED
          BY <5>1, <5>2 DEF ImagesStay
      <4>2. CASE ~UploadRow(u)
        <5>1. rows' = rows
          BY <2>1, <4>2 DEF UploadStep, UploadBegin, UploadObject, UploadBase, UploadFail
        <5> QED
          BY <3>1, <5>1 DEF ImagesStay
      <4> QED
        BY <4>1, <4>2
    <3>5. UNCHANGED <<table, save, open, won>>
      BY <2>1 DEF loot
    <3> QED
      BY <3>1, <3>2, <3>3, <3>4, <3>5 DEF ImagesStay
  <2>2. ASSUME LootStep, UNCHANGED assets
        PROVE  ImagesStay'
    <3>1. UNCHANGED <<rows, objects, upload>>
      BY <2>2 DEF assets
    <3>2. \A t : HasImage(t)' <=> HasImage(t)
      BY <3>1 DEF HasImage
    <3> DEFINE Found == /\ \A t \in table' : HasImage(t)
                        /\ \A s \in Saves : save'[s].pc = "write"
                                              => \A t \in save'[s].table : HasImage(t)
                        /\ \A o \in Opens : \A t \in open'[o] : HasImage(t)
                        /\ \A t \in won' : HasImage(t)
    <3>3. ASSUME NEW s \in Saves, NEW entries \in SUBSET Traits, SaveRead(s, entries)
          PROVE  Found
      BY <2>s, <3>3 DEF SaveRead, ImagesStay
    <3>4. ASSUME NEW s \in Saves, SaveCheck(s)
          PROVE  Found
      <4>1. /\ UNCHANGED <<table, open, won>>
            /\ \A other \in Saves \ {s} : save'[other] = save[other]
        BY <2>s, <3>4 DEF SaveCheck
      <4>2. CASE save[s].table \subseteq Pictured(save[s].pack)
        <5>1. save[s].pack \in Packs \cup {None}
          BY <2>s DEF SaveRec
        <5>2. \A t \in save[s].table : \E kind \in {"layer", "state"}, file \in Files :
                <<save[s].pack, kind, t, file>> \in rows
          BY <4>2 DEF Pictured
        <5>3. \A t \in save[s].table : HasImage(t)
          BY <5>2 DEF HasImage, AssetsOK
        <5>4. save'[s].table = save[s].table
          BY <2>s, <3>4, <4>2 DEF SaveCheck, SaveRec
        <5> QED
          BY <4>1, <5>3, <5>4 DEF ImagesStay
      <4>3. CASE ~(save[s].table \subseteq Pictured(save[s].pack))
        <5>1. save'[s].pc # "write"
          BY <2>s, <3>4, <4>3 DEF SaveCheck, IdleSave
        <5> QED
          BY <4>1, <5>1 DEF ImagesStay
      <4> QED
        BY <4>2, <4>3
    <3>5. ASSUME NEW s \in Saves, SaveWrite(s)
          PROVE  Found
      BY <2>s, <3>5 DEF SaveWrite, IdleSave, ImagesStay
    <3>6. ASSUME NEW o \in Opens, NEW picks \in SUBSET Traits, OpenPick(o, picks)
          PROVE  Found
      BY <2>s, <3>6 DEF OpenPick, ImagesStay
    <3>7. ASSUME NEW o \in Opens, OpenUnlock(o) \/ OpenFail(o)
          PROVE  Found
      BY <2>s, <3>7 DEF OpenUnlock, OpenFail, ImagesStay
    <3>8. ASSUME NEW traits \in SUBSET Traits, PollerUnlock(traits)
          PROVE  Found
      BY <2>s, <3>8 DEF PollerUnlock, ImagesStay
    <3>9. Found
      BY <2>2, <3>3, <3>4, <3>5, <3>6, <3>7, <3>8 DEF LootStep
    <3> QED
      BY <3>1, <3>2, <3>9 DEF ImagesStay
  <2>3. ASSUME UNCHANGED <<rows, objects, upload, loot>>
        PROVE  ImagesStay'
    <3>1. \A t : HasImage(t)' <=> HasImage(t)
      BY <2>3 DEF HasImage
    <3> QED
      BY <2>3, <3>1 DEF ImagesStay, loot
  <2> QED
    BY <2>1, <2>2, <2>3, ImagesCases DEF SetActive, assets, vars
<1>3. ImagesOK /\ ImagesStay => PrizesPictured
  <2> SUFFICES ASSUME ImagesOK, ImagesStay
               PROVE  PrizesPictured
    OBVIOUS
  <2>1. ASSUME NEW t \in won
        PROVE  t \in unlocked /\ ImagesOf(t) # {}
    <3>1. PICK pack \in Packs, kind \in {"layer", "state"}, file \in Files :
            <<pack, kind, t, file>> \in rows
      BY <2>1 DEF ImagesStay, HasImage
    <3>2. <<pack, kind, t, file>> \in LayersOf(t)
      BY <3>1 DEF LayersOf
    <3> QED
      BY <2>1, <3>2 DEF ImagesOf, ImagesOK, LootOK
  <2>2. \A row \in rows : <<row[1], row[2], row[4]>> \in objects
    <3> SUFFICES ASSUME NEW row \in rows
                 PROVE  <<row[1], row[2], row[4]>> \in objects
      OBVIOUS
    <3>1. row \in Packs \X Kinds \X (Traits \cup {NoTrait}) \X Files
      BY DEF ImagesOK, AssetsOK
    <3>2. row = <<row[1], row[2], row[3], row[4]>> /\ row[1] \in Packs /\ row[2] \in Kinds
          /\ row[3] \in Traits \cup {NoTrait} /\ row[4] \in Files
      BY <3>1
    <3> QED
      BY <3>2 DEF ImagesStay
  <2>3. \A t : ImagesOf(t) \subseteq rows
    BY DEF ImagesOf, LayersOf
  <2> QED
    BY <2>1, <2>2, <2>3 DEF PrizesPictured
<1> QED
  BY <1>1, <1>2, <1>3, ImagesInvariant, PTL DEF Spec

(* Of one trait name there is at most one value.                           *)
OneOf(set) == \A t, other \in set : t[1] = other[1] => t = other

(* Selecting a trait turns its other values off.                           *)
LEMMA SelectedOne ==
  ASSUME NEW set \in SUBSET Traits, NEW t \in Traits, OneOf(set)
  PROVE  /\ OneOf(set \ OtherValues(t, set))
         /\ \A other \in set \ OtherValues(t, set) : other[1] = t[1] => other = t
         /\ OneOf((set \ OtherValues(t, set)) \cup {t})
         /\ OneOf(Selected(t, set))
<1>1. \A other \in Traits : other[1] = t[1] /\ other[2] = t[2] => other = t
  BY ImagesAssumption
<1>2. \A other \in set \ OtherValues(t, set) : other[1] = t[1] => other = t
  BY <1>1 DEF OtherValues
<1> QED
  BY <1>2 DEF OneOf, Selected

(* Only one transaction writes as long as none overlapped; before it turns *)
(* a value on, it has turned the others off.                               *)
OneWriter ==
  /\ \A a \in Activations : activation[a].pc = "sent" => ~demo
  /\ \A a \in Activations : Writing(a) => demo
  /\ ~overlapped =>
       /\ OneOf(on)
       /\ \A a, other \in Activations : Writing(a) /\ Writing(other) => a = other
       /\ \A a \in Activations : Writing(a) => OneOf(View(a))
       /\ \A a \in Activations : activation[a].pc = "on" =>
            \A t \in View(a) : t[1] = This(a)[1] => t = This(a)

(* What a step of another does to an activation: nothing.                  *)
LEMMA ActivationKept ==
  ASSUME NEW a, activation'[a] = activation[a]
  PROVE  /\ Writing(a)' <=> Writing(a)
         /\ on' = on => View(a)' = View(a)
         /\ This(a)' = This(a)
BY DEF Writing, View, This

(* A wallet has one active value of each trait, however selections are     *)
(* listed, unless transactions of the demo mode overlapped.                *)
THEOREM OneValueActiveAlways == Spec => []OneValueActive
<1>1. Init => OneWriter
  BY DEF Init, OneWriter, OneOf, IdleActivation, Writing
<1>2. ImagesOK /\ OneWriter /\ [Next]_vars => OneWriter'
  <2> SUFFICES ASSUME ImagesOK, OneWriter, [Next]_vars
               PROVE  OneWriter'
    OBVIOUS
  <2>0. ASSUME UNCHANGED chosen
        PROVE  OneWriter'
    BY <2>0 DEF OneWriter, chosen, Writing, View, This
  <2>1. ASSUME NEW a \in Activations, ChosenStep(a)
        PROVE  OneWriter'
    <3>t. /\ activation \in [Activations -> ActivationRec]
          /\ activation[a] \in ActivationRec
          /\ on \subseteq Traits
          /\ activation[a].set \subseteq Traits
      BY DEF ImagesOK, ChosenOK, LootOK, ActivationRec
    <3>c. activation[a].pc # "idle" =>
            /\ activation[a].chosen \in Selections
            /\ activation[a].at \in 1..Len(activation[a].chosen)
            /\ Len(activation[a].chosen) \in {1, 2}
      BY <3>t, SelectionShape DEF ImagesOK, ChosenOK, ActivationRec
    <3>p. activation[a].pc # "idle" => This(a) \in Traits
      BY <3>c, SelectionShape DEF This
    <3>v. View(a) \subseteq Traits
      BY <3>t DEF View
    <3>1. demo' = demo
      BY <2>1 DEF ChosenStep, Activate, PollerApply, DemoOff, DemoOn, ActivateFail
    <3>2. \A other \in Activations \ {a} : activation'[other] = activation[other]
      BY <2>1, <3>t DEF ChosenStep, Activate, PollerApply, DemoOff, DemoOn, ActivateFail
    <3>3. \A other \in Activations \ {a} :
            (Writing(other)' <=> Writing(other)) /\ This(other)' = This(other)
      BY <3>2, ActivationKept
    <3>4. on' = on => \A other \in Activations \ {a} : View(other)' = View(other)
      BY <3>2, ActivationKept
    <3>5. CASE \E seq \in Selections : Activate(a, seq)
      <4>1. /\ on' = on
            /\ activation'[a].pc = IF demo THEN "off" ELSE "sent"
            /\ activation'[a].off = {} /\ activation'[a].set = {}
        BY <3>5, <3>t DEF Activate, IdleActivation
      <4>2. View(a)' = on
        BY <4>1 DEF View
      <4>3. Writing(a)' => demo
        BY <4>1 DEF Writing
      <4>4. activation'[a].pc # "on"
        BY <4>1
      <4>5. /\ ~overlapped' => ~overlapped
            /\ (~overlapped' /\ demo) => \A other \in Activations : ~Writing(other)
        BY <3>5 DEF Activate
      <4>6. activation'[a].pc = "sent" => ~demo
        BY <4>1
      <4> QED
        BY <3>1, <3>2, <3>3, <3>4, <4>1, <4>2, <4>3, <4>4, <4>5, <4>6 DEF OneWriter
    <3>6. CASE PollerApply(a)
      <4>1. /\ activation[a].pc = "sent"
            /\ on' = AllSelected(activation[a].chosen, on)
            /\ activation'[a].pc = "idle"
            /\ overlapped' = overlapped
        BY <3>6, <3>t DEF PollerApply, IdleActivation
      <4>2. \A other \in Activations : ~Writing(other)
        BY <4>1 DEF OneWriter
      <4>3. OneOf(on) => OneOf(on')
        <5>1. ASSUME NEW t \in Traits, NEW set \in SUBSET Traits
              PROVE  Selected(t, set) \in SUBSET Traits
          BY <5>1 DEF Selected
        <5>2. \A i \in 1..Len(activation[a].chosen) : activation[a].chosen[i] \in Traits
          BY <3>c, <4>1, SelectionShape
        <5>3. CASE Len(activation[a].chosen) = 1
          <6>1. on' = Selected(activation[a].chosen[1], on)
            BY <4>1, <5>3 DEF AllSelected
          <6>2. activation[a].chosen[1] \in Traits
            BY <5>2, <5>3
          <6> QED
            BY <3>t, <6>1, <6>2, SelectedOne
        <5>4. CASE Len(activation[a].chosen) = 2
          <6>1. on' = Selected(activation[a].chosen[2], Selected(activation[a].chosen[1], on))
            BY <4>1, <5>4 DEF AllSelected
          <6>2. activation[a].chosen[1] \in Traits /\ activation[a].chosen[2] \in Traits
            BY <5>2, <5>4
          <6>3. OneOf(on) => OneOf(Selected(activation[a].chosen[1], on))
            BY <3>t, <6>2, SelectedOne
          <6>4. Selected(activation[a].chosen[1], on) \in SUBSET Traits
            BY <3>t, <5>1, <6>2
          <6>5. \A set \in SUBSET Traits :
                  OneOf(set) => OneOf(Selected(activation[a].chosen[2], set))
            BY <6>2, SelectedOne
          <6> QED
            BY <6>1, <6>3, <6>4, <6>5
        <5> QED
          BY <3>c, <4>1, <5>3, <5>4
      <4>4. \A other \in Activations : ~Writing(other)'
        BY <3>3, <4>1, <4>2 DEF Writing
      <4> QED
        BY <3>1, <3>2, <4>1, <4>3, <4>4 DEF OneWriter, Writing
    <3>7. CASE DemoOff(a)
      <4> DEFINE others == OtherValues(This(a), View(a))
      <4>1. /\ on' = on /\ overlapped' = overlapped
            /\ activation[a].pc = "off"
            /\ activation'[a].pc = "on"
            /\ activation'[a].chosen = activation[a].chosen
            /\ activation'[a].at = activation[a].at
            /\ activation'[a].off = activation[a].off \cup others
            /\ activation'[a].set = activation[a].set \ others
        BY <3>7, <3>t DEF DemoOff, ActivationRec
      <4>2. View(a)' = View(a) \ others
        BY <4>1 DEF View, OtherValues
      <4>3. This(a)' = This(a)
        BY <4>1 DEF This
      <4>4. Writing(a) /\ Writing(a)'
        BY <4>1 DEF Writing
      <4>5. OneOf(View(a)) =>
              OneOf(View(a)') /\ \A t \in View(a)' : t[1] = This(a)[1] => t = This(a)
        BY <3>p, <3>v, <4>1, <4>2, SelectedOne
      <4> QED
        BY <3>1, <3>2, <3>3, <3>4, <4>1, <4>3, <4>4, <4>5 DEF OneWriter
    <3>8. CASE DemoOn(a)
      <4>1. overlapped' = overlapped /\ activation[a].pc = "on"
        BY <3>8 DEF DemoOn
      <4>2. Writing(a)
        BY <4>1 DEF Writing
      <4>3. ~overlapped => OneOf(View(a) \cup {This(a)})
        BY <4>1, <4>2 DEF OneWriter, OneOf
      <4>4. CASE activation[a].at = Len(activation[a].chosen)
        <5>1. on' = View(a) \cup {This(a)} /\ activation'[a].pc = "idle"
          BY <3>8, <3>t, <4>4 DEF DemoOn, IdleActivation
        <5>2. ~Writing(a)'
          BY <5>1 DEF Writing
        <5>3. ~overlapped => \A other \in Activations : ~Writing(other)'
          BY <3>3, <4>2, <5>2 DEF OneWriter
        <5> QED
          BY <3>1, <3>2, <3>3, <4>1, <4>3, <5>1, <5>2, <5>3 DEF OneWriter, Writing
      <4>5. CASE activation[a].at # Len(activation[a].chosen)
        <5>1. /\ on' = on
              /\ activation'[a].pc = "off"
              /\ activation'[a].off = activation[a].off \ {This(a)}
              /\ activation'[a].set = activation[a].set \cup {This(a)}
          BY <3>8, <3>t, <4>5 DEF DemoOn, ActivationRec
        <5>2. View(a)' = View(a) \cup {This(a)}
          BY <5>1 DEF View
        <5>3. Writing(a)'
          BY <5>1 DEF Writing
        <5>4. ~overlapped => OneOf(View(a)')
          BY <4>3, <5>2
        <5> QED
          BY <3>1, <3>2, <3>3, <3>4, <4>1, <4>2, <5>1, <5>3, <5>4, SMTT(30) DEF OneWriter
      <4> QED
        BY <4>4, <4>5
    <3>9. CASE ActivateFail(a)
      <4>1. on' = on /\ overlapped' = overlapped /\ activation'[a].pc = "idle"
        BY <3>9, <3>t DEF ActivateFail, IdleActivation
      <4>2. ~Writing(a)'
        BY <4>1 DEF Writing
      <4> QED
        BY <3>1, <3>2, <3>3, <3>4, <4>1, <4>2 DEF OneWriter
    <3> QED
      BY <2>1, <3>5, <3>6, <3>7, <3>8, <3>9 DEF ChosenStep
  <2> QED
    BY <2>0, <2>1, ImagesCases DEF vars
<1>3. OneWriter => OneValueActive
  BY DEF OneWriter, OneOf, OneValueActive
<1> QED
  BY <1>1, <1>2, <1>3, ImagesInvariant, PTL DEF Spec
=============================================================================
