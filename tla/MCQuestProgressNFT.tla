------------------------- MODULE MCQuestProgressNFT -------------------------
(* QuestProgressNFT on a small instance: one delegated account, one brand   *)
(* beside brand 0, and one update, of a base trait and of a cosmetic one,   *)
(* to values other than those of a mint.                                    *)
EXTENDS QuestProgressNFT, TLC

CONSTANTS alice, owner, implA, noCode, b1, noBrand

MCTraitKeys == BaseKeys \cup {"SKIN"}
MCUpdates   == {"LEVEL" :> 2 @@ "SKIN" :> 1}
MCOwner     == {<<"LEVEL", 0>>}
=============================================================================
