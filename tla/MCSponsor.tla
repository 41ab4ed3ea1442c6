------------------------------ MODULE MCSponsor -----------------------------
(* What a brand pays with and what it pays for: the requests that spend     *)
(* credits, with a payment and the deliveries of its callback; the page on  *)
(* which credits are bought; and the pages on which its NFTs are set up.    *)
(* They share no variable, so a behaviour takes steps of one of them.       *)
EXTENDS SponsorCredits, TopUp, NftPages, TLC

CONSTANTS p1, p2, c1, c2, f1, f2

VARIABLE side

\* What a callback may state beside the amount of the payment: a sum taken back.
MCReported == {-1}

\* The same values serve as spenders and packs, callbacks and requests, and flows and
\* contracts: few permutations do for all.
Interchangeable ==
  Permutations(Spenders) \cup Permutations(Callbacks) \cup Permutations(Flows)

\* Beside the others, each is in one of its initial states.
MCInit ==
  /\ Init /\ TopUpInit /\ NftPagesInit
  /\ side \in {"credits", "billing", "nft"}
  /\ side # "credits" => member
  /\ side # "billing" => selected
  /\ side # "nft" => config = Null

MCNext ==
  /\ UNCHANGED side
  /\ \/ side = "credits" /\ Next         /\ UNCHANGED <<topUpVars, nftPagesVars>>
     \/ side = "billing" /\ TopUpNext    /\ UNCHANGED <<vars, nftPagesVars>>
     \/ side = "nft"     /\ NftPagesNext /\ UNCHANGED <<vars, topUpVars>>

MCSpec == MCInit /\ [][MCNext]_<<vars, topUpVars, nftPagesVars, side>>
=============================================================================
