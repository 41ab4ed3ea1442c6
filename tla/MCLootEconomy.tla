--------------------------- MODULE MCLootEconomy ---------------------------
(* One wallet at one brand: two purchases, two openings, two deliveries of *)
(* Zealy events and a GET /me/xp, all of which may overlap.                *)
EXTENDS LootEconomy
CONSTANTS b1, b2, o1, o2, h1, h2, r1, e1, e2, hat, coat, none
=============================================================================
