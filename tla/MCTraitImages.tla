--------------------------- MODULE MCTraitImages ---------------------------
EXTENDS TraitImages, TLC

CONSTANTS red, blue

\* Two values of one trait.
Values   == {red, blue}
MCTraits == {<<"hat", v>> : v \in Values}

\* Packs, requests and values of the trait are only compared for equality.
Interchangeable == Permutations(Packs) \cup Permutations(Activations) \cup Permutations(Values)
=============================================================================
