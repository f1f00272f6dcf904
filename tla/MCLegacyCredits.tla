--------------------------- MODULE MCLegacyCredits ---------------------------
EXTENDS LegacyCredits, TLC

\* Dealers are alike, and so are the runs.
DealerRunSymmetry == Permutations(Dealers) \union Permutations(Runs)
=============================================================================
