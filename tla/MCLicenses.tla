----------------------------- MODULE MCLicenses -----------------------------
EXTENDS Licenses, TLC

\* Requests differ in nothing but their name, and neither do devices.
Symmetry == Permutations(Calls) \cup Permutations(Hashes)
=============================================================================
