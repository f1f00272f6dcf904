---------------------------- MODULE MCCutCredits ----------------------------
EXTENDS CutCredits, TLC

\* Calls differ in nothing but their name.
CallSymmetry == Permutations(CreditCalls)
=============================================================================
