------------------------------ MODULE MC_Enroll ------------------------------
EXTENDS Enroll, TLC

\* The operators, the labels and the fingerprints are each alike.
Symmetric == Permutations(Operators) \cup Permutations(Labels) \cup Permutations(Fps)
=============================================================================
