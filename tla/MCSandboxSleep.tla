--------------------------- MODULE MCSandboxSleep ---------------------------
\* Instances of SandboxSleep for TLC.
EXTENDS SandboxSleep, TLC

CONSTANTS a, b, d, ann, bob, c1, c2, c3

OneOwner == [s \in Sandboxes |-> ann]
TwoOwners == [s \in Sandboxes |-> IF s = d THEN bob ELSE ann]
Symmetric == Permutations(Calls)
SymmetricAnn == Permutations(Calls) \cup Permutations({a, b})
=============================================================================
