---------------------------- MODULE MCTestFlight ----------------------------
\* Instances of TestFlight for TLC.
EXTENDS TestFlight
CONSTANTS ann, kimono, photos, k1, k2
=============================================================================
