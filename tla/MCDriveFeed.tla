----------------------------- MODULE MCDriveFeed -----------------------------
\* Instances of DriveFeed for TLC.
EXTENDS DriveFeed, TLC
CONSTANTS top, a, x, ann, me
Empty == <<>>
=============================================================================
