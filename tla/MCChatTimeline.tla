--------------------------- MODULE MCChatTimeline ---------------------------
\* Instances of ChatTimeline for TLC.
EXTENDS ChatTimeline
CONSTANTS p1, p2
=============================================================================
