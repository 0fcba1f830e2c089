---------------------------- MODULE MCDriveUpload ---------------------------
\* Instances of DriveUpload for TLC.
EXTENDS DriveUpload, TLC
CONSTANTS u1, r1, r2
=============================================================================
