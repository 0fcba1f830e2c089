---------------------------- MODULE MCFilesAccess ----------------------------
\* Instances of FilesAccess for TLC.
EXTENDS FilesAccess
CONSTANTS c, e, top, x, y
=============================================================================
