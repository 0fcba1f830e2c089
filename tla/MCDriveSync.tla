---------------------------- MODULE MCDriveSync ----------------------------
\* Instances of DriveSync for TLC: one file, and the names it may come to have.
EXTENDS DriveSync

file == <<>>
Names == {file, <<"agent">>, <<"elsewhere">>, <<"2">>, <<"agent", "agent">>, <<"elsewhere", "agent">>, <<"2", "agent">>}
OneFile == {file}
=============================================================================
