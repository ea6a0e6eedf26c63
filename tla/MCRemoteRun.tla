------------------------------ MODULE MCRemoteRun ------------------------------
EXTENDS RemoteRun

MCCmds == 1..MaxTries
=============================================================================
