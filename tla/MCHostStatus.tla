---------------------------- MODULE MCHostStatus ----------------------------
EXTENDS HostStatus
CONSTANTS A, P, S
=============================================================================
