---------------------------- MODULE MCScanDedup -----------------------------
EXTENDS ScanDedup
CONSTANTS A, B
=============================================================================
