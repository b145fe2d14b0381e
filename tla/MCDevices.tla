----------------------------- MODULE MCDevices -----------------------------
\* A device with two addresses whose prefix is not in the embedded table.
EXTENDS Devices

CONSTANTS i1, i2
=============================================================================
