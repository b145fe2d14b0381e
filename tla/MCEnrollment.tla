---------------------------- MODULE MCEnrollment ----------------------------
\* Enrollment with a CA and the nodes that join it, as the configurations give them.
EXTENDS Enrollment

CONSTANTS hub, n1, n2
=============================================================================
