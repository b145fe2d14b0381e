--------------------------- MODULE MCIntegrations ---------------------------
\* Two integrations and two browsers.
EXTENDS Integrations

CONSTANTS fritz, pihole, r1, r2

TwoNames == <<fritz, pihole>>
=============================================================================
