----------------------------- MODULE MCServices -----------------------------
\* A port of node a and one peer, b.
EXTENDS Services

CONSTANTS a, b
=============================================================================
