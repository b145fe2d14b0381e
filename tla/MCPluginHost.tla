---------------------------- MODULE MCPluginHost ----------------------------
\* The life of an agent with two external plugins, of which the second need not answer.
EXTENDS PluginHost

CONSTANTS p1, p2, network, gpu

TwoFiles == <<p1, p2>>
=============================================================================
