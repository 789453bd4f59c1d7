---------------------------- MODULE MCAgentClient ----------------------------
\* AgentClient for TLC.
EXTENDS AgentClient

CONSTANTS s1, s2
=============================================================================
