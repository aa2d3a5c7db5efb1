--------------------------- MODULE MCAgentRuntime ---------------------------
(* Instances of AgentRuntime: two directives, the second one urgent.        *)
EXTENDS AgentRuntime

CONSTANTS d1, d2

MCDirectives == {d1, d2}
MCHigh == {d2}
=============================================================================
