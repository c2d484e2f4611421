--------------------------- MODULE MCPolicyCache ---------------------------
(* PolicyCache for TLC: two policies that can claim either of two          *)
(* namespaces, and one reader that the controllers race.                   *)
EXTENDS PolicyCache
=============================================================================
