--------------------------- MODULE MCScopePrivacy ---------------------------
(* ScopePrivacy on two servers.                                            *)
EXTENDS ScopePrivacy, TLC

Interchange == Permutations(Servers) \cup Permutations(Requests)
=============================================================================
