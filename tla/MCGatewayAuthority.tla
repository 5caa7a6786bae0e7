------------------------ MODULE MCGatewayAuthority ------------------------
(***************************************************************************)
(* Small instances of GatewayAuthority for TLC.                            *)
(***************************************************************************)
EXTENDS GatewayAuthority, TLC

CONSTANTS n1, n2

\* One credential of each approval mode, for the first NAS.
BothModes ==
  {[scopes |-> Scope, allow |-> {n1}, mode |-> m, ttl |-> Never] : m \in Mode}

\* A planning credential in administrator mode, to fill the request queue.
Planning ==
  {[scopes |-> {"nas.plan"}, allow |-> {n1}, mode |-> "administrator",
    ttl |-> Never]}

\* Credentials over both NAS that expire, and that may not apply.
Expiring ==
  {[scopes |-> Scope, allow |-> {n1, n2}, mode |-> "interactive", ttl |-> 1],
   [scopes |-> {"nas.plan"}, allow |-> {n1}, mode |-> "interactive", ttl |-> Never]}

\* Identifiers and secrets are drawn at random, plan bodies are opaque.
Symmetry ==
  Permutations(TokenId) \union Permutations(Secret)
    \union Permutations(ApprovalId) \union Permutations(Call)
    \union Permutations(Body)
===========================================================================
