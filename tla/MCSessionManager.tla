-------------------------- MODULE MCSessionManager --------------------------
(***************************************************************************)
(* Small instances of SessionManager for TLC.                              *)
(***************************************************************************)
EXTENDS SessionManager, TLC

CONSTANTS p1, p2, r1, r2, a1, a2

\* The gateway: one process, its requests and its administrators.
GatewayHome == [a \in Actor |-> p1]
GatewayOperations == Mutation \union Exclusive

\* The CLI and MCP processes that share the OS keyring.
KeyringHome == [a \in Actor |-> IF a \in {r1, a1} THEN p1 ELSE p2]
KeyringOperations == {"login", "logout", "exit"}

\* The gateway's requests are alike.
Symmetry == Permutations(Request)
=============================================================================
