----------------------------- MODULE MCSurfaces -----------------------------
(***************************************************************************)
(* What callers, operators and administrators may do, for TLC, one machine *)
(* at a time: the tools and commands (Dispatch), the firewall of a NAS     *)
(* (FirewallGuard), its volumes (StorageVolumes), and in the gateway the    *)
(* requests for approval (GatewayAuthority), the limits of the HTTP server *)
(* (GatewayEdge), the administrators (AdminSessions) and the vault         *)
(* (GatewayVault).                                                         *)
(*                                                                         *)
(* The machines share no state, so that interleaving their steps would     *)
(* show nothing: a behaviour is one of the machine that part names, and    *)
(* the others rest in their initial states.                                *)
(***************************************************************************)
EXTENDS MCGatewayAuthority, CatalogueFacts, FirewallGuard, GatewayEdge, AdminSessions,
    GatewayVault, StorageVolumes

VARIABLE part  \* the machine that runs; constant

authorityVars == vars
surfaceVars ==
    <<part, authorityVars, dispatchVars, firewallVars, edgeVars, adminVars, vaultVars, storageVars>>

FirewallAtRest ==
    /\ FirewallInit
    /\ ~enabled /\ ingress = "nic" /\ profiles = [p \in Profile |-> NoRules]

StorageAtRest ==
    /\ StorageInit
    /\ volumes = [layout |-> "single", size |-> 0, available |-> 0, allocated |-> 0,
                  volumeLimit |-> 0, limit |-> 0, status |-> "normal"]

\* A call that has ended makes room for another, so that few calls in flight
\* fill the queue of requests.
CallAgain ==
    /\ \E c \in Call :
         call[c].pc = "ended" /\ call' = [call EXCEPT ![c] = IdleCall]
    /\ UNCHANGED <<now, profileVars, tokenVars, approvalVars>>

MCInit ==
    /\ part \in {"requests", "dispatch", "firewall", "limiter", "binder", "admin", "vault",
                "storage"}
    /\ Init /\ DispatchInit /\ EdgeInit /\ AdminInit /\ VaultInit
    /\ IF part = "firewall" THEN FirewallInit ELSE FirewallAtRest
    /\ IF part = "storage" THEN StorageInit ELSE StorageAtRest

RequestsPart ==
    /\ part = "requests" /\ (Next \/ CallAgain)
    /\ UNCHANGED <<part, dispatchVars, firewallVars, edgeVars, adminVars, vaultVars, storageVars>>

DispatchesPart ==
    /\ part = "dispatch" /\ DispatchNext
    /\ UNCHANGED <<part, authorityVars, firewallVars, edgeVars, adminVars, vaultVars, storageVars>>

FirewallPart ==
    /\ part = "firewall" /\ FirewallNext
    /\ UNCHANGED <<part, authorityVars, dispatchVars, edgeVars, adminVars, vaultVars, storageVars>>

LimiterPart ==
    /\ part = "limiter" /\ LimiterNext
    /\ UNCHANGED <<part, authorityVars, dispatchVars, firewallVars, adminVars, vaultVars, storageVars>>

BinderPart ==
    /\ part = "binder" /\ BinderNext
    /\ UNCHANGED <<part, authorityVars, dispatchVars, firewallVars, adminVars, vaultVars, storageVars>>

AdministratorsPart ==
    /\ part = "admin" /\ AdminNext
    /\ UNCHANGED <<part, authorityVars, dispatchVars, firewallVars, edgeVars, vaultVars, storageVars>>

VaultPart ==
    /\ part = "vault" /\ VaultNext
    /\ UNCHANGED <<part, authorityVars, dispatchVars, firewallVars, edgeVars, adminVars, storageVars>>

StoragePart ==
    /\ part = "storage" /\ StorageNext
    /\ UNCHANGED <<part, authorityVars, dispatchVars, firewallVars, edgeVars, adminVars, vaultVars>>

MCNext ==
    \/ RequestsPart \/ DispatchesPart \/ FirewallPart \/ LimiterPart
    \/ BinderPart \/ AdministratorsPart \/ VaultPart \/ StoragePart

MCSpec == MCInit /\ [][MCNext]_surfaceVars

\* Every variable has its type, and every table of a machine is within its
\* limit (admin.go's bounded sessions, server.go's bindings).
SurfacesTypeOK ==
    /\ DispatchTypeOK /\ FirewallTypeOK /\ EdgeTypeOK
    /\ AdminTypeOK /\ VaultTypeOK /\ StorageTypeOK

=============================================================================
