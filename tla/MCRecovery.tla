---------------------------- MODULE MCRecovery ------------------------------
(***************************************************************************)
(* The instances of a profile and its recovery: a proxy-only profile, as   *)
(* the configuration file has it, or an interface that holds, whose        *)
(* servers and ports nobody changes.  What the properties say is checked   *)
(* of both.                                                                *)
(***************************************************************************)
EXTENDS Connection

VARIABLE part

\* The interface, for these policies and bounds, under an aggressive watchdog.
Tunnel(policies, generations, threadBound) ==
    INSTANCE Connection WITH
        Tun <- TRUE, Holds <- TRUE, Aggressive <- TRUE, PortChanges <- FALSE,
        Catalogs <- {}, Chosen <- {}, Grants <- policies,
        MaxGenerations <- generations, MaxThreads <- threadBound

\* Only the reconnect loop recovers the interface, or failover may own the death: across
\* a replacement, or with two threads at once.
RecoveryInit ==
    \/ part = "proxy" /\ Init
    \/ part = "redialed" /\ Tunnel({}, 2, 2)!Init
    \/ part = "owned, replaced" /\ Tunnel(Grants, 2, 1)!Init
    \/ part = "owned, in parallel" /\ Tunnel(Grants, 1, 2)!Init

RecoveryNext ==
    /\ UNCHANGED part
    /\ \/ part = "proxy" /\ Next
       \/ part = "redialed" /\ Tunnel({}, 2, 2)!Next
       \/ part = "owned, replaced" /\ Tunnel(Grants, 2, 1)!Next
       \/ part = "owned, in parallel" /\ Tunnel(Grants, 1, 2)!Next

RecoverySpec == RecoveryInit /\ [][RecoveryNext]_<<part, vars>>
=============================================================================
