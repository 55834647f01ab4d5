------------------------------- MODULE LeaseLock -------------------------------
(***************************************************************************)
(* What core/state/lock-store.ts promises its callers, with no files and   *)
(* no clock: at any moment at most one caller has a lease, a lease is only *)
(* granted while nobody has one, and it ends by being dropped (released,   *)
(* expired or lost with the process) - it is never handed over directly.   *)
(***************************************************************************)
CONSTANT Clients      \* the calls of acquireTinyYeahLock
CONSTANT NoOwner      \* "nobody": not a client

VARIABLE holder       \* the client with the lease, or NoOwner

LeaseInit == holder = NoOwner

Grant(p) == holder = NoOwner /\ holder' = p

Drop == holder # NoOwner /\ holder' = NoOwner

LeaseNext == Drop \/ \E p \in Clients : Grant(p)

LeaseSpec == LeaseInit /\ [][LeaseNext]_holder
================================================================================
