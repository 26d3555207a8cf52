---------------------------- MODULE SessionLease ----------------------------
(***************************************************************************)
(* What the pool (proxySessionPool) and the controller (proxyController)   *)
(* both promise about an upstream session that many tunnels share:         *)
(*                                                                         *)
(*   - it is leased only while it is serving;                              *)
(*   - a retired session takes no new lease, but stays open until its last *)
(*     lease is returned, and is closed in that very step;                 *)
(*   - only a shutdown cuts the leases of an open session.                 *)
(*                                                                         *)
(* A session is "none" when no connection is open.  The identity of a      *)
(* session may be used again once it is "none" and nobody holds it.        *)
(***************************************************************************)
EXTENDS Naturals

CONSTANT Session

VARIABLES
    status,     \* Session -> "none", "serving" or "draining"
    leases,     \* Session -> number of tunnels (and updates) that hold it
    down        \* the owner is shutting down

vars == <<status, leases, down>>

TypeOK ==
    /\ status \in [Session -> {"none", "serving", "draining"}]
    /\ leases \in [Session -> Nat]
    /\ down \in BOOLEAN

Init ==
    /\ status \in [Session -> {"none", "serving"}]
    /\ leases = [s \in Session |-> 0]
    /\ down = FALSE

Open(s) ==
    /\ status[s] = "none"
    /\ leases[s] = 0
    /\ status' = [status EXCEPT ![s] = "serving"]
    /\ UNCHANGED <<leases, down>>

Lease(s) ==
    /\ status[s] = "serving"
    /\ leases' = [leases EXCEPT ![s] = @ + 1]
    /\ UNCHANGED <<status, down>>

\* The last lease of a draining session closes it.
Return(s) ==
    /\ leases[s] > 0
    /\ leases' = [leases EXCEPT ![s] = @ - 1]
    /\ status' = [status EXCEPT ![s] =
                    IF @ = "draining" /\ leases[s] = 1 THEN "none" ELSE @]
    /\ UNCHANGED down

Retire(s) ==
    /\ status[s] = "serving"
    /\ status' = [status EXCEPT ![s] = IF leases[s] = 0 THEN "none" ELSE "draining"]
    /\ UNCHANGED <<leases, down>>

Shutdown ==
    /\ ~ down
    /\ down' = TRUE
    /\ UNCHANGED <<status, leases>>

\* Only a shutdown closes a session under its holders.
Kill(s) ==
    /\ down
    /\ status' = [status EXCEPT ![s] = "none"]
    /\ UNCHANGED <<leases, down>>

Next ==
    \/ Shutdown
    \/ \E s \in Session :
         Open(s) \/ Lease(s) \/ Return(s) \/ Retire(s) \/ Kill(s)

Spec == Init /\ [][Next]_vars

=============================================================================
