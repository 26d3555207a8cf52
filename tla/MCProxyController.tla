------------------------- MODULE MCProxyController --------------------------
(* ProxyController for TLC.                                                *)
EXTENDS ProxyController, TLC

ManagedSets == Permutations(Managed)
ManagedAndTunnels == Permutations(Managed) \union Permutations(Tunnel)

\* Bound: Close stops before it writes its status, which no safety property looks at.
CloseWithoutStatus == closer.pc \notin {"write", "end"}

\* Bound: for the liveness properties Close comes while no openTunnel is under way,
\* and no tunnel is opened after it.
CloseBetweenCalls ==
    doneClosed' => \A t \in Tunnel : {call[t].pc, call'[t].pc} \subseteq {"idle", "held", "shut"}
=============================================================================
