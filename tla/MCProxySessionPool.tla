------------------------- MODULE MCProxySessionPool -------------------------
(* ProxySessionPool for TLC: which tunnel is opened for which client.      *)
EXTENDS ProxySessionPool, TLC

CONSTANTS t1, c1

\* Tunnels of one client.
OneClient == [t \in Tunnel |-> c1]

\* A tunnel of a client and the exit probe, which has no client key.
ClientAndProbe == [t \in Tunnel |-> IF t = t1 THEN c1 ELSE NoKey]

\* Renewals are explored with the tunnel of the client, both tunnels with the first token.
FewActors ==
    \/ next = 0 /\ \A t \in Tunnel \ {t1} : tun[t] = IdleTunnel
    \/ currentToken = 0 /\ upd.pc = "idle"

Sessions == Permutations(Session)
=============================================================================
