------------------------------ MODULE ProxyPass ------------------------------
(***************************************************************************)
(* The claim times of a proxy pass (guardian.go).  Guardian may stamp the  *)
(* wall clock of some time zone as if it were UTC; the client looks for    *)
(* the offset that makes the pass valid now.  Times are minutes, and the   *)
(* time of the fetch is 0.                                                 *)
(***************************************************************************)
EXTENDS Integers

proxyPassClaimTimeTolerance == 1
proxyPassClaimTimeMaxFuture == 120

\* The claims of a pass that was issued age minutes ago for life minutes, on a clock
\* that is stamp minutes ahead.  hasStart: there is a claim nbf or iat.
Claims(age, life, stamp, hasStart) ==
    [start |-> stamp - age, exp |-> stamp - age + life, hasStart |-> hasStart]

\* proxyPassExpirationLooksFresh
LooksFresh(exp) ==
    -proxyPassClaimTimeTolerance <= exp /\ exp <= proxyPassClaimTimeMaxFuture

\* withinTimeWindow, with the tolerance on both sides.
InWindow(start, exp) ==
    start - proxyPassClaimTimeTolerance <= 0 /\ 0 <= exp + proxyPassClaimTimeTolerance

Fits(c, offset) ==
    IF c.hasStart THEN InWindow(c.start + offset, c.exp + offset)
                  ELSE LooksFresh(c.exp + offset)

\* proxyPassClaimTimeOffsetCandidates, after the zone of the machine.  Mutation:
\* whole hours only.
HourGrid == {60 * k : k \in -12 .. 14}
OffsetGrid == {15 * k : k \in -48 .. 56}

\* The first candidate in ascending order.
FirstFit(c) ==
    LET fitting == {o \in OffsetGrid : Fits(c, o)}
    IN  IF fitting = {} THEN 0
        ELSE CHOOSE o \in fitting : \A p \in fitting : o <= p

\* detectProxyPassClaimTimeOffset, on a machine whose zone is zone minutes ahead.
ClaimTimeOffset(c, zone) ==
    IF (c.hasStart /\ c.start >= c.exp) \/ Fits(c, 0) THEN 0
    ELSE IF Fits(c, zone) THEN zone
    ELSE FirstFit(c)

\* ExpiresAt, as the minutes the client believes are left.
BelievedLeft(c, zone) == c.exp + ClaimTimeOffset(c, zone)
=============================================================================
