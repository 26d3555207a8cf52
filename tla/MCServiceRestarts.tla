-------------------------- MODULE MCServiceRestarts --------------------------
(* ServiceRestarts for TLC: two proxies of one country, of which one may   *)
(* be missing in the server list, and one of another country.              *)
EXTENDS ServiceRestarts, TLC

CONSTANTS p1, p2, p3, se, us

Countries == p1 :> se @@ p2 :> se @@ p3 :> us
SomeLists == {<<p1, p2, p3>>, <<p2, p3>>}
=============================================================================
