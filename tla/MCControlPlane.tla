--------------------------- MODULE MCControlPlane ---------------------------
(* ControlPlane for TLC: Guardian stamps the clock of Kathmandu, or one    *)
(* that is eight hours behind.                                             *)
EXTENDS ControlPlane

SomeStamps == {345, -480}
SomeZones == {0, 480}
EightHoursBehind == {-480}
=============================================================================
