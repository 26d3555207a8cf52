-------------------------- MODULE MCUpstreamSession --------------------------
(* UpstreamSession for TLC.                                                *)
EXTENDS UpstreamSession
=============================================================================
