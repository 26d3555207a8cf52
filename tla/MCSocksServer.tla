---------------------------- MODULE MCSocksServer ----------------------------
(* SocksServer for TLC.                                                    *)
EXTENDS SocksServer
=============================================================================
