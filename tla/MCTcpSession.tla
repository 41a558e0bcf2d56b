----------------------------- MODULE MCTcpSession -----------------------------
(* A small instance of TcpSession for TLC.                                  *)
EXTENDS TcpSession

MCCalls == {"c1", "c2", "c3"}
=============================================================================
