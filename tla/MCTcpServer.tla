----------------------------- MODULE MCTcpServer -----------------------------
(* A small instance of TcpServer for TLC.                                   *)
EXTENDS TcpServer

MCConns == {"k1", "k2", "k3"}
=============================================================================
