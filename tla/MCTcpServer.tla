----------------------------- MODULE MCTcpServer -----------------------------
(* TLC instances of TcpServer: clients that stay, leave and are interrupted,
   and a server that is closed and listens again. *)
EXTENDS TcpServer
=============================================================================
