----------------------------- MODULE MCTcpStream -----------------------------
(* TLC instances of TcpStream: the code's 400, 512, 1500 and 5 scaled down to
   5, 5, 12 and 2, so that a packet has up to four fragments. *)
EXTENDS TcpStream
=============================================================================
