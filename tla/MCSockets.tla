------------------------------ MODULE MCSockets ------------------------------
(* TLC instance of Sockets: two families, up to two addresses on either side,
   the remote host and a stranger, no timeout or one of three ticks, and the
   options and names of one socket. *)
EXTENDS Sockets
=============================================================================
