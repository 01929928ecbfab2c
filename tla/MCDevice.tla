------------------------------ MODULE MCDevice ------------------------------
(* TLC instance of Device: the driver is chosen in Init. *)
EXTENDS Device
=============================================================================
